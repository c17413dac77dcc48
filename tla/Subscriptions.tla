---------------------------- MODULE Subscriptions ----------------------------
(***************************************************************************)
(* The subscription of one user: lib/billing.ts keeps the Stripe customer, *)
(* subscription and status in the user's row, which requests of the user   *)
(* and webhook events write independently.                                 *)
(*                                                                         *)
(* A request is the stage of its handler between two awaited calls.  Every *)
(* change of a subscription at Stripe is numbered (stamp); events and      *)
(* answers carry the number of the change they tell of, which the code     *)
(* does not look at: it is there to say what was written out of order.     *)
(***************************************************************************)
EXTENDS Naturals, FiniteSets

CONSTANTS
  Requests,      \* requests of the user to subscribe, cancel or resume
  MaxRequests,   \* bound: requests made in all
  MaxCustomers,  \* bound: customers created at Stripe
  MaxSubs,       \* bound: subscriptions created at Stripe
  MaxChanges     \* bound: changes of subscriptions at Stripe

ASSUME SubscriptionsAssumption ==
  /\ MaxRequests \in Nat /\ MaxCustomers \in Nat /\ MaxSubs \in Nat /\ MaxChanges \in Nat

NoneId == 0
Customers == 1..MaxCustomers
Subs == 1..MaxSubs
SubStatuses == {"incomplete", "active", "expired", "canceled"}

VARIABLES
  rowCustomer, rowSub, rowStatus, \* columns of the user's row
  customers,      \* Stripe: number of customers created
  subs,           \* Stripe: function of the subscriptions created so far
  events,         \* Stripe: events not yet handled
  change,         \* Stripe: number of the latest change
  requests,       \* number of requests made so far
  request,        \* per request: stage and locals of its handler
  rowChange,      \* history: newest change the row was written from
  overtaken,      \* history: an older change was written after a newer one
  eventLost,      \* history: an event was recorded but its UPDATE failed
  customerRaced,  \* history: two requests created a customer at once
  retrieveFailed  \* history: customers.retrieve failed and the row was cleared

rowVars == <<rowCustomer, rowSub, rowStatus>>
stripeVars == <<customers, subs, events, change>>
tellVars == <<rowChange, overtaken>>
causeVars == <<eventLost, customerRaced, retrieveFailed>>
subVars == <<rowVars, stripeVars, requests, request, tellVars, causeVars>>

Idle == [at |-> "idle", customer |-> NoneId, sub |-> NoneId,
         status |-> "none", change |-> 0]

SubscriptionsTypeOK ==
  /\ rowCustomer \in Customers \cup {NoneId} /\ rowSub \in Subs \cup {NoneId}
  /\ rowStatus \in SubStatuses \cup {"none"}
  /\ customers \in 0..MaxCustomers
  /\ DOMAIN subs \in {1..n : n \in 0..MaxSubs}
  /\ \A b \in DOMAIN subs :
       subs[b] \in [customer : Customers, status : SubStatuses, ending : BOOLEAN]
  /\ events \subseteq [sub : Subs, status : SubStatuses, change : 1..MaxChanges]
  /\ requests \in 0..MaxRequests
  /\ change \in 0..MaxChanges /\ rowChange \in 0..change
  /\ \A r \in Requests : DOMAIN request[r] = DOMAIN Idle

SubscriptionsInit ==
  /\ rowCustomer = NoneId /\ rowSub = NoneId /\ rowStatus = "none"
  /\ customers = 0 /\ subs = <<>> /\ events = {} /\ change = 0
  /\ requests = 0 /\ request = [r \in Requests |-> Idle]
  /\ rowChange = 0 /\ overtaken = FALSE
  /\ eventLost = FALSE /\ customerRaced = FALSE /\ retrieveFailed = FALSE

Live(b) == subs[b].status \in {"incomplete", "active"}

Begin(r, stage) ==
  /\ request[r] = Idle /\ requests < MaxRequests
  /\ requests' = requests + 1
  /\ request' = [request EXCEPT ![r] = stage]
Continue(r, stage) == UNCHANGED requests /\ request' = [request EXCEPT ![r] = stage]
GoTo(r, at) == Continue(r, [request[r] EXCEPT !.at = at])
Finish(r) == Continue(r, Idle)

\* The row is written from change c, which may be older than what it shows.
Tell(c) ==
  /\ rowChange' = IF c > rowChange THEN c ELSE rowChange
  /\ overtaken' = (overtaken \/ c < rowChange)

\* Stripe changes subscription b and sends an event of its new status.
Change(b, new) ==
  /\ change < MaxChanges
  /\ change' = change + 1
  /\ subs' = [x \in DOMAIN subs \cup {b} |-> IF x = b THEN new ELSE subs[x]]
  /\ events' = events \cup {[sub |-> b, status |-> new.status, change |-> change']}

-----------------------------------------------------------------------------
\* createSubscription starts with getOrCreateStripeCustomer, which reads the row.
ReadCustomer(r) ==
  /\ IF rowCustomer = NoneId
       THEN /\ Begin(r, [Idle EXCEPT !.at = "create"])
            /\ customerRaced' = (customerRaced \/
                 \E q \in Requests : request[q].at \in {"create", "store"})
       ELSE /\ Begin(r, [Idle EXCEPT !.at = "retrieve", !.customer = rowCustomer])
            /\ UNCHANGED customerRaced
  /\ UNCHANGED <<rowVars, stripeVars, tellVars, eventLost, retrieveFailed>>

\* Any error of customers.retrieve, a missing customer or a lost connection,
\* clears the customer of the row.
RetrieveCustomer(r) ==
  /\ request[r].at = "retrieve"
  /\ \/ GoTo(r, "check") /\ UNCHANGED <<rowCustomer, retrieveFailed>>
     \/ GoTo(r, "create") /\ rowCustomer' = NoneId /\ retrieveFailed' = TRUE
  /\ UNCHANGED <<rowSub, rowStatus, stripeVars, tellVars, eventLost, customerRaced>>

CreateCustomer(r) ==
  /\ request[r].at = "create" /\ customers < MaxCustomers
  /\ customers' = customers + 1
  /\ Continue(r, [request[r] EXCEPT !.at = "store", !.customer = customers'])
  /\ UNCHANGED <<rowVars, subs, events, change, tellVars, causeVars>>

\* The new customer not stored.
StoreNothing(r) ==
  /\ request[r].at = "store"
  /\ GoTo(r, "check")
  /\ UNCHANGED <<rowVars, stripeVars, tellVars, causeVars>>

StoreCustomer(r) ==
  /\ request[r].at = "store"
  /\ rowCustomer' = request[r].customer
  /\ GoTo(r, "check")
  /\ UNCHANGED <<rowSub, rowStatus, stripeVars, tellVars, causeVars>>

\* The row is read again: a user with an active subscription is refused.
CheckActive(r) ==
  /\ request[r].at = "check"
  /\ IF rowSub # NoneId /\ rowStatus = "active" THEN Finish(r) ELSE GoTo(r, "make")
  /\ UNCHANGED <<rowVars, stripeVars, tellVars, causeVars>>

MakeSubscription(r) ==
  /\ request[r].at = "make" /\ Cardinality(DOMAIN subs) < MaxSubs
  /\ LET b == Cardinality(DOMAIN subs) + 1 IN
     /\ Change(b, [customer |-> request[r].customer, status |-> "incomplete",
                   ending |-> FALSE])
     /\ Continue(r, [at |-> "save", customer |-> NoneId, sub |-> b,
                     status |-> "incomplete", change |-> change'])
  /\ UNCHANGED <<rowVars, customers, tellVars, causeVars>>

SaveSubscription(r) ==
  /\ request[r].at = "save"
  /\ rowSub' = request[r].sub /\ rowStatus' = request[r].status
  /\ Tell(request[r].change) /\ Finish(r)
  /\ UNCHANGED <<rowCustomer, stripeVars, causeVars>>

\* cancelSubscription and resumeSubscription read the subscription of the row,
ReadSub(r) ==
  /\ rowSub # NoneId
  /\ \E kind \in {"cancel now", "cancel later", "resume"} :
       Begin(r, [Idle EXCEPT !.at = kind, !.sub = rowSub])
  /\ UNCHANGED <<rowVars, stripeVars, tellVars, causeVars>>

\* change it at Stripe, which refuses when it has ended,
ChangeSub(r) ==
  LET b == request[r].sub
      new == CASE request[r].at = "cancel now" -> [subs[b] EXCEPT !.status = "canceled"]
               [] request[r].at = "cancel later" -> [subs[b] EXCEPT !.ending = TRUE]
               [] OTHER -> [subs[b] EXCEPT !.ending = FALSE]
  IN /\ request[r].at \in {"cancel now", "cancel later", "resume"}
     /\ Live(b)
     /\ Change(b, new)
     /\ Continue(r, [at |-> "saveStatus", customer |-> NoneId, sub |-> b,
                     status |-> new.status, change |-> change'])
     /\ UNCHANGED <<rowVars, customers, tellVars, causeVars>>

\* and write the status, and only the status, that Stripe answered.
SaveStatus(r) ==
  /\ request[r].at = "saveStatus"
  /\ rowStatus' = request[r].status
  /\ Tell(request[r].change) /\ Finish(r)
  /\ UNCHANGED <<rowCustomer, rowSub, stripeVars, causeVars>>

\* Any awaited call may fail, or the dashboard may crash: the request ends here.
RequestFails(r) ==
  /\ request[r].at # "idle" /\ Finish(r)
  /\ UNCHANGED <<rowVars, stripeVars, tellVars, causeVars>>

-----------------------------------------------------------------------------
\* At Stripe: the user pays, a payment is never made, the last period ends.
StripeChanges(b) ==
  /\ \/ subs[b].status = "incomplete" /\
          \E status \in {"active", "expired"} : Change(b, [subs[b] EXCEPT !.status = status])
     \/ subs[b].status = "active" /\ subs[b].ending
          /\ Change(b, [subs[b] EXCEPT !.status = "canceled"])
  /\ UNCHANGED <<rowVars, customers, requests, request, tellVars, causeVars>>

Deletion(e) == e.status = "canceled"

\* The status alone.
EventRowStatusOnly(e) ==
  /\ rowStatus' = e.status /\ UNCHANGED rowSub

\* What a subscription event writes to the row of its customer.
EventRow(e) ==
  /\ rowStatus' = e.status
  /\ rowSub' = IF Deletion(e) THEN NoneId ELSE e.sub

\* The webhook: rows are found by the customer of the subscription.  Events come
\* in any order; one of them may be recorded as processed and then fail.
HandleEvent(e) ==
  /\ \/ /\ rowCustomer = subs[e.sub].customer
        /\ EventRow(e) /\ Tell(e.change) /\ UNCHANGED <<rowCustomer, eventLost>>
     \/ /\ rowCustomer # subs[e.sub].customer
        /\ UNCHANGED <<rowVars, tellVars, eventLost>>
     \/ eventLost' = TRUE /\ UNCHANGED <<rowVars, tellVars>>
  /\ events' = events \ {e}
  /\ UNCHANGED <<customers, subs, change, requests, request, customerRaced, retrieveFailed>>

SubscriptionsNext ==
  \/ \E r \in Requests :
       \/ ReadCustomer(r) \/ RetrieveCustomer(r) \/ CreateCustomer(r)
       \/ StoreCustomer(r) \/ CheckActive(r) \/ MakeSubscription(r)
       \/ SaveSubscription(r) \/ ReadSub(r) \/ ChangeSub(r) \/ SaveStatus(r)
       \/ RequestFails(r)
  \/ \E b \in DOMAIN subs : StripeChanges(b)
  \/ \E e \in events : HandleEvent(e)

SubscriptionsSpec == SubscriptionsInit /\ [][SubscriptionsNext]_subVars

-----------------------------------------------------------------------------
\* The customer of a subscription stays in the row, so that its events find the
\* row: getOrCreateStripeCustomer drops it only when customers.retrieve failed
\* or two requests read the row without a customer at the same time.
EventsFindRow ==
  ~customerRaced /\ ~retrieveFailed =>
    \A b \in DOMAIN subs : subs[b].customer = rowCustomer

\* With no request or event in progress the row shows what Stripe last said,
\* unless an event was lost or found no row, or an older answer was written
\* after a newer one: nothing in requests or webhook compares their age.
QuietRowIsCurrent ==
  (/\ events = {} /\ change > 0
   /\ \A r \in Requests : request[r] = Idle
   /\ ~customerRaced /\ ~retrieveFailed /\ ~eventLost /\ ~overtaken) =>
     /\ rowChange = change
     /\ IF rowSub = NoneId
          THEN rowStatus = "canceled" /\ \E b \in DOMAIN subs : subs[b].status = "canceled"
          ELSE rowStatus = subs[rowSub].status
=============================================================================
