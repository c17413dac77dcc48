------------------------------- MODULE Credits -------------------------------
(***************************************************************************)
(* Prepaid credits of one user of the dashboard: the checkout sessions a   *)
(* top-up creates, the Stripe webhook that credits a completed session and *)
(* the success page that asks for the same session to be verified.  The    *)
(* row of the user has a balance and a last_payment_session_id; balances   *)
(* are modelled by how often each session was credited, and by whom.       *)
(*                                                                         *)
(* A delivery of the webhook is a slot that goes through the awaited       *)
(* statements of its handler.  Stripe delivers an event until it is        *)
(* answered with 2xx, and sometimes again after that.                      *)
(***************************************************************************)
EXTENDS Naturals, FiniteSets, FiniteSetsExt

CONSTANTS
  Sessions,      \* Stripe checkout sessions, each with one completed event
  Deliveries,    \* slots: deliveries of one event that may overlap
  NoSession,     \* last_payment_session_id IS NULL
  MaxCredits,    \* bound: a session credited this often is no longer asked for
  MaxRepeats,    \* bound: deliveries of an event besides the retries of an unanswered one
  MaxFailures    \* bound: crashes of the dashboard and failed credit UPDATEs

ASSUME CreditsAssumption ==
  /\ IsFiniteSet(Sessions) /\ NoSession \notin Sessions
  /\ MaxCredits \in Nat \ {0} /\ MaxRepeats \in Nat /\ MaxFailures \in Nat

VARIABLES
  checkout,       \* Stripe: "none", "open" or "paid" per session
  recorded,       \* rows of stripe_webhook_events
  delivery,       \* stage of every delivery slot of every session's event
  answered,       \* sessions whose event was answered with 2xx
  lastSession,    \* "user".last_payment_session_id
  hookCredits,    \* how often the webhook credited a session
  verifyCredits,  \* how often the success page credited a session
  repeats,        \* deliveries that were no retry so far
  failures,       \* crashes and failed credit UPDATEs so far
  lostCredit      \* history: recorded, then the delivery failed before the UPDATE

creditsVars == <<checkout, recorded, delivery, answered, lastSession,
                 hookCredits, verifyCredits, repeats, failures, lostCredit>>

Stages == {"idle", "select", "insert", "credit"}

CreditsTypeOK ==
  /\ checkout \in [Sessions -> {"none", "open", "paid"}]
  /\ recorded \subseteq Sessions
  /\ delivery \in [Sessions -> [Deliveries -> Stages]]
  /\ answered \subseteq Sessions
  /\ lastSession \in Sessions \cup {NoSession}
  /\ hookCredits \in [Sessions -> Nat]
  /\ verifyCredits \in [Sessions -> Nat]
  /\ repeats \in 0..MaxRepeats /\ failures \in 0..MaxFailures
  /\ lostCredit \subseteq Sessions

CreditsInit ==
  /\ checkout = [s \in Sessions |-> "none"]
  /\ recorded = {} /\ answered = {} /\ lostCredit = {}
  /\ delivery = [s \in Sessions |-> [d \in Deliveries |-> "idle"]]
  /\ lastSession = NoSession
  /\ hookCredits = [s \in Sessions |-> 0]
  /\ verifyCredits = [s \in Sessions |-> 0]
  /\ repeats = 0 /\ failures = 0

Credited(s) == hookCredits[s] + verifyCredits[s]

MoveTo(s, d, stage) == delivery' = [delivery EXCEPT ![s][d] = stage]

-----------------------------------------------------------------------------
\* The top-up route creates a checkout session for the user.
Topup(s) ==
  /\ checkout[s] = "none"
  /\ checkout' = [checkout EXCEPT ![s] = "open"]
  /\ UNCHANGED <<repeats, recorded, delivery, answered, lastSession, hookCredits,
                 verifyCredits, failures, lostCredit>>

\* The user pays at Stripe.
PayCheckout(s) ==
  /\ checkout[s] = "open"
  /\ checkout' = [checkout EXCEPT ![s] = "paid"]
  /\ UNCHANGED <<repeats, recorded, delivery, answered, lastSession, hookCredits,
                 verifyCredits, failures, lostCredit>>

\* Stripe posts checkout.session.completed: it retries an event that was not
\* answered, and may repeat any event.
Retry(s) == s \notin answered /\ \A d \in Deliveries : delivery[s][d] = "idle"

Post(s, d) ==
  /\ checkout[s] = "paid" /\ delivery[s][d] = "idle"
  /\ Credited(s) < MaxCredits
  /\ MoveTo(s, d, "select")
  /\ \/ Retry(s) /\ UNCHANGED repeats
     \/ ~Retry(s) /\ repeats < MaxRepeats /\ repeats' = repeats + 1

\* The event recorded when it arrives, before the SELECT.
DeliverRecording(s, d) ==
  /\ Post(s, d)
  /\ recorded' = recorded \cup {s}
  /\ UNCHANGED <<checkout, answered, lastSession, hookCredits, verifyCredits,
                 failures, lostCredit>>

Deliver(s, d) ==
  /\ Post(s, d)
  /\ UNCHANGED <<checkout, recorded, answered, lastSession, hookCredits,
                 verifyCredits, failures, lostCredit>>

\* The event was processed before: answered 200 without a credit.
SkipDuplicate(s, d) ==
  /\ delivery[s][d] = "select" /\ s \in recorded
  /\ MoveTo(s, d, "idle")
  /\ answered' = answered \cup {s}
  /\ UNCHANGED <<repeats, checkout, recorded, lastSession, hookCredits, verifyCredits,
                 failures, lostCredit>>

\* The SELECT finds nothing, or fails and counts as having found nothing.
TakeAsNew(s, d) ==
  /\ delivery[s][d] = "select"
  /\ MoveTo(s, d, "insert")
  /\ UNCHANGED <<repeats, checkout, recorded, answered, lastSession, hookCredits,
                 verifyCredits, failures, lostCredit>>

\* The INSERT is best effort: its failure is ignored.
RecordEvent(s, d) ==
  /\ delivery[s][d] = "insert"
  /\ recorded' \in {recorded, recorded \cup {s}}
  /\ MoveTo(s, d, "credit")
  /\ UNCHANGED <<repeats, checkout, answered, lastSession, hookCredits, verifyCredits,
                 failures, lostCredit>>

\* The webhook's UPDATE has no condition, and leaves last_payment_session_id.
HookCredit(s, d) ==
  /\ delivery[s][d] = "credit"
  /\ hookCredits' = [hookCredits EXCEPT ![s] = @ + 1]
  /\ answered' = answered \cup {s}
  /\ MoveTo(s, d, "idle")
  /\ UNCHANGED <<repeats, checkout, recorded, lastSession, verifyCredits, failures,
                 lostCredit>>

\* The UPDATE fails: the handler answers 500, and the record of the event stays.
HookCreditFails(s, d) ==
  /\ delivery[s][d] = "credit" /\ failures < MaxFailures
  /\ failures' = failures + 1
  /\ lostCredit' = IF s \in recorded THEN lostCredit \cup {s} ELSE lostCredit
  /\ MoveTo(s, d, "idle")
  /\ UNCHANGED <<repeats, checkout, recorded, answered, lastSession, hookCredits,
                 verifyCredits>>

\* The dashboard crashes: no delivery in progress is answered.
CreditsCrash ==
  /\ failures < MaxFailures
  /\ \E s \in Sessions, d \in Deliveries : delivery[s][d] # "idle"
  /\ failures' = failures + 1
  /\ lostCredit' = lostCredit \cup
       {s \in recorded : \E d \in Deliveries : delivery[s][d] = "credit"}
  /\ delivery' = [s \in Sessions |-> [d \in Deliveries |-> "idle"]]
  /\ UNCHANGED <<repeats, checkout, recorded, answered, lastSession, hookCredits,
                 verifyCredits>>

\* The UPDATE without its condition.
VerifyUnchecked(s) == TRUE

\* The success page asks for a paid session: a single conditional UPDATE.  What
\* it reads at Stripe before is settled once the session is paid.
VerifyAllowed(s) == lastSession # s

VerifySession(s) ==
  /\ checkout[s] = "paid" /\ Credited(s) < MaxCredits
  /\ VerifyAllowed(s)
  /\ verifyCredits' = [verifyCredits EXCEPT ![s] = @ + 1]
  /\ lastSession' = s
  /\ UNCHANGED <<repeats, checkout, recorded, delivery, answered, hookCredits, failures,
                 lostCredit>>

\* A step of a handler that runs.
Handle(s, d) ==
  \/ SkipDuplicate(s, d) \/ TakeAsNew(s, d) \/ RecordEvent(s, d)
  \/ HookCredit(s, d) \/ HookCreditFails(s, d)

CreditsNext ==
  \/ CreditsCrash
  \/ \E s \in Sessions :
       \/ Topup(s) \/ PayCheckout(s) \/ VerifySession(s)
       \/ \E d \in Deliveries : Deliver(s, d) \/ Handle(s, d)

\* Stripe retries an event until it is answered, and a handler that runs ends.
CreditsFairness ==
  \A s \in Sessions :
    /\ WF_creditsVars(Retry(s) /\ \E d \in Deliveries : Deliver(s, d))
    /\ \A d \in Deliveries : WF_creditsVars(Handle(s, d))

CreditsSpec == CreditsInit /\ [][CreditsNext]_creditsVars /\ CreditsFairness

-----------------------------------------------------------------------------
\* last_payment_session_id keeps the success page from crediting a session
\* twice in a row, and no more: the page credits a session again only after it
\* has credited another one (verify-session/route.ts, the conditional UPDATE).
VerifyCreditsAlternate ==
  \A s \in Sessions :
    verifyCredits[s] <= 1 + MapThenSumSet(LAMBDA r : verifyCredits[r], Sessions \ {s})

\* What the user is promised: a paid session is credited at most once.  The
\* comment of verify-session/route.ts:83 calls its UPDATE idempotent.
SessionCreditedOnce == \A s \in Sessions : Credited(s) <= 1

\* A paid session is credited, whatever SELECT and INSERT of the event do,
\* unless a delivery failed after the event was recorded: Stripe's retry is
\* then skipped as a duplicate (webhooks/stripe/route.ts, lines 57-74).
PaidIsCredited ==
  \A s \in Sessions :
    checkout[s] = "paid" ~> (Credited(s) > 0 \/ s \in lostCredit)
=============================================================================
