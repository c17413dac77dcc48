------------------------------ MODULE HttpRelay ------------------------------
(***************************************************************************)
(* Public HTTP requests relayed through tunnels: forwardToTunnel of        *)
(* http-handler.ts, the pending requests of connection-manager.ts, and the *)
(* CLI at the other end of the socket (handleHttpRequest of                *)
(* packages/cli/src/tunnel-client.ts).                                     *)
(*                                                                         *)
(* A request is modelled from the moment it is addressed to a tunnel; its  *)
(* handler awaits twice, for the body and for the answer:                  *)
(*                                                                         *)
(*   idle      not made yet                                                *)
(*   body      await c.req.arrayBuffer(), holding the connection it found  *)
(*   waiting   await registerPendingRequest                                *)
(*   ok, 502, 504, refused   the reply sent (refused: 401 or 413)          *)
(*   reset     the server died                                             *)
(*                                                                         *)
(* Request ids are fresh (nanoid), so a request stands for its id.  All    *)
(* tunnels belong to one CLI process, which opens a new one whenever it    *)
(* reconnects, and sends an answer on the socket it has by then; the       *)
(* server may still take the old one for open.  A response carries one     *)
(* unit of traffic.  The request counter, which heartbeats overwrite and   *)
(* only displays read, is left out.  A name is taken as not drawn again    *)
(* while the close handler of its previous tunnel still holds it; what a   *)
(* recurrence does is in TunnelServer.                                     *)
(***************************************************************************)
EXTENDS TunnelLife, FiniteSetsExt

CONSTANT Req   \* requests

VARIABLES
  req,          \* req[r]: where r's handler stands, or the reply it sent
  conn,         \* conn[r]: the connection object the handler holds
  pending,      \* pendingRequests: ids with a promise and a timer
  asked,        \* asked[c]: http_request messages sent on c, not yet read
  working,      \* requests the CLI has read and not answered
  timedOut,     \* timedOut[c]: c's record has state "timeout"
  bytesTransferred  \* bytesTransferred[c]: the same field of c's record

reqVars == <<req, conn, pending>>
cliVars == <<asked, working>>
recordVars == <<timedOut, bytesTransferred>>
relayVars == <<lifeVars, reqVars, cliVars, recordVars>>

Replies == {"ok", "502", "504", "refused", "reset"}

RelayTypeOK ==
  /\ LifeTypeOK
  /\ req \in [Req -> {"idle", "body", "waiting"} \cup Replies]
  /\ conn \in [Req -> Conn \cup {None}]
  /\ pending \subseteq Req
  /\ asked \in [Conn -> SUBSET Req]
  /\ working \subseteq Req
  /\ timedOut \in [Conn -> BOOLEAN]
  /\ bytesTransferred \in [Conn -> Nat]

RelayInit ==
  /\ LifeInit
  /\ req = [r \in Req |-> "idle"]
  /\ conn = [r \in Req |-> None]
  /\ pending = {}
  /\ asked = [c \in Conn |-> {}]
  /\ working = {}
  /\ timedOut = [c \in Conn |-> FALSE]
  /\ bytesTransferred = [c \in Conn |-> 0]

(* The subdomain a request was addressed to, while a tunnel holds it: the  *)
(* prefix of its id.                                                       *)
Host(r) == tunnelsById[conn[r]]

Reply(r, code) ==
  /\ req' = [req EXCEPT ![r] = code]
  /\ conn' = [conn EXCEPT ![r] = None]

-----------------------------------------------------------------------------
(* forwardToTunnel                                                         *)

(* Find the tunnel at s, check its state and the access token, then read   *)
(* the body.  (A request without a body goes through without a pause.)     *)
Arrive(r, s) ==
  LET c == findBySubdomain(s) IN
  /\ req[r] = "idle"
  /\ \/ /\ c # None => timedOut[c]
        /\ Reply(r, "502")
     \/ /\ c # None /\ ~ timedOut[c]
        /\ \/ Reply(r, "refused")
           \/ /\ req' = [req EXCEPT ![r] = "body"]
              /\ conn' = [conn EXCEPT ![r] = c]
  /\ UNCHANGED <<lifeVars, pending, cliVars, recordVars>>

BodyTooLarge(r) ==
  /\ req[r] = "body"
  /\ Reply(r, "refused")
  /\ UNCHANGED <<lifeVars, pending, cliVars, recordVars>>

(* The readiness of the socket taken for granted after the wait.           *)
SendWithoutCheck(r) ==
  /\ req[r] = "body"
  /\ req' = [req EXCEPT ![r] = "waiting"]
  /\ pending' = pending \cup {r}
  /\ asked' = [asked EXCEPT ![conn[r]] = @ \cup {r}]
  /\ UNCHANGED <<lifeVars, conn, working, recordVars>>

(* The body is there.  The connection found before the wait is used after  *)
(* it: only its socket is looked at again.                                 *)
Send(r) ==
  LET c == conn[r] IN
  /\ req[r] = "body"
  /\ \/ /\ sock[c] # "OPEN"
        /\ Reply(r, "502")
        /\ UNCHANGED <<pending, asked>>
     \/ /\ sock[c] = "OPEN"
        /\ req' = [req EXCEPT ![r] = "waiting"]
        /\ pending' = pending \cup {r}
        /\ asked' = [asked EXCEPT ![c] = @ \cup {r}]
        /\ UNCHANGED conn
  /\ UNCHANGED <<lifeVars, working, recordVars>>

(* The timer answers and leaves the entry behind.                          *)
TimeoutKeepingEntry(r) ==
  /\ r \in pending /\ req[r] = "waiting"
  /\ Reply(r, "504")
  /\ UNCHANGED <<pending, lifeVars, cliVars, recordVars>>

(* The timer of registerPendingRequest.                                    *)
Timeout(r) ==
  /\ r \in pending
  /\ pending' = pending \ {r}
  /\ Reply(r, "504")
  /\ UNCHANGED <<lifeVars, cliVars, recordVars>>

(* The traffic counted whether or not somebody waits.                      *)
AnswerCountingLate(c, r) ==
  /\ life[c] = "open" /\ sock[c] \in {"OPEN", "CLOSING"}
  /\ r \in working
  /\ working' = working \ {r}
  /\ pending' = pending \ {r}
  /\ bytesTransferred' = [bytesTransferred EXCEPT ![c] = @ + 1]
  /\ \/ r \in pending /\ Reply(r, "ok")
     \/ r \notin pending /\ UNCHANGED <<req, conn>>
  /\ UNCHANGED <<lifeVars, asked, timedOut>>

(* An http_response read from c: resolvePendingRequest looks the id up,    *)
(* then (before anything else can run) the handler counts the traffic and  *)
(* replies.  An answer nobody waits for any more is dropped.  Messages are *)
(* still read while the closing handshake runs.                            *)
Answer(c, r) ==
  /\ life[c] = "open" /\ sock[c] \in {"OPEN", "CLOSING"}
  /\ r \in working
  /\ working' = working \ {r}
  /\ pending' = pending \ {r}
  /\ \/ /\ r \in pending
        /\ Reply(r, "ok")
        /\ bytesTransferred' = IF Host(r) = None THEN bytesTransferred
                               ELSE [bytesTransferred EXCEPT ![conn[r]] = @ + 1]
     \/ /\ r \notin pending
        /\ UNCHANGED <<req, conn, bytesTransferred>>
  /\ UNCHANGED <<lifeVars, asked, timedOut>>

-----------------------------------------------------------------------------
(* The CLI                                                                 *)

(* handleHttpRequest: count the request and pass it to the local server.   *)
Receive(c, r) ==
  /\ sock[c] \in {"OPEN", "CLOSING"}
  /\ r \in asked[c]
  /\ asked' = [asked EXCEPT ![c] = @ \ {r}]
  /\ working' = working \cup {r}
  /\ UNCHANGED <<lifeVars, reqVars, recordVars>>

-----------------------------------------------------------------------------
(* The tunnel                                                              *)

(* The entries deleted without rejecting their promises.                   *)
DropPending(C) ==
  /\ pending' = {r \in pending : conn[r] \notin C}
  /\ UNCHANGED <<req, conn>>

(* The last loop of unregister, for tunnels that leave the maps.           *)
RejectPending(C) ==
  LET lost == {r \in pending : conn[r] \in C} IN
  /\ pending' = pending \ lost
  /\ req' = [r \in Req |-> IF r \in lost THEN "502" ELSE req[r]]
  /\ conn' = [r \in Req |-> IF r \in lost THEN None ELSE conn[r]]

(* The messages a closed socket loses.                                     *)
LoseMessages(C) ==
  /\ asked' = [c \in Conn |-> IF c \in C THEN {} ELSE asked[c]]
  /\ UNCHANGED working

Register(c) ==
  /\ Open(c)
  /\ \A d \in Conn \ {c} : name'[c] # name[d]
  /\ UNCHANGED <<reqVars, cliVars, recordVars>>

(* checkHeartbeat gives the record state "timeout" before it closes the    *)
(* socket; a "disconnect" message closes it alone.                         *)
CloseTunnel(c) ==
  /\ CloseSocket(c)
  /\ timedOut' \in {timedOut, [timedOut EXCEPT ![c] = TRUE]}
  /\ UNCHANGED <<reqVars, cliVars, bytesTransferred>>

SocketCloses(c) ==
  /\ SocketGone(c)
  /\ LoseMessages({c})
  /\ UNCHANGED <<reqVars, recordVars>>

Finalized(c) ==
  /\ Unregister(c)
  /\ RejectPending({c})
  /\ UNCHANGED <<cliVars, recordVars>>

TunnelExpires(c) ==
  /\ Expire(c)
  /\ UNCHANGED <<reqVars, cliVars, recordVars>>

ExpirySweep ==
  /\ Sweep
  /\ RejectPending({c \in Overdue : sock[c] = "CLOSED"})
  /\ UNCHANGED <<cliVars, recordVars>>

Crash ==
  /\ ServerDies
  /\ req' = [r \in Req |-> IF req[r] \in {"body", "waiting"} THEN "reset" ELSE req[r]]
  /\ conn' = [r \in Req |-> None]
  /\ pending' = {}
  /\ LoseMessages(Conn)
  /\ UNCHANGED recordVars

RequestStep(r) ==
  \/ \E s \in Subdomain : Arrive(r, s)
  \/ BodyTooLarge(r) \/ Send(r) \/ Timeout(r)
  \/ \E c \in Conn : Receive(c, r) \/ Answer(c, r)

TunnelStep(c) ==
  Register(c) \/ CloseTunnel(c) \/ TunnelExpires(c)

(* The steps that write no metering row: see Metering for the others.      *)
UnmeteredStep ==
  \/ \E r \in Req : RequestStep(r)
  \/ \E c \in Conn : TunnelStep(c)
  \/ ExpirySweep

RelayNext ==
  \/ UnmeteredStep
  \/ \E c \in Conn : SocketCloses(c) \/ Finalized(c)
  \/ Crash

(* The timers of pending requests fire.                                    *)
RelayFairness == \A r \in Req : WF_relayVars(Timeout(r))

RelaySpec == RelayInit /\ [][RelayNext]_relayVars /\ RelayFairness

-----------------------------------------------------------------------------
(* Properties                                                              *)

(* The map of pending requests holds exactly the requests whose handler    *)
(* waits for an answer: none is left behind by a timeout, a late answer or *)
(* an unregister, and no handler waits for an entry that is gone.          *)
PendingIsWaiting == pending = {r \in Req : req[r] = "waiting"}

(* A request waits only for a tunnel that is registered: unregister        *)
(* rejects them all, and none slips in between the close of the socket and *)
(* the end of finalizeTunnelMetrics, although a handler may hold the       *)
(* connection object all that time.                                        *)
WaitingHasTunnel == \A r \in pending : Host(r) # None

(* Traffic is counted once, for every request answered and for no other:   *)
(* not for an answer that came after the timeout.                          *)
TrafficCountedOnce ==
  MapThenSumSet(LAMBDA c : bytesTransferred[c], Conn)
    = Cardinality({r \in Req : req[r] = "ok"})

(* Every request that was sent to a tunnel gets a reply.                   *)
EveryRequestSettles == \A r \in Req : req[r] = "waiting" ~> req[r] \in Replies
=============================================================================
