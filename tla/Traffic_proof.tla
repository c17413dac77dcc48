---------------------------- MODULE Traffic_proof ----------------------------
(***************************************************************************)
(* Proofs about HttpRelay and about Metering, which extends it, for every  *)
(* finite set of tunnels, names and requests, every set of keys, and any   *)
(* number of syncs.                                                        *)
(*                                                                         *)
(* A request is safe because of its tunnel: the inductive invariant says   *)
(* what the handlers hold (HandlersHold), and that a tunnel with an open   *)
(* socket is still in the maps (OpenIsRegistered), which in turn rests on  *)
(* a name having one holder (NamesDistinct).                               *)
(*                                                                         *)
(* What the rows add to that is about the writes on their way: none        *)
(* carries more than the tunnel's traffic (WritesNeverOverbill), a tunnel  *)
(* gets one final write, while its row is still open (OneFinalWrite), and  *)
(* a close handler that still waits has one coming (FinalIsComing).        *)
(***************************************************************************)
EXTENDS Metering, TunnelLife_proof, Sums

-----------------------------------------------------------------------------
(* The tunnels of the relay are tunnels                                    *)

(* A step of the relay is a step of TunnelLife or leaves the tunnels alone.*)
LEMMA RelayLifeStep ==
  ASSUME [RelayNext]_relayVars
  PROVE  [LifeNext]_lifeVars
<1>1. CASE \E r \in Req : RequestStep(r)
  BY <1>1 DEF RequestStep, Arrive, BodyTooLarge, Send, Timeout, Receive, Answer
<1>2. CASE \E c \in Conn : TunnelStep(c)
  BY <1>2 DEF TunnelStep, Register, CloseTunnel, TunnelExpires, LifeNext
<1>3. CASE ExpirySweep
  BY <1>3 DEF ExpirySweep, LifeNext
<1>4. CASE \E c \in Conn : SocketCloses(c) \/ Finalized(c)
  BY <1>4 DEF SocketCloses, Finalized, LifeNext
<1>5. CASE Crash
  BY <1>5 DEF Crash, LifeNext
<1>6. CASE UNCHANGED relayVars
  BY <1>6 DEF relayVars
<1>7. QED
  BY <1>1, <1>2, <1>3, <1>4, <1>5, <1>6 DEF RelayNext, UnmeteredStep

(* The traffic that crosses a tunnel does not interfere with its life.     *)
THEOREM RelayImplementsLife == RelaySpec => LifeSpec
<1>1. RelayInit => LifeInit
  BY DEF RelayInit
<1>2. [RelayNext]_relayVars => [LifeNext]_lifeVars
  BY RelayLifeStep
<1>3. QED
  BY <1>1, <1>2, PTL DEF RelaySpec, LifeSpec

-----------------------------------------------------------------------------
(* Type correctness                                                        *)

(* Every step of the relay keeps every variable in its range.              *)
LEMMA RelayTypesStep ==
  ASSUME RelayTypeOK, [RelayNext]_relayVars
  PROVE  RelayTypeOK'
<1> USE DEF RelayTypeOK, Replies, Reply
<1>0. LifeTypeOK'
  BY RelayLifeStep, LifeTypesStep
<1>1. ASSUME NEW r \in Req, RequestStep(r)
      PROVE  RelayTypeOK'
  <2> USE <1>0, <1>1
  <2>1. CASE \E s \in Subdomain : Arrive(r, s)
    <3>1. \A s \in Subdomain : findBySubdomain(s) \in Conn \cup {None}
      BY DEF findBySubdomain, LifeTypeOK, MapTypeOK
    <3>2. QED
      BY <2>1, <3>1 DEF Arrive, cliVars, recordVars
  <2>2. CASE BodyTooLarge(r)
    BY <2>2 DEF BodyTooLarge, cliVars, recordVars
  <2>3. CASE Send(r)
    BY <2>3 DEF Send, recordVars
  <2>4. CASE Timeout(r)
    BY <2>4 DEF Timeout, cliVars, recordVars
  <2>5. CASE \E c \in Conn : Receive(c, r)
    BY <2>5 DEF Receive, reqVars, recordVars
  <2>6. ASSUME NEW c \in Conn, Answer(c, r)
        PROVE  RelayTypeOK'
    <3>1. bytesTransferred' \in [Conn -> Nat]
      BY <2>6 DEF Answer
    <3>2. QED
      BY <2>6, <3>1 DEF Answer
  <2>7. QED
    BY <2>1, <2>2, <2>3, <2>4, <2>5, <2>6 DEF RequestStep
<1>2. ASSUME NEW c \in Conn, TunnelStep(c)
      PROVE  RelayTypeOK'
  BY <1>0, <1>2 DEF TunnelStep, Register, CloseTunnel, TunnelExpires,
     reqVars, cliVars, recordVars
<1>3. CASE ExpirySweep
  BY <1>0, <1>3 DEF ExpirySweep, RejectPending, cliVars, recordVars
<1>4. ASSUME NEW c \in Conn, SocketCloses(c) \/ Finalized(c)
      PROVE  RelayTypeOK'
  BY <1>0, <1>4 DEF SocketCloses, Finalized, RejectPending, LoseMessages,
     reqVars, cliVars, recordVars
<1>5. CASE Crash
  BY <1>0, <1>5 DEF Crash, LoseMessages, recordVars
<1>6. CASE UNCHANGED relayVars
  BY <1>0, <1>6 DEF relayVars, reqVars, cliVars, recordVars
<1>7. QED
  BY <1>1, <1>2, <1>3, <1>4, <1>5, <1>6 DEF RelayNext, UnmeteredStep

(* Every variable of the relay keeps its declared range.                   *)
THEOREM RelayTypeCorrect == RelaySpec => []RelayTypeOK
<1>1. RelayInit => RelayTypeOK
  BY LifeTypesInit DEF RelayInit, RelayTypeOK
<1>2. RelayTypeOK /\ [RelayNext]_relayVars => RelayTypeOK'
  BY RelayTypesStep
<1>3. QED
  BY <1>1, <1>2, PTL DEF RelaySpec

-----------------------------------------------------------------------------
(* Open tunnels are registered                                             *)

(* A name is held by one handler at a time.                                *)
NamesDistinct == \A c, d \in Conn : name[c] = name[d] /\ name[c] # None => c = d

(* A tunnel whose socket is open is in the maps: only its own close        *)
(* handler and the sweep remove it, and both find the socket closed.       *)
OpenIsRegistered ==
  \A c \in Conn : sock[c] = "OPEN" => life[c] = "open" /\ tunnelsById[c] # None

(* The tunnels under the traffic.                                          *)
TunnelsInv == LifeInv /\ NamesDistinct /\ OpenIsRegistered

(* The tunnels under the traffic keep their invariant: a name is drawn     *)
(* only when no handler holds it, and only a closed socket loses its       *)
(* tunnel.                                                                 *)
LEMMA TunnelsInvStep ==
  ASSUME TunnelsInv, [RelayNext]_relayVars
  PROVE  TunnelsInv'
<1> USE MapAssumption DEF TunnelsInv, LifeInv, LifeTypeOK, MapTypeOK, mapVars
<1>0. LifeInv'
  BY RelayLifeStep, LifeInvStep
<1> DEFINE Goal == NamesDistinct' /\ OpenIsRegistered'
<1>1. ASSUME UNCHANGED lifeVars PROVE Goal
  BY <1>1 DEF lifeVars, NamesDistinct, OpenIsRegistered
<1>2. ASSUME \E r \in Req : RequestStep(r) PROVE Goal
  BY <1>1, <1>2 DEF RequestStep, Arrive, BodyTooLarge, Send, Timeout, Receive, Answer
<1>3. ASSUME NEW c \in Conn, Register(c)
      PROVE  Goal
  <2>1. PICK s \in Subdomain :
          /\ tunnelsBySubdomain[s] = None
          /\ tunnelsById[c] = None
          /\ register(c, s)
          /\ tunnelsById' = [tunnelsById EXCEPT ![c] = s]
          /\ name' = [name EXCEPT ![c] = s]
    BY <1>3, OpenEffect DEF Register
  <2>2. /\ life' = [life EXCEPT ![c] = "open"]
        /\ \A d \in Conn \ {c} : sock'[d] = sock[d]
    BY <1>3 DEF Register, Open
  <2>3. \A d \in Conn \ {c} : name'[d] # s
    BY <1>3, <2>1 DEF Register
  <2>4. NamesDistinct'
    BY <2>1, <2>3 DEF NamesDistinct
  <2>5. OpenIsRegistered'
    BY <2>1, <2>2 DEF OpenIsRegistered
  <2>6. QED
    BY <2>4, <2>5
<1>4. ASSUME NEW c \in Conn, CloseTunnel(c)
      PROVE  Goal
  BY <1>4 DEF CloseTunnel, CloseSocket, NamesDistinct, OpenIsRegistered
<1>5. ASSUME NEW c \in Conn, TunnelExpires(c)
      PROVE  Goal
  BY <1>5 DEF TunnelExpires, Expire, NamesDistinct, OpenIsRegistered
<1>6. ASSUME ExpirySweep PROVE Goal
  <2>1. /\ UNCHANGED <<life, name>>
        /\ \A c \in Conn : sock'[c] = "OPEN" => sock[c] = "OPEN"
    BY <1>6 DEF ExpirySweep, Sweep
  <2>2. \A c \in Conn : tunnelsById'[c] =
          IF c \in Overdue /\ sock[c] = "CLOSED" THEN None ELSE tunnelsById[c]
    BY <1>6, SweepEffect DEF ExpirySweep
  <2>3. QED
    BY <2>1, <2>2 DEF NamesDistinct, OpenIsRegistered
<1>7. ASSUME NEW c \in Conn, SocketCloses(c)
      PROVE  Goal
  BY <1>7 DEF SocketCloses, SocketGone, NamesDistinct, OpenIsRegistered
<1>8. ASSUME NEW c \in Conn, Finalized(c)
      PROVE  Goal
  <2>1. /\ life[c] = "finalizing" /\ UNCHANGED sock
        /\ life' = [life EXCEPT ![c] = "gone"]
        /\ name' = [name EXCEPT ![c] = None]
    BY <1>8 DEF Finalized, Unregister
  <2>2. \A d \in Conn : tunnelsById'[d] =
          IF tunnelsById[d] = name[c] THEN None ELSE tunnelsById[d]
    BY <1>8, UnregisterOwn DEF Finalized
  <2>3. \A d \in Conn : tunnelsById[d] = name[c] => d = c
    BY <2>1 DEF NamesHeld, NamesDistinct
  <2>4. QED
    BY <2>1, <2>2, <2>3 DEF NamesDistinct, OpenIsRegistered
<1>9. ASSUME Crash PROVE Goal
  <2>1. \A c \in Conn : sock'[c] # "OPEN"
    BY <1>9 DEF Crash, ServerDies
  <2>2. \A c \in Conn : name'[c] = None
    BY <1>9 DEF Crash, ServerDies
  <2>3. QED
    BY <2>1, <2>2 DEF NamesDistinct, OpenIsRegistered
<1>10. ASSUME UNCHANGED relayVars PROVE Goal
  BY <1>1, <1>10 DEF relayVars
<1>11. Goal
  BY <1>2, <1>3, <1>4, <1>5, <1>6, <1>7, <1>8, <1>9, <1>10
     DEF RelayNext, UnmeteredStep, TunnelStep
<1>12. QED
  BY <1>0, <1>11

-----------------------------------------------------------------------------
(* Requests                                                                *)

(* A handler that waits for the body or for the answer holds a connection, *)
(* and one that waits for the answer holds that of a tunnel in the maps.   *)
HandlersHold ==
  \A r \in Req :
    /\ req[r] \in {"body", "waiting"} => conn[r] \in Conn
    /\ req[r] = "waiting" => tunnelsById[conn[r]] # None

(* The inductive invariant of the relay.                                   *)
RelayInv == RelayTypeOK /\ TunnelsInv /\ PendingIsWaiting /\ HandlersHold

(* At first there are no tunnels and no requests.                          *)
LEMMA RelayInvInit == RelayInit => RelayInv
<1> SUFFICES ASSUME RelayInit PROVE RelayInv
  OBVIOUS
<1>1. RelayTypeOK
  BY LifeTypesInit DEF RelayInit, RelayTypeOK
<1>2. TunnelsInv
  BY LifeInvInit DEF RelayInit, LifeInit, TunnelsInv, NamesDistinct, OpenIsRegistered
<1>3. PendingIsWaiting /\ HandlersHold
  BY DEF RelayInit, PendingIsWaiting, HandlersHold
<1>4. QED
  BY <1>1, <1>2, <1>3 DEF RelayInv

(* The tunnels whose requests are rejected are those that leave the maps.  *)
LEMMA RejectKeepsRequests ==
  ASSUME RelayInv, NEW C \in SUBSET Conn, RejectPending(C),
         \A c \in Conn \ C : tunnelsById'[c] = tunnelsById[c]
  PROVE  (PendingIsWaiting /\ HandlersHold)'
<1> USE DEF RelayInv, RelayTypeOK, RejectPending, PendingIsWaiting, HandlersHold
<1>1. PendingIsWaiting'
  OBVIOUS
<1>2. HandlersHold'
  OBVIOUS
<1>3. QED
  BY <1>1, <1>2

(* The pending map and the waiting handlers change together, and a tunnel  *)
(* that leaves the maps takes its requests with it.                        *)
LEMMA RequestsStep ==
  ASSUME RelayInv, [RelayNext]_relayVars
  PROVE  (PendingIsWaiting /\ HandlersHold)'
<1> USE MapAssumption DEF RelayInv, RelayTypeOK, TunnelsInv, LifeInv
<1>1. ASSUME NEW r \in Req, RequestStep(r)
      PROVE  (PendingIsWaiting /\ HandlersHold)'
  <2>0. UNCHANGED tunnelsById
    BY <1>1 DEF RequestStep, Arrive, BodyTooLarge, Send, Timeout, Receive, Answer,
       lifeVars, mapVars
  <2> USE <2>0 DEF Reply, Replies, PendingIsWaiting, HandlersHold
  <2>1. CASE \E s \in Subdomain : Arrive(r, s)
    BY <2>1 DEF Arrive, findBySubdomain, LifeTypeOK, MapTypeOK
  <2>2. CASE BodyTooLarge(r)
    BY <2>2 DEF BodyTooLarge
  <2>3. CASE Send(r)
    BY <2>3 DEF Send, OpenIsRegistered
  <2>4. CASE Timeout(r)
    BY <2>4 DEF Timeout
  <2>5. CASE \E c \in Conn : Receive(c, r)
    BY <2>5 DEF Receive, reqVars
  <2>6. CASE \E c \in Conn : Answer(c, r)
    BY <2>6 DEF Answer
  <2>7. QED
    BY <1>1, <2>1, <2>2, <2>3, <2>4, <2>5, <2>6 DEF RequestStep
<1>2. ASSUME NEW c \in Conn, Register(c)
      PROVE  (PendingIsWaiting /\ HandlersHold)'
  <2>1. PICK s \in Subdomain :
          tunnelsById[c] = None /\ tunnelsById' = [tunnelsById EXCEPT ![c] = s]
    BY <1>2, OpenEffect DEF Register
  <2>2. UNCHANGED reqVars
    BY <1>2 DEF Register
  <2>3. QED
    BY <2>1, <2>2 DEF reqVars, PendingIsWaiting, HandlersHold
<1>3. ASSUME NEW c \in Conn, CloseTunnel(c) \/ TunnelExpires(c) \/ SocketCloses(c)
      PROVE  (PendingIsWaiting /\ HandlersHold)'
  BY <1>3 DEF CloseTunnel, CloseSocket, TunnelExpires, Expire, SocketCloses,
     SocketGone, reqVars, mapVars, PendingIsWaiting, HandlersHold
<1>4. CASE ExpirySweep
  <2>1. \A c \in Conn : ~ (c \in Overdue /\ sock[c] = "CLOSED")
          => tunnelsById'[c] = tunnelsById[c]
    BY <1>4, SweepEffect DEF ExpirySweep
  <2>2. RejectPending({c \in Overdue : sock[c] = "CLOSED"})
    BY <1>4 DEF ExpirySweep
  <2>3. {c \in Overdue : sock[c] = "CLOSED"} \in SUBSET Conn
    BY DEF Overdue
  <2>4. QED
    BY <2>1, <2>2, <2>3, RejectKeepsRequests
<1>5. ASSUME NEW c \in Conn, Finalized(c)
      PROVE  (PendingIsWaiting /\ HandlersHold)'
  <2>1. \A d \in Conn : tunnelsById'[d] =
          IF tunnelsById[d] = name[c] THEN None ELSE tunnelsById[d]
    BY <1>5, UnregisterOwn DEF Finalized
  <2>2. \A d \in Conn : tunnelsById[d] = name[c] => d = c
    BY <1>5 DEF Finalized, Unregister, NamesHeld, NamesDistinct
  <2>3. RejectPending({c})
    BY <1>5 DEF Finalized
  <2>4. QED
    BY <2>1, <2>2, <2>3, RejectKeepsRequests
<1>6. CASE Crash
  BY <1>6 DEF Crash, Replies, PendingIsWaiting, HandlersHold
<1>7. CASE UNCHANGED relayVars
  BY <1>7 DEF relayVars, lifeVars, mapVars, reqVars, PendingIsWaiting, HandlersHold
<1>8. QED
  BY <1>1, <1>2, <1>3, <1>4, <1>5, <1>6, <1>7 DEF RelayNext, UnmeteredStep, TunnelStep

(* The invariant of the relay is preserved by every step.                  *)
LEMMA RelayInvStep ==
  ASSUME RelayInv, [RelayNext]_relayVars
  PROVE  RelayInv'
BY RelayTypesStep, TunnelsInvStep, RequestsStep DEF RelayInv

(* The invariant of the relay holds in every reachable state.              *)
LEMMA RelayInvariant == RelaySpec => []RelayInv
<1>1. RelayInv /\ [RelayNext]_relayVars => RelayInv'
  BY RelayInvStep
<1>2. QED
  BY <1>1, RelayInvInit, PTL DEF RelaySpec

(* However timeouts, late answers, closes, sweeps and crashes interleave,  *)
(* the map of pending requests holds exactly the requests somebody waits   *)
(* for.                                                                    *)
THEOREM PendingIsAlwaysWaiting == RelaySpec => []PendingIsWaiting
BY RelayInvariant, PTL DEF RelayInv

(* No request ever waits for a tunnel that is not in the maps, though a    *)
(* handler may hold its connection while the tunnel closes.                *)
THEOREM WaitingAlwaysHasTunnel == RelaySpec => []WaitingHasTunnel
<1>1. RelayInv => WaitingHasTunnel
  BY DEF RelayInv, PendingIsWaiting, HandlersHold, WaitingHasTunnel, Host
<1>2. QED
  BY <1>1, RelayInvariant, PTL

-----------------------------------------------------------------------------
(* Traffic                                                                 *)

(* The requests that get their answer in a step.                           *)
AnsweredNow == {r \in Req : req'[r] = "ok" /\ req[r] # "ok"}

(* A step counts traffic only for the request it answers, once, and at the *)
(* tunnel that request was waiting for; a request that is answered stays   *)
(* answered.                                                               *)
CountedWithReply ==
  /\ \A r \in Req : req[r] = "ok" => req'[r] = "ok"
  /\ \/ AnsweredNow = {} /\ UNCHANGED bytesTransferred
     \/ \E r \in Req :
          /\ AnsweredNow = {r}
          /\ req[r] = "waiting"
          /\ conn[r] \in Conn
          /\ bytesTransferred' =
               [bytesTransferred EXCEPT ![conn[r]] = bytesTransferred[conn[r]] + 1]

(* Traffic grows in the step that answers a request, and in no other.      *)
LEMMA CountedStep ==
  ASSUME RelayInv, [RelayNext]_relayVars
  PROVE  CountedWithReply
<1> USE DEF RelayInv, RelayTypeOK, PendingIsWaiting, HandlersHold, Replies, Reply,
        CountedWithReply, AnsweredNow
<1>1. ASSUME NEW r \in Req, RequestStep(r)
      PROVE  CountedWithReply
  <2>1. CASE \E c \in Conn : Answer(c, r)
    BY <2>1 DEF Answer, Host
  <2>2. CASE (\E s \in Subdomain : Arrive(r, s)) \/ BodyTooLarge(r) \/ Send(r)
             \/ Timeout(r) \/ \E c \in Conn : Receive(c, r)
    BY <2>2 DEF Arrive, BodyTooLarge, Send, Timeout, Receive, reqVars, recordVars
  <2>3. QED
    BY <1>1, <2>1, <2>2 DEF RequestStep
<1>2. CASE \E c \in Conn : TunnelStep(c) \/ SocketCloses(c) \/ Finalized(c)
  BY <1>2 DEF TunnelStep, Register, CloseTunnel, TunnelExpires, SocketCloses,
     Finalized, RejectPending, reqVars, recordVars
<1>3. CASE ExpirySweep
  BY <1>3 DEF ExpirySweep, RejectPending, recordVars
<1>4. CASE Crash
  BY <1>4 DEF Crash, recordVars
<1>5. CASE UNCHANGED relayVars
  BY <1>5 DEF relayVars, reqVars, recordVars
<1>6. QED
  BY <1>1, <1>2, <1>3, <1>4, <1>5 DEF RelayNext, UnmeteredStep

(* Traffic is counted with the reply and never without one: each step of   *)
(* the sum that TrafficCountedOnce states.                                 *)
THEOREM TrafficCountedWithReply == RelaySpec => [][CountedWithReply]_relayVars
<1>1. RelayInv /\ [RelayNext]_relayVars => CountedWithReply
  BY CountedStep
<1>2. QED
  BY <1>1, RelayInvariant, PTL DEF RelaySpec

(* The requests that were answered.                                        *)
Answered == {r \in Req : req[r] = "ok"}

(* So the traffic of all tunnels together is the number of requests that   *)
(* were answered.                                                          *)
CountInv ==
  IsFiniteSet(Answered) /\ Sum(bytesTransferred, Conn) = Cardinality(Answered)

(* Such a step adds one to the sum and one request to those answered, or   *)
(* nothing to either.                                                      *)
LEMMA SumStep ==
  ASSUME RelayInv, CountInv, CountedWithReply
  PROVE  CountInv'
<1> USE MapAssumption DEF CountInv
<1>1. Answered' = Answered \cup AnsweredNow
  BY DEF Answered, AnsweredNow, CountedWithReply
<1>2. CASE AnsweredNow = {} /\ UNCHANGED bytesTransferred
  BY <1>1, <1>2
<1>3. ASSUME NEW r \in Req, AnsweredNow = {r}, req[r] = "waiting", conn[r] \in Conn,
             bytesTransferred' =
               [bytesTransferred EXCEPT ![conn[r]] = bytesTransferred[conn[r]] + 1]
      PROVE  CountInv'
  <2>1. r \notin Answered /\ Answered' = Answered \cup {r}
    BY <1>1, <1>3 DEF Answered
  <2>2. IsFiniteSet(Answered') /\ Cardinality(Answered') = Cardinality(Answered) + 1
    BY <2>1, FS_AddElement
  <2>3. bytesTransferred \in [Conn -> Nat]
    BY DEF RelayInv, RelayTypeOK
  <2>4. Sum(bytesTransferred', Conn) = Sum(bytesTransferred, Conn) + 1
    <3>1. /\ bytesTransferred'[conn[r]] = bytesTransferred[conn[r]] + 1
          /\ \A c \in Conn \ {conn[r]} : bytesTransferred'[c] = bytesTransferred[c]
          /\ \A c \in Conn : bytesTransferred[c] \in Nat
      BY <1>3, <2>3
    <3>2. QED
      BY <1>3, <3>1, SumGrows
  <2>5. QED
    BY <2>2, <2>4
<1>4. QED
  BY <1>2, <1>3 DEF CountedWithReply

(* Traffic is counted once for every request that is answered, and for no  *)
(* other: not for an answer that comes after its timeout.                  *)
THEOREM TrafficAlwaysCountedOnce == RelaySpec => []TrafficCountedOnce
<1>1. RelayInit => CountInv
  <2> SUFFICES ASSUME RelayInit PROVE CountInv
    OBVIOUS
  <2>1. Answered = {}
    BY DEF RelayInit, Answered
  <2>2. bytesTransferred \in [Conn -> Nat] /\ \A c \in Conn : bytesTransferred[c] = 0
    BY DEF RelayInit
  <2>3. Sum(bytesTransferred, Conn) = 0
    BY <2>2, SumOfNothing, MapAssumption
  <2>4. QED
    BY <2>1, <2>3, FS_EmptySet DEF CountInv
<1>2. RelayInv /\ CountInv /\ [RelayNext]_relayVars => CountInv'
  BY CountedStep, SumStep
<1>3. CountInv => TrafficCountedOnce
  BY DEF CountInv, Sum, Answered, TrafficCountedOnce
<1>4. QED
  BY <1>1, <1>2, <1>3, RelayInvariant, PTL DEF RelaySpec

-----------------------------------------------------------------------------
(* A metered relay is a relay                                              *)

(* A step of Metering is one of the relay, or it moves writes and rows and *)
(* leaves the traffic alone.                                               *)
LEMMA MeteredRelayStep ==
  ASSUME [Next]_vars
  PROVE  [RelayNext]_relayVars
<1>1. CASE RecordStep
  BY <1>1 DEF RecordStep, RelayNext
<1>2. CASE SyncTick \/ \E c \in Conn : SyncWrite(c)
  BY <1>2 DEF SyncTick, SyncWrite
<1>3. CASE \E c \in Conn : CloseAndFinalize(c) \/ FinalizeReturns(c)
  BY <1>3 DEF CloseAndFinalize, FinalizeReturns, RelayNext
<1>4. CASE \E w \in writes : WriteApplied(w) \/ WriteFails(w)
  BY <1>4 DEF WriteApplied, WriteFails
<1>5. CASE CrashDuringSync
  BY <1>5 DEF CrashDuringSync, RelayNext
<1>6. CASE UNCHANGED vars
  BY <1>6 DEF vars
<1>7. QED
  BY <1>1, <1>2, <1>3, <1>4, <1>5, <1>6 DEF Next

(* So the invariant of the relay is one of Metering.                       *)
LEMMA MeteredRelayInvariant == Spec => []RelayInv
<1>1. Init => RelayInv
  BY RelayInvInit DEF Init
<1>2. RelayInv /\ [Next]_vars => RelayInv'
  BY MeteredRelayStep, RelayInvStep
<1>3. QED
  BY <1>1, <1>2, PTL DEF Spec

-----------------------------------------------------------------------------
(* Type correctness                                                        *)

(* Every step keeps the rows, the writes and the snapshots in their        *)
(* ranges.                                                                 *)
LEMMA MeteringTypesStep ==
  ASSUME TypeOK, [Next]_vars
  PROVE  TypeOK'
<1> USE MeteringAssumption DEF TypeOK
<1>0. RelayTypeOK'
  BY MeteredRelayStep, RelayTypesStep
<1>1. bytesTransferred \in [Conn -> Nat] /\ tunnelsById \in [Conn -> Subdomain \cup {None}]
  BY DEF RelayTypeOK, LifeTypeOK, MapTypeOK
<1>2. tunnelsById' \in [Conn -> Subdomain \cup {None}]
  BY <1>0 DEF RelayTypeOK, LifeTypeOK, MapTypeOK
<1>3. CASE RecordStep
  BY <1>0, <1>2, <1>3 DEF RecordStep, meterVars
<1>4. CASE SyncTick
  BY <1>0, <1>4 DEF SyncTick
<1>5. ASSUME NEW c \in Conn, SyncWrite(c)
      PROVE  TypeOK'
  <2>1. [conn |-> c, bytes |-> bytesTransferred[c], final |-> FALSE] \in Write
    BY <1>1 DEF Write
  <2>2. QED
    BY <1>0, <1>5, <2>1 DEF SyncWrite
<1>6. ASSUME NEW c \in Conn, CloseAndFinalize(c)
      PROVE  TypeOK'
  <2>1. findBySubdomain(name[c]) \in Conn \cup {None}
    BY DEF findBySubdomain, RelayTypeOK, LifeTypeOK, MapTypeOK
  <2>2. ASSUME NEW d \in Conn
        PROVE  [conn |-> c, bytes |-> bytesTransferred[d], final |-> TRUE] \in Write
    BY <1>1 DEF Write
  <2>3. writes' \subseteq Write /\ unbilled' \subseteq Conn
    BY <1>6, <2>1, <2>2 DEF CloseAndFinalize
  <2>4. QED
    BY <1>0, <1>6, <2>3 DEF CloseAndFinalize
<1>7. ASSUME NEW c \in Conn, FinalizeReturns(c)
      PROVE  TypeOK'
  BY <1>0, <1>7 DEF FinalizeReturns, meterVars
<1>8. ASSUME NEW w \in writes, WriteApplied(w)
      PROVE  TypeOK'
  <2>1. Upsert(row[w.conn], w) \in {None} \cup Row
    BY DEF Upsert, Write, Row
  <2>2. row' \in [Conn -> {None} \cup Row]
    BY <1>8, <2>1 DEF WriteApplied
  <2>3. QED
    BY <1>0, <1>8, <2>2 DEF WriteApplied
<1>9. ASSUME NEW w \in writes, WriteFails(w)
      PROVE  TypeOK'
  BY <1>0, <1>9 DEF WriteFails, Write
<1>10. CASE CrashDuringSync
  BY <1>0, <1>10 DEF CrashDuringSync
<1>11. CASE UNCHANGED vars
  BY <1>0, <1>11 DEF vars, meterVars
<1>12. QED
  BY <1>3, <1>4, <1>5, <1>6, <1>7, <1>8, <1>9, <1>10, <1>11 DEF Next

(* Every variable keeps its range; in particular every row and every write *)
(* carries a number of bytes.                                              *)
THEOREM MeteringTypeCorrect == Spec => []TypeOK
<1>1. Init => TypeOK
  BY LifeTypesInit, MeteringAssumption DEF Init, RelayInit, TypeOK, RelayTypeOK
<1>2. TypeOK /\ [Next]_vars => TypeOK'
  BY MeteringTypesStep
<1>3. QED
  BY <1>1, <1>2, PTL DEF Spec

-----------------------------------------------------------------------------
(* Rows and traffic                                                        *)

(* No write on its way carries more than the tunnel's traffic.             *)
WritesNeverOverbill == \A w \in writes : w.bytes <= bytesTransferred[w.conn]

(* The traffic of a tunnel only grows.                                     *)
LEMMA TrafficGrows ==
  ASSUME TypeOK, RelayInv, [Next]_vars, NEW c \in Conn
  PROVE  bytesTransferred'[c] >= bytesTransferred[c]
<1>1. CountedWithReply
  BY MeteredRelayStep, CountedStep
<1>2. bytesTransferred \in [Conn -> Nat]
  BY DEF RelayInv, RelayTypeOK
<1>3. QED
  BY <1>1, <1>2 DEF CountedWithReply

(* The record a close handler finds at its name is its own tunnel's.       *)
LEMMA FoundIsOwn ==
  ASSUME RelayInv, NEW c \in Conn, SocketGone(c), findBySubdomain(name[c]) # None
  PROVE  findBySubdomain(name[c]) = c
<1> USE DEF RelayInv, RelayTypeOK, TunnelsInv, LifeInv, LifeTypeOK, MapTypeOK
<1>1. findBySubdomain(name[c]) \in Conn /\ name[c] \in Subdomain
  BY MapAssumption DEF findBySubdomain
<1>2. tunnelsById[findBySubdomain(name[c])] = name[c]
  BY <1>1 DEF findBySubdomain, IndexesAgree
<1>3. name[findBySubdomain(name[c])] = name[c] /\ name[c] # None
  BY <1>1, <1>2, MapAssumption DEF NamesHeld
<1>4. QED
  BY <1>1, <1>3 DEF NamesDistinct

(* A write takes its bytes from the counter of its own tunnel, which only  *)
(* grows, and a row takes them from a write of that tunnel.                *)
LEMMA OverbillStep ==
  ASSUME TypeOK, RelayInv, RowsNeverOverbill, WritesNeverOverbill, [Next]_vars
  PROVE  RowsNeverOverbill' /\ WritesNeverOverbill'
<1> DEFINE Bytes(c) == bytesTransferred[c]
<1>0. ASSUME NEW c \in Conn
      PROVE  Bytes(c) \in Nat /\ Bytes(c)' \in Nat /\ Bytes(c) <= Bytes(c)'
  <2>1. bytesTransferred \in [Conn -> Nat] /\ bytesTransferred' \in [Conn -> Nat]
    BY MeteredRelayStep, RelayTypesStep DEF TypeOK, RelayTypeOK
  <2>2. QED
    BY <2>1, TrafficGrows
<1>1. ASSUME UNCHANGED row, writes' \subseteq writes
      PROVE  RowsNeverOverbill' /\ WritesNeverOverbill'
  BY <1>0, <1>1 DEF TypeOK, Write, Row, RowsNeverOverbill, WritesNeverOverbill
<1>2. ASSUME UNCHANGED row, NEW v \in Write, writes' = writes \cup {v},
             v.bytes <= bytesTransferred[v.conn]
      PROVE  RowsNeverOverbill' /\ WritesNeverOverbill'
  BY <1>0, <1>2 DEF TypeOK, Write, Row, RowsNeverOverbill, WritesNeverOverbill
<1>3. ASSUME NEW c \in Conn, SyncWrite(c)
      PROVE  RowsNeverOverbill' /\ WritesNeverOverbill'
  <2> DEFINE v == [conn |-> c, bytes |-> bytesTransferred[c], final |-> FALSE]
  <2>1. v \in Write /\ v.bytes <= bytesTransferred[v.conn]
    BY <1>0 DEF Write
  <2>2. UNCHANGED row /\ writes' = writes \cup {v}
    BY <1>3 DEF SyncWrite
  <2>3. QED
    BY <1>2, <2>1, <2>2
<1>4. ASSUME NEW c \in Conn, CloseAndFinalize(c)
      PROVE  RowsNeverOverbill' /\ WritesNeverOverbill'
  <2>1. CASE findBySubdomain(name[c]) = None
    BY <1>1, <1>4, <2>1 DEF CloseAndFinalize
  <2>2. CASE findBySubdomain(name[c]) # None
    <3> DEFINE v == [conn |-> c, bytes |-> bytesTransferred[c], final |-> TRUE]
    <3>1. v \in Write /\ v.bytes <= bytesTransferred[v.conn]
      BY <1>0 DEF Write
    <3>2. findBySubdomain(name[c]) = c
      BY <1>4, <2>2, FoundIsOwn DEF CloseAndFinalize, SocketCloses
    <3>3. UNCHANGED row /\ writes' = writes \cup {v}
      BY <1>4, <2>2, <3>2 DEF CloseAndFinalize
    <3>4. QED
      BY <1>2, <3>1, <3>3
  <2>3. QED
    BY <2>1, <2>2
<1>5. ASSUME NEW w \in writes, WriteApplied(w)
      PROVE  RowsNeverOverbill' /\ WritesNeverOverbill'
  <2>1. w \in Write /\ w.bytes <= bytesTransferred[w.conn] /\ UNCHANGED bytesTransferred
    BY <1>5 DEF WriteApplied, TypeOK, WritesNeverOverbill, relayVars, recordVars
  <2>2. ASSUME NEW c \in Conn, row'[c] # None
        PROVE  row'[c].bytes <= bytesTransferred[c]
    <3>1. CASE c # w.conn
      BY <1>5, <2>1, <2>2, <3>1 DEF WriteApplied, TypeOK, RowsNeverOverbill
    <3>2. CASE c = w.conn
      <4>1. row'[c] = Upsert(row[c], w)
        BY <1>5, <3>2 DEF WriteApplied, TypeOK
      <4>2. CASE ~ w.final /\ row[c] # None /\ row[c].closed
        BY <2>2, <4>1, <4>2 DEF Upsert, RowsNeverOverbill
      <4>3. CASE ~ (~ w.final /\ row[c] # None /\ row[c].closed)
        BY <2>1, <3>2, <4>1, <4>3 DEF Upsert
      <4>4. QED
        BY <4>2, <4>3
    <3>3. QED
      BY <3>1, <3>2
  <2>3. RowsNeverOverbill'
    BY <2>1, <2>2 DEF RowsNeverOverbill
  <2>4. WritesNeverOverbill'
    BY <1>5, <2>1 DEF WriteApplied, WritesNeverOverbill
  <2>5. QED
    BY <2>3, <2>4
<1>6. CASE \/ RecordStep \/ SyncTick \/ CrashDuringSync \/ UNCHANGED vars
           \/ \E c \in Conn : FinalizeReturns(c)
           \/ \E w \in writes : WriteFails(w)
  <2>1. UNCHANGED row /\ writes' \subseteq writes
    BY <1>6 DEF RecordStep, SyncTick, CrashDuringSync, FinalizeReturns,
       WriteFails, vars, meterVars
  <2>2. QED
    BY <1>1, <2>1
<1>7. QED
  BY <1>3, <1>4, <1>5, <1>6 DEF Next

(* In whatever order overlapping and late writes reach the database, a row *)
(* never bills more than its tunnel carried.                               *)
THEOREM RowsNeverOverbillHolds == Spec => []RowsNeverOverbill
<1>1. Init => RowsNeverOverbill /\ WritesNeverOverbill
  BY DEF Init, RowsNeverOverbill, WritesNeverOverbill
<1>2. TypeOK /\ RelayInv /\ RowsNeverOverbill /\ WritesNeverOverbill /\ [Next]_vars
        => (RowsNeverOverbill /\ WritesNeverOverbill)'
  BY OverbillStep
<1>3. QED
  BY <1>1, <1>2, MeteringTypeCorrect, MeteredRelayInvariant, PTL DEF Spec

-----------------------------------------------------------------------------
(* Final writes                                                            *)

(* The final writes of a tunnel that are on their way.                     *)
Final(c) == {w \in writes : w.conn = c /\ w.final}

RowClosed(c) == row[c] # None /\ row[c].closed

(* A tunnel gets at most one final write, none before its close handler    *)
(* runs, and none is on its way when the row is closed.                    *)
OneFinalWrite ==
  \A c \in Conn :
    /\ \A v, w \in Final(c) : v = w
    /\ Final(c) # {} => ~ RowClosed(c)
    /\ life[c] \in {"new", "open"} => Final(c) = {} /\ ~ RowClosed(c)

(* A tunnel has no name of record before it is registered.  One whose      *)
(* close handler waits has a final write on its way, a closed row, or a    *)
(* final write that was lost; one whose close handler is through has a     *)
(* closed row or lost the write.                                           *)
FinalIsComing ==
  \A c \in Conn :
    /\ life[c] = "new" => subdomain[c] = None
    /\ life[c] = "finalizing" => c \in unbilled \/ RowClosed(c) \/ Final(c) # {}
    /\ life[c] = "gone" /\ subdomain[c] # None => c \in unbilled \/ RowClosed(c)

MeterInv == TypeOK /\ RelayInv /\ OneFinalWrite /\ FinalIsComing

(* What a step without a row of its own does to the lives of tunnels: it   *)
(* registers one, or moves none.                                           *)
LEMMA UnmeteredLives ==
  ASSUME RelayInv, UnmeteredStep, NEW c \in Conn
  PROVE  /\ life'[c] = life[c] \/ (life[c] = "new" /\ life'[c] = "open")
         /\ tunnelsById'[c] # None => life'[c] \in {"open", "finalizing"}
<1>1. [RelayNext]_relayVars
  BY DEF RelayNext
<1>2. NamesHeld'
  BY <1>1, RelayInvStep DEF RelayInv, TunnelsInv, LifeInv
<1>3. tunnelsById'[c] # None => life'[c] \in {"open", "finalizing"}
  BY <1>2 DEF NamesHeld
<1>4. life \in [Conn -> {"new", "open", "finalizing", "gone"}]
  BY DEF RelayInv, RelayTypeOK, LifeTypeOK
<1>5. CASE \E r \in Req : RequestStep(r)
  BY <1>3, <1>5 DEF RequestStep, Arrive, BodyTooLarge, Send, Timeout, Receive,
     Answer, lifeVars
<1>6. CASE \E d \in Conn : TunnelStep(d)
  BY <1>3, <1>4, <1>6 DEF TunnelStep, Register, Open, CloseTunnel, CloseSocket,
     TunnelExpires, Expire
<1>7. CASE ExpirySweep
  BY <1>3, <1>7 DEF ExpirySweep, Sweep
<1>8. QED
  BY <1>5, <1>6, <1>7 DEF UnmeteredStep

(* A step that issues no final write and closes or opens no row.           *)
LEMMA FinalUndisturbed ==
  ASSUME MeterInv, [Next]_vars, UNCHANGED <<life, row, unbilled>>,
         \A c \in Conn : Final(c)' = Final(c),
         \A c \in Conn : subdomain'[c] = subdomain[c]
  PROVE  OneFinalWrite' /\ FinalIsComing'
BY DEF MeterInv, OneFinalWrite, FinalIsComing, RowClosed

(* One final write more, or one less, and rows closed by it.               *)
LEMMA FinalStep ==
  ASSUME MeterInv, [Next]_vars
  PROVE  OneFinalWrite' /\ FinalIsComing'
<1> DEFINE Goal == OneFinalWrite' /\ FinalIsComing'
<1>0. /\ life \in [Conn -> {"new", "open", "finalizing", "gone"}]
      /\ writes \subseteq Write
  BY DEF MeterInv, TypeOK, RelayTypeOK, LifeTypeOK
<1>1. ASSUME RecordStep PROVE Goal
  <2>1. UNCHANGED <<row, writes, unbilled>>
    BY <1>1 DEF RecordStep, meterVars
  <2>2. ASSUME NEW c \in Conn
        PROVE  /\ life'[c] = life[c] \/ (life[c] = "new" /\ life'[c] = "open")
               /\ life'[c] \in {"new", "gone"} => subdomain'[c] = subdomain[c]
    <3>1. subdomain'[c] =
            IF tunnelsById'[c] = None THEN subdomain[c] ELSE tunnelsById'[c]
      BY <1>1 DEF RecordStep
    <3>2. QED
      BY <1>1, <3>1, UnmeteredLives DEF RecordStep, MeterInv
  <2>3. \A c \in Conn : Final(c)' = Final(c) /\ RowClosed(c)' = RowClosed(c)
    BY <2>1 DEF Final, RowClosed
  <2>4. OneFinalWrite'
    <3> SUFFICES ASSUME NEW c \in Conn
                 PROVE  /\ \A v, w \in Final(c) : v = w
                        /\ Final(c) # {} => ~ RowClosed(c)
                        /\ life'[c] \in {"new", "open"}
                             => Final(c) = {} /\ ~ RowClosed(c)
      BY <2>3 DEF OneFinalWrite
    <3>1. life'[c] \in {"new", "open"} => life[c] \in {"new", "open"}
      BY <2>2
    <3>2. QED
      BY <3>1 DEF MeterInv, OneFinalWrite
  <2>5. FinalIsComing'
    <3> SUFFICES ASSUME NEW c \in Conn
                 PROVE  /\ life'[c] = "new" => subdomain'[c] = None
                        /\ life'[c] = "finalizing"
                             => c \in unbilled \/ RowClosed(c) \/ Final(c) # {}
                        /\ life'[c] = "gone" /\ subdomain'[c] # None
                             => c \in unbilled \/ RowClosed(c)
      BY <2>1, <2>3 DEF FinalIsComing
    <3>1. /\ life'[c] \in {"new", "finalizing", "gone"} => life'[c] = life[c]
          /\ life'[c] \in {"new", "gone"} => subdomain'[c] = subdomain[c]
      BY <2>2
    <3>2. QED
      BY <3>1 DEF MeterInv, FinalIsComing
  <2>6. QED
    BY <2>4, <2>5
<1>2. ASSUME SyncTick PROVE Goal
  BY <1>2, FinalUndisturbed DEF SyncTick, Final, relayVars, lifeVars
<1>3. ASSUME NEW c \in Conn, SyncWrite(c) PROVE Goal
  <2>1. \A d \in Conn : Final(d)' = Final(d)
    BY <1>3 DEF SyncWrite, Final
  <2>2. QED
    BY <1>3, <2>1, FinalUndisturbed DEF SyncWrite, relayVars, lifeVars
<1>4. ASSUME NEW c \in Conn, CloseAndFinalize(c) PROVE Goal
  <2>1. /\ life[c] = "open" /\ UNCHANGED <<row, subdomain>>
        /\ \A d \in Conn \ {c} : life'[d] = life[d]
    BY <1>0, <1>4 DEF CloseAndFinalize, SocketCloses, SocketGone
  <2>2. CASE findBySubdomain(name[c]) = None
    <3>1. /\ life'[c] = "gone" /\ UNCHANGED writes
          /\ unbilled' = unbilled \cup {c}
      BY <1>0, <1>4, <2>2 DEF CloseAndFinalize, SocketCloses, SocketGone
    <3>2. \A d \in Conn : Final(d)' = Final(d) /\ RowClosed(d)' = RowClosed(d)
      BY <2>1, <3>1 DEF Final, RowClosed
    <3>3. QED
      BY <2>1, <3>1, <3>2 DEF MeterInv, OneFinalWrite, FinalIsComing
  <2>3. CASE findBySubdomain(name[c]) # None
    <3> DEFINE v == [conn |-> c, final |-> TRUE,
                     bytes |-> bytesTransferred[findBySubdomain(name[c])]]
    <3>1. /\ life'[c] = "finalizing" /\ UNCHANGED unbilled
          /\ writes' = writes \cup {v}
      BY <1>0, <1>4, <2>3 DEF CloseAndFinalize, SocketCloses, SocketGone
    <3>2. Final(c) = {} /\ ~ RowClosed(c)
      BY <2>1 DEF MeterInv, OneFinalWrite
    <3>3. Final(c)' = {v}
      BY <3>1, <3>2 DEF Final
    <3>4. \A d \in Conn \ {c} : Final(d)' = Final(d)
      BY <3>1 DEF Final
    <3>5. \A d \in Conn : RowClosed(d)' = RowClosed(d)
      BY <2>1 DEF RowClosed
    <3>6. OneFinalWrite'
      <4>1. ASSUME NEW d \in Conn
            PROVE  /\ \A x, w \in Final(d)' : x = w
                   /\ Final(d)' # {} => ~ RowClosed(d)'
                   /\ life'[d] \in {"new", "open"}
                        => Final(d)' = {} /\ ~ RowClosed(d)'
        <5>1. CASE d = c
          BY <3>1, <3>2, <3>3, <3>5, <5>1
        <5>2. CASE d # c
          BY <2>1, <3>4, <3>5, <5>2 DEF MeterInv, OneFinalWrite
        <5>3. QED
          BY <5>1, <5>2
      <4>2. QED
        BY <4>1 DEF OneFinalWrite
    <3>7. FinalIsComing'
      <4>1. ASSUME NEW d \in Conn
            PROVE  /\ life'[d] = "new" => subdomain'[d] = None
                   /\ life'[d] = "finalizing"
                        => d \in unbilled' \/ RowClosed(d)' \/ Final(d)' # {}
                   /\ life'[d] = "gone" /\ subdomain'[d] # None
                        => d \in unbilled' \/ RowClosed(d)'
        <5>1. CASE d = c
          BY <3>1, <3>3, <5>1
        <5>2. CASE d # c
          BY <2>1, <3>1, <3>4, <3>5, <5>2 DEF MeterInv, FinalIsComing
        <5>3. QED
          BY <5>1, <5>2
      <4>2. QED
        BY <4>1 DEF FinalIsComing
    <3>8. QED
      BY <3>6, <3>7
  <2>4. QED
    BY <2>2, <2>3
<1>5. ASSUME NEW c \in Conn, FinalizeReturns(c) PROVE Goal
  <2>1. /\ life[c] = "finalizing"
        /\ life' = [life EXCEPT ![c] = "gone"]
        /\ UNCHANGED <<row, subdomain, unbilled, writes>>
    BY <1>5 DEF FinalizeReturns, Finalized, Unregister, meterVars
  <2>2. Final(c) = {}
    BY <1>5 DEF FinalizeReturns, Final
  <2>3. \A d \in Conn : Final(d)' = Final(d) /\ RowClosed(d)' = RowClosed(d)
    BY <2>1 DEF Final, RowClosed
  <2>4. QED
    BY <1>0, <2>1, <2>2, <2>3 DEF MeterInv, OneFinalWrite, FinalIsComing
<1>6. ASSUME NEW w \in writes, WriteApplied(w) PROVE Goal
  <2>1. /\ w.conn \in Conn /\ w.final \in BOOLEAN
        /\ UNCHANGED <<life, subdomain, unbilled>>
        /\ row' = [row EXCEPT ![w.conn] = Upsert(row[w.conn], w)]
        /\ writes' = writes \ {w}
    BY <1>0, <1>6 DEF WriteApplied, relayVars, lifeVars, Write
  <2>2. \A d \in Conn \ {w.conn} : Final(d)' = Final(d) /\ RowClosed(d)' = RowClosed(d)
    BY <2>1 DEF Final, RowClosed, MeterInv, TypeOK
  <2>3. row'[w.conn] = Upsert(row[w.conn], w)
    BY <2>1 DEF MeterInv, TypeOK
  <2>4. CASE w.final
    <3>1. RowClosed(w.conn)'
      <4>1. row'[w.conn] = [bytes |-> w.bytes, closed |-> TRUE]
        BY <1>0, <2>3, <2>4 DEF Upsert, Write
      <4>2. w.bytes \in Nat
        BY <1>0 DEF Write
      <4>3. row'[w.conn] \in Row
        BY <4>1, <4>2 DEF Row
      <4>4. row'[w.conn] # None
        BY <4>3, MeteringAssumption
      <4>5. row'[w.conn].closed
        BY <4>1
      <4>6. QED
        BY <4>4, <4>5 DEF RowClosed
    <3>2. Final(w.conn)' = {}
      BY <2>1, <2>4 DEF Final, MeterInv, OneFinalWrite
    <3>3. life[w.conn] \notin {"new", "open"}
      BY <2>1, <2>4 DEF Final, MeterInv, OneFinalWrite
    <3>4. QED
      BY <2>1, <2>2, <3>1, <3>2, <3>3 DEF MeterInv, OneFinalWrite, FinalIsComing
  <2>5. CASE ~ w.final
    <3>1. Final(w.conn)' = Final(w.conn)
      BY <2>1, <2>5 DEF Final
    <3>2. RowClosed(w.conn)' <=> RowClosed(w.conn)
      BY <2>3, <2>5 DEF Upsert, RowClosed
    <3>3. QED
      BY <2>1, <2>2, <3>1, <3>2 DEF MeterInv, OneFinalWrite, FinalIsComing
  <2>6. QED
    BY <2>1, <2>4, <2>5
<1>7. ASSUME NEW w \in writes, WriteFails(w) PROVE Goal
  <2>1. /\ w.conn \in Conn /\ UNCHANGED <<life, subdomain, row>>
        /\ writes' = writes \ {w}
        /\ unbilled' = IF w.final THEN unbilled \cup {w.conn} ELSE unbilled
    BY <1>0, <1>7 DEF WriteFails, relayVars, lifeVars, Write
  <2>2. \A d \in Conn : /\ Final(d)' \subseteq Final(d)
                        /\ Final(d)' # Final(d) => d \in unbilled'
                        /\ RowClosed(d)' = RowClosed(d)
    BY <2>1 DEF Final, RowClosed
  <2>3. unbilled \subseteq unbilled'
    BY <2>1
  <2>4. QED
    BY <2>1, <2>2, <2>3 DEF MeterInv, OneFinalWrite, FinalIsComing
<1>8. ASSUME CrashDuringSync PROVE Goal
  <2>1. /\ UNCHANGED <<subdomain, row, writes>>
        /\ unbilled' = unbilled \cup {c \in Conn : life[c] \in {"open", "finalizing"}}
    BY <1>8 DEF CrashDuringSync
  <2>2. \A c \in Conn : life'[c] \in {"new", "gone"} /\ (life'[c] = "new" => life[c] = "new")
    BY <1>8 DEF CrashDuringSync, Crash, ServerDies
  <2>3. \A d \in Conn : Final(d)' = Final(d) /\ RowClosed(d)' = RowClosed(d)
    BY <2>1 DEF Final, RowClosed
  <2>4. QED
    BY <1>0, <2>1, <2>2, <2>3 DEF MeterInv, OneFinalWrite, FinalIsComing
<1>9. ASSUME UNCHANGED vars PROVE Goal
  BY <1>9, FinalUndisturbed DEF vars, relayVars, lifeVars, meterVars, Final
<1>10. QED
  BY <1>1, <1>2, <1>3, <1>4, <1>5, <1>6, <1>7, <1>8, <1>9 DEF Next

(* The invariant of the final writes holds in every reachable state.       *)
LEMMA MeterInvariant == Spec => []MeterInv
<1>1. Init => OneFinalWrite /\ FinalIsComing
  BY DEF Init, RelayInit, LifeInit, OneFinalWrite, FinalIsComing, Final, RowClosed
<1>2. TypeOK /\ RelayInv /\ OneFinalWrite /\ FinalIsComing /\ [Next]_vars
        => (OneFinalWrite /\ FinalIsComing)'
  BY FinalStep DEF MeterInv
<1>3. QED
  BY <1>1, <1>2, MeteringTypeCorrect, MeteredRelayInvariant, PTL DEF Spec, MeterInv

(* A close handler that is through leaves a closed row behind, unless its  *)
(* final write was lost: unregister waits for the write, and no late sync  *)
(* opens the row again.                                                    *)
THEOREM GoneIsAlwaysBilled == Spec => []GoneIsBilled
<1>1. MeterInv => GoneIsBilled
  BY DEF MeterInv, FinalIsComing, GoneIsBilled, RowClosed
<1>2. QED
  BY <1>1, MeterInvariant, PTL

(* Once a row is closed no write changes it: late syncs are turned away by *)
(* the condition of the upsert, and there is no second final write.        *)
THEOREM DisconnectedRowAlwaysStays == Spec => DisconnectedRowStays
<1>1. ASSUME MeterInv, [Next]_vars, NEW c \in Conn, row[c] # None, row[c].closed
      PROVE  row'[c] = row[c]
  <2>1. ASSUME NEW w \in writes, WriteApplied(w)
        PROVE  row'[c] = row[c]
    <3>1. row' = [row EXCEPT ![w.conn] = Upsert(row[w.conn], w)]
      BY <2>1 DEF WriteApplied
    <3>2. row \in [Conn -> {None} \cup Row]
      BY <1>1 DEF MeterInv, TypeOK
    <3>3. CASE w.conn = c
      <4>1. ~ w.final
        BY <1>1, <3>3 DEF MeterInv, OneFinalWrite, Final, RowClosed
      <4>2. QED
        BY <1>1, <3>1, <3>2, <3>3, <4>1 DEF Upsert
    <3>4. QED
      BY <3>1, <3>2, <3>3
  <2>2. CASE \/ RecordStep \/ SyncTick \/ CrashDuringSync \/ UNCHANGED vars
             \/ \E d \in Conn : SyncWrite(d) \/ CloseAndFinalize(d) \/ FinalizeReturns(d)
             \/ \E w \in writes : WriteFails(w)
    BY <2>2 DEF RecordStep, SyncTick, CrashDuringSync, SyncWrite, CloseAndFinalize,
       FinalizeReturns, WriteFails, vars, meterVars
  <2>3. QED
    BY <1>1, <2>1, <2>2 DEF Next
<1>2. MeterInv /\ [Next]_vars
        => [\A c \in Conn : row[c] # None /\ row[c].closed => row'[c] = row[c]]_vars
  BY <1>1
<1>3. QED
  BY <1>2, MeterInvariant, PTL DEF Spec, DisconnectedRowStays
=============================================================================
