------------------------- MODULE TunnelClient_proof -------------------------
(***************************************************************************)
(* Proofs about the CLI's end of a tunnel: its timers, its one socket, and *)
(* what is left of it after disconnect(), for any number of WebSocket      *)
(* objects and of attempts.                                                *)
(***************************************************************************)
EXTENDS TunnelClient, FiniteSetTheorems, TLAPS

(* Every step keeps every variable in its range; the count of attempts     *)
(* goes up only where it is below reconnectMaxAttempts.                    *)
LEMMA ClientTypesStep ==
  ASSUME TypeOK, [Next]_vars
  PROVE  TypeOK'
<1> USE ClientAssumption DEF TypeOK, States
<1>1. ASSUME NEW w \in Sock, SocketOpens(w)
      PROVE  TypeOK'
  BY <1>1 DEF SocketOpens, clientVars
<1>2. ASSUME NEW w \in Sock, Connected(w)
      PROVE  TypeOK'
  BY <1>2 DEF Connected
<1>3. ASSUME NEW w \in Sock, FatalError(w)
      PROVE  TypeOK'
  <2>1. exited' \in BOOLEAN
    BY <1>3 DEF FatalError, Rejected
  <2>2. QED
    BY <1>3, <2>1 DEF FatalError
<1>4. ASSUME NEW w \in Sock, ServerDisconnect(w)
      PROVE  TypeOK'
  BY <1>4 DEF ServerDisconnect, objectVars
<1>5. ASSUME NEW w \in Sock, SocketCloses(w)
      PROVE  TypeOK'
  <2>1. reconnectAttempts' \in 0..MaxAttempts
    BY <1>5 DEF SocketCloses, handleClose
  <2>2. /\ state' \in States /\ socket' \in Sock \cup {None}
        /\ reconnectTimer' \in BOOLEAN /\ exited' \in BOOLEAN
    BY <1>5 DEF SocketCloses, handleClose
  <2>3. QED
    BY <1>5, <2>1, <2>2 DEF SocketCloses, handleClose
<1>6. ASSUME NEW w \in Sock, ConnectTimesOut(w)
      PROVE  TypeOK'
  <2>1. exited' \in BOOLEAN
    BY <1>6 DEF ConnectTimesOut, Rejected
  <2>2. ready' \in [Sock -> {"FREE", "CONNECTING", "OPEN", "CLOSING"}]
    BY <1>6 DEF ConnectTimesOut, Closing
  <2>3. QED
    BY <1>6, <2>1, <2>2 DEF ConnectTimesOut, clientVars
<1>7. CASE Reconnect
  BY <1>7 DEF Reconnect, connect, objectVars
<1>8. CASE Signal
  BY <1>8 DEF Signal, disconnect, Closing
<1>9. CASE UNCHANGED vars
  BY <1>9 DEF vars, clientVars, objectVars
<1>10. QED
  BY <1>1, <1>2, <1>3, <1>4, <1>5, <1>6, <1>7, <1>8, <1>9 DEF Next

(* Every variable keeps its range; in particular attemptReconnect never    *)
(* counts past reconnectMaxAttempts.                                       *)
THEOREM ClientTypeCorrect == Spec => []TypeOK
<1>1. ASSUME Init PROVE TypeOK
  <2>1. ready \in [Sock -> {"FREE", "CONNECTING", "OPEN", "CLOSING"}]
    BY <1>1 DEF Init
  <2>2. connectTimeout \in [Sock -> BOOLEAN] /\ welcomed \in [Sock -> BOOLEAN]
    BY <1>1, Zenon DEF Init
  <2>3. /\ state = "connecting" /\ socket \in Sock /\ first = socket
        /\ reconnectAttempts = 0 /\ shouldReconnect = TRUE
        /\ heartbeatTimer = FALSE /\ reconnectTimer = FALSE
        /\ stopped = FALSE /\ exited = FALSE
    BY <1>1 DEF Init
  <2>4. 0 \in 0..MaxAttempts
    BY ClientAssumption
  <2>5. QED
    BY <2>1, <2>2, <2>3, <2>4, Zenon DEF TypeOK, States
<1>2. TypeOK /\ [Next]_vars => TypeOK'
  BY ClientTypesStep
<1>3. QED
  BY <1>1, <1>2, PTL DEF Spec

-----------------------------------------------------------------------------
(* Heartbeats                                                              *)

(* Heartbeats are sent exactly while the state is "connected": the         *)
(* "connected" message starts the timer with the state, a close and        *)
(* disconnect() stop it with the state, and connect() does not start while *)
(* it runs.                                                                *)
THEOREM HeartbeatExactlyWhileConnected == Spec => []HeartbeatWhileConnected
<1>1. Init => HeartbeatWhileConnected
  BY DEF Init, HeartbeatWhileConnected
<1>2. ASSUME TypeOK, HeartbeatWhileConnected, [Next]_vars
      PROVE  HeartbeatWhileConnected'
  <2> USE <1>2 DEF HeartbeatWhileConnected
  <2>1. ASSUME NEW w \in Sock, Connected(w)
        PROVE  HeartbeatWhileConnected'
    BY <2>1 DEF Connected
  <2>2. ASSUME NEW w \in Sock, SocketCloses(w)
        PROVE  HeartbeatWhileConnected'
    BY <2>2 DEF SocketCloses, handleClose
  <2>3. CASE Reconnect
    BY <2>3 DEF Reconnect, connect
  <2>4. CASE Signal
    BY <2>4 DEF Signal, disconnect
  <2>5. ASSUME NEW w \in Sock,
               SocketOpens(w) \/ FatalError(w) \/ ServerDisconnect(w) \/ ConnectTimesOut(w)
        PROVE  HeartbeatWhileConnected'
    BY <2>5 DEF SocketOpens, FatalError, ServerDisconnect, ConnectTimesOut, clientVars
  <2>6. CASE UNCHANGED vars
    BY <2>6 DEF vars, clientVars
  <2>7. QED
    BY <2>1, <2>2, <2>3, <2>4, <2>5, <2>6 DEF Next
<1>3. QED
  BY <1>1, <1>2, ClientTypeCorrect, PTL DEF Spec

-----------------------------------------------------------------------------
(* One socket                                                              *)

(* The sockets that are in use, closing ones included.                     *)
InUse == {w \in Sock : ready[w] # "FREE"}

(* OneSocket is not inductive: a reconnect is armed when a socket closes,  *)
(* and another one that was closing then could not be told from one that   *)
(* is on its way.  At most one socket is in use at all, and none while a   *)
(* reconnect is due.                                                       *)
OneInUse ==
  /\ \A v, w \in InUse : v = w
  /\ reconnectTimer => InUse = {}

(* No step but connect() takes a socket into use, and connect() runs when  *)
(* a reconnect was due.                                                    *)
LEMMA OneInUseStep ==
  ASSUME TypeOK, OneInUse, [Next]_vars
  PROVE  OneInUse'
<1> USE DEF TypeOK
<1>1. ASSUME InUse' \subseteq InUse, reconnectTimer' => reconnectTimer
      PROVE  OneInUse'
  BY <1>1 DEF OneInUse
<1>2. ASSUME NEW w \in Sock, SocketCloses(w)
      PROVE  OneInUse'
  <2>1. ready' = [ready EXCEPT ![w] = "FREE"] /\ w \in InUse
    BY <1>2 DEF SocketCloses, InUse
  <2>2. InUse' = InUse \ {w}
    BY <2>1 DEF InUse
  <2>3. QED
    BY <2>1, <2>2 DEF OneInUse
<1>3. CASE Reconnect
  <2>1. InUse = {} /\ ~ reconnectTimer'
    BY <1>3 DEF Reconnect, OneInUse
  <2>2. CASE UNCHANGED ready
    BY <2>1, <2>2 DEF OneInUse, InUse
  <2>3. ASSUME NEW w \in Sock, ready' = [ready EXCEPT ![w] = "CONNECTING"]
        PROVE  OneInUse'
    <3>1. InUse' = {w}
      BY <2>1, <2>3 DEF InUse
    <3>2. QED
      BY <2>1, <3>1 DEF OneInUse
  <2>4. QED
    BY <1>3, <2>2, <2>3 DEF Reconnect, connect, objectVars
<1>4. ASSUME NEW w \in Sock,
             \/ SocketOpens(w) \/ Connected(w) \/ FatalError(w)
             \/ ServerDisconnect(w) \/ ConnectTimesOut(w)
      PROVE  OneInUse'
  <2>1. InUse' \subseteq InUse
    BY <1>4 DEF InUse, SocketOpens, Connected, FatalError, ServerDisconnect,
       ConnectTimesOut, Closing, objectVars
  <2>2. UNCHANGED reconnectTimer
    BY <1>4 DEF SocketOpens, Connected, FatalError, ServerDisconnect,
       ConnectTimesOut, clientVars
  <2>3. QED
    BY <1>1, <2>1, <2>2
<1>5. CASE Signal
  <2>1. InUse' \subseteq InUse /\ ~ reconnectTimer'
    BY <1>5 DEF Signal, disconnect, Closing, InUse
  <2>2. QED
    BY <1>1, <2>1
<1>6. CASE UNCHANGED vars
  BY <1>1, <1>6 DEF vars, clientVars, objectVars, InUse
<1>7. QED
  BY <1>2, <1>3, <1>4, <1>5, <1>6 DEF Next

(* At most one socket is on its way or open, and none while a reconnect is *)
(* due, although callbacks of sockets the client has forgotten go on.      *)
THEOREM OneSocketAtATime == Spec => []OneSocket
<1>1. Init => OneInUse
  BY DEF Init, OneInUse, InUse
<1>2. OneInUse => OneSocket
  <2> DEFINE live == {w \in Sock : ready[w] \in {"CONNECTING", "OPEN"}}
  <2> SUFFICES ASSUME OneInUse
               PROVE  Cardinality(live) <= 1 /\ (reconnectTimer => live = {})
    BY DEF OneSocket
  <2>1. live \subseteq InUse
    BY DEF InUse
  <2>2. reconnectTimer => live = {}
    BY <2>1 DEF OneInUse
  <2>3. CASE live = {}
    BY <2>2, <2>3, FS_EmptySet
  <2>4. CASE live # {}
    <3>1. PICK w \in live : TRUE
      BY <2>4
    <3>2. live = {w}
      BY <2>1, <3>1 DEF OneInUse
    <3> HIDE DEF live
    <3>3. Cardinality(live) = 1
      BY <3>2, FS_Singleton
    <3>4. QED
      BY <2>2, <3>3
  <2>5. QED
    BY <2>3, <2>4
<1>3. QED
  BY <1>1, <1>2, OneInUseStep, ClientTypeCorrect, PTL DEF Spec

-----------------------------------------------------------------------------
(* After disconnect()                                                      *)

(* What disconnect() leaves: connect() alone sets shouldReconnect again,   *)
(* and it runs only where shouldReconnect is set.                          *)
StoppedForGood == stopped => ~ shouldReconnect

(* No step of a stopped client sets shouldReconnect again.                 *)
LEMMA StoppedStep ==
  ASSUME TypeOK, StoppedForGood, [Next]_vars
  PROVE  StoppedForGood' /\ (stopped => \A w \in Sock :
           ready'[w] = "CONNECTING" => ready[w] = "CONNECTING")
<1> USE DEF TypeOK, StoppedForGood
<1> DEFINE Goal == StoppedForGood' /\ (stopped => \A w \in Sock :
                     ready'[w] = "CONNECTING" => ready[w] = "CONNECTING")
<1>1. ASSUME NEW w \in Sock,
             SocketOpens(w) \/ Connected(w) \/ FatalError(w) \/ ServerDisconnect(w)
      PROVE  Goal
  BY <1>1 DEF SocketOpens, Connected, FatalError, ServerDisconnect,
     clientVars, objectVars
<1>2. ASSUME NEW w \in Sock, SocketCloses(w)
      PROVE  Goal
  BY <1>2 DEF SocketCloses, handleClose
<1>3. ASSUME NEW w \in Sock, ConnectTimesOut(w)
      PROVE  Goal
  BY <1>3 DEF ConnectTimesOut, Closing, clientVars
<1>4. CASE Reconnect
  BY <1>4 DEF Reconnect, connect, objectVars
<1>5. CASE Signal
  BY <1>5 DEF Signal, disconnect, Closing
<1>6. CASE UNCHANGED vars
  BY <1>6 DEF vars, clientVars, objectVars
<1>7. QED
  BY <1>1, <1>2, <1>3, <1>4, <1>5, <1>6 DEF Next

(* After disconnect() no socket is opened any more, whatever reconnect or  *)
(* connection was in progress.                                             *)
THEOREM NoAttemptOnceStopped == Spec => NoAttemptAfterStop
<1>1. Init => StoppedForGood
  BY DEF Init, StoppedForGood
<1>2. ASSUME TypeOK, StoppedForGood, [Next]_vars
      PROVE  /\ StoppedForGood'
             /\ [stopped => \A w \in Sock :
                   ready'[w] = "CONNECTING" => ready[w] = "CONNECTING"]_vars
  BY <1>2, StoppedStep
<1>3. QED
  BY <1>1, <1>2, ClientTypeCorrect, PTL DEF Spec, NoAttemptAfterStop
=============================================================================
