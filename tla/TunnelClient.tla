---------------------------- MODULE TunnelClient ----------------------------
(***************************************************************************)
(* The CLI's end of a tunnel: the TunnelClient class of                    *)
(* packages/cli/src/tunnel-client.ts, driven by `liveport connect` (and    *)
(* `liveport share`): one call of connect() at the start, disconnect() on  *)
(* SIGINT or SIGTERM, process.exit on "disconnected" or when that first    *)
(* connect() is rejected.                                                  *)
(*                                                                         *)
(* A step is one callback: a socket event, a timer, a message, a signal.   *)
(* The callbacks of a WebSocket object go on after this.socket has         *)
(* stopped pointing at it; a step takes the object w they belong to.  An   *)
(* object that closed may stand for a later one.                           *)
(***************************************************************************)
EXTENDS Naturals, FiniteSets

CONSTANTS
  Sock,         \* WebSocket objects
  None,
  MaxAttempts   \* config.reconnectMaxAttempts

ASSUME ClientAssumption ==
  /\ None \notin Sock
  /\ MaxAttempts \in Nat \ {0}

VARIABLES
  state,            \* this.state
  socket,           \* this.socket
  shouldReconnect,
  reconnectAttempts,
  heartbeatTimer,   \* armed
  reconnectTimer,   \* armed
  ready,            \* ready[w]: readyState; "FREE": not in use
  connectTimeout,   \* connectTimeout[w]: the 30 s timer of connect() armed
  welcomed,         \* welcomed[w]: the server sent "connected" on w
  first,            \* the socket of the call the command awaits
  stopped,          \* a signal has called disconnect()
  exited            \* the process is gone

objectVars == <<ready, connectTimeout, welcomed>>
clientVars == <<state, socket, shouldReconnect, reconnectAttempts,
                heartbeatTimer, reconnectTimer>>
vars == <<clientVars, objectVars, first, stopped, exited>>

States == {"disconnected", "connecting", "connected", "reconnecting", "failed"}

(* Every variable has its declared range; in particular the attempts stay  *)
(* within reconnectMaxAttempts.                                            *)
TypeOK ==
  /\ state \in States
  /\ socket \in Sock \cup {None}
  /\ shouldReconnect \in BOOLEAN
  /\ reconnectAttempts \in 0..MaxAttempts
  /\ heartbeatTimer \in BOOLEAN
  /\ reconnectTimer \in BOOLEAN
  /\ ready \in [Sock -> {"FREE", "CONNECTING", "OPEN", "CLOSING"}]
  /\ connectTimeout \in [Sock -> BOOLEAN]
  /\ welcomed \in [Sock -> BOOLEAN]
  /\ first \in Sock \cup {None}
  /\ stopped \in BOOLEAN
  /\ exited \in BOOLEAN

-----------------------------------------------------------------------------
(* connect() that starts from "disconnected" alone.                        *)
connectFromDisconnected(w) ==
  /\ state = "disconnected"
  /\ ready[w] = "FREE"
  /\ state' = "connecting"
  /\ socket' = w
  /\ ready' = [ready EXCEPT ![w] = "CONNECTING"]
  /\ connectTimeout' = [connectTimeout EXCEPT ![w] = TRUE]
  /\ UNCHANGED <<shouldReconnect, welcomed>>

(* connect(): the guard, then a new WebSocket.                             *)
connect(w) ==
  \/ /\ state \in {"connected", "connecting"}
     /\ UNCHANGED <<state, shouldReconnect, socket, objectVars>>
  \/ /\ state \notin {"connected", "connecting"}
     /\ ready[w] = "FREE"
     /\ state' = "connecting"
     /\ shouldReconnect' = TRUE
     /\ socket' = w
     /\ ready' = [ready EXCEPT ![w] = "CONNECTING"]
     /\ connectTimeout' = [connectTimeout EXCEPT ![w] = TRUE]
     /\ UNCHANGED welcomed

(* The command has called connect().                                       *)
Init ==
  /\ state = "connecting"
  /\ shouldReconnect = TRUE
  /\ reconnectAttempts = 0
  /\ heartbeatTimer = FALSE
  /\ reconnectTimer = FALSE
  /\ socket \in Sock
  /\ ready = [w \in Sock |-> IF w = socket THEN "CONNECTING" ELSE "FREE"]
  /\ connectTimeout = [w \in Sock |-> w = socket]
  /\ welcomed = [w \in Sock |-> FALSE]
  /\ first = socket
  /\ stopped = FALSE
  /\ exited = FALSE

(* The promise of w's connect() is rejected.  The command awaits the first *)
(* one and exits; a reconnect ignores it.                                  *)
Rejected(w) == exited' = (first = w)

(* ws: close() on a socket that is connecting or open.                     *)
Closing(w) == [ready EXCEPT ![w] = IF @ = "FREE" THEN @ ELSE "CLOSING"]

-----------------------------------------------------------------------------
(* Socket events                                                           *)

SocketOpens(w) ==
  /\ ~ exited
  /\ ready[w] = "CONNECTING"
  /\ ready' = [ready EXCEPT ![w] = "OPEN"]
  /\ UNCHANGED <<clientVars, connectTimeout, welcomed, first, stopped, exited>>

(* A "connected" message.                                                  *)
Connected(w) ==
  /\ ~ exited
  /\ ready[w] \in {"OPEN", "CLOSING"} /\ ~ welcomed[w]
  /\ welcomed' = [welcomed EXCEPT ![w] = TRUE]
  /\ connectTimeout' = [connectTimeout EXCEPT ![w] = FALSE]
  /\ state' = "connected"
  /\ reconnectAttempts' = 0
  /\ heartbeatTimer' = TRUE
  /\ first' = IF first = w THEN None ELSE first
  /\ UNCHANGED <<socket, shouldReconnect, reconnectTimer, ready, stopped, exited>>

(* An "error" message that is fatal.                                       *)
FatalError(w) ==
  /\ ~ exited
  /\ ready[w] \in {"OPEN", "CLOSING"}
  /\ connectTimeout' = [connectTimeout EXCEPT ![w] = FALSE]
  /\ shouldReconnect' = FALSE
  /\ IF state = "connecting" THEN Rejected(w) ELSE UNCHANGED exited
  /\ UNCHANGED <<state, socket, reconnectAttempts, heartbeatTimer,
                 reconnectTimer, ready, welcomed, first, stopped>>

(* A "disconnect" message that starts the next attempt at once.            *)
ServerDisconnectRetrying(w) ==
  /\ ~ exited
  /\ ready[w] = "OPEN"
  /\ state = "connected"
  /\ state' = "reconnecting"
  /\ heartbeatTimer' = FALSE
  /\ reconnectTimer' = TRUE
  /\ UNCHANGED <<socket, shouldReconnect, reconnectAttempts, objectVars,
                 first, stopped, exited>>

(* A "disconnect" message.                                                 *)
ServerDisconnect(w) ==
  /\ ~ exited
  /\ ready[w] \in {"OPEN", "CLOSING"}
  /\ shouldReconnect
  /\ shouldReconnect' = FALSE
  /\ UNCHANGED <<state, socket, reconnectAttempts, heartbeatTimer,
                 reconnectTimer, objectVars, first, stopped, exited>>

(* The heartbeat timer survives the connection.                            *)
CloseKeepingHeartbeat ==
  /\ socket' = None
  /\ state' = "disconnected"
  /\ exited' = ~ shouldReconnect
  /\ UNCHANGED <<shouldReconnect, reconnectAttempts, heartbeatTimer, reconnectTimer>>

(* Every close is retried, whatever came before it.                        *)
CloseRetryingAlways ==
  /\ heartbeatTimer' = FALSE
  /\ socket' = None
  /\ reconnectAttempts' = reconnectAttempts + 1
  /\ state' = "reconnecting"
  /\ reconnectTimer' = TRUE
  /\ UNCHANGED <<shouldReconnect, exited>>

(* handleClose and attemptReconnect: whatever socket closed, the client    *)
(* forgets the one it has, and tries again only if it was connected.       *)
handleClose ==
  /\ heartbeatTimer' = FALSE
  /\ socket' = None
  /\ \/ /\ shouldReconnect /\ state = "connected"
        /\ reconnectAttempts < MaxAttempts
        /\ reconnectAttempts' = reconnectAttempts + 1
        /\ state' = "reconnecting"
        /\ reconnectTimer' = TRUE
        /\ UNCHANGED exited
     \/ /\ shouldReconnect /\ state = "connected"
        /\ reconnectAttempts >= MaxAttempts
        /\ state' = "failed"
        /\ exited' = TRUE
        /\ UNCHANGED <<reconnectAttempts, reconnectTimer>>
     \/ /\ ~ (shouldReconnect /\ state = "connected")
        /\ state' = "disconnected"
        /\ exited' = TRUE
        /\ UNCHANGED <<reconnectAttempts, reconnectTimer>>
  /\ UNCHANGED shouldReconnect

(* "close", after an "error" or not (which makes no difference here: the   *)
(* rejection it brings comes after the process has exited, or is ignored). *)
SocketCloses(w) ==
  /\ ~ exited
  /\ ready[w] # "FREE"
  /\ ready' = [ready EXCEPT ![w] = "FREE"]
  /\ connectTimeout' = [connectTimeout EXCEPT ![w] = FALSE]
  /\ welcomed' = [welcomed EXCEPT ![w] = FALSE]
  /\ handleClose
  /\ UNCHANGED <<first, stopped>>

-----------------------------------------------------------------------------
(* Timers                                                                  *)

(* The 30 s of connect() are over: close the socket the client has now.    *)
ConnectTimesOut(w) ==
  /\ ~ exited
  /\ connectTimeout[w]
  /\ connectTimeout' = [connectTimeout EXCEPT ![w] = FALSE]
  /\ \/ /\ state = "connecting"
        /\ ready' = IF socket = None THEN ready ELSE Closing(socket)
        /\ Rejected(w)
     \/ /\ state # "connecting"
        /\ UNCHANGED <<ready, exited>>
  /\ UNCHANGED <<clientVars, welcomed, first, stopped>>

Reconnect ==
  /\ ~ exited
  /\ reconnectTimer
  /\ reconnectTimer' = FALSE
  /\ \/ /\ ~ shouldReconnect
        /\ UNCHANGED <<state, shouldReconnect, socket, objectVars>>
     \/ /\ shouldReconnect
        /\ \E w \in Sock : connect(w)
  /\ UNCHANGED <<reconnectAttempts, heartbeatTimer, first, stopped, exited>>

-----------------------------------------------------------------------------
(* The user                                                                *)

(* disconnect() that forgets the reconnect in progress.                    *)
disconnectKeepingReconnect ==
  /\ heartbeatTimer' = FALSE
  /\ ready' = IF socket # None /\ ready[socket] = "OPEN"
              THEN Closing(socket) ELSE ready
  /\ state' = "disconnected"
  /\ socket' = None
  /\ UNCHANGED <<shouldReconnect, reconnectAttempts, reconnectTimer>>

(* disconnect(): only an open socket is closed.                            *)
disconnect ==
  /\ shouldReconnect' = FALSE
  /\ heartbeatTimer' = FALSE
  /\ reconnectTimer' = FALSE
  /\ ready' = IF socket # None /\ ready[socket] = "OPEN"
              THEN Closing(socket) ELSE ready
  /\ state' = "disconnected"
  /\ socket' = None
  /\ UNCHANGED reconnectAttempts

Signal ==
  /\ ~ exited
  /\ ~ stopped
  /\ stopped' = TRUE
  /\ disconnect
  /\ UNCHANGED <<connectTimeout, welcomed, first, exited>>

Next ==
  \/ \E w \in Sock :
       \/ SocketOpens(w) \/ Connected(w) \/ FatalError(w)
       \/ ServerDisconnect(w) \/ SocketCloses(w) \/ ConnectTimesOut(w)
  \/ Reconnect
  \/ Signal

(* Timers fire, and a socket that is being closed closes.  So does one on  *)
(* which no heartbeat is sent: the server closes it after 30 s.            *)
Fairness ==
  /\ WF_vars(Reconnect)
  /\ \A w \in Sock :
       /\ WF_vars(ConnectTimesOut(w))
       /\ WF_vars((ready[w] = "CLOSING" \/ socket # w) /\ SocketCloses(w))

Spec == Init /\ [][Next]_vars /\ Fairness

-----------------------------------------------------------------------------
(* Properties                                                              *)

(* Heartbeats are sent exactly while the client takes itself for connected:*)
(* the server would close a tunnel without them, and a timer left behind   *)
(* would speak for the next tunnel.                                        *)
HeartbeatWhileConnected == heartbeatTimer <=> state = "connected"

(* One attempt at a time: at most one socket is on its way or open, and no *)
(* reconnect is due while there is one.                                    *)
OneSocket ==
  LET live == {w \in Sock : ready[w] \in {"CONNECTING", "OPEN"}}
  IN  /\ Cardinality(live) <= 1
      /\ reconnectTimer => live = {}

(* After disconnect() no new connection is made, whatever was in progress. *)
NoAttemptAfterStop ==
  [][stopped => \A w \in Sock : ready'[w] = "CONNECTING" => ready[w] = "CONNECTING"]_vars

(* A client that is told to stop stops: the process exits, or has nothing  *)
(* left to do (no socket and no timer).                                    *)
StopEnds ==
  stopped ~> exited \/ /\ \A w \in Sock : ready[w] = "FREE" /\ ~ connectTimeout[w]
                       /\ ~ heartbeatTimer /\ ~ reconnectTimer

(* A lost tunnel is tried again: the client never gets stuck between two   *)
(* attempts.                                                               *)
LostTunnelIsRetried == state = "reconnecting" ~> state # "reconnecting"

(* A reconnect that fails is retried until reconnectMaxAttempts.           *)
RetriesUntilMax ==
  exited /\ ~ stopped /\ shouldReconnect /\ reconnectAttempts > 0
    => reconnectAttempts = MaxAttempts
=============================================================================
