------------------------------ MODULE McpServer ------------------------------
(***************************************************************************)
(* The MCP server of an AI agent session over the agent SDK, for one local *)
(* port: activeTunnels and inFlightConnects have at most one entry per     *)
(* port, and ports share nothing.  A connect call makes at most one agent, *)
(* so calls, agents, sockets and connect promises have the same names.     *)
(*                                                                         *)
(* A tool runs to its next network wait in one step: the awaits between    *)
(* (a prune, a disconnect) settle in the same turn of the event loop.  The *)
(* server of the tunnels is external: it answers a socket or not.          *)
(***************************************************************************)
EXTENDS Naturals, FiniteSets

CONSTANTS
  Calls,   \* connect calls on the port
  NoCall   \* no entry in a map

ASSUME McpAssumption == IsFiniteSet(Calls) /\ NoCall \notin Calls

VARIABLES
  active,     \* activeTunnels.get(port)
  inFlight,   \* inFlightConnects.get(port)
  call,       \* connect calls: "new", "waiting", "own" or "returned"
  waitsFor,   \* the attempt whose promise a waiting call shares
  socket,     \* "none", "connecting", "open", "closing", "aborted" or "closed"
  attached,   \* agents whose wsConnection is their socket
  promise,    \* "none", "pending", "resolved" or "rejected"
  served,     \* sockets for which the server has a tunnel
  expired,    \* tunnels past their expiresAt
  probe,      \* attempt whose tunnelId a disconnect call is probing for
  exited,     \* the process has exited
  retried,    \* history: a shared attempt failed for two waiting calls or more
  dropped     \* history: a pending attempt was disconnected

mapVars == <<active, inFlight>>
callVars == <<call, waitsFor>>
sdkVars == <<socket, attached, promise>>
mcpVars == <<mapVars, callVars, sdkVars, served, expired, probe, exited, retried, dropped>>

Entries == Calls \cup {NoCall}

McpTypeOK ==
  /\ active \in Entries /\ inFlight \in Entries /\ probe \in Entries
  /\ call \in [Calls -> {"new", "waiting", "own", "returned"}]
  /\ waitsFor \in [Calls -> Entries]
  /\ socket \in [Calls -> {"none", "connecting", "open", "closing", "aborted", "closed"}]
  /\ promise \in [Calls -> {"none", "pending", "resolved", "rejected"}]
  /\ attached \subseteq Calls /\ served \subseteq Calls /\ expired \subseteq Calls
  /\ exited \in BOOLEAN /\ retried \in BOOLEAN /\ dropped \in BOOLEAN

McpInit ==
  /\ active = NoCall /\ inFlight = NoCall /\ probe = NoCall
  /\ call = [c \in Calls |-> "new"]
  /\ waitsFor = [c \in Calls |-> NoCall]
  /\ socket = [c \in Calls |-> "none"]
  /\ promise = [c \in Calls |-> "none"]
  /\ attached = {} /\ served = {} /\ expired = {}
  /\ exited = FALSE /\ retried = FALSE /\ dropped = FALSE

Unexpired(c) == c # NoCall /\ c \notin expired

\* close() of sockets: an open one begins to close, an opening one is given up.
Closing(sock, agents) ==
  [c \in Calls |-> IF c \notin agents THEN sock[c]
                   ELSE CASE sock[c] = "open" -> "closing"
                          [] sock[c] = "connecting" -> "aborted"
                          [] OTHER -> sock[c]]

\* disconnect() of agents: their reference goes, an open or opening socket closes.
Disconnect(agents) ==
  /\ socket' = Closing(socket, agents \cap attached)
  /\ attached' = attached \ agents

\* pruneExpiredTunnels, which every tool awaits first.
Stale == IF active \in expired THEN {active} ELSE {}
Pruned == IF active \in expired THEN NoCall ELSE active

-----------------------------------------------------------------------------
\* liveport_connect: a live entry is returned,
ConnectReturnsActive(c) ==
  /\ call[c] = "new" /\ Unexpired(active)
  /\ call' = [call EXCEPT ![c] = "returned"]
  /\ UNCHANGED <<mapVars, waitsFor, sdkVars, served, expired, probe, exited, retried, dropped>>

\* an attempt in flight is shared,
ConnectShares(c) ==
  /\ call[c] = "new" /\ ~Unexpired(active) /\ inFlight # NoCall
  /\ active' = Pruned /\ Disconnect(Stale)
  /\ call' = [call EXCEPT ![c] = "waiting"]
  /\ waitsFor' = [waitsFor EXCEPT ![c] = inFlight]
  /\ UNCHANGED <<inFlight, promise, served, expired, probe, exited, retried, dropped>>

\* (without a look at the attempts in flight:)
ConnectStartsUnguarded(c) ==
  /\ call[c] = "new" /\ ~Unexpired(active)
  /\ active' = Pruned
  /\ inFlight' = c
  /\ call' = [call EXCEPT ![c] = "own"]
  /\ promise' = [promise EXCEPT ![c] = "pending"]
  /\ socket' = [Closing(socket, Stale \cap attached) EXCEPT ![c] = "connecting"]
  /\ attached' = (attached \ Stale) \cup {c}
  /\ UNCHANGED <<waitsFor, served, expired, probe, exited, retried, dropped>>

\* and else the call makes an agent and enters its attempt in the map.
ConnectStarts(c) ==
  /\ call[c] = "new" /\ ~Unexpired(active) /\ inFlight = NoCall
  /\ active' = Pruned
  /\ inFlight' = c
  /\ call' = [call EXCEPT ![c] = "own"]
  /\ promise' = [promise EXCEPT ![c] = "pending"]
  /\ socket' = [Closing(socket, Stale \cap attached) EXCEPT ![c] = "connecting"]
  /\ attached' = (attached \ Stale) \cup {c}
  /\ UNCHANGED <<waitsFor, served, expired, probe, exited, retried, dropped>>

-----------------------------------------------------------------------------
Waiters(a) == {c \in Calls : call[c] = "waiting" /\ waitsFor[c] = a}

\* No finally.
KeepAny(a) == inFlight

\* The finally of attempt a: its own entry is deleted, a later one is kept.
KeepOther(a) == IF inFlight = a THEN NoCall ELSE inFlight

\* Attempt a resolves: it becomes the active tunnel, and the calls that wait for
\* it return.  A disconnect that probes for its tunnelId finds it, disconnects
\* the agent and looks at inFlightConnects only: the new active entry stays.
Resolve(a) ==
  /\ promise[a] = "pending"
  /\ promise' = [promise EXCEPT ![a] = "resolved"]
  /\ active' = a
  /\ inFlight' = KeepOther(a)
  /\ call' = [c \in Calls |-> IF c = a \/ c \in Waiters(a) THEN "returned" ELSE call[c]]
  /\ IF probe = a THEN Disconnect({a}) /\ probe' = NoCall
                  ELSE UNCHANGED <<socket, attached, probe>>
  /\ UNCHANGED <<waitsFor, expired, exited, retried, dropped>>

\* Attempt a rejects, with the sockets and agents given: every call that waited
\* for it starts an attempt of its own, the last one of them stays in the map.
Reject(a, sock, agents) ==
  LET W == Waiters(a) IN
  /\ promise' = [c \in Calls |-> IF c = a THEN "rejected"
                                 ELSE IF c \in W THEN "pending" ELSE promise[c]]
  /\ call' = [c \in Calls |-> IF c = a THEN "returned"
                              ELSE IF c \in W THEN "own" ELSE call[c]]
  /\ socket' = [c \in Calls |-> IF c \in W THEN "connecting" ELSE sock[c]]
  /\ attached' = (agents \ {a}) \cup W
  /\ inFlight' \in IF W = {} THEN {KeepOther(a)} ELSE W
  /\ retried' = (retried \/ Cardinality(W) > 1)
  /\ probe' = IF probe = a THEN NoCall ELSE probe
  /\ UNCHANGED <<active, waitsFor, expired, exited, dropped>>

-----------------------------------------------------------------------------
\* The SDK's socket: the server accepts it,
SocketOpens(a) ==
  /\ socket[a] = "connecting"
  /\ socket' = [socket EXCEPT ![a] = "open"]
  /\ UNCHANGED <<mapVars, callVars, attached, promise, served, expired, probe, exited, retried, dropped>>

\* sends "connected", which a socket that is closing still receives,
ServerConnects(a) ==
  /\ socket[a] \in {"open", "closing"} /\ a \notin served
  /\ Resolve(a)
  /\ served' = IF socket[a] = "open" THEN served \cup {a} ELSE served

\* or a fatal error: the promise rejects, and the catch of the tool disconnects.
ServerRefuses(a) ==
  /\ socket[a] \in {"open", "closing"} /\ promise[a] = "pending"
  /\ Reject(a, Closing(socket, {a} \cap attached), attached)
  /\ UNCHANGED served

\* A timer that is cleared when the socket opens.
TimeoutBeforeOpen(a) ==
  /\ promise[a] = "pending" /\ socket[a] = "connecting"
  /\ Reject(a, Closing(socket, {a}), attached)
  /\ UNCHANGED served

\* The timer closes the socket and rejects.
ConnectTimeout(a) ==
  /\ promise[a] = "pending"
  /\ Reject(a, Closing(socket, {a}), attached)
  /\ UNCHANGED served

\* The socket closes, or fails: a pending promise rejects.  A tunnel of the maps
\* stays there: nothing listens for the close of an active tunnel.
SocketCloses(a) ==
  /\ socket[a] \notin {"none", "closed"}
  /\ served' = served \ {a}
  /\ \/ /\ promise[a] = "pending"
        /\ Reject(a, [socket EXCEPT ![a] = "closed"], attached)
     \/ /\ promise[a] # "pending"
        /\ socket' = [socket EXCEPT ![a] = "closed"]
        /\ attached' = attached \ {a}
        /\ UNCHANGED <<mapVars, callVars, promise, expired, probe, exited, retried, dropped>>

TunnelExpires(a) ==
  /\ promise[a] = "resolved" /\ a \notin expired
  /\ expired' = expired \cup {a}
  /\ UNCHANGED <<mapVars, callVars, sdkVars, served, probe, exited, retried, dropped>>

-----------------------------------------------------------------------------
\* list, get_tunnel_url and status prune and then only read.
ReadTools ==
  /\ active \in expired
  /\ active' = NoCall /\ Disconnect({active})
  /\ UNCHANGED <<inFlight, callVars, promise, served, expired, probe, exited, retried, dropped>>

\* liveport_disconnect by port, or by the tunnelId of the active tunnel.
DisconnectActive ==
  /\ Unexpired(active)
  /\ Disconnect({active}) /\ active' = NoCall
  /\ UNCHANGED <<inFlight, callVars, promise, served, expired, probe, exited, retried, dropped>>

\* By port while the attempt is in flight: the entry goes, the promise settles later.
DisconnectPending ==
  /\ ~Unexpired(active) /\ inFlight # NoCall
  /\ active' = Pruned
  /\ Disconnect(Stale \cup {inFlight})
  /\ inFlight' = NoCall
  /\ dropped' = TRUE
  /\ UNCHANGED <<callVars, promise, served, expired, probe, exited, retried>>

\* By tunnelId while the attempt is in flight: probed for 25 ms.
ProbeStarts ==
  /\ inFlight # NoCall /\ probe = NoCall
  /\ active' = Pruned /\ Disconnect(Stale)
  /\ probe' = inFlight /\ dropped' = TRUE
  /\ UNCHANGED <<inFlight, callVars, promise, served, expired, exited, retried>>

ProbeEnds ==
  /\ probe # NoCall
  /\ probe' = NoCall
  /\ UNCHANGED <<mapVars, callVars, sdkVars, served, expired, exited, retried, dropped>>

\* SIGINT or SIGTERM: the agents of both maps are disconnected, the process exits
\* and the rest of its sockets with it.
Shutdown ==
  /\ exited' = TRUE
  /\ socket' = [c \in Calls |-> IF socket[c] = "none" THEN "none" ELSE "closed"]
  /\ attached' = attached \ {active, inFlight}
  /\ served' = {}
  /\ UNCHANGED <<mapVars, callVars, promise, expired, probe, retried, dropped>>

McpNext ==
  /\ ~exited
  /\ \/ \E c \in Calls : ConnectReturnsActive(c) \/ ConnectShares(c) \/ ConnectStarts(c)
     \/ \E a \in Calls : \/ SocketOpens(a) \/ ServerConnects(a) \/ ServerRefuses(a)
                         \/ ConnectTimeout(a) \/ SocketCloses(a) \/ TunnelExpires(a)
     \/ ReadTools \/ DisconnectActive \/ DisconnectPending
     \/ ProbeStarts \/ ProbeEnds \/ Shutdown

\* A timer fires; nothing is assumed of the server.
McpFairness == \A a \in Calls : WF_mcpVars(~exited /\ ConnectTimeout(a))

McpSpec == McpInit /\ [][McpNext]_mcpVars /\ McpFairness

-----------------------------------------------------------------------------
\* The in-flight map holds pending attempts only: a call never waits for a
\* promise that was settled before it came (mcp/src/index.ts, the finally).
InFlightIsPending == inFlight # NoCall => promise[inFlight] = "pending"

\* The guards keep a port to one tunnel, unless two calls shared an attempt that
\* failed, each of which then starts its own, or a pending attempt was
\* disconnected: its "connected" may still be on its way.
OneTunnelPerPort ==
  ~retried /\ ~dropped =>
    /\ \A a, b \in Calls : promise[a] = "pending" /\ promise[b] = "pending" => a = b
    /\ \A a \in served : socket[a] = "open" => a = active

\* Every connect call returns: shared or not, its attempt resolves or rejects
\* at its timer at the latest.
EveryCallReturns ==
  \A c \in Calls : call[c] \in {"waiting", "own"} ~> (call[c] = "returned" \/ exited)
=============================================================================
