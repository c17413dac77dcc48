------------------------------- MODULE Shutdown -------------------------------
(***************************************************************************)
(* The shutdown of the tunnel server (index.ts): a handler runs for every  *)
(* SIGTERM and SIGINT, syncs the tunnels it finds, closes their sockets    *)
(* and the server, and exits when every connection has ended or after 10   *)
(* seconds.  What counts is the traffic from before the first signal; a    *)
(* write of the periodic sync may still be on its way when that comes.     *)
(*                                                                         *)
(* client[c] is where the server stands with CLI connection c:             *)
(*   accepted    the handshake is under way                                *)
(*   registered  in the maps, its socket open                              *)
(*   closing     the same, the handler has closed the socket               *)
(*   finalizing  its socket has closed, the final write is awaited, and it *)
(*               is in the maps until that returns                         *)
(***************************************************************************)
EXTENDS Naturals, FiniteSets

CONSTANTS
  Signals,    \* signals received, each of which runs the handler
  Clients,    \* CLI connections
  NoSignal,   \* no signal's handler
  MaxTraffic  \* bound: requests counted for a tunnel

ASSUME ShutdownAssumption == NoSignal \notin Signals /\ MaxTraffic \in Nat

VARIABLES
  handler,    \* per signal: "idle", "syncing" or "closing"
  snapshot,   \* per signal: getAll() when it came
  toWrite,    \* per signal: tunnels its sync has not written yet
  closer,     \* the signal whose handler closed wsServer, or NoSignal: it listens
  client,     \* see above
  public,     \* a public connection is open: it ends when its peer likes
  counted,    \* requestCount of each tunnel
  final,      \* the count its close handler read
  row,        \* the count in its row
  rowClosed,  \* tunnels whose row has disconnected_at
  periodic,   \* writes of the periodic sync on their way: a tunnel and a count
  failed,     \* history: tunnels a shutdown sync failed to write
  setBack,    \* history: tunnels whose row a periodic write set back
  exitedBy    \* the signal whose handler exited the process, or NoSignal

handlerVars == <<handler, snapshot, toWrite, closer>>
saveVars == <<row, rowClosed, failed, setBack>>
trafficVars == <<counted, final, periodic>>
shutdownVars == <<handlerVars, client, public, trafficVars, saveVars, exitedBy>>

Count == 0 .. MaxTraffic

ShutdownTypeOK ==
  /\ handler \in [Signals -> {"idle", "syncing", "closing"}]
  /\ snapshot \in [Signals -> SUBSET Clients]
  /\ toWrite \in [Signals -> SUBSET Clients]
  /\ client \in [Clients -> {"absent", "accepted", "registered", "closing", "finalizing", "gone"}]
  /\ counted \in [Clients -> Count] /\ final \in [Clients -> Count]
  /\ row \in [Clients -> Count]
  /\ periodic \subseteq Clients \X Count
  /\ rowClosed \subseteq Clients /\ failed \subseteq Clients /\ setBack \subseteq Clients
  /\ public \in BOOLEAN
  /\ closer \in Signals \cup {NoSignal} /\ exitedBy \in Signals \cup {NoSignal}

ShutdownInit ==
  /\ handler = [s \in Signals |-> "idle"]
  /\ snapshot = [s \in Signals |-> {}] /\ toWrite = [s \in Signals |-> {}]
  /\ client = [c \in Clients |-> "absent"]
  /\ counted = [c \in Clients |-> 0] /\ final = [c \in Clients |-> 0]
  /\ row = [c \in Clients |-> 0] /\ rowClosed = {} /\ periodic = {}
  /\ public = TRUE /\ failed = {} /\ setBack = {}
  /\ closer = NoSignal /\ exitedBy = NoSignal

\* The tunnels in the maps.
Registered == {c \in Clients : client[c] \in {"registered", "closing", "finalizing"}}
Signalled == \E s \in Signals : handler[s] # "idle"

-----------------------------------------------------------------------------
\* Connections are accepted until the server is closed; one that was accepted
\* before may still be registered.
Accept(c) ==
  /\ client[c] = "absent" /\ closer = NoSignal
  /\ client' = [client EXCEPT ![c] = "accepted"]
  /\ UNCHANGED <<handlerVars, public, trafficVars, saveVars, exitedBy>>

Register(c) ==
  /\ client[c] = "accepted"
  /\ client' = [client EXCEPT ![c] = "registered"]
  /\ UNCHANGED <<handlerVars, public, trafficVars, saveVars, exitedBy>>

\* A request is counted; for a tunnel whose socket has closed already when the
\* answer comes over the next tunnel of its CLI.
CarryTraffic(c) ==
  /\ c \in Registered /\ ~Signalled /\ counted[c] < MaxTraffic
  /\ counted' = [counted EXCEPT ![c] = @ + 1]
  /\ UNCHANGED <<handlerVars, client, public, final, periodic, saveVars, exitedBy>>

\* A socket ends, by itself or because it was closed.  The close handler reads
\* the count of a registered tunnel and begins the final write.
SocketEnds(c) ==
  /\ \/ /\ client[c] = "accepted"
        /\ client' = [client EXCEPT ![c] = "gone"]
        /\ UNCHANGED final
     \/ /\ client[c] \in {"registered", "closing"}
        /\ client' = [client EXCEPT ![c] = "finalizing"]
        /\ final' = [final EXCEPT ![c] = counted[c]]
  /\ UNCHANGED <<handlerVars, public, counted, periodic, saveVars, exitedBy>>

\* The final write closes the row, or fails, and the tunnel is unregistered.
FinalWrite(c) ==
  /\ client[c] = "finalizing"
  /\ client' = [client EXCEPT ![c] = "gone"]
  /\ \/ /\ row' = [row EXCEPT ![c] = final[c]]
        /\ rowClosed' = rowClosed \cup {c}
     \/ UNCHANGED <<row, rowClosed>>
  /\ UNCHANGED <<handlerVars, public, trafficVars, failed, setBack, exitedBy>>

\* A write of a sync leaves a closed row alone, and nobody is told.
WriteOpenRow(c, n) == row' = IF c \in rowClosed THEN row ELSE [row EXCEPT ![c] = n]

\* The periodic sync writes a tunnel: the count is read, and some time later
\* the write takes place or fails.  A signal stops the timer of the later syncs;
\* one that is under way, or the very first, goes on.
PeriodicWrite(c) ==
  /\ c \in Registered
  /\ periodic' = periodic \cup {<<c, counted[c]>>}
  /\ UNCHANGED <<handlerVars, client, public, counted, final, saveVars, exitedBy>>

PeriodicWritten(c, n) ==
  /\ <<c, n>> \in periodic
  /\ periodic' = periodic \ {<<c, n>>}
  /\ \/ /\ WriteOpenRow(c, n)
        /\ setBack' = IF row'[c] < row[c] THEN setBack \cup {c} ELSE setBack
     \/ UNCHANGED <<row, setBack>>
  /\ UNCHANGED <<handlerVars, client, public, counted, final, rowClosed, failed, exitedBy>>

PublicEnds ==
  /\ public /\ public' = FALSE
  /\ UNCHANGED <<handlerVars, client, trafficVars, saveVars, exitedBy>>

-----------------------------------------------------------------------------
\* A signal: the snapshot of all tunnels is taken and synced, if there are any.
Signal(s) ==
  /\ handler[s] = "idle"
  /\ handler' = [handler EXCEPT ![s] = "syncing"]
  /\ snapshot' = [snapshot EXCEPT ![s] = Registered]
  /\ toWrite' = [toWrite EXCEPT ![s] = Registered]
  /\ UNCHANGED <<closer, client, public, trafficVars, saveVars, exitedBy>>

\* syncMetrics writes one tunnel after the other; a failure is only logged.
ShutdownWrite(s) ==
  /\ handler[s] = "syncing"
  /\ \E c \in toWrite[s] :
       /\ toWrite' = [toWrite EXCEPT ![s] = @ \ {c}]
       /\ \/ WriteOpenRow(c, counted[c]) /\ UNCHANGED failed
          \/ failed' = failed \cup {c} /\ UNCHANGED row
  /\ UNCHANGED <<handler, snapshot, closer, client, public, trafficVars,
                 rowClosed, setBack, exitedBy>>

\* The sync not awaited.
CloseAtOnce(s) == handler[s] = "syncing"

SyncIsDone(s) == handler[s] = "syncing" /\ toWrite[s] = {}

\* The sockets of the snapshot are closed, and the server, if it is not yet.
CloseAll(s) ==
  /\ SyncIsDone(s)
  /\ handler' = [handler EXCEPT ![s] = "closing"]
  /\ client' = [c \in Clients |-> IF c \in snapshot[s] /\ client[c] = "registered"
                                    THEN "closing" ELSE client[c]]
  /\ closer' = IF closer = NoSignal THEN s ELSE closer
  /\ UNCHANGED <<snapshot, toWrite, public, trafficVars, saveVars, exitedBy>>

\* The server has closed.  The callbacks of all the handlers that closed it run
\* in their order, and the first one exits.
AllEnded == ~public /\ \A c \in Clients : client[c] \in {"absent", "finalizing", "gone"}

ServerClosed(s) ==
  /\ closer = s /\ AllEnded
  /\ exitedBy' = s
  /\ UNCHANGED <<handlerVars, client, public, trafficVars, saveVars>>

\* The exit left to the close of the last public connection.
ForceWhenQuiet(s) ==
  /\ handler[s] = "closing" /\ ~public
  /\ exitedBy' = s
  /\ UNCHANGED <<handlerVars, client, public, trafficVars, saveVars>>

\* Ten seconds later the process exits whatever is still open.
ForceExit(s) ==
  /\ handler[s] = "closing"
  /\ exitedBy' = s
  /\ UNCHANGED <<handlerVars, client, public, trafficVars, saveVars>>

ShutdownNext ==
  /\ exitedBy = NoSignal
  /\ \/ PublicEnds
     \/ \E c \in Clients : \/ Accept(c) \/ Register(c) \/ CarryTraffic(c)
                           \/ SocketEnds(c) \/ FinalWrite(c) \/ PeriodicWrite(c)
                           \/ \E n \in Count : PeriodicWritten(c, n)
     \/ \E s \in Signals : \/ Signal(s) \/ ShutdownWrite(s) \/ CloseAll(s)
                           \/ ServerClosed(s) \/ ForceExit(s)

Running == exitedBy = NoSignal

\* The database answers, one way or the other, and the timer fires; nothing is
\* assumed of clients, which may keep their connections for ever.
ShutdownFairness ==
  \A s \in Signals :
    WF_shutdownVars(Running /\ (ShutdownWrite(s) \/ CloseAll(s) \/ ForceExit(s)))

ShutdownSpec == ShutdownInit /\ [][ShutdownNext]_shutdownVars /\ ShutdownFairness

-----------------------------------------------------------------------------
\* What a tunnel carried until its socket closed: the rest is in no final write.
Carried(c) == IF client[c] \in {"finalizing", "gone"} THEN final[c] ELSE counted[c]

\* When the process exits, what a tunnel had carried before the first signal and
\* until its socket closed is in its row, if the handler that exits found it:
\* final writes, cut off or not, and syncs of other handlers come in any order.
\* A write of its own sync that failed is not repeated, and a periodic write
\* that was still on its way may set the row back.
SnapshotIsSaved ==
  \A s \in Signals : exitedBy = s =>
    \A c \in snapshot[s] : row[c] >= Carried(c) \/ c \in failed \cup setBack

\* A signal ends the process, though connections stay open and come back.
ShutdownEnds == Signalled ~> exitedBy # NoSignal
=============================================================================
