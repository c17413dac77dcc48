------------------------------ MODULE Metering ------------------------------
(***************************************************************************)
(* The rows of the "tunnels" table that billing reads: syncMetrics and     *)
(* finalizeTunnelMetrics of apps/tunnel-server/src/metering.ts, on top of  *)
(* the traffic of HttpRelay.                                               *)
(*                                                                         *)
(* A write is issued with the counters of that moment and reaches the      *)
(* database later, or never; writes of overlapping syncs, and of a sync    *)
(* and the finalize of the same tunnel, may be applied in any order.       *)
(* Of a row bytes_transferred and disconnected_at are kept; its subdomain  *)
(* is that of the tunnel's record, which never changes.  No row is ever    *)
(* deleted, and the column is UNIQUE: a name that is drawn again has its   *)
(* second tunnel's INSERT refused.                                         *)
(***************************************************************************)
EXTENDS HttpRelay

CONSTANT MaxSyncs   \* bound: ticks of the metering timer

VARIABLES
  subdomain, \* subdomain[c]: that field of c's record, None before it has one
  row,     \* row[c]: the tunnel's row, or None
  toSync,  \* tunnels in the snapshot of a sync, not written yet
  writes,  \* statements on their way to the database
  syncs,   \* ticks so far (bounded)
  unbilled \* history: tunnels that lost their final write, or were cut off

meterVars == <<row, toSync, writes, syncs, unbilled>>
vars == <<relayVars, subdomain, meterVars>>

Write == [conn : Conn, bytes : Nat, final : BOOLEAN]
Row == [bytes : Nat, closed : BOOLEAN]

(* That there is no row is not a row.                                      *)
ASSUME MeteringAssumption == MaxSyncs \in Nat /\ None \notin Row

(* Every variable has its declared range.                                  *)
TypeOK ==
  /\ RelayTypeOK
  /\ subdomain \in [Conn -> Subdomain \cup {None}]
  /\ row \in [Conn -> {None} \cup Row]
  /\ toSync \subseteq Conn
  /\ writes \subseteq Write
  /\ syncs \in 0..MaxSyncs
  /\ unbilled \subseteq Conn

Init ==
  /\ RelayInit
  /\ subdomain = [c \in Conn |-> None]
  /\ row = [c \in Conn |-> None]
  /\ toSync = {}
  /\ writes = {}
  /\ syncs = 0
  /\ unbilled = {}

-----------------------------------------------------------------------------
(* syncMetrics, on a timer: the snapshot of getAll ...                     *)
SyncTick ==
  /\ syncs < MaxSyncs
  /\ syncs' = syncs + 1
  /\ toSync' = toSync \cup {c \in Conn : tunnelsById[c] # None}
  /\ UNCHANGED <<relayVars, subdomain, row, writes, unbilled>>

(* The counters looked up again instead of taken from the snapshot.        *)
SyncWriteLookingUp(c) ==
  /\ c \in toSync
  /\ toSync' = toSync \ {c}
  /\ writes' = writes \cup
       {[conn |-> c, final |-> FALSE, bytes |->
          IF tunnelsById[c] = None THEN None ELSE bytesTransferred[c]]}
  /\ UNCHANGED <<relayVars, subdomain, row, syncs, unbilled>>

(* ... then one statement per tunnel, with the counters the record has     *)
(* when its turn comes; by then the tunnel may be gone from the maps.      *)
SyncWrite(c) ==
  /\ c \in toSync
  /\ toSync' = toSync \ {c}
  /\ writes' = writes \cup
       {[conn |-> c, bytes |-> bytesTransferred[c], final |-> FALSE]}
  /\ UNCHANGED <<relayVars, subdomain, row, syncs, unbilled>>

(* The upsert without WHERE disconnected_at IS NULL.                       *)
UpsertAlways(old, w) ==
  [bytes |-> w.bytes, closed |-> w.final \/ (old # None /\ old.closed)]

(* The upsert adding to the column instead of replacing it.                *)
UpsertAdding(old, w) ==
  [bytes |-> w.bytes + (IF old = None THEN 0 ELSE old.bytes), closed |-> w.final]

(* INSERT ... ON CONFLICT DO UPDATE: finalize always takes effect, a sync  *)
(* only on a row that is not disconnected.                                 *)
Upsert(old, w) ==
  IF ~ w.final /\ old # None /\ old.closed
  THEN old
  ELSE [bytes |-> w.bytes, closed |-> w.final]

(* The UNIQUE constraint on the column, which ON CONFLICT (id) leaves.      *)
NameIsFree(c) == \A d \in Conn \ {c} : row[d] # None => subdomain[d] # subdomain[c]

WriteApplied(w) ==
  /\ w \in writes
  /\ row[w.conn] # None \/ NameIsFree(w.conn)
  /\ writes' = writes \ {w}
  /\ row' = [row EXCEPT ![w.conn] = Upsert(@, w)]
  /\ UNCHANGED <<relayVars, subdomain, toSync, syncs, unbilled>>

(* Both functions log a failed write and go on.                            *)
WriteFails(w) ==
  /\ w \in writes
  /\ writes' = writes \ {w}
  /\ unbilled' = IF w.final THEN unbilled \cup {w.conn} ELSE unbilled
  /\ UNCHANGED <<relayVars, subdomain, row, toSync, syncs>>

-----------------------------------------------------------------------------
(* The close handler calls finalizeTunnelMetrics with the counters of the  *)
(* record it finds at the name, and awaits it before it unregisters.       *)
CloseAndFinalize(c) ==
  LET found == findBySubdomain(name[c]) IN
  /\ SocketCloses(c)
  /\ writes' = IF found = None THEN writes
               ELSE writes \cup {[conn |-> c,
                                  bytes |-> bytesTransferred[found],
                                  final |-> TRUE]}
  /\ unbilled' = IF found = None THEN unbilled \cup {c} ELSE unbilled
  /\ UNCHANGED <<subdomain, row, toSync, syncs>>

(* The close handler going on without the answer.                          *)
FinalizeNotAwaited(c) ==
  /\ Finalized(c)
  /\ UNCHANGED <<subdomain, meterVars>>

FinalizeReturns(c) ==
  /\ \A w \in writes : ~ (w.conn = c /\ w.final)
  /\ Finalized(c)
  /\ UNCHANGED <<subdomain, meterVars>>

(* Statements already sent are still applied, or lost.                     *)
CrashDuringSync ==
  /\ Crash
  /\ toSync' = {}
  /\ unbilled' = unbilled \cup {c \in Conn : life[c] \in {"open", "finalizing"}}
  /\ UNCHANGED <<subdomain, row, writes, syncs>>

(* The record of a tunnel registered in this step gets its name.           *)
RecordStep ==
  /\ UnmeteredStep
  /\ subdomain' = [c \in Conn |->
       IF tunnelsById'[c] = None THEN subdomain[c] ELSE tunnelsById'[c]]
  /\ UNCHANGED meterVars

Next ==
  \/ RecordStep
  \/ SyncTick
  \/ \E c \in Conn : SyncWrite(c) \/ CloseAndFinalize(c) \/ FinalizeReturns(c)
  \/ \E w \in writes : WriteApplied(w) \/ WriteFails(w)
  \/ CrashDuringSync

Spec == Init /\ [][Next]_vars

-----------------------------------------------------------------------------
(* Properties                                                              *)

(* What is billed for a tunnel never exceeds the traffic it carried, in    *)
(* whatever order late and overlapping writes arrive.                      *)
RowsNeverOverbill ==
  \A c \in Conn : row[c] # None => row[c].bytes <= bytesTransferred[c]

(* The row of a disconnected tunnel bills all the traffic it carried:      *)
(* nothing is counted any more once finalizeTunnelMetrics has been called. *)
DisconnectedRowIsComplete ==
  \A c \in Conn :
    row[c] # None /\ row[c].closed => row[c].bytes = bytesTransferred[c]

(* A tunnel whose close handler is through, and whose final write was not  *)
(* lost, has a closed row: unregister waits for the write, no late         *)
(* periodic write opens the row again, and none is missing because no sync *)
(* ever wrote it.  What makes a write fail includes a name another tunnel  *)
(* had before.                                                             *)
GoneIsBilled ==
  \A c \in Conn :
    life[c] = "gone" /\ subdomain[c] # None /\ c \notin unbilled
      => row[c] # None /\ row[c].closed

(* A disconnected row is final.                                            *)
DisconnectedRowStays ==
  [][\A c \in Conn : row[c] # None /\ row[c].closed => row'[c] = row[c]]_vars
=============================================================================
