---------------------------- MODULE TunnelServer ----------------------------
(***************************************************************************)
(* The life of a tunnel on the server: handleConnection of                 *)
(* websocket-handler.ts with the KeyValidator it awaits, the close handler *)
(* it installs, the expiry checker of the connection manager, and the      *)
(* bridge_keys rows in the database.                                       *)
(*                                                                         *)
(* The server is one event loop.  A step below is the code between two     *)
(* awaits (or a whole timer callback or socket event), so it is atomic;    *)
(* everything may happen between two steps of the same attempt.  pc[c] is  *)
(* the await at which attempt c stands:                                    *)
(*                                                                         *)
(*   idle        no connection yet                                         *)
(*   lookup      await limiter.increment, then repo.findByKeyPrefix        *)
(*   verify      await verifyKey, holding the row it read in seen[c]       *)
(*   charge      await repo.incrementUseCount                              *)
(*   tier        await userRepo.findById                                   *)
(*   open        registered, socket listeners and heartbeat timer in place *)
(*   finalizing  close handler, await finalizeTunnelMetrics                *)
(*   returning   close handler done, decrementUsage still in flight        *)
(*   done        rejected, or nothing left to do                           *)
(*                                                                         *)
(* The locals of a handler are reset where their scope ends.  Time is not  *)
(* counted: a deadline may pass at any moment.  What "timeout" does to the *)
(* requests of a tunnel is in HttpRelay.                                   *)
(***************************************************************************)
EXTENDS ConnectionManager

CONSTANTS
  FreeKey,               \* keys whose user is on the free tier
  LimitedKey,            \* keys with a max_uses
  MaxUses,               \* MaxUses[k] for k in LimitedKey
  MaxConnectionsPerKey,  \* cfg.maxConnectionsPerKey
  MaxFaults,             \* bound: usage writes that fail
  MaxCrashes             \* bound: times the server process dies

ASSUME ServerAssumption ==
  /\ FreeKey \subseteq Key
  /\ LimitedKey \subseteq Key
  /\ MaxUses \in [LimitedKey -> Nat]
  /\ MaxConnectionsPerKey \in Nat \ {0}
  /\ MaxFaults \in Nat
  /\ MaxCrashes \in Nat

VARIABLES
  pc,          \* pc[c]: see above
  sock,        \* sock[c]: readyState of the CLI's WebSocket
  subdomain,   \* subdomain[c]: the local variable of handleConnection
  active,      \* active[k]: the key's row has status "active" (both
               \*   "revoked" and "expired" reject an attempt)
  deleted,     \* keys whose row was deleted; what the other variables say of
               \*   such a row is not read by anybody
  uses,        \* uses[k]: the key's row, column current_uses
  seen,        \* seen[c]: active, in the row attempt c read
  swallowed,   \* swallowed[k]: increments that changed no row and were ignored
               \*   (a history variable: the code only logs them)
  crashes      \* times the server process died (bounded)

connVars == <<pc, sock, subdomain, seen>>
rowVars == <<active, deleted, uses, swallowed>>
vars == <<key, mapVars, connVars, rowVars, crashes>>

PC == {"idle", "lookup", "verify", "charge", "tier", "open",
       "finalizing", "returning", "done"}

(* Every variable has its declared range; in particular current_uses never *)
(* goes below zero, whatever mix of failed and successful usage writes     *)
(* preceded a decrement (GREATEST(0, current_uses - 1)).                   *)
TypeOK ==
  /\ MapTypeOK
  /\ pc \in [Conn -> PC]
  /\ sock \in [Conn -> {"NONE", "OPEN", "CLOSING", "CLOSED"}]
  /\ subdomain \in [Conn -> Subdomain \cup {None}]
  /\ active \in [Key -> BOOLEAN]
  /\ deleted \subseteq Key
  /\ uses \in [Key -> Nat]
  /\ seen \in [Conn -> BOOLEAN]
  /\ swallowed \in [Key -> Nat]
  /\ crashes \in Nat

Init ==
  /\ MapInit
  /\ pc = [c \in Conn |-> "idle"]
  /\ sock = [c \in Conn |-> "NONE"]
  /\ subdomain = [c \in Conn |-> None]
  /\ active = [k \in Key |-> TRUE]
  /\ deleted = {}
  /\ uses = [k \in Key |-> 0]
  /\ seen = [c \in Conn |-> FALSE]
  /\ swallowed = [k \in Key |-> 0]
  /\ crashes = 0

-----------------------------------------------------------------------------
(* socket.close(): starts the closing handshake of an open socket, does    *)
(* nothing to one that is closing or closed.                               *)
Closed(f, C) ==
  [c \in Conn |-> IF c \in C /\ f[c] = "OPEN" THEN "CLOSING" ELSE f[c]]

Goto(c, p) == pc' = [pc EXCEPT ![c] = p]

(* sendError(socket, ..., fatal, closeCode); return.                       *)
Reject(c) ==
  /\ Goto(c, "done")
  /\ sock' = Closed(sock, {c})

MaxTunnels(k) == IF k \in FreeKey THEN 1 ELSE MaxConnectionsPerKey

-----------------------------------------------------------------------------
(* handleConnection                                                        *)

Connect(c) ==
  /\ pc[c] = "idle"
  /\ Goto(c, "lookup")
  /\ sock' = [sock EXCEPT ![c] = "OPEN"]
  /\ UNCHANGED <<key, mapVars, subdomain, seen, rowVars, crashes>>

(* Rate limited, unknown key, failed lookup, hash mismatch, wrong port: a  *)
(* rejection before anything was charged to the key.                       *)
RejectEarly(c) ==
  /\ pc[c] \in {"lookup", "verify"}
  /\ Reject(c)
  /\ UNCHANGED <<key, mapVars, subdomain, seen, rowVars, crashes>>

(* findByKeyPrefix answers: the row is read now and used after the next    *)
(* await.                                                                  *)
ReadKey(c) ==
  /\ pc[c] = "lookup"
  /\ key[c] \notin deleted
  /\ Goto(c, "verify")
  /\ seen' = [seen EXCEPT ![c] = active[key[c]]]
  /\ UNCHANGED <<key, mapVars, sock, subdomain, rowVars, crashes>>

(* The status check left out.                                              *)
CheckKeyWithoutStatus(c) ==
  /\ pc[c] = "verify"
  /\ Goto(c, "charge")
  /\ seen' = [seen EXCEPT ![c] = FALSE]
  /\ UNCHANGED <<key, mapVars, sock, subdomain, rowVars, crashes>>

(* verifyKey answers: the status and expiry of the row that was read.  A   *)
(* key found past its expiry has its row set to "expired" (or the write    *)
(* fails and is ignored) before the rejection.                             *)
CheckKey(c) ==
  /\ pc[c] = "verify"
  /\ seen' = [seen EXCEPT ![c] = FALSE]
  /\ \/ /\ ~ seen[c]
        /\ Reject(c)
        /\ UNCHANGED active
     \/ /\ seen[c]        \* record.expiresAt < new Date()
        /\ Reject(c)
        /\ active' = [active EXCEPT ![key[c]] = FALSE]
     \/ /\ seen[c]
        /\ Goto(c, "charge")
        /\ UNCHANGED <<sock, active>>
  /\ UNCHANGED <<key, mapVars, subdomain, deleted, uses, swallowed, crashes>>

(* The limit compared with <= instead of <.                                *)
UsesLeftOffByOne(k) == k \in LimitedKey => uses[k] <= MaxUses[k]

UsesLeft(k) == k \in LimitedKey => uses[k] < MaxUses[k]

(* UPDATE ... SET current_uses = current_uses + 1 WHERE current_uses <     *)
(* max_uses.  No row updated is a rejection, for a key with a max_uses;    *)
(* for the others the result is not looked at.  A failed write is logged   *)
(* and the connection goes on.                                             *)
Charge(c) ==
  LET k == key[c] IN
  /\ pc[c] = "charge"
  /\ \/ /\ k \notin deleted
        /\ UsesLeft(k)
        /\ uses' = [uses EXCEPT ![k] = @ + 1]
        /\ Goto(c, "tier")
        /\ UNCHANGED <<sock, swallowed>>
     \/ /\ k \in LimitedKey
        /\ k \in deleted \/ ~ UsesLeft(k)
        /\ Reject(c)
        /\ UNCHANGED <<uses, swallowed>>
     \/ /\ k \in deleted \ LimitedKey \/ swallowed[k] < MaxFaults
        /\ swallowed' = [swallowed EXCEPT ![k] = @ + 1]
        /\ Goto(c, "tier")
        /\ UNCHANGED <<sock, uses>>
  /\ UNCHANGED <<key, mapVars, subdomain, seen,
                 active, deleted, crashes>>

(* findById fails: the attempt is rejected and the use it was charged is   *)
(* not given back.                                                         *)
TierLookupFails(c) ==
  /\ pc[c] = "tier"
  /\ Reject(c)
  /\ UNCHANGED <<key, mapVars, subdomain, seen, rowVars, crashes>>

(* The limit compared with > instead of >=.                                *)
OverLimit(k) == getCountByKeyId(k) > MaxTunnels(k)

LimitReached(k) == getCountByKeyId(k) >= MaxTunnels(k)

(* findById answers; the rest of handleConnection runs without an await.   *)
(* The limit check and a failed draw reject without giving the use back.   *)
(* The listeners are installed whatever has become of the socket.          *)
Admit(c) ==
  /\ pc[c] = "tier"
  /\ \/ /\ LimitReached(key[c])
        /\ Reject(c)
        /\ UNCHANGED <<mapVars, subdomain>>
     \/ /\ ~ LimitReached(key[c])
        /\ \E s \in generateUniqueSubdomain :
             \/ /\ s = None
                /\ Reject(c)
                /\ UNCHANGED <<mapVars, subdomain>>
             \/ /\ s # None
                /\ register(c, s)
                /\ subdomain' = [subdomain EXCEPT ![c] = s]
                /\ Goto(c, "open")
                /\ UNCHANGED sock
  /\ UNCHANGED <<key, seen, rowVars, crashes>>

-----------------------------------------------------------------------------
(* Socket events and timers of an open tunnel                              *)

(* The socket reaches CLOSED: the client vanished, or a closing handshake  *)
(* ended.  The close listener, if it is there yet, runs up to its first    *)
(* await; the event of a socket that closes earlier is lost.  (What becomes *)
(* of a socket nobody listens to any more, pc "done", is not followed.)    *)
SocketCloses(c) ==
  /\ pc[c] # "done"
  /\ sock[c] \in {"OPEN", "CLOSING"}
  /\ sock' = [sock EXCEPT ![c] = "CLOSED"]
  /\ \/ /\ pc[c] # "open"
        /\ UNCHANGED <<pc, subdomain>>
     \/ /\ pc[c] = "open"
        /\ findBySubdomain(subdomain[c]) # None
        /\ Goto(c, "finalizing")
        /\ UNCHANGED subdomain
     \/ /\ pc[c] = "open"
        /\ findBySubdomain(subdomain[c]) = None
        /\ Goto(c, "returning")
        /\ subdomain' = [subdomain EXCEPT ![c] = None]
  /\ UNCHANGED <<key, mapVars, seen, rowVars, crashes>>

(* finalizeTunnelMetrics returns (it swallows its errors): unregister the  *)
(* name, start decrementUsage without awaiting it.                         *)
Finalized(c) ==
  /\ pc[c] = "finalizing"
  /\ unregister({subdomain[c]})
  /\ Goto(c, "returning")
  /\ subdomain' = [subdomain EXCEPT ![c] = None]
  /\ UNCHANGED <<key, sock, seen, rowVars, crashes>>

(* A decrement without the floor.                                          *)
Decremented(n) == n - 1

(* GREATEST(0, current_uses - 1)                                           *)
DecrementedUses(n) == IF n > 0 THEN n - 1 ELSE 0

(* decrementUsage: the write takes effect, or fails and is logged, or      *)
(* there is no row.                                                        *)
ReturnUse(c) ==
  /\ pc[c] = "returning"
  /\ Goto(c, "done")
  /\ \/ /\ key[c] \notin deleted
        /\ uses' = [uses EXCEPT ![key[c]] = DecrementedUses(@)]
     \/ UNCHANGED uses
  /\ UNCHANGED <<key, mapVars, sock, subdomain, seen,
                 active, deleted, swallowed, crashes>>

(* checkHeartbeat finds the last heartbeat of the tunnel at its name too   *)
(* old and closes the socket it was started for.                           *)
HeartbeatTimeout(c) ==
  /\ pc[c] = "open"
  /\ findBySubdomain(subdomain[c]) # None
  /\ sock[c] = "OPEN"
  /\ sock' = Closed(sock, {c})
  /\ UNCHANGED <<key, mapVars, pc, subdomain, seen, rowVars, crashes>>

(* A "disconnect" message: acknowledge and close.                          *)
ClientDisconnect(c) ==
  /\ pc[c] = "open"
  /\ sock[c] = "OPEN"
  /\ sock' = Closed(sock, {c})
  /\ UNCHANGED <<key, mapVars, pc, subdomain, seen, rowVars, crashes>>

(* The effective expiry of a registered tunnel passes.  It always has one: *)
(* computeEffectiveExpiry never returns a null date.                       *)
TunnelExpires(c) ==
  /\ tunnelsById[c] # None
  /\ ~ expired[c]
  /\ expired' = [expired EXCEPT ![c] = TRUE]
  /\ UNCHANGED <<key, tunnelsBySubdomain, tunnelsById, tunnelsByKeyId,
                 connVars, rowVars, crashes>>

findExpiredConnections == {c \in Conn : tunnelsById[c] # None /\ expired[c]}

(* The sweep without its branch for sockets that are already closed.       *)
SweepOpenOnly ==
  /\ findExpiredConnections # {}
  /\ sock' = Closed(sock, findExpiredConnections)
  /\ UNCHANGED <<key, mapVars, pc, subdomain, seen, rowVars, crashes>>

(* The sweep that unregisters what it closes, too.                         *)
SweepAll ==
  /\ findExpiredConnections # {}
  /\ sock' = Closed(sock, findExpiredConnections)
  /\ unregister({tunnelsById[c] : c \in findExpiredConnections})
  /\ UNCHANGED <<key, pc, subdomain, seen, rowVars, crashes>>

(* One tick of the expiry checker, over every expired tunnel: close an     *)
(* open socket, unregister a tunnel whose socket is closed, leave one that *)
(* is closing to its close listener.                                       *)
ExpirySweep ==
  /\ findExpiredConnections # {}
  /\ sock' = Closed(sock, findExpiredConnections)
  /\ unregister({tunnelsById[c] : c \in
                   {d \in findExpiredConnections : sock[d] = "CLOSED"}})
  /\ UNCHANGED <<key, pc, subdomain, seen, rowVars, crashes>>

-----------------------------------------------------------------------------
(* The rest of the world                                                   *)

(* The dashboard revokes a key (DELETE /api/keys/:id), or expireOldKeys    *)
(* sweeps it: the row changes and nothing tells the tunnel server.         *)
Revoke(k) ==
  /\ active[k]
  /\ active' = [active EXCEPT ![k] = FALSE]
  /\ UNCHANGED <<key, mapVars, connVars, deleted, uses, swallowed, crashes>>

(* DELETE /api/keys/:id?permanent=true: the row goes, the tunnels stay.    *)
Delete(k) ==
  /\ k \notin deleted
  /\ deleted' = deleted \cup {k}
  /\ active' = [active EXCEPT ![k] = FALSE]
  /\ UNCHANGED <<key, mapVars, connVars, uses, swallowed, crashes>>

(* The process dies and a fresh one takes its place: maps, sockets and     *)
(* suspended handlers are gone, the rows stay as they were.                *)
Crash ==
  /\ crashes < MaxCrashes
  /\ crashes' = crashes + 1
  /\ pc' = [c \in Conn |-> IF pc[c] = "idle" THEN "idle" ELSE "done"]
  /\ sock' = [c \in Conn |-> IF sock[c] = "NONE" THEN "NONE" ELSE "CLOSED"]
  /\ tunnelsBySubdomain' = [s \in Subdomain |-> None]
  /\ tunnelsById' = [c \in Conn |-> None]
  /\ tunnelsByKeyId' = [k \in Key |-> {}]
  /\ expired' = [c \in Conn |-> FALSE]
  /\ subdomain' = [c \in Conn |-> None]
  /\ seen' = [c \in Conn |-> FALSE]
  /\ UNCHANGED <<key, rowVars>>

Attempt(c) ==
  \/ Connect(c) \/ RejectEarly(c) \/ ReadKey(c)
  \/ CheckKey(c) \/ Charge(c) \/ TierLookupFails(c) \/ Admit(c)
  \/ SocketCloses(c) \/ Finalized(c) \/ ReturnUse(c)
  \/ HeartbeatTimeout(c) \/ ClientDisconnect(c) \/ TunnelExpires(c)

Next ==
  \/ \E c \in Conn : Attempt(c)
  \/ ExpirySweep
  \/ \E k \in Key : Revoke(k) \/ Delete(k)
  \/ Crash

(* Timers fire, time passes, a socket being closed reaches CLOSED (ws      *)
(* destroys it 30 s after close()), and an awaited finalize returns.       *)
Fairness ==
  /\ WF_vars(ExpirySweep)
  /\ \A c \in Conn :
       /\ WF_vars(TunnelExpires(c))
       /\ WF_vars(sock[c] = "CLOSING" /\ SocketCloses(c))
       /\ WF_vars(Finalized(c))

Spec == Init /\ [][Next]_vars /\ Fairness

-----------------------------------------------------------------------------
(* Properties                                                              *)

(* Attempts that were let past the usage check and have not given their    *)
(* use back.                                                               *)
Charged(k) ==
  {c \in Conn : key[c] = k /\ pc[c] \in {"tier", "open", "finalizing", "returning"}}

OpenTunnels(k) == {c \in Conn : key[c] = k /\ tunnelsById[c] # None}

(* The handlers and the maps agree: a tunnel in the maps is one whose      *)
(* handler is still there to remove it, under the name it was given.       *)
HandlersAgree ==
  \A c \in Conn :
    /\ tunnelsById[c] # None =>
         pc[c] \in {"open", "finalizing"} /\ tunnelsById[c] = subdomain[c]
    /\ pc[c] \in {"open", "finalizing"} => subdomain[c] \in Subdomain

(* The rows cover what was let in: charges are paid for or were swallowed, *)
(* and the row never passes max_uses.                                      *)
UsesCover ==
  /\ \A k \in Key : Cardinality(Charged(k)) <= uses[k] + swallowed[k]
  /\ \A k \in LimitedKey : uses[k] <= MaxUses[k]

(* A key with max_uses never has more tunnels registered than max_uses,    *)
(* plus the increments that changed no row and were deliberately ignored:  *)
(* the atomic UPDATE closes the window between reading the row and         *)
(* charging it, and no order of closes, crashes, decrements and deletions  *)
(* of the key reopens it.                                                  *)
UseLimit ==
  \A k \in LimitedKey :
    Cardinality(OpenTunnels(k)) <= MaxUses[k] + swallowed[k]

(* A key never has more tunnels registered than its tier allows, although  *)
(* several attempts of the key are validated concurrently.                 *)
TunnelLimit == \A k \in Key : Cardinality(tunnelsByKeyId[k]) <= MaxTunnels(k)

(* An attempt that begins after its key was revoked or deleted never gets  *)
(* a tunnel.                                                               *)
(* (One that read the row before the revocation still may, and an open     *)
(* tunnel is left alone.)                                                  *)
RevokedKeyGetsNoTunnel ==
  \A c \in Conn :
    [](pc[c] = "idle" /\ ~ active[key[c]] => [](tunnelsById[c] = None))

(* Every registered tunnel leaves the maps, also one whose socket closed   *)
(* before its close listener was installed: nothing but the expiry checker *)
(* ever removes that one.                                                  *)
EveryTunnelIsRemoved ==
  \A c \in Conn : tunnelsById[c] # None ~> tunnelsById[c] = None

(* A key with max_uses = 1 is a one-time key: once it has opened a tunnel, *)
(* no other attempt of it ever does.                                       *)
OneTime(k) == k \in LimitedKey /\ MaxUses[k] = 1

OneTimeKey ==
  \A c, d \in Conn :
    [](c # d /\ key[c] = key[d] /\ OneTime(key[c]) /\ tunnelsById[c] # None
         => [](tunnelsById[d] = None))

(* A tunnel whose close handler has still to unregister it is not          *)
(* unregistered by the expiry checker.                                     *)
NoDoubleUnregister ==
  \A c \in Conn : pc[c] = "finalizing" => tunnelsById[c] = subdomain[c]

(* The server implements the slot discipline of KeySlots.                  *)
Slots == INSTANCE KeySlots WITH
  Name <- Subdomain,
  Limit <- [k \in Key |-> MaxTunnels(k)],
  held <- tunnelsByKeyId

ImplementsKeySlots == Slots!Spec

(* The handshake implements the life of a tunnel that HttpRelay builds on: *)
(* whatever traffic may assume of TunnelLife holds of the server.          *)
LifeOf(c) ==
  CASE pc[c] = "open" -> "open"
    [] pc[c] = "finalizing" -> "finalizing"
    [] pc[c] \in {"returning", "done"} -> "gone"
    [] OTHER -> "new"

Life == INSTANCE TunnelLife WITH
  life <- [c \in Conn |-> LifeOf(c)],
  sock <- [c \in Conn |->
             CASE LifeOf(c) = "new" -> "NONE"
               [] LifeOf(c) = "gone" -> "CLOSED"
               [] OTHER -> sock[c]],
  name <- subdomain

ImplementsTunnelLife == Life!LifeSpec
=============================================================================
