----------------------------- MODULE TunnelLife -----------------------------
(***************************************************************************)
(* The life of a tunnel as the traffic that crosses it can tell: when its  *)
(* socket may carry messages, when its name is in the maps, and the gap    *)
(* between the two (the close handler waits for finalizeTunnelMetrics with *)
(* the tunnel still in the maps and its socket closed).  TunnelServer, the *)
(* whole handshake, is shown to implement this module; HttpRelay builds on *)
(* it.                                                                     *)
(*                                                                         *)
(*   new         not registered (yet)                                      *)
(*   open        registered by handleConnection, listeners installed       *)
(*   finalizing  close handler, await finalizeTunnelMetrics                *)
(*   gone        rejected, or its close handler is through                 *)
(***************************************************************************)
EXTENDS ConnectionManager

VARIABLES
  life,   \* life[c]: see above
  sock,   \* sock[c]: readyState of the tunnel's socket, "NONE" before
  name    \* name[c]: the subdomain handleConnection holds, while it does

lifeVars == <<key, mapVars, life, sock, name>>

LifeTypeOK ==
  /\ MapTypeOK
  /\ life \in [Conn -> {"new", "open", "finalizing", "gone"}]
  /\ sock \in [Conn -> {"NONE", "OPEN", "CLOSING", "CLOSED"}]
  /\ name \in [Conn -> Subdomain \cup {None}]

LifeInit ==
  /\ MapInit
  /\ life = [c \in Conn |-> "new"]
  /\ sock = [c \in Conn |-> "NONE"]
  /\ name = [c \in Conn |-> None]

(* An attempt ends without a tunnel.                                       *)
Abandon(c) ==
  /\ life[c] = "new"
  /\ life' = [life EXCEPT ![c] = "gone"]
  /\ sock' = [sock EXCEPT ![c] = "CLOSED"]
  /\ UNCHANGED <<key, mapVars, name>>

(* The null of the generator taken for a name.                             *)
OpenUnchecked(c) ==
  /\ life[c] = "new"
  /\ \E s \in generateUniqueSubdomain :
       register(c, s) /\ name' = [name EXCEPT ![c] = s]
  /\ life' = [life EXCEPT ![c] = "open"]
  /\ sock' = [sock EXCEPT ![c] = "OPEN"]
  /\ UNCHANGED key

(* The tunnel is registered.  Its socket may have closed while the key was *)
(* being validated.                                                        *)
Open(c) ==
  /\ life[c] = "new"
  /\ \E s \in generateUniqueSubdomain \ {None} :
       register(c, s) /\ name' = [name EXCEPT ![c] = s]
  /\ life' = [life EXCEPT ![c] = "open"]
  /\ \E state \in {"OPEN", "CLOSING", "CLOSED"} :
       sock' = [sock EXCEPT ![c] = state]
  /\ UNCHANGED key

(* The server closes the socket: heartbeat timeout or "disconnect".        *)
CloseSocket(c) ==
  /\ life[c] = "open"
  /\ sock[c] = "OPEN"
  /\ sock' = [sock EXCEPT ![c] = "CLOSING"]
  /\ UNCHANGED <<key, mapVars, life, name>>

(* The socket reaches CLOSED and the close handler runs to its await, or   *)
(* to its end when the name is not in the maps any more.                   *)
SocketGone(c) ==
  /\ life[c] = "open"
  /\ sock[c] \in {"OPEN", "CLOSING"}
  /\ sock' = [sock EXCEPT ![c] = "CLOSED"]
  /\ \/ /\ findBySubdomain(name[c]) # None
        /\ life' = [life EXCEPT ![c] = "finalizing"]
        /\ UNCHANGED name
     \/ /\ findBySubdomain(name[c]) = None
        /\ life' = [life EXCEPT ![c] = "gone"]
        /\ name' = [name EXCEPT ![c] = None]
  /\ UNCHANGED <<key, mapVars>>

Unregister(c) ==
  /\ life[c] = "finalizing"
  /\ unregister({name[c]})
  /\ life' = [life EXCEPT ![c] = "gone"]
  /\ name' = [name EXCEPT ![c] = None]
  /\ UNCHANGED <<key, sock>>

Expire(c) ==
  /\ tunnelsById[c] # None
  /\ ~ expired[c]
  /\ expired' = [expired EXCEPT ![c] = TRUE]
  /\ UNCHANGED <<key, tunnelsBySubdomain, tunnelsById, tunnelsByKeyId,
                 life, sock, name>>

Overdue == {c \in Conn : tunnelsById[c] # None /\ expired[c]}

(* The tunnels a tick of the expiry checker unregisters itself.            *)
SweptNames == {tunnelsById[c] : c \in {d \in Overdue : sock[d] = "CLOSED"}}

Sweep ==
  /\ Overdue # {}
  /\ sock' = [c \in Conn |->
                IF c \in Overdue /\ sock[c] = "OPEN" THEN "CLOSING" ELSE sock[c]]
  /\ unregister(SweptNames)
  /\ UNCHANGED <<key, life, name>>

(* The server dies and starts again with empty maps; attempts that had not *)
(* begun are still to come.                                                *)
ServerDies ==
  /\ \E survivors \in SUBSET {c \in Conn : life[c] = "new"} :
       /\ life' = [c \in Conn |-> IF c \in survivors THEN "new" ELSE "gone"]
       /\ sock' = [c \in Conn |-> IF c \in survivors THEN "NONE" ELSE "CLOSED"]
  /\ name' = [c \in Conn |-> None]
  /\ tunnelsBySubdomain' = [s \in Subdomain |-> None]
  /\ tunnelsById' = [c \in Conn |-> None]
  /\ tunnelsByKeyId' = [k \in Key |-> {}]
  /\ expired' = [c \in Conn |-> FALSE]
  /\ UNCHANGED key

LifeNext ==
  \/ \E c \in Conn :
       Abandon(c) \/ Open(c) \/ CloseSocket(c) \/ SocketGone(c)
         \/ Unregister(c) \/ Expire(c)
  \/ Sweep
  \/ ServerDies

LifeSpec == LifeInit /\ [][LifeNext]_lifeVars
=============================================================================
