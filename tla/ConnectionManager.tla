-------------------------- MODULE ConnectionManager --------------------------
(***************************************************************************)
(* The tunnel maps of apps/tunnel-server/src/connection-manager.ts.        *)
(*                                                                         *)
(* A tunnel is identified by the connection attempt that created it: the   *)
(* code gives every attempt a fresh UUID (crypto.randomUUID), so an        *)
(* attempt and its tunnelId are the same thing here.  The operators below  *)
(* are the bodies of register and unregister; the processes that call      *)
(* them are in TunnelServer.                                               *)
(***************************************************************************)
EXTENDS Naturals, FiniteSets

CONSTANTS
  Conn,        \* connection attempts = tunnel ids
  Key,         \* bridge keys
  Subdomain,   \* names the generator can draw
  None         \* the absent value of the maps

ASSUME MapAssumption ==
  /\ IsFiniteSet(Conn)
  /\ IsFiniteSet(Subdomain)
  /\ None \notin Conn \cup Subdomain

VARIABLES
  key,                 \* key[c]: the bridge key attempt c presents
  tunnelsBySubdomain,  \* primary index: subdomain -> tunnel
  tunnelsById,         \* tunnel -> subdomain
  tunnelsByKeyId,      \* key -> set of subdomains
  expired              \* expired[c]: expiresAt in c's record has passed

mapVars == <<tunnelsBySubdomain, tunnelsById, tunnelsByKeyId, expired>>

MapTypeOK ==
  /\ key \in [Conn -> Key]
  /\ tunnelsBySubdomain \in [Subdomain -> Conn \cup {None}]
  /\ tunnelsById \in [Conn -> Subdomain \cup {None}]
  /\ tunnelsByKeyId \in [Key -> SUBSET Subdomain]
  /\ expired \in [Conn -> BOOLEAN]

MapInit ==
  /\ key \in [Conn -> Key]
  /\ tunnelsBySubdomain = [s \in Subdomain |-> None]
  /\ tunnelsById = [c \in Conn |-> None]
  /\ tunnelsByKeyId = [k \in Key |-> {}]
  /\ expired = [c \in Conn |-> FALSE]

-----------------------------------------------------------------------------
findBySubdomain(s) == IF s \in Subdomain THEN tunnelsBySubdomain[s] ELSE None

getCountByKeyId(k) == Cardinality(tunnelsByKeyId[k])

Existing == {s \in Subdomain : tunnelsBySubdomain[s] # None}

(* A generator that does not look at the names in use.                     *)
AnySubdomain == Subdomain

(* generateUniqueSubdomain(existing): up to five random draws, the first   *)
(* name not in use wins.  Five collisions in a row return null, which can  *)
(* happen only when some name is in use.                                   *)
generateUniqueSubdomain == 
  (Subdomain \ Existing) \cup (IF Existing = {} THEN {} ELSE {None})

register(c, s) ==
  /\ tunnelsBySubdomain' = [tunnelsBySubdomain EXCEPT ![s] = c]
  /\ tunnelsById' = [tunnelsById EXCEPT ![c] = s]
  /\ tunnelsByKeyId' = [tunnelsByKeyId EXCEPT ![key[c]] = @ \cup {s}]
  /\ UNCHANGED expired

(* unregister, once for every name of N.  Each call looks the name up      *)
(* again, so what leaves is whatever tunnel holds the name NOW, and it     *)
(* leaves its own key's set.                                               *)
unregister(N) ==
  LET gone == {tunnelsBySubdomain[s] : s \in N}
      lost(k) == {s \in N : \E c \in Conn : tunnelsBySubdomain[s] = c /\ key[c] = k}
  IN  /\ tunnelsBySubdomain' =
           [s \in Subdomain |-> IF s \in N THEN None ELSE tunnelsBySubdomain[s]]
      /\ tunnelsById' =
           [c \in Conn |-> IF c \in gone THEN None ELSE tunnelsById[c]]
      /\ tunnelsByKeyId' = [k \in Key |-> tunnelsByKeyId[k] \ lost(k)]
      /\ expired' = [c \in Conn |-> expired[c] /\ c \notin gone]

(* The three maps describe the same set of tunnels.  Counting a key's      *)
(* tunnels (getCountByKeyId), routing a request (findBySubdomain) and      *)
(* finding a tunnel by id read different maps; a tunnel that is in one and *)
(* not in another is unreachable, or blocks its key for good.              *)
IndexesAgree ==
  /\ \A s \in Subdomain, c \in Conn :
       tunnelsBySubdomain[s] = c <=> tunnelsById[c] = s
  /\ \A s \in Subdomain, k \in Key :
       s \in tunnelsByKeyId[k] <=>
         \E c \in Conn : tunnelsBySubdomain[s] = c /\ key[c] = k
=============================================================================
