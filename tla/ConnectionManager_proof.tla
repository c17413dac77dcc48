------------------------ MODULE ConnectionManager_proof ------------------------
(***************************************************************************)
(* What register and unregister of ConnectionManager do to the agreement   *)
(* of the maps, for every finite set of tunnels and names and every set of *)
(* keys.  The proofs about the processes that call them rest on these      *)
(* lemmas.                                                                 *)
(***************************************************************************)
EXTENDS ConnectionManager, TLAPS

(* Registering a name nobody holds, for a tunnel that is in no map.        *)
LEMMA RegisterKeepsIndexes ==
  ASSUME MapTypeOK, IndexesAgree, UNCHANGED key,
         NEW c \in Conn, NEW s \in Subdomain, register(c, s),
         tunnelsBySubdomain[s] = None, tunnelsById[c] = None
  PROVE  IndexesAgree'
<1> USE MapAssumption DEF MapTypeOK, IndexesAgree, register
<1>1. ASSUME NEW t \in Subdomain, NEW d \in Conn
      PROVE  tunnelsBySubdomain'[t] = d <=> tunnelsById'[d] = t
  BY <1>1
<1>2. ASSUME NEW t \in Subdomain, NEW k \in Key
      PROVE  t \in tunnelsByKeyId'[k] <=>
               \E d \in Conn : tunnelsBySubdomain'[t] = d /\ key'[d] = k
  BY <1>2
<1>3. QED
  BY <1>1, <1>2

(* Unregistering any set of names, whoever holds them.                     *)
LEMMA UnregisterKeepsIndexes ==
  ASSUME MapTypeOK, IndexesAgree, UNCHANGED key,
         NEW N \in SUBSET Subdomain, unregister(N)
  PROVE  IndexesAgree'
<1> USE MapAssumption DEF MapTypeOK, IndexesAgree, unregister
<1>1. ASSUME NEW t \in Subdomain, NEW d \in Conn
      PROVE  tunnelsBySubdomain'[t] = d <=> tunnelsById'[d] = t
  BY <1>1
<1>2. ASSUME NEW t \in Subdomain, NEW k \in Key
      PROVE  t \in tunnelsByKeyId'[k] <=>
               \E d \in Conn : tunnelsBySubdomain'[t] = d /\ key'[d] = k
  BY <1>2
<1>3. QED
  BY <1>1, <1>2

(* Empty maps agree.                                                       *)
LEMMA EmptyMapsAgree ==
  ASSUME key \in [Conn -> Key],
         tunnelsBySubdomain = [s \in Subdomain |-> None],
         tunnelsById = [c \in Conn |-> None],
         tunnelsByKeyId = [k \in Key |-> {}]
  PROVE  IndexesAgree
BY MapAssumption DEF IndexesAgree

(* A tunnel leaves the maps exactly when its name is unregistered, and one *)
(* that stays keeps its name.                                              *)
LEMMA UnregisterEffect ==
  ASSUME MapTypeOK, IndexesAgree, NEW N \in SUBSET Subdomain, unregister(N),
         NEW c \in Conn
  PROVE  tunnelsById'[c] = IF tunnelsById[c] \in N THEN None ELSE tunnelsById[c]
<1> USE MapAssumption DEF MapTypeOK, IndexesAgree, unregister
<1>1. CASE tunnelsById[c] \in N
  BY <1>1
<1>2. CASE tunnelsById[c] \notin N
  BY <1>2
<1>3. QED
  BY <1>1, <1>2
=============================================================================
