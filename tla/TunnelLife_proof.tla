-------------------------- MODULE TunnelLife_proof --------------------------
(***************************************************************************)
(* Proofs about TunnelLife, for every finite set of tunnels and names and  *)
(* every set of keys.  HttpRelay, Metering and WsRelay take their tunnel   *)
(* steps from TunnelLife, and their proofs take these lemmas.              *)
(***************************************************************************)
EXTENDS TunnelLife, ConnectionManager_proof

-----------------------------------------------------------------------------
(* Every variable keeps its range.                                         *)
LEMMA LifeTypesInit == LifeInit => LifeTypeOK
BY MapAssumption DEF LifeInit, MapInit, LifeTypeOK, MapTypeOK

(* Every step keeps every variable in its range.                           *)
LEMMA LifeTypesStep ==
  ASSUME LifeTypeOK, [LifeNext]_lifeVars
  PROVE  LifeTypeOK'
<1> USE MapAssumption DEF LifeTypeOK, MapTypeOK, mapVars
<1>1. ASSUME NEW c \in Conn, Abandon(c) PROVE LifeTypeOK'
  BY <1>1 DEF Abandon
<1>2. ASSUME NEW c \in Conn, Open(c) PROVE LifeTypeOK'
  BY <1>2 DEF Open, generateUniqueSubdomain, register
<1>3. ASSUME NEW c \in Conn, CloseSocket(c) PROVE LifeTypeOK'
  BY <1>3 DEF CloseSocket
<1>4. ASSUME NEW c \in Conn, SocketGone(c) PROVE LifeTypeOK'
  BY <1>4 DEF SocketGone
<1>5. ASSUME NEW c \in Conn, Unregister(c) PROVE LifeTypeOK'
  BY <1>5 DEF Unregister, unregister
<1>6. ASSUME NEW c \in Conn, Expire(c) PROVE LifeTypeOK'
  BY <1>6 DEF Expire
<1>7. ASSUME Sweep PROVE LifeTypeOK'
  BY <1>7 DEF Sweep, unregister
<1>8. ASSUME ServerDies PROVE LifeTypeOK'
  <2>1. PICK survivors \in SUBSET {c \in Conn : life[c] = "new"} :
          /\ life' = [c \in Conn |-> IF c \in survivors THEN "new" ELSE "gone"]
          /\ sock' = [c \in Conn |-> IF c \in survivors THEN "NONE" ELSE "CLOSED"]
    BY <1>8 DEF ServerDies
  <2>2. QED
    BY <1>8, <2>1 DEF ServerDies
<1>9. CASE UNCHANGED lifeVars
  BY <1>9 DEF lifeVars
<1>10. QED
  BY <1>1, <1>2, <1>3, <1>4, <1>5, <1>6, <1>7, <1>8, <1>9 DEF LifeNext

-----------------------------------------------------------------------------
(* The maps and the handlers                                               *)

(* A tunnel in the maps is one whose handler is still there to remove it,  *)
(* under the name it was given; a handler holds a name exactly while it    *)
(* has a tunnel to look after.                                             *)
NamesHeld ==
  \A c \in Conn :
    /\ tunnelsById[c] # None =>
         life[c] \in {"open", "finalizing"} /\ tunnelsById[c] = name[c]
    /\ name[c] # None <=> life[c] \in {"open", "finalizing"}

LifeInv == LifeTypeOK /\ IndexesAgree /\ NamesHeld

(* At first no tunnel has a name.                                          *)
LEMMA LifeInvInit == LifeInit => LifeInv
<1>1. LifeInit => IndexesAgree
  BY EmptyMapsAgree DEF LifeInit, MapInit
<1>2. LifeInit => NamesHeld
  BY DEF LifeInit, MapInit, NamesHeld
<1>3. QED
  BY <1>1, <1>2, LifeTypesInit DEF LifeInv

(* What registering a tunnel does: a name nobody has, to a tunnel without  *)
(* one.                                                                    *)
LEMMA OpenEffect ==
  ASSUME LifeInv, NEW c \in Conn, Open(c)
  PROVE  \E s \in Subdomain :
           /\ tunnelsBySubdomain[s] = None
           /\ tunnelsById[c] = None
           /\ register(c, s)
           /\ tunnelsById' = [tunnelsById EXCEPT ![c] = s]
           /\ name' = [name EXCEPT ![c] = s]
<1>1. PICK s \in generateUniqueSubdomain \ {None} :
        register(c, s) /\ name' = [name EXCEPT ![c] = s]
  BY DEF Open
<1>2. s \in Subdomain /\ tunnelsBySubdomain[s] = None
  BY <1>1 DEF generateUniqueSubdomain, Existing
<1>3. tunnelsById[c] = None
  BY DEF Open, LifeInv, NamesHeld
<1>4. QED
  BY <1>1, <1>2, <1>3 DEF register

(* What the sweep takes out of the maps: the tunnels past their expiry     *)
(* whose socket is closed, and no other.                                   *)
LEMMA SweepEffect ==
  ASSUME LifeInv, Sweep, NEW c \in Conn
  PROVE  /\ SweptNames \in SUBSET Subdomain
         /\ tunnelsById[c] \in SweptNames <=> c \in Overdue /\ sock[c] = "CLOSED"
         /\ tunnelsById'[c] = IF c \in Overdue /\ sock[c] = "CLOSED"
                              THEN None ELSE tunnelsById[c]
<1> USE MapAssumption DEF LifeInv, LifeTypeOK, MapTypeOK
<1>1. SweptNames \in SUBSET Subdomain
  BY DEF SweptNames, Overdue
<1>2. tunnelsById[c] \in SweptNames <=> c \in Overdue /\ sock[c] = "CLOSED"
  BY DEF SweptNames, Overdue, IndexesAgree
<1>3. unregister(SweptNames)
  BY DEF Sweep
<1>4. QED
  BY <1>1, <1>2, <1>3, UnregisterEffect

(* What the end of a close handler takes out of the maps: whatever tunnel  *)
(* has the name the handler holds.                                         *)
LEMMA UnregisterOwn ==
  ASSUME LifeInv, NEW c \in Conn, Unregister(c), NEW d \in Conn
  PROVE  /\ {name[c]} \in SUBSET Subdomain
         /\ tunnelsById'[d] = IF tunnelsById[d] = name[c] THEN None ELSE tunnelsById[d]
<1> USE MapAssumption DEF LifeInv, LifeTypeOK, MapTypeOK
<1>1. {name[c]} \in SUBSET Subdomain /\ unregister({name[c]})
  BY DEF Unregister, NamesHeld
<1>2. QED
  BY <1>1, UnregisterEffect

(* The invariant is preserved by every step.                               *)
LEMMA LifeInvStep ==
  ASSUME LifeInv, [LifeNext]_lifeVars
  PROVE  LifeInv'
<1> USE MapAssumption DEF LifeInv, LifeTypeOK, MapTypeOK, mapVars
<1>0. LifeTypeOK'
  BY LifeTypesStep
<1>1. ASSUME NEW c \in Conn, Abandon(c) PROVE (IndexesAgree /\ NamesHeld)'
  BY <1>1 DEF Abandon, IndexesAgree, NamesHeld
<1>2. ASSUME NEW c \in Conn, Open(c) PROVE (IndexesAgree /\ NamesHeld)'
  <2>1. PICK s \in Subdomain :
          /\ tunnelsBySubdomain[s] = None
          /\ tunnelsById[c] = None
          /\ register(c, s)
          /\ tunnelsById' = [tunnelsById EXCEPT ![c] = s]
          /\ name' = [name EXCEPT ![c] = s]
    BY <1>2, OpenEffect
  <2>2. UNCHANGED key /\ life' = [life EXCEPT ![c] = "open"]
    BY <1>2 DEF Open
  <2>3. IndexesAgree'
    BY <2>1, <2>2, RegisterKeepsIndexes
  <2>4. NamesHeld'
    BY <2>1, <2>2 DEF NamesHeld
  <2>5. QED
    BY <2>3, <2>4
<1>3. ASSUME NEW c \in Conn, CloseSocket(c) PROVE (IndexesAgree /\ NamesHeld)'
  BY <1>3 DEF CloseSocket, IndexesAgree, NamesHeld
<1>4. ASSUME NEW c \in Conn, SocketGone(c) PROVE (IndexesAgree /\ NamesHeld)'
  BY <1>4 DEF SocketGone, IndexesAgree, NamesHeld, findBySubdomain
<1>5. ASSUME NEW c \in Conn, Unregister(c) PROVE (IndexesAgree /\ NamesHeld)'
  <2>1. {name[c]} \in SUBSET Subdomain /\ unregister({name[c]}) /\ UNCHANGED key
    BY <1>5, UnregisterOwn DEF Unregister
  <2>2. IndexesAgree'
    BY <2>1, UnregisterKeepsIndexes
  <2>3. \A d \in Conn : tunnelsById'[d] =
          IF tunnelsById[d] = name[c] THEN None ELSE tunnelsById[d]
    BY <1>5, UnregisterOwn
  <2>4. NamesHeld'
    BY <1>5, <2>3 DEF Unregister, NamesHeld
  <2>5. QED
    BY <2>2, <2>4
<1>6. ASSUME NEW c \in Conn, Expire(c) PROVE (IndexesAgree /\ NamesHeld)'
  BY <1>6 DEF Expire, IndexesAgree, NamesHeld
<1>7. ASSUME Sweep PROVE (IndexesAgree /\ NamesHeld)'
  <2>1. SweptNames \in SUBSET Subdomain
    BY DEF SweptNames, Overdue
  <2>2. unregister(SweptNames) /\ UNCHANGED <<key, life, name>>
    BY <1>7 DEF Sweep
  <2>3. IndexesAgree'
    BY <2>1, <2>2, UnregisterKeepsIndexes
  <2>4. \A c \in Conn : tunnelsById'[c] \in {None, tunnelsById[c]}
    BY <2>1, <2>2, UnregisterEffect
  <2>5. NamesHeld'
    BY <2>2, <2>4 DEF NamesHeld
  <2>6. QED
    BY <2>3, <2>5
<1>8. ASSUME ServerDies PROVE (IndexesAgree /\ NamesHeld)'
  <2>1. IndexesAgree'
    BY <1>8 DEF ServerDies, IndexesAgree
  <2>2. \A c \in Conn : life'[c] \notin {"open", "finalizing"}
    BY <1>8 DEF ServerDies
  <2>3. NamesHeld'
    BY <1>8, <2>2 DEF ServerDies, NamesHeld
  <2>4. QED
    BY <2>1, <2>3
<1>9. CASE UNCHANGED lifeVars
  BY <1>9 DEF lifeVars, IndexesAgree, NamesHeld
<1>10. QED
  BY <1>0, <1>1, <1>2, <1>3, <1>4, <1>5, <1>6, <1>7, <1>8, <1>9 DEF LifeNext

(* Whatever opens, closes, expires and restarts do, the three maps         *)
(* describe the same tunnels.                                              *)
THEOREM LifeIndexesAgree == LifeSpec => []IndexesAgree
<1>1. LifeInit => LifeInv
  BY LifeInvInit
<1>2. LifeInv /\ [LifeNext]_lifeVars => LifeInv'
  BY LifeInvStep
<1>3. QED
  BY <1>1, <1>2, PTL DEF LifeSpec, LifeInv
=============================================================================
