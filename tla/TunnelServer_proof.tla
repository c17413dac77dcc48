------------------------- MODULE TunnelServer_proof -------------------------
(***************************************************************************)
(* Proofs about TunnelServer, for every finite set of attempts and names,  *)
(* every set of keys, every assignment of tiers and limits, and any number *)
(* of failed writes and crashes.                                           *)
(*                                                                         *)
(* The inductive invariant joins the shape of the maps (IndexesAgree) to   *)
(* the handlers' local variables (HandlersAgree), and counts the uses a    *)
(* key has been charged (UsesCover).  What a revoked key cannot get any    *)
(* more is a predicate that no step ends (Barred), and what the sockets    *)
(* add to the handlers is what TunnelLife sees (SocketsAgree).             *)
(***************************************************************************)
EXTENDS TunnelServer, ConnectionManager_proof, FiniteSetTheorems, TLAPS

-----------------------------------------------------------------------------
(* Type correctness.  The actions are taken one at a time: those of an     *)
(* attempt first, then those of the server and of the world around it.     *)

(* The steps of handleConnection and of the close handler keep every       *)
(* variable in its range.                                                  *)
LEMMA AttemptTypes ==
  ASSUME TypeOK, NEW c \in Conn, Attempt(c)
  PROVE  TypeOK'
<1> USE MapAssumption, ServerAssumption
    DEF TypeOK, MapTypeOK, vars, mapVars, connVars, rowVars, PC,
        Goto, Reject, Closed, findBySubdomain
<1>1. CASE Connect(c)
  BY <1>1 DEF Connect
<1>2. CASE RejectEarly(c)
  BY <1>2 DEF RejectEarly
<1>3. CASE ReadKey(c)
  BY <1>3 DEF ReadKey
<1>4. CASE CheckKey(c)
  BY <1>4 DEF CheckKey
<1>5. CASE Charge(c)
  BY <1>5 DEF Charge
<1>6. CASE TierLookupFails(c)
  BY <1>6 DEF TierLookupFails
<1>7. CASE Admit(c)
  BY <1>7 DEF Admit, generateUniqueSubdomain, register
<1>8. CASE SocketCloses(c)
  BY <1>8 DEF SocketCloses
<1>9. CASE Finalized(c)
  BY <1>9 DEF Finalized, unregister
<1>10. CASE ReturnUse(c)
  BY <1>10 DEF ReturnUse, DecrementedUses
<1>11. CASE HeartbeatTimeout(c)
  BY <1>11 DEF HeartbeatTimeout
<1>12. CASE ClientDisconnect(c)
  BY <1>12 DEF ClientDisconnect
<1>13. CASE TunnelExpires(c)
  BY <1>13 DEF TunnelExpires
<1>14. QED
  BY <1>1, <1>2, <1>3, <1>4, <1>5, <1>6, <1>7, <1>8, <1>9, <1>10, <1>11,
     <1>12, <1>13 DEF Attempt

(* Every variable keeps its declared range; current_uses stays a natural   *)
(* number because the decrement has a floor.                               *)
THEOREM TypeCorrect == Spec => []TypeOK
<1> USE MapAssumption, ServerAssumption
    DEF TypeOK, MapTypeOK, vars, mapVars, connVars, rowVars, PC
<1>1. Init => TypeOK
  BY DEF Init, MapInit
<1>2. ASSUME TypeOK, [Next]_vars
      PROVE  TypeOK'
  <2>1. CASE \E c \in Conn : Attempt(c)
    BY <1>2, <2>1, AttemptTypes DEF TypeOK
  <2>2. CASE ExpirySweep
    BY <1>2, <2>2 DEF ExpirySweep, Closed, unregister
  <2>3. CASE \E k \in Key : Revoke(k) \/ Delete(k)
    BY <1>2, <2>3 DEF Revoke, Delete
  <2>4. CASE Crash
    BY <1>2, <2>4 DEF Crash
  <2>5. CASE UNCHANGED vars
    BY <1>2, <2>5
  <2>6. QED
    BY <1>2, <2>1, <2>2, <2>3, <2>4, <2>5 DEF Next
<1>3. QED
  BY <1>1, <1>2, PTL DEF Spec

-----------------------------------------------------------------------------
(* The maps                                                                *)

MapInv == TypeOK /\ IndexesAgree /\ HandlersAgree

(* The agreement of the maps with each other and with the handlers is      *)
(* preserved by every step.                                                *)
LEMMA MapInvStep ==
  ASSUME MapInv, [Next]_vars
  PROVE  IndexesAgree' /\ HandlersAgree'
<1> USE MapAssumption DEF MapInv, TypeOK, MapTypeOK, vars, mapVars, connVars
<1>1. ASSUME NEW c \in Conn, Attempt(c)
      PROVE  IndexesAgree' /\ HandlersAgree'
  <2> USE <1>1 DEF Goto, Reject, Closed, findBySubdomain
  <2>1. CASE Connect(c)
    BY <2>1 DEF Connect, IndexesAgree, HandlersAgree
  <2>2. CASE RejectEarly(c)
    BY <2>2 DEF RejectEarly, IndexesAgree, HandlersAgree
  <2>3. CASE ReadKey(c)
    BY <2>3 DEF ReadKey, IndexesAgree, HandlersAgree
  <2>4. CASE CheckKey(c)
    BY <2>4 DEF CheckKey, IndexesAgree, HandlersAgree
  <2>5. CASE Charge(c)
    BY <2>5 DEF Charge, IndexesAgree, HandlersAgree
  <2>6. CASE TierLookupFails(c)
    BY <2>6 DEF TierLookupFails, IndexesAgree, HandlersAgree
  <2>7. CASE Admit(c)
    <3>1. CASE UNCHANGED mapVars /\ UNCHANGED subdomain /\ Reject(c)
      BY <2>7, <3>1 DEF Admit, IndexesAgree, HandlersAgree
    <3>2. CASE \E s \in generateUniqueSubdomain :
                 /\ s # None
                 /\ register(c, s)
                 /\ subdomain' = [subdomain EXCEPT ![c] = s]
                 /\ Goto(c, "open")
      <4>1. PICK s \in Subdomain :
                 /\ tunnelsBySubdomain[s] = None
                 /\ register(c, s)
                 /\ subdomain' = [subdomain EXCEPT ![c] = s]
                 /\ Goto(c, "open")
        BY <3>2 DEF generateUniqueSubdomain, Existing
      <4>2. tunnelsById[c] = None /\ UNCHANGED key
        BY <2>7 DEF Admit, HandlersAgree
      <4>3. IndexesAgree'
        BY <4>1, <4>2, RegisterKeepsIndexes
      <4>4. HandlersAgree'
        BY <4>1, <4>2 DEF HandlersAgree, register
      <4>5. QED
        BY <4>3, <4>4
    <3>3. QED
      BY <2>7, <3>1, <3>2 DEF Admit
  <2>8. CASE SocketCloses(c)
    BY <2>8 DEF SocketCloses, IndexesAgree, HandlersAgree
  <2>9. CASE Finalized(c)
    <3>1. {subdomain[c]} \in SUBSET Subdomain
      BY <2>9 DEF Finalized, HandlersAgree
    <3>2. IndexesAgree'
      BY <2>9, <3>1, UnregisterKeepsIndexes DEF Finalized
    <3>3. ASSUME NEW d \in Conn, tunnelsById'[d] # None
          PROVE  d # c /\ tunnelsById'[d] = tunnelsById[d]
      BY <2>9, <3>1, <3>3 DEF Finalized, unregister, HandlersAgree, IndexesAgree
    <3>4. HandlersAgree'
      BY <2>9, <3>3 DEF Finalized, HandlersAgree
    <3>5. QED
      BY <3>2, <3>4
  <2>10. CASE ReturnUse(c)
    BY <2>10 DEF ReturnUse, IndexesAgree, HandlersAgree
  <2>11. CASE HeartbeatTimeout(c)
    BY <2>11 DEF HeartbeatTimeout, IndexesAgree, HandlersAgree
  <2>12. CASE ClientDisconnect(c)
    BY <2>12 DEF ClientDisconnect, IndexesAgree, HandlersAgree
  <2>13. CASE TunnelExpires(c)
    BY <2>13 DEF TunnelExpires, IndexesAgree, HandlersAgree
  <2>14. QED
    BY <1>1, <2>1, <2>2, <2>3, <2>4, <2>5, <2>6, <2>7, <2>8, <2>9, <2>10,
       <2>11, <2>12, <2>13 DEF Attempt
<1>2. CASE ExpirySweep
  <2> DEFINE N == {tunnelsById[c] : c \in
                     {d \in findExpiredConnections : sock[d] = "CLOSED"}}
  <2>1. N \in SUBSET Subdomain
    BY DEF findExpiredConnections
  <2>2. unregister(N) /\ UNCHANGED <<key, pc, subdomain>>
    BY <1>2 DEF ExpirySweep
  <2>3. IndexesAgree'
    BY <2>1, <2>2, UnregisterKeepsIndexes
  <2>4. HandlersAgree'
    BY <2>2 DEF unregister, HandlersAgree
  <2>5. QED
    BY <2>3, <2>4
<1>3. CASE \E k \in Key : Revoke(k) \/ Delete(k)
  BY <1>3 DEF Revoke, Delete, IndexesAgree, HandlersAgree
<1>4. CASE Crash
  BY <1>4 DEF Crash, IndexesAgree, HandlersAgree
<1>5. CASE UNCHANGED vars
  BY <1>5 DEF IndexesAgree, HandlersAgree
<1>6. QED
  BY <1>1, <1>2, <1>3, <1>4, <1>5 DEF Next

(* The invariant of the maps holds in every reachable state.               *)
LEMMA MapInvariant == Spec => []MapInv
<1>1. Init => IndexesAgree /\ HandlersAgree
  BY MapAssumption DEF Init, MapInit, IndexesAgree, HandlersAgree
<1>2. TypeOK /\ TypeOK' /\ IndexesAgree /\ HandlersAgree /\ [Next]_vars
        => (IndexesAgree /\ HandlersAgree)'
  BY MapInvStep DEF MapInv
<1>3. QED
  BY <1>1, <1>2, TypeCorrect, PTL DEF Spec, MapInv

(* The three maps always describe the same tunnels, also when a name is    *)
(* drawn again while the close handler of its previous holder still waits. *)
THEOREM IndexesAlwaysAgree == Spec => []IndexesAgree
BY MapInvariant, PTL DEF MapInv

-----------------------------------------------------------------------------
(* The server implements KeySlots                                          *)

(* What unregister takes out of the maps is a group of names given up.     *)
LEMMA UnregisterReleases ==
  ASSUME MapTypeOK, IndexesAgree, NEW N \in SUBSET Subdomain, unregister(N)
  PROVE  Slots!Release(N)
<1>1. ASSUME NEW k \in Key
      PROVE  tunnelsByKeyId'[k] = tunnelsByKeyId[k] \ N
  BY <1>1 DEF MapTypeOK, IndexesAgree, unregister
<1>2. QED
  BY <1>1 DEF Slots!Release, unregister

(* Every step of the server is a step of KeySlots or changes no slot.      *)
LEMMA SlotStep ==
  ASSUME MapInv, [Next]_vars
  PROVE  [Slots!Next]_tunnelsByKeyId
<1> USE MapAssumption DEF MapInv, TypeOK, MapTypeOK, mapVars
<1>1. ASSUME NEW c \in Conn, Admit(c), tunnelsByKeyId' # tunnelsByKeyId
      PROVE  Slots!Next
  <2>1. PICK s \in Subdomain :
          tunnelsBySubdomain[s] = None /\ register(c, s)
    BY <1>1 DEF Admit, generateUniqueSubdomain, Existing
  <2>2. \A k \in Key : s \notin tunnelsByKeyId[k]
    BY <2>1 DEF IndexesAgree
  <2>3. ~ LimitReached(key[c])
    BY <1>1 DEF Admit
  <2>4. Cardinality(tunnelsByKeyId[key[c]]) < MaxTunnels(key[c])
    <3>1. IsFiniteSet(tunnelsByKeyId[key[c]])
      BY FS_Subset
    <3>2. Cardinality(tunnelsByKeyId[key[c]]) \in Nat
      BY <3>1, FS_CardinalityType
    <3>3. MaxTunnels(key[c]) \in Nat
      BY ServerAssumption DEF MaxTunnels
    <3>4. QED
      BY <2>3, <3>2, <3>3 DEF LimitReached, getCountByKeyId
  <2>5. key[c] \in Key
    OBVIOUS
  <2>6. Slots!Acquire(key[c], s)
    <3>1. Slots!Cardinality(tunnelsByKeyId[key[c]]) =
            Cardinality(tunnelsByKeyId[key[c]])
      BY DEF Slots!Cardinality, Cardinality
    <3>2. [k \in Key |-> MaxTunnels(k)][key[c]] = MaxTunnels(key[c])
      BY <2>5
    <3>3. tunnelsByKeyId' = [tunnelsByKeyId EXCEPT ![key[c]] = @ \cup {s}]
      BY <2>1 DEF register
    <3>4. QED
      BY <2>2, <2>4, <3>1, <3>2, <3>3 DEF Slots!Acquire
  <2>7. QED
    BY <2>5, <2>6 DEF Slots!Next
<1>2. ASSUME NEW c \in Conn, Finalized(c)
      PROVE  Slots!Next
  <2>1. {subdomain[c]} \in SUBSET Subdomain
    BY <1>2 DEF Finalized, HandlersAgree
  <2>2. Slots!Release({subdomain[c]})
    BY <1>2, <2>1, UnregisterReleases DEF Finalized
  <2>3. QED
    BY <2>1, <2>2 DEF Slots!Next
<1>3. ASSUME ExpirySweep
      PROVE  Slots!Next
  <2> DEFINE N == {tunnelsById[c] : c \in
                     {d \in findExpiredConnections : sock[d] = "CLOSED"}}
  <2>1. N \in SUBSET Subdomain
    BY DEF findExpiredConnections
  <2>2. Slots!Release(N)
    BY <1>3, <2>1, UnregisterReleases DEF ExpirySweep
  <2>3. QED
    BY <2>1, <2>2 DEF Slots!Next
<1>4. ASSUME Crash
      PROVE  Slots!Next
  <2>1. Slots!Release(Subdomain)
    BY <1>4 DEF Crash, Slots!Release
  <2>2. QED
    BY <2>1 DEF Slots!Next
<1>5. ASSUME NEW c \in Conn, Attempt(c), ~ Admit(c), ~ Finalized(c)
      PROVE  UNCHANGED tunnelsByKeyId
  BY <1>5 DEF Attempt, Connect, RejectEarly, ReadKey, CheckKey, Charge,
     TierLookupFails, SocketCloses, ReturnUse, HeartbeatTimeout,
     ClientDisconnect, TunnelExpires
<1>6. CASE \E k \in Key : Revoke(k) \/ Delete(k)
  BY <1>6 DEF Revoke, Delete
<1>7. CASE UNCHANGED vars
  BY <1>7 DEF vars
<1>8. QED
  BY <1>1, <1>2, <1>3, <1>4, <1>5, <1>6, <1>7 DEF Next

(* For every set of keys and names, the server hands out names to keys as  *)
(* KeySlots says: no name to two keys, and no name to a key that already   *)
(* holds as many as its tier allows.                                       *)
THEOREM ServerImplementsKeySlots == Spec => ImplementsKeySlots
<1>1. Init => Slots!Init
  BY DEF Init, MapInit, Slots!Init
<1>2. MapInv /\ [Next]_vars => [Slots!Next]_tunnelsByKeyId
  BY SlotStep
<1>3. QED
  BY <1>1, <1>2, MapInvariant, PTL DEF Spec, ImplementsKeySlots, Slots!Spec

-----------------------------------------------------------------------------
(* Uses                                                                    *)

(* Sets of attempts are finite, and a smaller one counts no more.          *)
LEMMA ConnSets ==
  ASSUME NEW S \in SUBSET Conn, NEW T \in SUBSET Conn
  PROVE  /\ IsFiniteSet(S)
         /\ Cardinality(S) \in Nat
         /\ S \subseteq T => Cardinality(S) <= Cardinality(T)
<1>1. IsFiniteSet(S) /\ IsFiniteSet(T)
  BY MapAssumption, FS_Subset
<1>2. QED
  BY <1>1, FS_CardinalityType, FS_Subset

(* Counting one attempt more, or one less.                                 *)
LEMMA ConnSetsStep ==
  ASSUME NEW S \in SUBSET Conn, NEW c \in Conn
  PROVE  /\ Cardinality(S \cup {c}) \in Nat
         /\ Cardinality(S \cup {c}) <= Cardinality(S) + 1
         /\ c \in S => Cardinality(S \ {c}) = Cardinality(S) - 1
<1>1. IsFiniteSet(S) /\ Cardinality(S) \in Nat
  BY ConnSets
<1>2. S \cup {c} \in SUBSET Conn
  OBVIOUS
<1>3. Cardinality(S \cup {c}) \in Nat
  BY <1>2, ConnSets
<1>4. \/ Cardinality(S \cup {c}) = Cardinality(S)
      \/ Cardinality(S \cup {c}) = Cardinality(S) + 1
  BY <1>1, FS_AddElement
<1>5. c \in S => Cardinality(S \ {c}) = Cardinality(S) - 1
  BY <1>1, FS_RemoveElement
<1>6. QED
  BY <1>1, <1>3, <1>4, <1>5

(* A step that charges nobody and gives nothing back lets nobody in.       *)
LEMMA ChargedNoMore ==
  ASSUME TypeOK, UsesCover, UNCHANGED <<uses, swallowed>>,
         \A k \in Key : Charged(k)' \subseteq Charged(k)
  PROVE  UsesCover'
<1>1. ASSUME NEW k \in Key
      PROVE  Cardinality(Charged(k)') <= Cardinality(Charged(k))
  <2>1. Charged(k)' \in SUBSET Conn /\ Charged(k) \in SUBSET Conn
    BY DEF Charged
  <2>2. QED
    BY <2>1, ConnSets
<1>2. ASSUME NEW k \in Key
      PROVE  Cardinality(Charged(k)) \in Nat /\ Cardinality(Charged(k)') \in Nat
  <2>1. Charged(k)' \in SUBSET Conn /\ Charged(k) \in SUBSET Conn
    BY DEF Charged
  <2>2. QED
    BY <2>1, ConnSets
<1>3. QED
  BY <1>1, <1>2 DEF UsesCover, TypeOK

(* The charge is covered: by the row, or by a write that was swallowed.    *)
LEMMA ChargeStep ==
  ASSUME TypeOK, UsesCover, NEW c \in Conn, Charge(c)
  PROVE  UsesCover'
<1> DEFINE k == key[c]
<1> USE DEF TypeOK, MapTypeOK, Goto, Reject
<1>1. k \in Key /\ pc[c] = "charge" /\ UNCHANGED key
  BY DEF Charge
<1>2. CASE UNCHANGED <<uses, swallowed>>
  <2>1. \A j \in Key : Charged(j)' \subseteq Charged(j)
    BY <1>1, <1>2 DEF Charge, Charged
  <2>2. QED
    BY <1>2, <2>1, ChargedNoMore
<1>3. CASE \/ UsesLeft(k) /\ uses' = [uses EXCEPT ![k] = @ + 1] /\ UNCHANGED swallowed
           \/ swallowed' = [swallowed EXCEPT ![k] = @ + 1] /\ UNCHANGED uses
  <2>1. pc' \in [Conn -> PC] /\ \A d \in Conn : d # c => pc'[d] = pc[d]
    BY DEF Charge, PC
  <2>2. ASSUME NEW j \in Key
        PROVE  /\ Charged(j) \in SUBSET Conn
               /\ IsFiniteSet(Charged(j))
               /\ Cardinality(Charged(j)) \in Nat
               /\ Cardinality(Charged(j)') \in Nat
               /\ Cardinality(Charged(j) \cup {c}) \in Nat
               /\ Cardinality(Charged(j) \cup {c}) <= Cardinality(Charged(j)) + 1
    <3>1. Charged(j) \in SUBSET Conn /\ Charged(j)' \in SUBSET Conn
      BY DEF Charged
    <3>2. IsFiniteSet(Charged(j)) /\ Cardinality(Charged(j)) \in Nat
          /\ Cardinality(Charged(j)') \in Nat
      BY <3>1, ConnSets
    <3>3. QED
      BY <3>1, <3>2, ConnSetsStep
  <2>3. ASSUME NEW j \in Key
        PROVE  Charged(j)' \subseteq IF j = k THEN Charged(j) \cup {c} ELSE Charged(j)
    BY <1>1, <2>1 DEF Charged
  <2>4. ASSUME NEW j \in Key
        PROVE  Cardinality(Charged(j)') <=
                 IF j = k THEN Cardinality(Charged(j)) + 1 ELSE Cardinality(Charged(j))
    <3>1. CASE j = k
      <4>1. Charged(j)' \in SUBSET Conn /\ Charged(j) \cup {c} \in SUBSET Conn
        BY DEF Charged
      <4>2. Cardinality(Charged(j)') <= Cardinality(Charged(j) \cup {c})
        BY <2>3, <3>1, <4>1, ConnSets
      <4>3. QED
        BY <2>2, <3>1, <4>2
    <3>2. CASE j # k
      <4>1. Charged(j)' \in SUBSET Conn /\ Charged(j) \in SUBSET Conn
        BY DEF Charged
      <4>2. QED
        BY <2>3, <3>2, <4>1, ConnSets
    <3>3. QED
      BY <3>1, <3>2
  <2>5. \A j \in Key : Cardinality(Charged(j)') <= uses'[j] + swallowed'[j]
    <3>1. SUFFICES ASSUME NEW j \in Key
                   PROVE  Cardinality(Charged(j)') <= uses'[j] + swallowed'[j]
      OBVIOUS
    <3>2. /\ uses[j] \in Nat /\ swallowed[j] \in Nat
          /\ Cardinality(Charged(j)) <= uses[j] + swallowed[j]
      BY DEF UsesCover
    <3>3. uses'[j] + swallowed'[j] =
            IF j = k THEN uses[j] + swallowed[j] + 1 ELSE uses[j] + swallowed[j]
      <4>1. CASE j = k
        <5>1. \/ uses'[j] = uses[j] + 1 /\ swallowed'[j] = swallowed[j]
              \/ uses'[j] = uses[j] /\ swallowed'[j] = swallowed[j] + 1
          BY <1>1, <1>3, <4>1
        <5>2. QED
          BY <3>2, <4>1, <5>1
      <4>2. CASE j # k
        <5>1. uses'[j] = uses[j] /\ swallowed'[j] = swallowed[j]
          BY <1>1, <1>3, <4>2
        <5>2. QED
          BY <4>2, <5>1
      <4>3. QED
        BY <4>1, <4>2
    <3>4. /\ Cardinality(Charged(j)) \in Nat
          /\ Cardinality(Charged(j)') \in Nat
          /\ Cardinality(Charged(j)') <=
               IF j = k THEN Cardinality(Charged(j)) + 1 ELSE Cardinality(Charged(j))
      BY <2>2, <2>4
    <3>5. QED
      BY <3>2, <3>3, <3>4
  <2>6. \A j \in LimitedKey : uses'[j] <= MaxUses[j]
    BY <1>1, <1>3, ServerAssumption DEF UsesCover, UsesLeft
  <2>7. QED
    BY <2>5, <2>6 DEF UsesCover
<1>4. QED
  BY <1>2, <1>3 DEF Charge

(* Giving a use back takes the attempt out of the count, and takes at most *)
(* one from the row.                                                       *)
LEMMA ReturnStep ==
  ASSUME TypeOK, UsesCover, NEW c \in Conn, ReturnUse(c)
  PROVE  UsesCover'
<1> DEFINE k == key[c]
<1> USE DEF TypeOK, MapTypeOK
<1>1. k \in Key /\ pc[c] = "returning" /\ UNCHANGED <<key, swallowed>>
  BY DEF ReturnUse
<1>2. pc' \in [Conn -> PC] /\ pc'[c] = "done" /\ \A d \in Conn : d # c => pc'[d] = pc[d]
  BY DEF ReturnUse, Goto, PC
<1>3. ASSUME NEW j \in Key
      PROVE  /\ Cardinality(Charged(j)) \in Nat
             /\ Cardinality(Charged(j)') =
                  IF j = k THEN Cardinality(Charged(j)) - 1 ELSE Cardinality(Charged(j))
  <2>1. Charged(j) \in SUBSET Conn
    BY DEF Charged
  <2>2. IsFiniteSet(Charged(j)) /\ Cardinality(Charged(j)) \in Nat
    BY <2>1, ConnSets
  <2>3. CASE j = k
    <3>1. c \in Charged(j) /\ Charged(j)' = Charged(j) \ {c}
      BY <1>1, <1>2, <2>3 DEF Charged
    <3>2. QED
      BY <2>1, <2>2, <2>3, <3>1, ConnSetsStep
  <2>4. CASE j # k
    <3>1. Charged(j)' = Charged(j)
      BY <1>1, <1>2, <2>4 DEF Charged
    <3>2. QED
      BY <2>2, <2>4, <3>1
  <2>5. QED
    BY <2>3, <2>4
<1>4. ASSUME NEW j \in Key
      PROVE  /\ uses'[j] \in Nat
             /\ uses'[j] <= uses[j]
             /\ uses'[j] >= IF j = k THEN uses[j] - 1 ELSE uses[j]
  BY <1>1 DEF ReturnUse, DecrementedUses
<1>5. \A j \in Key : Cardinality(Charged(j)') <= uses'[j] + swallowed'[j]
  BY <1>1, <1>3, <1>4 DEF UsesCover
<1>6. \A j \in LimitedKey : uses'[j] <= MaxUses[j]
  BY <1>4, ServerAssumption DEF UsesCover
<1>7. QED
  BY <1>5, <1>6 DEF UsesCover

(* Every step keeps the charged attempts covered.                          *)
LEMMA UsesStep ==
  ASSUME TypeOK, UsesCover, [Next]_vars
  PROVE  UsesCover'
<1> USE DEF TypeOK, MapTypeOK, rowVars, connVars
<1>1. ASSUME NEW c \in Conn, Attempt(c), ~ Charge(c), ~ ReturnUse(c)
      PROVE  UsesCover'
  <2>1. UNCHANGED <<uses, swallowed, key>>
    BY <1>1 DEF Attempt, Connect, RejectEarly, ReadKey, CheckKey,
       TierLookupFails, Admit, SocketCloses, Finalized, HeartbeatTimeout,
       ClientDisconnect, TunnelExpires
  <2>2. /\ \A d \in Conn : d # c => pc'[d] = pc[d]
        /\ pc'[c] \in {"tier", "open", "finalizing", "returning"} =>
             pc[c] \in {"tier", "open", "finalizing", "returning"}
    BY <1>1 DEF Attempt, Connect, RejectEarly, ReadKey, CheckKey,
       TierLookupFails, Admit, SocketCloses, Finalized, HeartbeatTimeout,
       ClientDisconnect, TunnelExpires, Goto, Reject
  <2>3. \A k \in Key : Charged(k)' \subseteq Charged(k)
    BY <2>1, <2>2 DEF Charged
  <2>4. QED
    BY <2>1, <2>3, ChargedNoMore
<1>2. CASE ExpirySweep \/ (\E k \in Key : Revoke(k) \/ Delete(k)) \/ UNCHANGED vars
  <2>1. UNCHANGED <<uses, swallowed, key, pc>>
    BY <1>2 DEF ExpirySweep, Revoke, Delete, vars
  <2>2. QED
    BY <2>1, ChargedNoMore DEF Charged
<1>3. CASE Crash
  <2>1. UNCHANGED <<uses, swallowed, key>>
    BY <1>3 DEF Crash
  <2>2. \A k \in Key : Charged(k)' \subseteq Charged(k)
    BY <1>3 DEF Crash, Charged
  <2>3. QED
    BY <2>1, <2>2, ChargedNoMore
<1>4. QED
  BY <1>1, <1>2, <1>3, ChargeStep, ReturnStep DEF Next

(* However attempts, closes, failed writes and crashes interleave, a key   *)
(* with max_uses has at most that many tunnels registered, plus the        *)
(* increments that failed and were ignored.                                *)
THEOREM UseLimitHolds == Spec => []UseLimit
<1>1. Init => UsesCover
  <2>1. SUFFICES ASSUME Init PROVE UsesCover
    OBVIOUS
  <2>2. \A k \in Key : Charged(k) = {}
    BY <2>1 DEF Init, Charged
  <2>3. Cardinality({}) = 0
    BY FS_EmptySet
  <2>4. \A k \in Key : uses[k] = 0 /\ swallowed[k] = 0
    BY <2>1 DEF Init
  <2>5. \A k \in Key : Cardinality(Charged(k)) <= uses[k] + swallowed[k]
    BY <2>2, <2>3, <2>4
  <2>6. \A k \in LimitedKey : uses[k] <= MaxUses[k]
    BY <2>4, ServerAssumption
  <2>7. QED
    BY <2>5, <2>6 DEF UsesCover
<1>2. TypeOK /\ UsesCover /\ [Next]_vars => UsesCover'
  BY UsesStep
<1>3. TypeOK /\ HandlersAgree /\ UsesCover => UseLimit
  <2>1. SUFFICES ASSUME TypeOK, HandlersAgree, UsesCover, NEW k \in LimitedKey
                 PROVE  Cardinality(OpenTunnels(k)) <= MaxUses[k] + swallowed[k]
    BY DEF UseLimit
  <2>2. k \in Key
    BY ServerAssumption
  <2>3. OpenTunnels(k) \subseteq Charged(k)
    BY <2>1 DEF OpenTunnels, Charged, HandlersAgree
  <2>4. OpenTunnels(k) \in SUBSET Conn /\ Charged(k) \in SUBSET Conn
    BY DEF OpenTunnels, Charged
  <2>5. /\ Cardinality(OpenTunnels(k)) \in Nat
        /\ Cardinality(Charged(k)) \in Nat
        /\ Cardinality(OpenTunnels(k)) <= Cardinality(Charged(k))
    BY <2>3, <2>4, ConnSets
  <2>6. QED
    BY <2>1, <2>2, <2>5, ServerAssumption DEF UsesCover, TypeOK
<1>4. QED
  BY <1>1, <1>2, <1>3, TypeCorrect, MapInvariant, PTL DEF Spec, MapInv

-----------------------------------------------------------------------------
(* Revocation                                                              *)

(* Attempt c has no tunnel and cannot get one any more: its key is revoked *)
(* (no statement sets a status back to "active"), and it has not read the  *)
(* row yet, or has read the revoked one, or is over.                       *)
Barred(c) ==
  /\ ~ active[key[c]]
  /\ pc[c] \in {"idle", "lookup", "done"} \/ (pc[c] = "verify" /\ ~ seen[c])
  /\ tunnelsById[c] = None

(* A barred attempt stays barred.                                          *)
LEMMA BarredStep ==
  ASSUME TypeOK, NEW c \in Conn, Barred(c), [Next]_vars
  PROVE  Barred(c)'
<1> USE MapAssumption DEF TypeOK, MapTypeOK, vars, mapVars, connVars, rowVars, Barred
<1>1. ASSUME NEW d \in Conn, Attempt(d) PROVE Barred(c)'
  <2> USE DEF Goto, Reject, Closed
  <2>1. CASE Connect(d)
    BY <2>1 DEF Connect
  <2>2. CASE RejectEarly(d)
    BY <2>2 DEF RejectEarly
  <2>3. CASE ReadKey(d)
    BY <2>3 DEF ReadKey
  <2>4. CASE CheckKey(d)
    BY <2>4 DEF CheckKey
  <2>5. CASE Charge(d)
    BY <2>5 DEF Charge
  <2>6. CASE TierLookupFails(d)
    BY <2>6 DEF TierLookupFails
  <2>7. CASE Admit(d)
    BY <2>7 DEF Admit, register
  <2>8. CASE SocketCloses(d)
    BY <2>8 DEF SocketCloses
  <2>9. CASE Finalized(d)
    BY <2>9 DEF Finalized, unregister
  <2>10. CASE ReturnUse(d)
    BY <2>10 DEF ReturnUse
  <2>11. CASE HeartbeatTimeout(d) \/ ClientDisconnect(d) \/ TunnelExpires(d)
    BY <2>11 DEF HeartbeatTimeout, ClientDisconnect, TunnelExpires
  <2>12. QED
    BY <1>1, <2>1, <2>2, <2>3, <2>4, <2>5, <2>6, <2>7, <2>8, <2>9, <2>10, <2>11 DEF Attempt
<1>2. CASE ExpirySweep
  BY <1>2 DEF ExpirySweep, unregister
<1>3. CASE \E k \in Key : Revoke(k) \/ Delete(k)
  BY <1>3 DEF Revoke, Delete
<1>4. CASE Crash
  BY <1>4 DEF Crash
<1>5. CASE UNCHANGED vars
  BY <1>5
<1>6. QED
  BY <1>1, <1>2, <1>3, <1>4, <1>5 DEF Next

(* An attempt that begins after its key was revoked or deleted never gets  *)
(* a tunnel.                                                               *)
THEOREM RevokedKeyNeverGetsTunnel == Spec => RevokedKeyGetsNoTunnel
<1>1. ASSUME NEW c \in Conn
      PROVE  Spec => [](pc[c] = "idle" /\ ~ active[key[c]] => [](tunnelsById[c] = None))
  <2>1. MapInv /\ pc[c] = "idle" /\ ~ active[key[c]] => Barred(c)
    BY DEF MapInv, HandlersAgree, Barred
  <2>2. TypeOK /\ Barred(c) /\ [Next]_vars => Barred(c)'
    BY BarredStep
  <2>3. Barred(c) => tunnelsById[c] = None
    BY DEF Barred
  <2>4. QED
    BY <2>1, <2>2, <2>3, MapInvariant, TypeCorrect, PTL DEF Spec
<1>2. QED
  BY <1>1 DEF RevokedKeyGetsNoTunnel

-----------------------------------------------------------------------------
(* The server implements TunnelLife                                        *)

(* An attempt has a socket from its connection on, and its close handler   *)
(* runs only once that socket is closed.                                   *)
SocketsAgree ==
  \A c \in Conn :
    /\ pc[c] # "idle" => sock[c] # "NONE"
    /\ pc[c] = "finalizing" => sock[c] = "CLOSED"

(* Handlers and sockets stay in agreement.                                 *)
LEMMA SocketsStep ==
  ASSUME TypeOK, SocketsAgree, [Next]_vars
  PROVE  SocketsAgree'
<1> USE DEF TypeOK, vars, connVars, SocketsAgree
<1>1. ASSUME NEW c \in Conn, Attempt(c) PROVE SocketsAgree'
  <2> USE DEF Goto, Reject, Closed
  <2>1. CASE Connect(c)
    BY <2>1 DEF Connect
  <2>2. CASE RejectEarly(c) \/ ReadKey(c) \/ CheckKey(c)
    BY <2>2 DEF RejectEarly, ReadKey, CheckKey
  <2>3. CASE Charge(c)
    BY <2>3 DEF Charge
  <2>4. CASE TierLookupFails(c) \/ Admit(c)
    BY <2>4 DEF TierLookupFails, Admit
  <2>5. CASE SocketCloses(c)
    BY <2>5 DEF SocketCloses
  <2>6. CASE Finalized(c) \/ ReturnUse(c)
    BY <2>6 DEF Finalized, ReturnUse
  <2>7. CASE HeartbeatTimeout(c) \/ ClientDisconnect(c) \/ TunnelExpires(c)
    BY <2>7 DEF HeartbeatTimeout, ClientDisconnect, TunnelExpires
  <2>8. QED
    BY <1>1, <2>1, <2>2, <2>3, <2>4, <2>5, <2>6, <2>7 DEF Attempt
<1>2. CASE ExpirySweep
  BY <1>2 DEF ExpirySweep, Closed
<1>3. CASE (\E k \in Key : Revoke(k) \/ Delete(k)) \/ UNCHANGED vars
  BY <1>3 DEF Revoke, Delete
<1>4. CASE Crash
  BY <1>4 DEF Crash
<1>5. QED
  BY <1>1, <1>2, <1>3, <1>4 DEF Next

(* What TunnelLife sees of attempt c's socket.                             *)
SocketOf(c) ==
  CASE LifeOf(c) = "new" -> "NONE"
    [] LifeOf(c) = "gone" -> "CLOSED"
    [] OTHER -> sock[c]

(* A step that leaves the maps, the names and the view of every attempt as *)
(* they were is a stutter of TunnelLife.                                   *)
LEMMA LifeStutter ==
  ASSUME UNCHANGED <<key, mapVars, subdomain>>,
         \A c \in Conn : LifeOf(c)' = LifeOf(c) /\ SocketOf(c)' = SocketOf(c)
  PROVE  UNCHANGED Life!lifeVars
BY DEF Life!lifeVars, Life!mapVars, mapVars, SocketOf

(* An attempt that ends before it has a tunnel is abandoned.               *)
LEMMA LifeAbandon ==
  ASSUME TypeOK, NEW c \in Conn, UNCHANGED <<key, mapVars, subdomain>>, Reject(c),
         pc[c] \notin {"open", "finalizing", "returning", "done"}
  PROVE  Life!Abandon(c)
<1> USE DEF TypeOK
<1>1. pc' = [pc EXCEPT ![c] = "done"] /\ \A d \in Conn : d # c => sock'[d] = sock[d]
  BY DEF Reject, Goto, Closed
<1>2. LifeOf(c) = "new" /\ LifeOf(c)' = "gone" /\ SocketOf(c)' = "CLOSED"
  BY <1>1 DEF LifeOf, SocketOf
<1>3. \A d \in Conn : d # c => LifeOf(d)' = LifeOf(d) /\ SocketOf(d)' = SocketOf(d)
  BY <1>1 DEF LifeOf, SocketOf
<1>4. QED
  BY <1>2, <1>3 DEF Life!Abandon, Life!mapVars, mapVars, SocketOf

(* An attempt that is admitted opens its tunnel, whatever has become of    *)
(* its socket.                                                             *)
LEMMA LifeOpen ==
  ASSUME TypeOK, SocketsAgree, NEW c \in Conn, pc[c] = "tier", UNCHANGED <<key, sock>>,
         NEW s \in generateUniqueSubdomain, s # None, register(c, s),
         subdomain' = [subdomain EXCEPT ![c] = s], Goto(c, "open")
  PROVE  Life!Open(c)
<1> USE DEF TypeOK
<1>1. pc' = [pc EXCEPT ![c] = "open"] /\ sock' = sock
  BY DEF Goto
<1>2. LifeOf(c) = "new" /\ LifeOf(c)' = "open" /\ SocketOf(c)' = sock[c]
  BY <1>1 DEF LifeOf, SocketOf
<1>3. sock[c] \in {"OPEN", "CLOSING", "CLOSED"}
  BY DEF SocketsAgree
<1>4. \A d \in Conn : d # c => LifeOf(d)' = LifeOf(d) /\ SocketOf(d)' = SocketOf(d)
  BY <1>1 DEF LifeOf, SocketOf
<1>5. s \in Life!generateUniqueSubdomain \ {None} /\ Life!register(c, s)
  BY DEF generateUniqueSubdomain, Existing, Life!generateUniqueSubdomain, Life!Existing,
     register, Life!register
<1>6. /\ [d \in Conn |-> LifeOf(d)]' = [[d \in Conn |-> LifeOf(d)] EXCEPT ![c] = "open"]
      /\ [d \in Conn |-> SocketOf(d)]' = [[d \in Conn |-> SocketOf(d)] EXCEPT ![c] = sock[c]]
  BY <1>2, <1>4
<1>7. QED
  BY <1>2, <1>3, <1>5, <1>6 DEF Life!Open, SocketOf

(* The server closes the socket of an open tunnel.                         *)
LEMMA LifeCloseSocket ==
  ASSUME TypeOK, NEW c \in Conn, HeartbeatTimeout(c) \/ ClientDisconnect(c)
  PROVE  Life!CloseSocket(c)
<1> USE DEF TypeOK
<1>1. /\ pc[c] = "open" /\ sock[c] = "OPEN" /\ sock' = [sock EXCEPT ![c] = "CLOSING"]
      /\ UNCHANGED <<key, mapVars, pc, subdomain>>
  BY DEF HeartbeatTimeout, ClientDisconnect, Closed
<1>2. LifeOf(c) = "open" /\ SocketOf(c) = "OPEN" /\ SocketOf(c)' = "CLOSING"
  BY <1>1 DEF LifeOf, SocketOf
<1>3. \A d \in Conn : LifeOf(d)' = LifeOf(d)
  BY <1>1 DEF LifeOf
<1>4. \A d \in Conn : d # c => SocketOf(d)' = SocketOf(d)
  BY <1>1 DEF LifeOf, SocketOf
<1>5. QED
  BY <1>1, <1>2, <1>3, <1>4 DEF Life!CloseSocket, Life!mapVars, mapVars, SocketOf

(* The socket of an open tunnel reaches CLOSED; before and after that it   *)
(* does so unseen.                                                         *)
LEMMA LifeSocketGone ==
  ASSUME TypeOK, SocketsAgree, NEW c \in Conn, SocketCloses(c)
  PROVE  Life!SocketGone(c) \/ UNCHANGED Life!lifeVars
<1> USE DEF TypeOK
<1>1. /\ sock[c] \in {"OPEN", "CLOSING"} /\ sock' = [sock EXCEPT ![c] = "CLOSED"]
      /\ UNCHANGED <<key, mapVars>>
  BY DEF SocketCloses
<1>2. CASE pc[c] # "open"
  <2>1. UNCHANGED <<pc, subdomain>>
    BY <1>2 DEF SocketCloses
  <2>2. pc[c] # "finalizing"
    BY <1>1 DEF SocketsAgree
  <2>3. \A d \in Conn : LifeOf(d)' = LifeOf(d) /\ SocketOf(d)' = SocketOf(d)
    BY <1>1, <1>2, <2>1, <2>2 DEF LifeOf, SocketOf
  <2>4. QED
    BY <1>1, <2>1, <2>3, LifeStutter
<1>3. CASE pc[c] = "open"
  <2>1. LifeOf(c) = "open" /\ SocketOf(c) = sock[c]
    BY <1>3 DEF LifeOf, SocketOf
  <2>2. \/ /\ findBySubdomain(subdomain[c]) # None
           /\ pc' = [pc EXCEPT ![c] = "finalizing"] /\ subdomain' = subdomain
        \/ /\ findBySubdomain(subdomain[c]) = None
           /\ pc' = [pc EXCEPT ![c] = "returning"]
           /\ subdomain' = [subdomain EXCEPT ![c] = None]
    BY <1>3 DEF SocketCloses, Goto
  <2>3. \A d \in Conn : d # c => LifeOf(d)' = LifeOf(d) /\ SocketOf(d)' = SocketOf(d)
    BY <1>1, <2>2 DEF LifeOf, SocketOf
  <2>4. SocketOf(c)' = "CLOSED" /\
        LifeOf(c)' = IF findBySubdomain(subdomain[c]) # None THEN "finalizing" ELSE "gone"
    BY <1>1, <2>2 DEF LifeOf, SocketOf
  <2>5. findBySubdomain(subdomain[c]) = Life!findBySubdomain(subdomain[c])
    BY DEF findBySubdomain, Life!findBySubdomain
  <2>6. /\ [d \in Conn |-> SocketOf(d)]' = [[d \in Conn |-> SocketOf(d)] EXCEPT ![c] = "CLOSED"]
        /\ [d \in Conn |-> LifeOf(d)]' = [[d \in Conn |-> LifeOf(d)] EXCEPT ![c] =
             IF findBySubdomain(subdomain[c]) # None THEN "finalizing" ELSE "gone"]
    BY <2>3, <2>4
  <2>7. QED
    BY <1>1, <2>1, <2>2, <2>5, <2>6 DEF Life!SocketGone, Life!mapVars, mapVars, SocketOf
<1>4. QED
  BY <1>2, <1>3

(* The close handler unregisters its name and is through.                  *)
LEMMA LifeUnregister ==
  ASSUME TypeOK, SocketsAgree, NEW c \in Conn, Finalized(c)
  PROVE  Life!Unregister(c)
<1> USE DEF TypeOK
<1>1. /\ pc[c] = "finalizing" /\ pc' = [pc EXCEPT ![c] = "returning"]
      /\ subdomain' = [subdomain EXCEPT ![c] = None] /\ UNCHANGED <<key, sock>>
  BY DEF Finalized, Goto
<1>2. LifeOf(c) = "finalizing" /\ LifeOf(c)' = "gone"
  BY <1>1 DEF LifeOf
<1>3. \A d \in Conn : d # c => LifeOf(d)' = LifeOf(d)
  BY <1>1 DEF LifeOf
<1>4. \A d \in Conn : SocketOf(d)' = SocketOf(d)
  BY <1>1, <1>2, <1>3 DEF SocketOf, SocketsAgree
<1>5. Life!unregister({subdomain[c]})
  BY DEF Finalized, unregister, Life!unregister
<1>6. QED
  BY <1>1, <1>2, <1>3, <1>4, <1>5 DEF Life!Unregister, SocketOf

(* A tick of the expiry checker.                                           *)
LEMMA LifeSweep ==
  ASSUME MapInv, ExpirySweep
  PROVE  Life!Sweep
<1> USE DEF MapInv, TypeOK, MapTypeOK
<1>1. findExpiredConnections = Life!Overdue
  BY DEF findExpiredConnections, Life!Overdue
<1>2. \A c \in findExpiredConnections : SocketOf(c) = sock[c]
  BY DEF findExpiredConnections, HandlersAgree, LifeOf, SocketOf
<1>3. Life!SweptNames = {tunnelsById[c] : c \in {d \in findExpiredConnections : sock[d] = "CLOSED"}}
  BY <1>1, <1>2 DEF Life!SweptNames, SocketOf, findExpiredConnections
<1>4. /\ \A c \in Conn : sock'[c] =
           IF c \in findExpiredConnections /\ sock[c] = "OPEN" THEN "CLOSING" ELSE sock[c]
      /\ UNCHANGED <<key, pc, subdomain>>
  BY DEF ExpirySweep, Closed
<1>5. \A c \in Conn : LifeOf(c)' = LifeOf(c)
  BY <1>4 DEF LifeOf
<1>6. \A c \in Conn : SocketOf(c)' =
        IF c \in Life!Overdue /\ SocketOf(c) = "OPEN" THEN "CLOSING" ELSE SocketOf(c)
  <2> TAKE c \in Conn
  <2>1. CASE c \in findExpiredConnections
    <3>1. LifeOf(c) \in {"open", "finalizing"}
      BY <2>1 DEF findExpiredConnections, HandlersAgree, LifeOf
    <3>2. QED
      BY <1>1, <1>2, <1>4, <1>5, <2>1, <3>1 DEF SocketOf
  <2>2. CASE c \notin findExpiredConnections
    BY <1>1, <1>4, <1>5, <2>2 DEF SocketOf
  <2>3. QED
    BY <2>1, <2>2
<1>7. Life!unregister(Life!SweptNames)
  BY <1>3 DEF ExpirySweep, unregister, Life!unregister
<1>8. Life!Overdue # {}
  BY <1>1 DEF ExpirySweep
<1>9. [c \in Conn |-> SocketOf(c)]' =
        [c \in Conn |-> IF c \in Life!Overdue /\ [d \in Conn |-> SocketOf(d)][c] = "OPEN"
                        THEN "CLOSING" ELSE [d \in Conn |-> SocketOf(d)][c]]
  BY <1>6
<1>10. [c \in Conn |-> LifeOf(c)]' = [c \in Conn |-> LifeOf(c)]
  BY <1>5
<1>11. QED
  BY <1>4, <1>7, <1>8, <1>9, <1>10 DEF Life!Sweep, SocketOf

(* The process dies: only attempts that had not begun are still to come.   *)
LEMMA LifeServerDies ==
  ASSUME TypeOK, Crash
  PROVE  Life!ServerDies
<1> USE DEF TypeOK
<1> DEFINE survivors == {c \in Conn : pc[c] = "idle"}
<1>1. survivors \in SUBSET {c \in Conn : LifeOf(c) = "new"}
  BY DEF LifeOf
<1>2. pc' = [c \in Conn |-> IF pc[c] = "idle" THEN "idle" ELSE "done"]
  BY DEF Crash
<1>3. \A c \in Conn :
        /\ LifeOf(c)' = IF c \in survivors THEN "new" ELSE "gone"
        /\ SocketOf(c)' = IF c \in survivors THEN "NONE" ELSE "CLOSED"
  BY <1>2 DEF LifeOf, SocketOf
<1>4. survivors \in SUBSET {c \in Conn : [d \in Conn |-> LifeOf(d)][c] = "new"}
  BY <1>1
<1>5. /\ [c \in Conn |-> LifeOf(c)]' = [c \in Conn |-> IF c \in survivors THEN "new" ELSE "gone"]
      /\ [c \in Conn |-> SocketOf(c)]' =
            [c \in Conn |-> IF c \in survivors THEN "NONE" ELSE "CLOSED"]
  BY <1>3
<1> HIDE DEF survivors
<1>6. QED
  BY <1>4, <1>5 DEF Crash, Life!ServerDies, SocketOf

(* Every step of the server is a step of TunnelLife or leaves what traffic *)
(* can see as it was.                                                      *)
LEMMA LifeStep ==
  ASSUME MapInv, SocketsAgree, [Next]_vars
  PROVE  [Life!LifeNext]_(Life!lifeVars)
<1> USE DEF MapInv, TypeOK
<1>0. TypeOK
  OBVIOUS
<1>1. ASSUME NEW c \in Conn, Connect(c) \/ ReadKey(c) \/ ReturnUse(c)
      PROVE  UNCHANGED Life!lifeVars
  <2>1. UNCHANGED <<key, mapVars, subdomain>>
    BY <1>1 DEF Connect, ReadKey, ReturnUse
  <2>2. \/ pc[c] \in {"idle", "lookup"} /\ pc'[c] \in {"lookup", "verify"}
        \/ pc[c] = "returning" /\ pc'[c] = "done"
    BY <1>1 DEF Connect, ReadKey, ReturnUse, Goto
  <2>3. \A d \in Conn : d # c => pc'[d] = pc[d] /\ sock'[d] = sock[d]
    BY <1>1 DEF Connect, ReadKey, ReturnUse, Goto
  <2>4. \A d \in Conn : LifeOf(d)' = LifeOf(d) /\ SocketOf(d)' = SocketOf(d)
    BY <2>2, <2>3 DEF LifeOf, SocketOf
  <2>5. QED
    BY <2>1, <2>4, LifeStutter
<1>2. ASSUME NEW c \in Conn,
             \/ RejectEarly(c) \/ CheckKey(c) \/ Charge(c) \/ TierLookupFails(c)
      PROVE  Life!Abandon(c) \/ UNCHANGED Life!lifeVars
  <2>1. /\ UNCHANGED <<key, mapVars, subdomain>>
        /\ pc[c] \in {"lookup", "verify", "charge", "tier"}
    BY <1>2 DEF RejectEarly, CheckKey, Charge, TierLookupFails
  <2>2. Reject(c) \/ ((Goto(c, "charge") \/ Goto(c, "tier")) /\ UNCHANGED sock)
    BY <1>2 DEF RejectEarly, CheckKey, Charge, TierLookupFails
  <2>3. CASE Reject(c)
    BY <1>0, <2>1, <2>3, LifeAbandon
  <2>4. CASE (Goto(c, "charge") \/ Goto(c, "tier")) /\ UNCHANGED sock
    <3>1. pc'[c] \in {"charge", "tier"} /\ \A d \in Conn : d # c => pc'[d] = pc[d]
      BY <2>4 DEF Goto
    <3>2. \A d \in Conn : LifeOf(d)' = LifeOf(d) /\ SocketOf(d)' = SocketOf(d)
      BY <2>1, <2>4, <3>1 DEF LifeOf, SocketOf
    <3>3. QED
      BY <2>1, <3>2, LifeStutter
  <2>5. QED
    BY <2>2, <2>3, <2>4
<1>3. ASSUME NEW c \in Conn, Admit(c)
      PROVE  Life!Abandon(c) \/ Life!Open(c)
  <2>1. CASE Reject(c) /\ UNCHANGED <<mapVars, subdomain>>
    BY <1>0, <1>3, <2>1, LifeAbandon DEF Admit
  <2>2. CASE \E s \in generateUniqueSubdomain :
               /\ s # None /\ register(c, s)
               /\ subdomain' = [subdomain EXCEPT ![c] = s] /\ Goto(c, "open") /\ UNCHANGED sock
    BY <1>0, <1>3, <2>2, LifeOpen DEF Admit
  <2>3. QED
    BY <1>3, <2>1, <2>2 DEF Admit
<1>4. ASSUME NEW c \in Conn, TunnelExpires(c)
      PROVE  Life!Expire(c)
  <2>1. \A d \in Conn : LifeOf(d)' = LifeOf(d) /\ SocketOf(d)' = SocketOf(d)
    BY <1>4 DEF TunnelExpires, connVars, LifeOf, SocketOf
  <2>2. QED
    BY <1>4, <2>1 DEF TunnelExpires, connVars, Life!Expire, SocketOf
<1>5. ASSUME NEW c \in Conn, Attempt(c)
      PROVE  [Life!LifeNext]_(Life!lifeVars)
  BY <1>0, <1>1, <1>2, <1>3, <1>4, <1>5, LifeCloseSocket, LifeSocketGone, LifeUnregister
  DEF Attempt, Life!LifeNext
<1>6. CASE ExpirySweep
  BY <1>6, LifeSweep DEF Life!LifeNext
<1>7. CASE Crash
  BY <1>0, <1>7, LifeServerDies DEF Life!LifeNext
<1>8. CASE (\E k \in Key : Revoke(k) \/ Delete(k)) \/ UNCHANGED vars
  <2>1. UNCHANGED <<key, mapVars, subdomain, pc, sock>>
    BY <1>8 DEF Revoke, Delete, vars, connVars
  <2>2. \A d \in Conn : LifeOf(d)' = LifeOf(d) /\ SocketOf(d)' = SocketOf(d)
    BY <2>1 DEF LifeOf, SocketOf
  <2>3. QED
    BY <2>1, <2>2, LifeStutter
<1>9. QED
  BY <1>5, <1>6, <1>7, <1>8 DEF Next

(* The handshake implements TunnelLife: what HttpRelay and WsRelay build   *)
(* on holds of the server, for all sets of attempts, names and keys.       *)
THEOREM ServerImplementsTunnelLife == Spec => ImplementsTunnelLife
<1>1. Init => Life!LifeInit /\ SocketsAgree
  BY DEF Init, MapInit, Life!LifeInit, Life!MapInit, LifeOf, SocketsAgree
<1>2. TypeOK /\ SocketsAgree /\ [Next]_vars => SocketsAgree'
  BY SocketsStep
<1>3. MapInv /\ SocketsAgree /\ [Next]_vars => [Life!LifeNext]_(Life!lifeVars)
  BY LifeStep
<1>4. QED
  BY <1>1, <1>2, <1>3, TypeCorrect, MapInvariant, PTL
  DEF Spec, ImplementsTunnelLife, Life!LifeSpec
=============================================================================
