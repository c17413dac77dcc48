------------------------------ MODULE KeySlots ------------------------------
(***************************************************************************)
(* What the tunnel server promises about names and keys, with none of the  *)
(* machinery that keeps the promise: every bridge key holds a set of       *)
(* public names, a name is held by at most one key, and a key never takes  *)
(* a name while it already holds as many as its tier allows.  Names are    *)
(* given up in groups, because a sweep or a crash drops many at once.      *)
(***************************************************************************)
EXTENDS Naturals, FiniteSets

CONSTANTS
  Key,      \* bridge keys
  Name,     \* public names (subdomains)
  Limit     \* Limit[k]: names key k may hold at a time

VARIABLE held   \* held[k]: the names key k holds

Init == held = [k \in Key |-> {}]

Acquire(k, n) ==
  /\ \A j \in Key : n \notin held[j]
  /\ Cardinality(held[k]) < Limit[k]
  /\ held' = [held EXCEPT ![k] = @ \cup {n}]

Release(N) == held' = [k \in Key |-> held[k] \ N]

Next ==
  \/ \E k \in Key, n \in Name : Acquire(k, n)
  \/ \E N \in SUBSET Name : Release(N)

Spec == Init /\ [][Next]_held
=============================================================================
