-------------------------------- MODULE Sums --------------------------------
(***************************************************************************)
(* What the proofs need of sums over finite sets.  MapThenSumSet is a      *)
(* recursive function on the subsets of its set; that there is such a      *)
(* function, and that the order in which it takes the elements does not    *)
(* matter, is shown by induction on cardinality, as a least counterexample.*)
(***************************************************************************)
EXTENDS Naturals, FiniteSets, FiniteSetsExt, FiniteSetTheorems, WellFoundedInduction, TLAPS

(* The sum of f over S, for a function f.                                  *)
Sum(f, S) == MapThenSumSet(LAMBDA x : f[x], S)

(* The element the recursion takes first.                                  *)
First(s) == CHOOSE x \in s : TRUE

(* The recursion's equation, and the function it defines.                  *)
Unfolded(t, f, S) ==
  [s \in SUBSET S |-> IF s = {} THEN 0 ELSE f[First(s)] + t[s \ {First(s)}]]

IsTable(t, f, S) == t = Unfolded(t, f, S)

(* The sum is the function's value at the whole set.                       *)
LEMMA SumIsTable ==
  ASSUME NEW f, NEW S
  PROVE  Sum(f, S) = (CHOOSE t : IsTable(t, f, S))[S]
BY DEF Sum, MapThenSumSet, MapThenFoldSet, IsTable, Unfolded, First

(* Every set of numbers has a least element.                               *)
LEMMA Least ==
  ASSUME NEW T, T \subseteq Nat, T # {}
  PROVE  \E n \in T : \A m \in T : n <= m
<1>1. PICK n \in T : \A m \in T : ~ (<<m, n>> \in OpToRel(<, Nat))
  BY NatLessThanWellFounded, WFMin
<1>2. \A m \in T : ~ (m < n)
  BY <1>1 DEF OpToRel
<1>3. QED
  BY <1>2

(* A finite set without its first element is smaller by one.               *)
LEMMA WithoutFirst ==
  ASSUME NEW S, IsFiniteSet(S), NEW s \in SUBSET S
  PROVE  /\ IsFiniteSet(s) /\ Cardinality(s) \in Nat
         /\ Cardinality(s) = 0 <=> s = {}
         /\ s # {} => First(s) \in s
         /\ \A x \in s : s \ {x} \in SUBSET S
                           /\ Cardinality(s \ {x}) = Cardinality(s) - 1
<1>1. IsFiniteSet(s)
  BY FS_Subset
<1>2. Cardinality(s) \in Nat /\ (Cardinality(s) = 0 <=> s = {})
  BY <1>1, FS_CardinalityType, FS_EmptySet
<1>3. s # {} => First(s) \in s
  BY DEF First
<1>4. \A x \in s : Cardinality(s \ {x}) = Cardinality(s) - 1
  BY <1>1, FS_RemoveElement
<1>5. QED
  BY <1>1, <1>2, <1>3, <1>4

(* The function exists: a table that is right up to one cardinality gives  *)
(* one that is right up to the next.                                       *)
LEMMA TableExists ==
  ASSUME NEW S, IsFiniteSet(S), NEW f, \A x \in S : f[x] \in Nat
  PROVE  \E t \in [SUBSET S -> Nat] : IsTable(t, f, S)
<1> DEFINE Right(t, n) ==
             \A s \in SUBSET S : Cardinality(s) <= n => t[s] = Unfolded(t, f, S)[s]
           Good(n) == \E t \in [SUBSET S -> Nat] : Right(t, n)
           T == {n \in Nat : ~ Good(n)}
<1>1. \A t \in [SUBSET S -> Nat] : Unfolded(t, f, S) \in [SUBSET S -> Nat]
  BY WithoutFirst DEF Unfolded
<1>2. Good(0)
  <2> DEFINE z == [s \in SUBSET S |-> 0]
  <2>1. z \in [SUBSET S -> Nat]
    OBVIOUS
  <2>2. ASSUME NEW s \in SUBSET S, Cardinality(s) <= 0
        PROVE  z[s] = Unfolded(z, f, S)[s]
    <3>1. s = {}
      BY <2>2, WithoutFirst
    <3>2. QED
      BY <3>1 DEF Unfolded
  <2>3. QED
    BY <2>1, <2>2
<1>3. ASSUME NEW n \in Nat, Good(n) PROVE Good(n + 1)
  <2>1. PICK t \in [SUBSET S -> Nat] : Right(t, n)
    BY <1>3
  <2> DEFINE u == Unfolded(t, f, S)
  <2>2. ASSUME NEW s \in SUBSET S, Cardinality(s) <= n + 1
        PROVE  u[s] = Unfolded(u, f, S)[s]
    <3>1. CASE s = {}
      BY <3>1 DEF Unfolded
    <3>2. CASE s # {}
      <4> DEFINE r == s \ {First(s)}
      <4>1. r \in SUBSET S /\ Cardinality(r) <= n
        BY <2>2, <3>2, WithoutFirst
      <4>2. t[r] = u[r]
        BY <2>1, <4>1
      <4>3. u[s] = f[First(s)] + t[r]
        BY <3>2 DEF Unfolded
      <4>4. Unfolded(u, f, S)[s] = f[First(s)] + u[r]
        BY <3>2 DEF Unfolded
      <4>5. QED
        BY <4>2, <4>3, <4>4
    <3>3. QED
      BY <3>1, <3>2
  <2>3. u \in [SUBSET S -> Nat]
    BY <1>1
  <2>4. QED
    BY <2>2, <2>3
<1>4. T = {}
  <2> SUFFICES ASSUME T # {} PROVE FALSE
    OBVIOUS
  <2>1. PICK n \in T : \A m \in T : n <= m
    BY Least
  <2>2. n # 0
    BY <1>2
  <2>3. n \in Nat /\ ~ Good(n)
    OBVIOUS
  <2> HIDE DEF Good
  <2>4. n - 1 \in Nat /\ ~ (n <= n - 1) /\ (n - 1) + 1 = n
    BY <2>2, <2>3
  <2>5. Good(n - 1)
    BY <2>1, <2>4
  <2>6. Good((n - 1) + 1)
    BY <1>3, <2>4, <2>5
  <2>7. QED
    BY <2>3, <2>4, <2>6
<1>5. PICK t \in [SUBSET S -> Nat] : Right(t, Cardinality(S))
  BY <1>4, FS_CardinalityType
<1>6. \A s \in SUBSET S : Cardinality(s) <= Cardinality(S)
  BY FS_Subset
<1>7. \A s \in SUBSET S : t[s] = Unfolded(t, f, S)[s]
  BY <1>5, <1>6
<1>8. t = Unfolded(t, f, S)
  <2> DEFINE u == Unfolded(t, f, S)
  <2>1. u \in [SUBSET S -> Nat] /\ \A s \in SUBSET S : t[s] = u[s]
    BY <1>1, <1>7
  <2> HIDE DEF u
  <2>2. t = u
    BY <2>1
  <2>3. QED
    BY <2>2 DEF u
<1>9. QED
  BY <1>8 DEF IsTable

(* Two tables agree where their functions do.                              *)
LEMMA TablesAgree ==
  ASSUME NEW S, IsFiniteSet(S), NEW R \in SUBSET S, NEW f, NEW g,
         \A x \in R : f[x] = g[x],
         NEW t, IsTable(t, f, S), NEW u, IsTable(u, g, R)
  PROVE  \A s \in SUBSET R : t[s] = u[s]
<1> DEFINE T == {n \in Nat : \E s \in SUBSET R : Cardinality(s) = n /\ t[s] # u[s]}
<1>1. T = {}
  <2> SUFFICES ASSUME T # {} PROVE FALSE
    OBVIOUS
  <2>1. PICK n \in T : \A m \in T : n <= m
    BY Least
  <2>2. PICK s \in SUBSET R : Cardinality(s) = n /\ t[s] # u[s]
    OBVIOUS
  <2>3. t[s] = Unfolded(t, f, S)[s] /\ u[s] = Unfolded(u, g, R)[s]
    BY DEF IsTable
  <2>4. CASE s = {}
    BY <2>2, <2>3, <2>4 DEF Unfolded
  <2>5. CASE s # {}
    <3> DEFINE r == s \ {First(s)}
    <3>1. First(s) \in s /\ r \in SUBSET R /\ Cardinality(r) = n - 1 /\ n \in Nat /\ n # 0
      BY <2>2, <2>5, WithoutFirst
    <3>2. n - 1 \notin T /\ n - 1 \in Nat
      BY <2>1, <3>1
    <3>3. t[r] = u[r]
      BY <3>1, <3>2
    <3>4. f[First(s)] = g[First(s)]
      BY <3>1
    <3>5. t[s] = f[First(s)] + t[r] /\ u[s] = g[First(s)] + u[r]
      BY <2>3, <2>5 DEF Unfolded
    <3>6. QED
      BY <2>2, <3>3, <3>4, <3>5
  <2>6. QED
    BY <2>4, <2>5
<1>2. \A s \in SUBSET R : Cardinality(s) \in Nat
  BY WithoutFirst
<1>3. QED
  BY <1>1, <1>2

(* A sum takes its first element and goes on with the rest.                *)
LEMMA SumUnfolds ==
  ASSUME NEW S, IsFiniteSet(S), NEW f, \A x \in S : f[x] \in Nat
  PROVE  /\ Sum(f, S) \in Nat
         /\ S = {} => Sum(f, S) = 0
         /\ S # {} => Sum(f, S) = f[First(S)] + Sum(f, S \ {First(S)})
<1> DEFINE t == CHOOSE v : IsTable(v, f, S)
           R == S \ {First(S)}
           u == CHOOSE v : IsTable(v, f, R)
<1>1. PICK v \in [SUBSET S -> Nat] : IsTable(v, f, S)
  BY TableExists
<1>2. IsTable(t, f, S)
  BY <1>1
<1>3. IsFiniteSet(R) /\ R \in SUBSET S
  BY FS_Subset
<1>4. \E w \in [SUBSET R -> Nat] : IsTable(w, f, R)
  BY <1>3, TableExists
<1>5. IsTable(u, f, R)
  BY <1>4
<1>6. t[S] = v[S]
  BY <1>1, <1>2, TablesAgree
<1>7. t[R] = u[R]
  <2> HIDE DEF t, u, R
  <2>1. \A s \in SUBSET R : t[s] = u[s]
    BY <1>2, <1>3, <1>5, TablesAgree
  <2>2. QED
    BY <2>1
<1>8. Sum(f, S) = t[S] /\ Sum(f, R) = u[R]
  BY SumIsTable
<1>9. t[S] = Unfolded(t, f, S)[S]
  BY <1>2 DEF IsTable
<1>10. S = {} => t[S] = 0
  BY <1>9 DEF Unfolded
<1>11. S # {} => t[S] = f[First(S)] + t[R]
  BY <1>9 DEF Unfolded
<1>12. v[S] \in Nat
  OBVIOUS
<1>13. QED
  BY <1>6, <1>7, <1>8, <1>10, <1>11, <1>12

(* Functions that agree on a set have the same sum over it.                *)
LEMMA SumSame ==
  ASSUME NEW S, IsFiniteSet(S), NEW f, NEW g,
         \A x \in S : f[x] \in Nat /\ f[x] = g[x]
  PROVE  Sum(f, S) = Sum(g, S)
<1> DEFINE t == CHOOSE v : IsTable(v, f, S)
           u == CHOOSE v : IsTable(v, g, S)
<1>1. IsTable(t, f, S)
  BY TableExists
<1>2. \A x \in S : g[x] \in Nat
  OBVIOUS
<1>3. \E w \in [SUBSET S -> Nat] : IsTable(w, g, S)
  BY <1>2, TableExists
<1>4. IsTable(u, g, S)
  BY <1>3
<1>5. t[S] = u[S]
  BY <1>1, <1>4, TablesAgree
<1>6. QED
  BY <1>5, SumIsTable

(* Nothing adds up to nothing.                                             *)
LEMMA SumOfNothing ==
  ASSUME NEW S, IsFiniteSet(S), NEW f, \A x \in S : f[x] = 0
  PROVE  Sum(f, S) = 0
<1> DEFINE z == [s \in SUBSET S |-> 0]
           t == CHOOSE v : IsTable(v, f, S)
<1>1. IsTable(z, f, S)
  <2>1. \A s \in SUBSET S : (IF s = {} THEN 0 ELSE f[First(s)] + z[s \ {First(s)}]) = 0
    BY WithoutFirst
  <2>2. QED
    BY <2>1 DEF IsTable, Unfolded
<1>2. IsTable(t, f, S)
  BY <1>1
<1>3. t[S] = z[S]
  <2> HIDE DEF t, z
  <2>1. \A s \in SUBSET S : t[s] = z[s]
    BY <1>1, <1>2, TablesAgree
  <2>2. QED
    BY <2>1
<1>4. QED
  BY <1>3, SumIsTable

(* It does not matter which element is taken first.                        *)
LEMMA SumTakes ==
  ASSUME NEW S, IsFiniteSet(S), NEW f, \A x \in S : f[x] \in Nat, NEW x \in S
  PROVE  Sum(f, S) = f[x] + Sum(f, S \ {x})
<1> DEFINE Wrong(s) == \E y \in s : Sum(f, s) # f[y] + Sum(f, s \ {y})
           T == {n \in Nat : \E s \in SUBSET S : Cardinality(s) = n /\ Wrong(s)}
<1>0. \A s \in SUBSET S : IsFiniteSet(s) /\ \A y \in s : f[y] \in Nat
  BY FS_Subset
<1>1. T = {}
  <2> SUFFICES ASSUME T # {} PROVE FALSE
    OBVIOUS
  <2>1. PICK n \in T : \A m \in T : n <= m
    BY Least
  <2>2. PICK s \in SUBSET S : Cardinality(s) = n /\ Wrong(s)
    OBVIOUS
  <2>3. PICK y \in s : Sum(f, s) # f[y] + Sum(f, s \ {y})
    BY <2>2
  <2> DEFINE c == First(s)
             r == s \ {c}
             q == s \ {y}
             p == (s \ {c}) \ {y}
  <2>4. c \in s /\ r \in SUBSET S /\ q \in SUBSET S /\ p \in SUBSET S /\ n \in Nat /\ n # 0
        /\ Cardinality(r) = n - 1 /\ Cardinality(q) = n - 1
    BY <2>2, WithoutFirst
  <2>5. n - 1 \in Nat /\ n - 1 \notin T
    BY <2>1, <2>4
  <2>6. Sum(f, s) = f[c] + Sum(f, r)
    BY <1>0, SumUnfolds
  <2>7. c # y
    BY <2>3, <2>6
  <2>8. Sum(f, r) = f[y] + Sum(f, p)
    BY <2>4, <2>5, <2>7
  <2>9. Sum(f, q) = f[c] + Sum(f, q \ {c})
    BY <2>4, <2>5, <2>7
  <2>10. q \ {c} = p
    OBVIOUS
  <2>11. Sum(f, p) \in Nat /\ f[c] \in Nat /\ f[y] \in Nat
    BY <1>0, <2>4, SumUnfolds
  <2>12. Sum(f, s) # f[y] + Sum(f, q)
    BY <2>3
  <2>13. Sum(f, q) = f[c] + Sum(f, p)
    BY <2>9, <2>10
  <2> HIDE DEF c, r, q, p
  <2>14. QED
    BY <2>6, <2>8, <2>11, <2>12, <2>13
<1>2. Cardinality(S) \in Nat
  BY FS_CardinalityType
<1>3. QED
  BY <1>1, <1>2

(* A sum grows with each of its terms.                                     *)
LEMMA SumGrows ==
  ASSUME NEW S, IsFiniteSet(S), NEW f, NEW g, NEW x \in S, \A y \in S : f[y] \in Nat,
         g[x] = f[x] + 1, \A y \in S \ {x} : g[y] = f[y]
  PROVE  Sum(g, S) = Sum(f, S) + 1
<1>1. IsFiniteSet(S \ {x}) /\ \A y \in S : g[y] \in Nat
  BY FS_Subset
<1>2. Sum(g, S \ {x}) = Sum(f, S \ {x}) /\ Sum(f, S \ {x}) \in Nat
  BY <1>1, SumSame, SumUnfolds
<1>3. Sum(f, S) = f[x] + Sum(f, S \ {x})
  BY SumTakes
<1>4. Sum(g, S) = g[x] + Sum(g, S \ {x})
  BY <1>1, SumTakes
<1>5. QED
  BY <1>2, <1>3, <1>4, f[x] \in Nat
=============================================================================
