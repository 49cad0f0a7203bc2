------------------------------ MODULE Induction ------------------------------
(***************************************************************************)
(* Induction and recursion without operator parameters, for the recursive  *)
(* functions of the other modules: a function that asks itself only about  *)
(* arguments of lower rank exists, and what holds of an argument when it   *)
(* holds of those of lower rank holds of all.                              *)
(***************************************************************************)
EXTENDS Integers, FiniteSetTheorems, TLAPS

\* A set of naturals that is not empty has a least element.
LEMMA Least ==
  ASSUME NEW T, T \subseteq Nat, T # {}
  PROVE  \E x \in T : \A y \in T : x <= y
<1>1. PICK x \in T : \A y \in T : ~(<<y, x>> \in OpToRel(<, Nat))
  BY NatLessThanWellFounded, WFMin
<1>2. \A y \in T : y < x => <<y, x>> \in OpToRel(<, Nat)
  BY Zenon DEF OpToRel
<1>3. \A y \in T : ~(y < x)
  BY <1>1, <1>2, Zenon
<1> HIDE <1>1
<1>4. \A y \in T : x <= y
  BY ONLY <1>3, x \in T, T \subseteq Nat
<1> QED
  BY <1>4, Zenon

\* Induction over the naturals, the property as a set.
LEMMA SetInduction ==
  ASSUME NEW T, 0 \in T, \A n \in Nat : n \in T => n + 1 \in T
  PROVE  Nat \subseteq T
<1> SUFFICES ASSUME Nat \ T # {}
             PROVE  FALSE
  OBVIOUS
<1>1. PICK x \in Nat \ T : \A y \in Nat \ T : x <= y
  BY Least
<1>2. x # 0
  OBVIOUS
<1>3. x - 1 \in Nat /\ ~(x <= x - 1)
  BY <1>2
<1>4. x - 1 \in T
  BY <1>1, <1>3
<1> QED
  BY <1>3, <1>4

\* A finite set of naturals has an upper bound.
LEMMA Bounded ==
  ASSUME NEW S, S \subseteq Nat, IsFiniteSet(S)
  PROVE  \E b \in Nat : \A x \in S : x <= b
<1>0. PICK n \in Nat : ExistsSurjection(1..n, S)
  BY FS_NatSurjection
<1>1. PICK f \in [1..n -> S] : \A x \in S : \E i \in 1..n : f[i] = x
  BY <1>0 DEF ExistsSurjection, Surjection
<1> DEFINE T == {m \in Nat : m <= n => \E b \in Nat : \A i \in 1..m : f[i] <= b}
<1>2. 0 \in T
  OBVIOUS
<1>3. ASSUME NEW m \in Nat, m \in T
      PROVE  m + 1 \in T
  <2> SUFFICES ASSUME m + 1 <= n
               PROVE  \E b \in Nat : \A i \in 1..m + 1 : f[i] <= b
    OBVIOUS
  <2>1. PICK b \in Nat : \A i \in 1..m : f[i] <= b
    BY <1>3
  <2>2. f[m + 1] \in Nat
    <3>1. m + 1 \in 1..n
      OBVIOUS
    <3> QED
      BY <3>1
  <2>3. \A i \in 1..m + 1 : f[i] <= b + f[m + 1]
    <3> SUFFICES ASSUME NEW i \in 1..m + 1
                 PROVE  f[i] <= b + f[m + 1]
      OBVIOUS
    <3>1. i \in 1..n /\ (i \in 1..m \/ i = m + 1)
      OBVIOUS
    <3>2. f[i] \in Nat
      BY <3>1
    <3> QED
      BY <2>1, <2>2, <3>1, <3>2
  <2> QED
    BY <2>2, <2>3
<1>4. n \in T
  <2> HIDE DEF T
  <2> QED
    BY <1>2, <1>3, SetInduction
<1>5. PICK b \in Nat : \A i \in 1..n : f[i] <= b
  BY <1>4
<1>6. \A x \in S : x <= b
  BY <1>1, <1>5
<1> QED
  BY <1>6

\* Induction over a rank: a subset of S that has an element whenever it has
\* those of lower rank is all of S.
LEMMA RankInduction ==
  ASSUME NEW S, NEW rank, \A x \in S : rank[x] \in Nat, NEW T,
         \A x \in S : (\A y \in S : rank[y] < rank[x] => y \in T) => x \in T
  PROVE  S \subseteq T
<1> SUFFICES ASSUME NEW z \in S, z \notin T
             PROVE  FALSE
  OBVIOUS
<1> DEFINE Ranks == {rank[x] : x \in S \ T}
<1>1. Ranks \subseteq Nat /\ Ranks # {}
  OBVIOUS
<1>2. PICK r \in Ranks : \A q \in Ranks : r <= q
  <2> HIDE DEF Ranks
  <2> QED
    BY <1>1, Least
<1>3. PICK x \in S \ T : rank[x] = r
  OBVIOUS
<1>4. \A y \in S : rank[y] < rank[x] => y \in T
  <2> SUFFICES ASSUME NEW y \in S, rank[y] < rank[x], y \notin T
               PROVE  FALSE
    OBVIOUS
  <2>1. rank[x] <= rank[y]
    BY <1>2, <1>3
  <2> QED
    BY <2>1
<1> QED
  BY <1>3, <1>4

\* H, given an argument and a function, asks the function only about arguments
\* of lower rank.
Ranked(S, V, N, rank, H) ==
  /\ V # {} /\ N \in Nat
  /\ rank \in [S -> 0..N]
  /\ H \in [S -> [[S -> V] -> V]]
  /\ \A x \in S : \A g, h \in [S -> V] :
       (\A y \in S : rank[y] < rank[x] => g[y] = h[y]) => H[x][g] = H[x][h]

\* Then the recursive function whose body is H exists.
LEMMA RankedRecursion ==
  ASSUME NEW S, NEW V, NEW N, NEW rank, NEW H, Ranked(S, V, N, rank, H)
  PROVE  \E f \in [S -> V] : f = [x \in S |-> H[x][f]]
<1> USE DEF Ranked
<1> DEFINE Upto(n, g) == \A x \in S : rank[x] < n => g[x] = H[x][g]
           T == {n \in Nat : \E g \in [S -> V] : Upto(n, g)}
<1>1. 0 \in T
  <2>1. PICK v \in V : TRUE
    OBVIOUS
  <2>2. [x \in S |-> v] \in [S -> V]
    OBVIOUS
  <2>3. \A x \in S : ~(rank[x] < 0)
    OBVIOUS
  <2>4. Upto(0, [x \in S |-> v])
    BY <2>3
  <2> HIDE DEF Upto
  <2> QED
    BY <2>2, <2>4
<1>2. ASSUME NEW n \in Nat, n \in T
      PROVE  n + 1 \in T
  <2>1. PICK g \in [S -> V] : Upto(n, g)
    BY <1>2
  <2> DEFINE h == [x \in S |-> IF rank[x] < n + 1 THEN H[x][g] ELSE g[x]]
  <2>2. h \in [S -> V]
    OBVIOUS
  <2>3. \A x \in S : rank[x] < n => h[x] = g[x]
    BY <2>1
  <2>4. \A x \in S : rank[x] < n + 1 => H[x][h] = H[x][g]
    <3> SUFFICES ASSUME NEW x \in S, rank[x] < n + 1
                 PROVE  H[x][h] = H[x][g]
      OBVIOUS
    <3> HIDE DEF h
    <3>1. \A y \in S : rank[y] < rank[x] => h[y] = g[y]
      <4> SUFFICES ASSUME NEW y \in S, rank[y] < rank[x]
                   PROVE  h[y] = g[y]
        OBVIOUS
      <4>1. rank[y] < n
        OBVIOUS
      <4> QED
        BY <2>3, <4>1
    <3> QED
      BY <2>2, <3>1
  <2>5. Upto(n + 1, h)
    BY <2>4
  <2> HIDE DEF Upto, h
  <2>6. n + 1 \in Nat
    OBVIOUS
  <2> QED
    BY <2>2, <2>5, <2>6
<1>3. N + 1 \in T
  <2> HIDE DEF T
  <2> QED
    BY <1>1, <1>2, SetInduction
<1>4. PICK f \in [S -> V] : Upto(N + 1, f)
  BY <1>3
<1>5. \A x \in S : f[x] = H[x][f]
  BY <1>4
<1>6. f = [x \in S |-> H[x][f]]
  BY <1>5
<1> QED
  BY <1>6
=============================================================================
