-------------------------- MODULE BuildOrder_proofs --------------------------
(***************************************************************************)
(* Proofs about BuildOrder, for any dependency lists, roots and -d.        *)
(*                                                                         *)
(* First the recursive functions: that they exist, since a dependency has  *)
(* a larger number than what depends on it, and what they compute, with    *)
(* the level in 16 bits.  Then four inductive invariants.  SelectInv says  *)
(* what dep_libs may have done to the lists so far; beside it,             *)
(* SelectionConnected and AllInv, that the default level left nothing out, *)
(* are kept by levels that do not wrap.  BuildInv says, for roots that do  *)
(* not depend on each other, what is recorded, what is on disk and that    *)
(* everything gone from the list of the current root is done.              *)
(***************************************************************************)
EXTENDS BuildOrder, Induction, SequenceTheorems

\* The dependency lists of applications: a dependency has the larger number.
Increasing(d) == d \in [Apps -> Seq(Apps)]
                 /\ \A a \in Apps : \A i \in DOMAIN d[a] : d[a][i] > a

\* The numbers of the applications have an upper bound.
LEMMA Bound == \E N \in Nat : \A a \in Apps : a <= N
  BY AppsAssumption, Bounded

\* What an application lists.
LEMMA InList ==
  ASSUME NEW d, Increasing(d), NEW a \in Apps
  PROVE  /\ DOMAIN d[a] = 1..Len(d[a])
         /\ Len(d[a]) \in Nat
         /\ ToSet(d[a]) \subseteq Apps
         /\ \A y \in ToSet(d[a]) : y > a
  BY DEF Increasing, ToSet

\* What an induction over the applications, largest first, needs.
LEMMA Downwards ==
  ASSUME NEW T, \A a \in Apps : (\A b \in Apps : b > a => b \in T) => a \in T
  PROVE  Apps \subseteq T
<1>1. PICK N \in Nat : \A a \in Apps : a <= N
  BY Bound
<1> DEFINE rank == [a \in Apps |-> N - a]
<1>2. \A a \in Apps : rank[a] \in Nat
  BY <1>1, AppsAssumption
<1>3. \A a, b \in Apps : b > a => rank[b] < rank[a]
  BY AppsAssumption
<1>4. ASSUME NEW a \in Apps, \A b \in Apps : rank[b] < rank[a] => b \in T
      PROVE  a \in T
  BY <1>3, <1>4
<1> HIDE DEF rank
<1> QED
  BY <1>2, <1>4, RankInduction

\* The recursion of Reach has a solution.
LEMMA ReachExists ==
  ASSUME NEW d, Increasing(d)
  PROVE  \E f \in [Apps -> SUBSET Apps] :
           f = [x \in Apps |-> UNION {{y} \cup f[y] : y \in ToSet(d[x])}]
<1>1. PICK N \in Nat : \A a \in Apps : a <= N
  BY Bound
<1> DEFINE rank == [a \in Apps |-> N - a]
           V == SUBSET Apps
           H == [x \in Apps |-> [g \in [Apps -> V] |-> UNION {{y} \cup g[y] : y \in ToSet(d[x])}]]
<1>2. rank \in [Apps -> 0..N]
  BY <1>1, AppsAssumption
<1>3. ASSUME NEW x \in Apps, NEW g \in [Apps -> V]
      PROVE  UNION {{y} \cup g[y] : y \in ToSet(d[x])} \in V
  BY InList
<1>4. H \in [Apps -> [[Apps -> V] -> V]]
  BY <1>3
<1>5. \A x, y \in Apps : y > x => rank[y] < rank[x]
  BY <1>1, AppsAssumption
<1>6. ASSUME NEW x \in Apps, NEW g \in [Apps -> V], NEW h \in [Apps -> V],
             \A y \in Apps : rank[y] < rank[x] => g[y] = h[y]
      PROVE  H[x][g] = H[x][h]
  <2>1. \A y \in ToSet(d[x]) : y \in Apps /\ y > x
    BY InList
  <2>2. \A y \in ToSet(d[x]) : g[y] = h[y]
    BY <1>5, <1>6, <2>1
  <2> QED
    BY <2>2
<1>7. Ranked(Apps, V, N, rank, H)
  <2> HIDE DEF H, rank
  <2> QED
    BY <1>2, <1>4, <1>6 DEF Ranked
<1>8. \E f \in [Apps -> V] : f = [x \in Apps |-> H[x][f]]
  <2> HIDE DEF V, H, rank
  <2> QED
    BY <1>7, RankedRecursion
<1> QED
  BY <1>8

\* Reach is what its recursion says.
LEMMA ReachDef ==
  ASSUME NEW d, Increasing(d), NEW a \in Apps
  PROVE  /\ Reach(d, a) \subseteq Apps
         /\ Reach(d, a) = UNION {{y} \cup Reach(d, y) : y \in ToSet(d[a])}
<1> DEFINE R[x \in Apps] == UNION {{y} \cup R[y] : y \in ToSet(d[x])}
<1>1. R = [x \in Apps |-> UNION {{y} \cup R[y] : y \in ToSet(d[x])}]
  <2>1. \E f \in [Apps -> SUBSET Apps] : f = [x \in Apps |-> UNION {{y} \cup f[y] : y \in ToSet(d[x])}]
    BY ReachExists
  <2> QED
    BY <2>1, ZenonT(30)
<1>2. Reach(d, a) = R[a] /\ \A x \in Apps : Reach(d, x) = R[x]
  BY DEF Reach
<1> HIDE DEF R
<1>3. \A x \in Apps : ToSet(d[x]) \subseteq Apps /\ \A y \in ToSet(d[x]) : y > x
  BY InList
<1>4. \A x \in Apps : R[x] = UNION {{y} \cup R[y] : y \in ToSet(d[x])}
  BY <1>1
<1> DEFINE T == {x \in Apps : R[x] \subseteq Apps}
<1>5. ASSUME NEW x \in Apps, \A b \in Apps : b > x => b \in T
      PROVE  x \in T
  BY <1>3, <1>4, <1>5
<1>6. R[a] \subseteq Apps
  <2>1. Apps \subseteq T
    <3> HIDE DEF T
    <3> QED
      BY <1>5, Downwards
  <2> QED
    BY <2>1
<1>7. UNION {{y} \cup R[y] : y \in ToSet(d[a])} = UNION {{y} \cup Reach(d, y) : y \in ToSet(d[a])}
  BY <1>2, <1>3
<1> QED
  BY <1>2, <1>4, <1>6, <1>7

\* What is in the list of an application is below it.
LEMMA Children ==
  ASSUME NEW d, Increasing(d), NEW a \in Apps
  PROVE  ToSet(d[a]) \subseteq Reach(d, a)
<1>1. Reach(d, a) = UNION {{y} \cup Reach(d, y) : y \in ToSet(d[a])}
  BY ReachDef
<1> QED
  BY <1>1

\* What is below an application has a larger number; it is in the list of the
\* application or of one below it; below is transitive.
LEMMA ReachFacts ==
  ASSUME NEW d, Increasing(d)
  PROVE  \A a \in Apps : \A y \in Reach(d, a) :
           /\ y \in Apps /\ y > a
           /\ Reach(d, y) \subseteq Reach(d, a)
           /\ \E b \in {a} \cup Reach(d, a) : y \in ToSet(d[b])
<1> DEFINE Fine(a) == \A y \in Reach(d, a) :
             /\ y > a
             /\ Reach(d, y) \subseteq Reach(d, a)
             /\ \E b \in {a} \cup Reach(d, a) : y \in ToSet(d[b])
           T == {a \in Apps : Fine(a)}
<1>1. ASSUME NEW a \in Apps, \A b \in Apps : b > a => b \in T
      PROVE  a \in T
  <2> SUFFICES ASSUME NEW y \in Reach(d, a)
               PROVE  /\ y > a
                      /\ Reach(d, y) \subseteq Reach(d, a)
                      /\ \E b \in {a} \cup Reach(d, a) : y \in ToSet(d[b])
    OBVIOUS
  <2>1. PICK z \in ToSet(d[a]) : y = z \/ y \in Reach(d, z)
    BY ReachDef
  <2>2. z \in Apps /\ z > a /\ z \in Reach(d, a) /\ Reach(d, z) \subseteq Reach(d, a)
    BY InList, ReachDef
  <2>3. CASE y = z
    BY <2>1, <2>2, <2>3
  <2>4. CASE y \in Reach(d, z)
    <3>1. Fine(z)
      BY <1>1, <2>2
    <3>2. /\ y > z /\ Reach(d, y) \subseteq Reach(d, z)
          /\ \E b \in {z} \cup Reach(d, z) : y \in ToSet(d[b])
      BY <2>4, <3>1
    <3>3. y \in Apps
      BY ReachDef
    <3> QED
      BY <2>2, <3>2, <3>3, AppsAssumption
  <2> QED
    BY <2>1, <2>3, <2>4
<1>2. Apps \subseteq T
  <2> HIDE DEF T
  <2> QED
    BY <1>1, Downwards
<1>3. \A a \in Apps : Reach(d, a) \subseteq Apps
  BY ReachDef
<1> QED
  BY <1>2, <1>3

\* A list replaced by everything below its application leaves what is below
\* each application.
LEMMA ReachSame ==
  ASSUME NEW d, Increasing(d), NEW e, Increasing(e),
         \A a \in Apps : ToSet(e[a]) \in {ToSet(d[a]), Reach(d, a)}
  PROVE  \A a \in Apps : Reach(e, a) = Reach(d, a)
<1> DEFINE T == {a \in Apps : Reach(e, a) = Reach(d, a)}
<1>1. ASSUME NEW a \in Apps, \A b \in Apps : b > a => b \in T
      PROVE  a \in T
  <2>1. ToSet(e[a]) \subseteq Apps /\ \A y \in ToSet(e[a]) : y > a
    BY InList
  <2>2. \A y \in ToSet(e[a]) : Reach(e, y) = Reach(d, y)
    BY <1>1, <2>1
  <2>3. Reach(e, a) = UNION {{y} \cup Reach(d, y) : y \in ToSet(e[a])}
    BY <2>2, ReachDef
  <2>4. CASE ToSet(e[a]) = ToSet(d[a])
    BY <2>3, <2>4, ReachDef
  <2>5. CASE ToSet(e[a]) = Reach(d, a)
    <3>1. \A y \in Reach(d, a) : Reach(d, y) \subseteq Reach(d, a)
      BY ReachFacts
    <3> QED
      BY <2>3, <2>5, <3>1
  <2> QED
    BY <2>4, <2>5
<1>2. Apps \subseteq T
  <2> HIDE DEF T
  <2> QED
    BY <1>1, Downwards
<1> QED
  BY <1>2

-----------------------------------------------------------------------------
(* buildDepVecRec.                                                         *)

\* The number is kept apart from the range it bounds.
LEMMA HalfIs == Half \in Nat /\ Half = 32768
  BY DEF Half

\* The numbers an int16_t holds.
LEMMA Int16sDef == \A n : n \in Int16s <=> n \in Int /\ -32768 <= n /\ n <= 32767
<1>1. \A n : n \in Int16s <=> n \in Int /\ -Half <= n /\ n <= Half - 1
  <2>1. Half \in Int
    BY HalfIs
  <2>2. \A m \in Int : \A n : n \in -m..(m - 1) <=> n \in Int /\ -m <= n /\ n <= m - 1
    OBVIOUS
  <2> QED
    BY <2>1, <2>2 DEF Int16s
<1> QED
  BY <1>1, HalfIs

\* 16 bits hold what fits in them.
LEMMA Int16Facts == /\ \A n \in Int : Int16(n) \in Int16s
                    /\ \A n \in Int16s : Int16(n) = n
<1>1. ASSUME NEW n \in Int
      PROVE  Int16(n) \in Int16s
  <2> DEFINE r == (n + 32768) % 65536
  <2>1. r \in Int /\ 0 <= r /\ r < 65536
    OBVIOUS
  <2>2. Int16(n) = r - 32768
    BY DEF Int16, Half
  <2> HIDE DEF r
  <2>3. r - 32768 \in Int /\ -32768 <= r - 32768 /\ r - 32768 <= 32767
    BY <2>1
  <2> QED
    BY <2>2, <2>3, Int16sDef
<1>2. ASSUME NEW n \in Int16s
      PROVE  Int16(n) = n
  <2>1. n \in Int /\ 0 <= n + 32768 /\ n + 32768 < 65536
    BY Int16sDef
  <2>2. (n + 32768) % 65536 = n + 32768
    BY <2>1
  <2> QED
    BY <2>1, <2>2 DEF Int16, Half
<1> QED
  BY <1>1, <1>2

BelowBody(x, n, f) ==
  UNION {(IF Int16(n - i + 1) > 0 THEN {deps[x][i]} ELSE {}) \cup f[deps[x][i]][Int16(n - i)] :
           i \in DOMAIN deps[x]}

\* The recursion of Below has a solution.
LEMMA BelowExists ==
  ASSUME Increasing(deps)
  PROVE  \E f \in [Apps -> [Int16s -> SUBSET Apps]] :
           f = [x \in Apps |-> [n \in Int16s |-> BelowBody(x, n, f)]]
<1>1. PICK N \in Nat : \A a \in Apps : a <= N
  BY Bound
<1> DEFINE rank == [a \in Apps |-> N - a]
           V == [Int16s -> SUBSET Apps]
           H == [x \in Apps |-> [f \in [Apps -> V] |-> [n \in Int16s |-> BelowBody(x, n, f)]]]
<1>2. \A x \in Apps : \A i \in DOMAIN deps[x] : i \in Nat /\ deps[x][i] \in Apps /\ deps[x][i] > x
  BY DEF Increasing
<1>3. rank \in [Apps -> 0..N]
  BY <1>1, AppsAssumption
<1>4. ASSUME NEW x \in Apps, NEW f \in [Apps -> V], NEW n \in Int16s
      PROVE  BelowBody(x, n, f) \in SUBSET Apps
  <2>1. \A i \in DOMAIN deps[x] : Int16(n - i) \in Int16s /\ f[deps[x][i]][Int16(n - i)] \subseteq Apps
    BY <1>2, Int16Facts, Int16sDef
  <2> QED
    BY <1>2, <2>1 DEF BelowBody
<1>5. H \in [Apps -> [[Apps -> V] -> V]]
  BY <1>4
<1>6. \A x, y \in Apps : y > x => rank[y] < rank[x]
  BY <1>1, AppsAssumption
<1>7. ASSUME NEW x \in Apps, NEW g \in [Apps -> V], NEW h \in [Apps -> V],
             \A y \in Apps : rank[y] < rank[x] => g[y] = h[y]
      PROVE  H[x][g] = H[x][h]
  <2>1. \A i \in DOMAIN deps[x] : g[deps[x][i]] = h[deps[x][i]]
    BY <1>2, <1>6, <1>7
  <2>2. \A n \in Int16s : BelowBody(x, n, g) = BelowBody(x, n, h)
    BY <2>1 DEF BelowBody
  <2> QED
    BY <2>2
<1>8. V # {}
  <2>1. [n \in Int16s |-> {}] \in V
    OBVIOUS
  <2> QED
    BY <2>1
<1>9. Ranked(Apps, V, N, rank, H)
  <2> HIDE DEF H, rank, V
  <2> QED
    BY <1>3, <1>5, <1>7, <1>8 DEF Ranked
<1>10. \E f \in [Apps -> V] : f = [x \in Apps |-> H[x][f]]
  <2> HIDE DEF V, H, rank
  <2> QED
    BY <1>9, RankedRecursion
<1> QED
  BY <1>10

\* What a level selects below an application, by membership.
LEMMA BelowDef ==
  ASSUME Increasing(deps), NEW a \in Apps, NEW n \in Int16s
  PROVE  \A y : y \in Below(a, n) <=>
           \E i \in DOMAIN deps[a] : \/ Int16(n - i + 1) > 0 /\ y = deps[a][i]
                                     \/ y \in Below(deps[a][i], Int16(n - i))
<1>0. \E B : B = [x \in Apps |-> [m \in Int16s |-> UNION {(IF Int16(m - i + 1) > 0 THEN {deps[x][i]} ELSE {})
                              \cup B[deps[x][i]][Int16(m - i)] : i \in DOMAIN deps[x]}]]
  BY BelowExists DEF BelowBody
<1> DEFINE B[x \in Apps] ==
        [m \in Int16s |-> UNION {(IF Int16(m - i + 1) > 0 THEN {deps[x][i]} ELSE {})
                              \cup B[deps[x][i]][Int16(m - i)] : i \in DOMAIN deps[x]}]
<1>1. B = [x \in Apps |-> [m \in Int16s |-> UNION {(IF Int16(m - i + 1) > 0 THEN {deps[x][i]} ELSE {})
                              \cup B[deps[x][i]][Int16(m - i)] : i \in DOMAIN deps[x]}]]
  BY <1>0, Zenon
<1>2. \A x \in Apps, m \in Int16s : Below(x, m) = B[x][m]
  BY DEF Below
<1> HIDE DEF B
<1>3. B[a][n] = UNION {(IF Int16(n - i + 1) > 0 THEN {deps[a][i]} ELSE {})
                       \cup B[deps[a][i]][Int16(n - i)] : i \in DOMAIN deps[a]}
  <2>1. B[a] = [m \in Int16s |-> UNION {(IF Int16(m - i + 1) > 0 THEN {deps[a][i]} ELSE {})
                              \cup B[deps[a][i]][Int16(m - i)] : i \in DOMAIN deps[a]}]
    BY <1>1, Zenon
  <2> QED
    BY <2>1, Zenon
<1>4. \A i \in DOMAIN deps[a] : deps[a][i] \in Apps /\ Int16(n - i) \in Int16s
  BY Int16Facts, Int16sDef DEF Increasing
<1> QED
  BY <1>2, <1>3, <1>4

\* What a level selects is below the application.
LEMMA BelowFacts ==
  ASSUME Increasing(deps)
  PROVE  \A a \in Apps, n \in Int16s : Below(a, n) \subseteq Reach(deps, a)
<1> DEFINE T == {a \in Apps : \A n \in Int16s : Below(a, n) \subseteq Reach(deps, a)}
<1>1. ASSUME NEW a \in Apps, \A b \in Apps : b > a => b \in T
      PROVE  a \in T
  <2> SUFFICES ASSUME NEW n \in Int16s, NEW y \in Below(a, n)
               PROVE  y \in Reach(deps, a)
    OBVIOUS
  <2>1. PICK i \in DOMAIN deps[a] : y = deps[a][i] \/ y \in Below(deps[a][i], Int16(n - i))
    BY BelowDef
  <2>2. i \in Nat /\ deps[a][i] \in Apps /\ deps[a][i] > a
    BY DEF Increasing
  <2>3. deps[a][i] \in ToSet(deps[a])
    BY DEF ToSet
  <2>4. {deps[a][i]} \cup Reach(deps, deps[a][i]) \subseteq Reach(deps, a)
    BY <2>3, ReachDef
  <2>5. Int16(n - i) \in Int16s
    BY <2>2, Int16Facts, Int16sDef
  <2>6. y \in Below(deps[a][i], Int16(n - i)) => y \in Reach(deps, deps[a][i])
    BY <1>1, <2>2, <2>5
  <2> QED
    BY <2>1, <2>4, <2>6
<1>2. Apps \subseteq T
  <2> HIDE DEF T
  <2> QED
    BY <1>1, Downwards
<1> QED
  BY <1>2

-----------------------------------------------------------------------------
(* DepGrapher.                                                             *)

Leafs(T) == {x \in T : ToSet(deps[x]) \cap T = {}}

\* An acyclic graph that is not empty has leafs.
LEMMA LeafsThere ==
  ASSUME Increasing(deps), NEW S \in SUBSET Apps, S # {}
  PROVE  Leafs(S) # {}
<1> SUFFICES ASSUME Leafs(S) = {}
             PROVE  FALSE
  OBVIOUS
<1> DEFINE T == Apps \ S
<1>1. ASSUME NEW a \in Apps, \A b \in Apps : b > a => b \in T
      PROVE  a \in T
  <2> SUFFICES ASSUME a \in S
               PROVE  FALSE
    OBVIOUS
  <2>1. PICK y \in ToSet(deps[a]) : y \in S
    BY DEF Leafs
  <2>2. y \in Apps /\ y > a
    BY InList
  <2> QED
    BY <1>1, <2>1, <2>2
<1>2. Apps \subseteq T
  <2> HIDE DEF T
  <2> QED
    BY <1>1, Downwards
<1> QED
  BY <1>2

RoundsBody(T, f) == IF T = {} THEN <<>> ELSE <<Leafs(T)>> \o f[T \ Leafs(T)]

\* DepGrapher's loop ends: a round takes something away.
LEMMA FewerLeft ==
  ASSUME Increasing(deps), NEW T \in SUBSET Apps, T # {}
  PROVE  Cardinality(T \ Leafs(T)) < Cardinality(T)
<1>1. IsFiniteSet(T) /\ Leafs(T) \subseteq T
  BY AppsAssumption, FS_Subset DEF Leafs
<1>2. Cardinality(T \ Leafs(T)) <= Cardinality(T)
      /\ Cardinality(T \ Leafs(T)) # Cardinality(T)
  BY <1>1, FS_Subset, LeafsThere
<1>3. Cardinality(T \ Leafs(T)) \in Nat /\ Cardinality(T) \in Nat
  BY <1>1, FS_Subset, FS_CardinalityType
<1> QED
  BY <1>2, <1>3

\* The recursion of Rounds has a solution.
LEMMA RoundsExist ==
  ASSUME Increasing(deps)
  PROVE  \E f \in [SUBSET Apps -> Seq(SUBSET Apps)] :
           f = [T \in SUBSET Apps |-> RoundsBody(T, f)]
<1> DEFINE N == Cardinality(Apps)
           rank == [T \in SUBSET Apps |-> Cardinality(T)]
           V == Seq(SUBSET Apps)
           H == [T \in SUBSET Apps |-> [f \in [SUBSET Apps -> V] |-> RoundsBody(T, f)]]
<1>1. N \in Nat /\ rank \in [SUBSET Apps -> 0..N]
  <2>1. \A T \in SUBSET Apps : IsFiniteSet(T) /\ Cardinality(T) <= N
    BY AppsAssumption, FS_Subset
  <2>2. \A T \in SUBSET Apps : Cardinality(T) \in Nat
    BY <2>1, FS_CardinalityType
  <2>3. N \in Nat
    BY AppsAssumption, FS_CardinalityType
  <2> QED
    BY <2>1, <2>2, <2>3
<1>2. ASSUME NEW T \in SUBSET Apps, NEW f \in [SUBSET Apps -> V]
      PROVE  RoundsBody(T, f) \in V
  <2>1. Leafs(T) \in SUBSET Apps /\ T \ Leafs(T) \in SUBSET Apps
    BY DEF Leafs
  <2>2. f[T \ Leafs(T)] \in V
    BY <2>1
  <2>3. <<Leafs(T)>> \in V
    BY <2>1
  <2>4. <<Leafs(T)>> \o f[T \ Leafs(T)] \in V
    BY <2>2, <2>3
  <2>5. <<>> \in V
    OBVIOUS
  <2> HIDE DEF V
  <2> QED
    BY <2>4, <2>5, Zenon DEF RoundsBody
<1>3. H \in [SUBSET Apps -> [[SUBSET Apps -> V] -> V]]
  BY <1>2
<1>4. ASSUME NEW T \in SUBSET Apps, NEW g \in [SUBSET Apps -> V], NEW h \in [SUBSET Apps -> V],
             \A U \in SUBSET Apps : rank[U] < rank[T] => g[U] = h[U]
      PROVE  H[T][g] = H[T][h]
  <2>1. T # {} => g[T \ Leafs(T)] = h[T \ Leafs(T)]
    BY <1>4, FewerLeft
  <2>2. RoundsBody(T, g) = RoundsBody(T, h)
    BY <2>1 DEF RoundsBody
  <2> QED
    BY <2>2
<1>5. V # {}
  BY <<>> \in V
<1>6. Ranked(SUBSET Apps, V, N, rank, H)
  <2> HIDE DEF H, rank, V, N
  <2> QED
    BY <1>1, <1>3, <1>4, <1>5 DEF Ranked
<1>7. \E f \in [SUBSET Apps -> V] : f = [T \in SUBSET Apps |-> H[T][f]]
  <2> DEFINE S == SUBSET Apps
  <2>1. Ranked(S, V, N, rank, H)
    BY <1>6
  <2> HIDE DEF V, H, rank, N, S
  <2>2. \E f \in [S -> V] : f = [T \in S |-> H[T][f]]
    BY <2>1, RankedRecursion
  <2> QED
    BY <2>2 DEF S
<1> QED
  BY <1>7

\* Rounds is what its recursion says.
LEMMA RoundsDef ==
  ASSUME Increasing(deps), NEW S \in SUBSET Apps
  PROVE  Rounds(S) = IF S = {} THEN <<>> ELSE <<Leafs(S)>> \o Rounds(S \ Leafs(S))
<1>0. \E R : R = [T \in SUBSET Apps |-> IF T = {} THEN <<>>
                   ELSE <<{x \in T : ToSet(deps[x]) \cap T = {}}>>
                        \o R[T \ {x \in T : ToSet(deps[x]) \cap T = {}}]]
  BY RoundsExist DEF RoundsBody, Leafs
<1> DEFINE L(T) == {x \in T : ToSet(deps[x]) \cap T = {}}
           R[T \in SUBSET Apps] == IF T = {} THEN <<>> ELSE <<L(T)>> \o R[T \ L(T)]
<1>1. R = [T \in SUBSET Apps |-> IF T = {} THEN <<>>
                   ELSE <<{x \in T : ToSet(deps[x]) \cap T = {}}>>
                        \o R[T \ {x \in T : ToSet(deps[x]) \cap T = {}}]]
  BY <1>0, Zenon
<1>2. \A T \in SUBSET Apps : Rounds(T) = R[T]
  BY DEF Rounds
<1> HIDE DEF R
<1>3. R[S] = IF S = {} THEN <<>> ELSE <<Leafs(S)>> \o R[S \ Leafs(S)]
  BY <1>1 DEF Leafs
<1> QED
  BY <1>2, <1>3

\* Every application is in a round, in a later one than its dependencies.
RoundsFine(S) ==
  /\ Rounds(S) \in Seq(SUBSET S)
  /\ \A x \in S : \E n \in DOMAIN Rounds(S) : x \in Rounds(S)[n]
  /\ \A n, m \in DOMAIN Rounds(S) : \A x \in Rounds(S)[n], y \in Rounds(S)[m] :
       y \in ToSet(deps[x]) => m < n

\* Rounds takes every application, and its dependencies before it.
LEMMA RoundsFacts ==
  ASSUME Increasing(deps)
  PROVE  \A S \in SUBSET Apps : RoundsFine(S)
<1> DEFINE rank == [T \in SUBSET Apps |-> Cardinality(T)]
           Z == {T \in SUBSET Apps : RoundsFine(T)}
<1>1. \A T \in SUBSET Apps : rank[T] \in Nat
  BY AppsAssumption, FS_Subset, FS_CardinalityType
<1>2. ASSUME NEW S \in SUBSET Apps, \A U \in SUBSET Apps : rank[U] < rank[S] => U \in Z
      PROVE  S \in Z
  <2>1. CASE S = {}
    <3>1. Rounds(S) = <<>>
      BY <2>1, RoundsDef
    <3>2. Rounds(S) \in Seq(SUBSET S) /\ DOMAIN Rounds(S) = {}
      BY <3>1
    <3> QED
      BY <2>1, <3>2 DEF RoundsFine
  <2>2. CASE S # {}
    <3> DEFINE U == S \ Leafs(S)
               r == Rounds(U)
    <3>1. Rounds(S) = <<Leafs(S)>> \o r
      BY <2>2, RoundsDef
    <3>2. U \in SUBSET Apps /\ RoundsFine(U)
      BY <1>2, <2>2, FewerLeft
    <3>3. Leafs(S) \in SUBSET S /\ U \in SUBSET S
      BY DEF Leafs
    <3> HIDE DEF U, r
    <3>4. r \in Seq(SUBSET S) /\ <<Leafs(S)>> \in Seq(SUBSET S)
      <4>1. r \in Seq(SUBSET U)
        BY <3>2 DEF RoundsFine, r
      <4>2. SUBSET U \subseteq SUBSET S
        BY <3>3
      <4> QED
        BY <3>3, <4>1, <4>2, SeqMonotonic
    <3>5. /\ Rounds(S) \in Seq(SUBSET S)
          /\ DOMAIN Rounds(S) = 1..Len(r) + 1
          /\ Len(r) \in Nat /\ DOMAIN r = 1..Len(r)
          /\ Rounds(S)[1] = Leafs(S)
          /\ \A n \in 2..Len(r) + 1 : n - 1 \in DOMAIN r /\ Rounds(S)[n] = r[n - 1]
      BY <3>1, <3>4
    <3>6. \A x \in S : \E n \in DOMAIN Rounds(S) : x \in Rounds(S)[n]
      <4> SUFFICES ASSUME NEW x \in S
                   PROVE  \E n \in DOMAIN Rounds(S) : x \in Rounds(S)[n]
        OBVIOUS
      <4>1. CASE x \in Leafs(S)
        BY <3>5, <4>1
      <4>2. CASE x \in U
        <5>1. PICK n \in DOMAIN r : x \in r[n]
          BY <3>2, <4>2 DEF RoundsFine, r
        <5>2. n + 1 \in 2..Len(r) + 1 /\ (n + 1) - 1 = n
          BY <3>5
        <5> QED
          BY <3>5, <5>1, <5>2
      <4> QED
        BY <4>1, <4>2 DEF U
    <3>7. ASSUME NEW n \in DOMAIN Rounds(S), NEW m \in DOMAIN Rounds(S),
                 NEW x \in Rounds(S)[n], NEW y \in Rounds(S)[m], y \in ToSet(deps[x])
          PROVE  m < n
      <4>0. n \in 1..Len(r) + 1 /\ m \in 1..Len(r) + 1
        BY <3>5
      <4>1. y \in S
        BY <3>5
      <4>2. n # 1
        <5> SUFFICES ASSUME x \in Leafs(S)
                     PROVE  FALSE
          BY <3>5
        <5> QED
          BY <3>7, <4>1 DEF Leafs
      <4>3. CASE m = 1
        BY <3>5, <4>0, <4>2, <4>3
      <4>4. CASE m # 1
        <5>1. n \in 2..Len(r) + 1 /\ m \in 2..Len(r) + 1
          BY <3>5, <4>0, <4>2, <4>4
        <5>2. x \in r[n - 1] /\ y \in r[m - 1] /\ n - 1 \in DOMAIN r /\ m - 1 \in DOMAIN r
          BY <3>5, <5>1
        <5>3. m - 1 < n - 1
          BY <3>2, <3>7, <5>2 DEF RoundsFine, r
        <5> QED
          BY <5>1, <5>3
      <4> QED
        BY <4>3, <4>4
    <3> QED
      BY <3>5, <3>6, <3>7 DEF RoundsFine
  <2> QED
    BY <2>1, <2>2
<1>3. SUBSET Apps \subseteq Z
  <2> DEFINE S == SUBSET Apps
  <2> HIDE DEF rank, Z
  <2>1. \A T \in S : rank[T] \in Nat
    BY <1>1
  <2>2. \A T \in S : (\A U \in S : rank[U] < rank[T] => U \in Z) => T \in Z
    BY <1>2
  <2> HIDE DEF S
  <2>3. S \subseteq Z
    BY <2>1, <2>2, RankInduction
  <2> QED
    BY <2>3 DEF S
<1> QED
  BY <1>3

\* SetToSeqs: each element once.
LEMMA Listings ==
  ASSUME NEW S \in SUBSET Apps, NEW s \in SetToSeqs(S)
  PROVE  s \in Seq(Apps) /\ ToSet(s) = S /\ Len(s) = Cardinality(S)
<1> DEFINE n == Cardinality(S)
<1>1. IsFiniteSet(S) /\ n \in Nat
  BY AppsAssumption, FS_Subset, FS_CardinalityType
<1>2. s \in [1..n -> S] /\ \A i, j \in 1..n : i # j => s[i] # s[j]
  BY DEF SetToSeqs
<1>3. s \in Injection(1..n, S)
  BY <1>2 DEF Injection, IsInjective
<1>4. Cardinality(1..n) = n
  BY <1>1, FS_Interval
<1>5. s \in Surjection(1..n, S)
  <2> HIDE DEF n
  <2>1. Cardinality(1..n) = Cardinality(S)
    BY <1>4 DEF n
  <2> QED
    BY <1>1, <1>3, <2>1, FS_Injection
<1>6. \A x \in S : \E i \in 1..n : s[i] = x
  BY <1>5 DEF Surjection
<1> HIDE DEF n
<1> QED
  BY <1>1, <1>2, <1>6 DEF ToSet, n

\* A list in which what is below an application, by the lists g, follows it.
InOrder(g, s) == \A i, j \in DOMAIN s : s[j] \in Reach(g, s[i]) => i < j

\* A graphed list holds what is below its application, each once and in order.
LEMMA GraphedFacts ==
  ASSUME Increasing(deps), \A x \in Apps : Reach(deps, x) = Reach(kids, x),
         NEW a \in Apps, NEW s \in Graphed(a)
  PROVE  s \in Seq(Apps) /\ ToSet(s) = Reach(kids, a) /\ InOrder(kids, s)
         /\ Len(s) <= Cardinality(Apps)
<1> DEFINE S == Reach(deps, a)
           round(x) == CHOOSE n \in DOMAIN Rounds(S) : x \in Rounds(S)[n]
<1>1. S \in SUBSET Apps
  BY ReachDef
<1>2. s \in SetToSeqs(S) /\ \A i, j \in DOMAIN s : i < j => round(s[i]) >= round(s[j])
  BY DEF Graphed
<1>3. s \in Seq(Apps) /\ ToSet(s) = S /\ Len(s) = Cardinality(S)
  BY <1>1, <1>2, Listings
<1>4. \A x \in S : round(x) \in DOMAIN Rounds(S) /\ x \in Rounds(S)[round(x)]
  BY <1>1, RoundsFacts DEF RoundsFine
<1>5. \A x \in S : round(x) \in Nat
  <2> HIDE DEF round, S
  <2>1. RoundsFine(S)
    BY <1>1, RoundsFacts
  <2> QED
    BY <1>4, <2>1 DEF RoundsFine
<1>6. \A x, y \in S : y \in ToSet(deps[x]) => round(y) < round(x)
  <2> HIDE DEF round, S
  <2>1. RoundsFine(S)
    BY <1>1, RoundsFacts
  <2> QED
    BY <1>4, <2>1 DEF RoundsFine
<1> HIDE DEF round
<1>7. \A x \in S : \A y \in Reach(deps, x) : y \in S /\ round(y) < round(x)
  <2> DEFINE T == {x \in Apps : x \in S => \A y \in Reach(deps, x) : round(y) < round(x)}
  <2>0. \A x \in S : Reach(deps, x) \subseteq S
    BY ReachFacts
  <2> HIDE DEF S
  <2>1. ASSUME NEW x \in Apps, \A b \in Apps : b > x => b \in T
        PROVE  x \in T
    <3> SUFFICES ASSUME x \in S, NEW y \in Reach(deps, x)
                 PROVE  round(y) < round(x)
      OBVIOUS
    <3>1. PICK z \in ToSet(deps[x]) : y = z \/ y \in Reach(deps, z)
      BY ReachDef
    <3>2. z \in Apps /\ z > x /\ z \in Reach(deps, x)
      BY InList, ReachDef
    <3>3. z \in S /\ round(z) < round(x)
      BY <1>6, <2>0, <3>2
    <3>4. y \in Reach(deps, z) => y \in S /\ round(y) < round(z)
      BY <2>0, <2>1, <3>2, <3>3
    <3> QED
      BY <1>5, <3>1, <3>3, <3>4
  <2>2. Apps \subseteq T
    <3> HIDE DEF T
    <3> QED
      BY <2>1, Downwards
  <2> QED
    BY <1>1, <2>0, <2>2
<1>8. InOrder(kids, s)
  <2> SUFFICES ASSUME NEW i \in DOMAIN s, NEW j \in DOMAIN s, s[j] \in Reach(kids, s[i])
               PROVE  i < j
    BY DEF InOrder
  <2>1. i \in Nat /\ j \in Nat /\ s[i] \in S /\ s[j] \in S
    BY <1>3 DEF ToSet
  <2>2. round(s[j]) < round(s[i])
    BY <1>1, <1>7, <2>1
  <2>3. round(s[i]) \in Nat /\ round(s[j]) \in Nat
    BY <1>5, <2>1
  <2>4. ~(j < i) /\ i # j
    BY <1>2, <2>2, <2>3
  <2> QED
    BY <2>1, <2>4
<1>9. Cardinality(S) <= Cardinality(Apps)
  BY <1>1, AppsAssumption, FS_Subset
<1> QED
  BY <1>3, <1>8, <1>9

-----------------------------------------------------------------------------
(* dep_libs.                                                               *)

With(f, a, l) == [x \in {a} \cup DOMAIN f |-> IF x = a THEN l ELSE f[x]]
SomeOf(S) == CHOOSE x \in S : TRUE

GraphingsBody(S, P) ==
  IF S = {} THEN {<<>>}
  ELSE UNION {{With(f, SomeOf(S), l) : l \in Lists(SomeOf(S))} : f \in P[S \ {SomeOf(S)}]}

\* dep_libs gives lists of applications.
LEMMA ListsTyped ==
  ASSUME Increasing(deps), NEW a \in Apps
  PROVE  Lists(a) \subseteq Seq(Apps)
<1> SUFFICES ASSUME NEW s \in Lists(a)
             PROVE  s \in Seq(Apps)
  OBVIOUS
<1>1. CASE s \in Graphed(a)
  <2>1. Reach(deps, a) \in SUBSET Apps /\ s \in SetToSeqs(Reach(deps, a))
    BY <1>1, ReachDef DEF Graphed
  <2> QED
    BY <2>1, Listings
<1> QED
  BY <1>1 DEF Lists, Increasing

PartialLists == UNION {[S -> Seq(Apps)] : S \in SUBSET Apps}

\* A function with one more argument.
LEMMA WithTyped ==
  ASSUME NEW S, NEW f \in [S -> Seq(Apps)], NEW a, NEW l \in Seq(Apps)
  PROVE  With(f, a, l) \in [{a} \cup S -> Seq(Apps)]
<1>1. DOMAIN f = S
  OBVIOUS
<1>2. With(f, a, l) = [x \in {a} \cup S |-> IF x = a THEN l ELSE f[x]]
  BY <1>1 DEF With
<1>3. [x \in {a} \cup S |-> IF x = a THEN l ELSE f[x]] \in [{a} \cup S -> Seq(Apps)]
  OBVIOUS
<1> QED
  BY <1>2, <1>3

\* The empty function is one on the empty set.
LEMMA EmptyFunction == <<>> \in [{} -> Seq(Apps)]
  OBVIOUS

\* A set without one of its elements is smaller.
LEMMA SmallerWithout ==
  ASSUME NEW S \in SUBSET Apps, S # {}
  PROVE  /\ SomeOf(S) \in S /\ S \ {SomeOf(S)} \in SUBSET Apps
         /\ Cardinality(S \ {SomeOf(S)}) < Cardinality(S)
<1>1. IsFiniteSet(S) /\ SomeOf(S) \in S
  BY AppsAssumption, FS_Subset DEF SomeOf
<1>2. Cardinality(S \ {SomeOf(S)}) = Cardinality(S) - 1 /\ Cardinality(S) \in Nat
  BY <1>1, FS_RemoveElement, FS_CardinalityType
<1> QED
  BY <1>1, <1>2

\* The recursion of Graphings has a solution.
LEMMA GraphingsExist ==
  ASSUME Increasing(deps)
  PROVE  \E P \in [SUBSET Apps -> SUBSET PartialLists] : P = [S \in SUBSET Apps |-> GraphingsBody(S, P)]
<1> DEFINE N == Cardinality(Apps)
           rank == [S \in SUBSET Apps |-> Cardinality(S)]
           V == SUBSET PartialLists
           H == [S \in SUBSET Apps |-> [P \in [SUBSET Apps -> V] |-> GraphingsBody(S, P)]]
<1>1. N \in Nat /\ rank \in [SUBSET Apps -> 0..N]
  <2>1. \A T \in SUBSET Apps : IsFiniteSet(T) /\ Cardinality(T) <= N
    BY AppsAssumption, FS_Subset
  <2>2. \A T \in SUBSET Apps : Cardinality(T) \in Nat
    BY <2>1, FS_CardinalityType
  <2>3. N \in Nat
    BY AppsAssumption, FS_CardinalityType
  <2> QED
    BY <2>1, <2>2, <2>3
<1>2. ASSUME NEW S \in SUBSET Apps, NEW P \in [SUBSET Apps -> V]
      PROVE  GraphingsBody(S, P) \in V
  <2>1. CASE S = {}
    <3>1. <<>> \in PartialLists
      BY EmptyFunction DEF PartialLists
    <3> QED
      BY <2>1, <3>1 DEF GraphingsBody
  <2>2. CASE S # {}
    <3> DEFINE U == S \ {SomeOf(S)}
    <3>1. SomeOf(S) \in Apps /\ U \in SUBSET Apps
      BY <2>2, SmallerWithout
    <3>2. ASSUME NEW l \in Lists(SomeOf(S)), NEW f \in P[U]
          PROVE  With(f, SomeOf(S), l) \in PartialLists
      <4>1. f \in PartialLists
        BY <3>1
      <4>2. PICK D \in SUBSET Apps : f \in [D -> Seq(Apps)]
        BY <4>1 DEF PartialLists
      <4>3. l \in Seq(Apps)
        BY <3>1, ListsTyped
      <4>4. {SomeOf(S)} \cup D \in SUBSET Apps
        BY <3>1
      <4>5. With(f, SomeOf(S), l) \in [{SomeOf(S)} \cup D -> Seq(Apps)]
        BY <4>2, <4>3, WithTyped
      <4> HIDE DEF V, H, rank, N, U
      <4>6. [{SomeOf(S)} \cup D -> Seq(Apps)] \in {[T -> Seq(Apps)] : T \in SUBSET Apps}
        BY <4>4, Zenon
      <4> QED
        BY <4>5, <4>6, Zenon DEF PartialLists
    <3>3. GraphingsBody(S, P) = UNION {{With(f, SomeOf(S), l) : l \in Lists(SomeOf(S))} : f \in P[U]}
      BY <2>2 DEF GraphingsBody
    <3> HIDE DEF U
    <3> QED
      BY <3>2, <3>3
  <2> QED
    BY <2>1, <2>2
<1>3. H \in [SUBSET Apps -> [[SUBSET Apps -> V] -> V]]
  <2> HIDE DEF V
  <2> QED
    BY <1>2
<1>4. ASSUME NEW S \in SUBSET Apps, NEW g \in [SUBSET Apps -> V], NEW h \in [SUBSET Apps -> V],
             \A U \in SUBSET Apps : rank[U] < rank[S] => g[U] = h[U]
      PROVE  H[S][g] = H[S][h]
  <2>1. S # {} => g[S \ {SomeOf(S)}] = h[S \ {SomeOf(S)}]
    BY <1>4, SmallerWithout
  <2>2. GraphingsBody(S, g) = GraphingsBody(S, h)
    <3> HIDE DEF V, H, rank
    <3> QED
      BY <2>1, Zenon DEF GraphingsBody
  <2> HIDE DEF V
  <2> QED
    BY <2>2
<1>5. V # {}
  OBVIOUS
<1>6. Ranked(SUBSET Apps, V, N, rank, H)
  <2> HIDE DEF H, rank, V, N
  <2> QED
    BY <1>1, <1>3, <1>4, <1>5 DEF Ranked
<1>7. \E P \in [SUBSET Apps -> V] : P = [S \in SUBSET Apps |-> H[S][P]]
  <2> DEFINE D == SUBSET Apps
  <2>1. Ranked(D, V, N, rank, H)
    BY <1>6
  <2> HIDE DEF V, H, rank, N, D
  <2>2. \E P \in [D -> V] : P = [S \in D |-> H[S][P]]
    BY <2>1, RankedRecursion
  <2> QED
    BY <2>2 DEF D
<1>8. ASSUME NEW P \in [SUBSET Apps -> V], P = [S \in SUBSET Apps |-> H[S][P]]
      PROVE  P = [S \in SUBSET Apps |-> GraphingsBody(S, P)]
  <2> HIDE DEF V
  <2> QED
    BY <1>8
<1> HIDE DEF H
<1> QED
  BY <1>7, <1>8

\* Graphings gives every application one of its lists.
LEMMA GraphingsFacts ==
  ASSUME Increasing(deps), NEW d \in Graphings
  PROVE  d \in [Apps -> Seq(Apps)] /\ \A a \in Apps : d[a] \in Lists(a)
<1> DEFINE W(f, a, l) == [x \in {a} \cup DOMAIN f |-> IF x = a THEN l ELSE f[x]]
<1>0. \E P : P = [S \in SUBSET Apps |->
          IF S = {} THEN {<<>>}
          ELSE UNION {{W(f, CHOOSE x \in S : TRUE, l) : l \in Lists(CHOOSE x \in S : TRUE)} :
                        f \in P[S \ {CHOOSE x \in S : TRUE}]}]
  BY GraphingsExist, Zenon DEF GraphingsBody, With, SomeOf
<1> DEFINE P[S \in SUBSET Apps] ==
          IF S = {} THEN {<<>>}
          ELSE LET a == CHOOSE x \in S : TRUE
               IN UNION {{W(f, a, l) : l \in Lists(a)} : f \in P[S \ {a}]}
<1>1. P = [S \in SUBSET Apps |->
          IF S = {} THEN {<<>>}
          ELSE UNION {{W(f, CHOOSE x \in S : TRUE, l) : l \in Lists(CHOOSE x \in S : TRUE)} :
                        f \in P[S \ {CHOOSE x \in S : TRUE}]}]
  BY <1>0, Zenon
<1>2. Graphings = P[Apps]
  BY Zenon DEF Graphings
<1> HIDE DEF P
<1>3. P = [S \in SUBSET Apps |-> GraphingsBody(S, P)]
  BY <1>1, Zenon DEF GraphingsBody, With, SomeOf
<1>4. \A S \in SUBSET Apps : P[S] = GraphingsBody(S, P)
  BY <1>3
<1> DEFINE Z == {S \in SUBSET Apps : \A f \in P[S] : f \in [S -> Seq(Apps)]
                                       /\ \A x \in S : f[x] \in Lists(x)}
           rank == [S \in SUBSET Apps |-> Cardinality(S)]
<1>5. ASSUME NEW S \in SUBSET Apps, \A U \in SUBSET Apps : rank[U] < rank[S] => U \in Z
      PROVE  S \in Z
  <2> SUFFICES ASSUME NEW g \in P[S]
               PROVE  g \in [S -> Seq(Apps)] /\ \A x \in S : g[x] \in Lists(x)
    OBVIOUS
  <2>1. CASE S = {}
    <3>1. g = <<>>
      BY <1>4, <2>1 DEF GraphingsBody
    <3> QED
      BY <2>1, <3>1, EmptyFunction
  <2>2. CASE S # {}
    <3> DEFINE U == S \ {SomeOf(S)}
    <3>1. P[S] = UNION {{With(f, SomeOf(S), l) : l \in Lists(SomeOf(S))} : f \in P[U]}
      BY <1>4, <2>2, Zenon DEF GraphingsBody
    <3>2. PICK l \in Lists(SomeOf(S)), f \in P[U] : g = With(f, SomeOf(S), l)
      BY <3>1, Zenon
    <3>3. SomeOf(S) \in S /\ U \in SUBSET Apps /\ U \in Z
      BY <1>5, <2>2, SmallerWithout
    <3>4. f \in [U -> Seq(Apps)] /\ \A x \in U : f[x] \in Lists(x)
      BY <3>3
    <3>5. l \in Seq(Apps)
      BY <3>3, ListsTyped
    <3>6. {SomeOf(S)} \cup U = S
      BY <3>3
    <3> HIDE DEF U
    <3>7. /\ With(f, SomeOf(S), l) \in [{SomeOf(S)} \cup U -> Seq(Apps)]
          /\ With(f, SomeOf(S), l)[SomeOf(S)] = l
          /\ \A x \in U \ {SomeOf(S)} : With(f, SomeOf(S), l)[x] = f[x]
      <4>1. f \in [U -> Seq(Apps)]
        BY <3>4
      <4>2. With(f, SomeOf(S), l) \in [{SomeOf(S)} \cup U -> Seq(Apps)]
        BY <3>5, <4>1, WithTyped
      <4>3. With(f, SomeOf(S), l)[SomeOf(S)] = l
        BY DEF With
      <4>4. \A x \in U \ {SomeOf(S)} : With(f, SomeOf(S), l)[x] = f[x]
        BY <4>1 DEF With
      <4> QED
        BY <4>2, <4>3, <4>4
    <3> QED
      BY <3>2, <3>4, <3>6, <3>7
  <2> QED
    BY <2>1, <2>2
<1>6. Apps \in Z
  <2> DEFINE D == SUBSET Apps
  <2>0. \A S \in D : rank[S] \in Nat
    BY AppsAssumption, FS_Subset, FS_CardinalityType
  <2> HIDE DEF rank, Z
  <2>1. \A S \in D : (\A U \in D : rank[U] < rank[S] => U \in Z) => S \in Z
    BY <1>5
  <2> HIDE DEF D
  <2>2. D \subseteq Z
    BY <2>0, <2>1, RankInduction
  <2> QED
    BY <2>2 DEF D
<1> QED
  BY <1>2, <1>6

-----------------------------------------------------------------------------
(* The inductive invariants.                                               *)

InputsOK == /\ kids \in Projects /\ roots \in RootLists /\ mains \subseteq RootSet
            /\ sourced \subseteq Apps /\ arg \in DepArgs /\ clean \in BOOLEAN

\* The list of a in d is that of dep_libs: everything below a by the lists g,
\* in order.
Relisted(g, d, a) == /\ ToSet(d[a]) = Reach(g, a)
                     /\ InOrder(g, d[a])
                     /\ Len(d[a]) <= Cardinality(Apps)

\* Or else it is the one of the yaml.
ListsOK == \A a \in Apps : deps[a] = kids[a] \/ Relisted(kids, deps, a)

\* The names of -d were looked up in the lists of the yaml.
NamesOK == \/ pc = "select" /\ k = 1 /\ deps = kids
           \/ pc = "exit"
           \/ arg.names \subseteq ToSet(kids[roots[1]])

SelectInv == InputsOK /\ TypeOK /\ ListsOK /\ NamesOK

\* The inputs are well formed.
LEMMA Inputs ==
  ASSUME InputsOK
  PROVE  /\ Increasing(kids)
         /\ roots \in Seq(Apps) /\ roots # <<>> /\ Len(roots) \in Nat \ {0}
         /\ DOMAIN roots = 1..Len(roots)
         /\ RootSet \subseteq Apps /\ \A j \in DOMAIN roots : roots[j] \in RootSet
<1>1. Increasing(kids)
  BY ProjectsAssumption DEF InputsOK, Increasing
<1>2. roots \in Seq(Apps) /\ roots # <<>>
  BY RootListsAssumption DEF InputsOK
<1> QED
  BY <1>1, <1>2 DEF RootSet, ToSet

\* Whichever lists dep_libs has replaced, what is below an application stays.
LEMMA ListsFacts ==
  ASSUME InputsOK, deps \in [Apps -> Seq(Apps)], ListsOK
  PROVE  /\ Increasing(deps)
         /\ \A a \in Apps : Reach(deps, a) = Reach(kids, a)
         /\ \A a \in Apps : ToSet(deps[a]) \subseteq Reach(kids, a)
<1>1. Increasing(kids)
  BY Inputs
<1>2. \A a \in Apps : ToSet(kids[a]) \subseteq Reach(kids, a)
  BY <1>1, Children
<1>3. \A a \in Apps : ToSet(deps[a]) \in {ToSet(kids[a]), Reach(kids, a)}
  BY DEF ListsOK, Relisted
<1>4. Increasing(deps)
  <2> SUFFICES ASSUME NEW a \in Apps, NEW i \in DOMAIN deps[a]
               PROVE  deps[a][i] > a
    BY DEF Increasing
  <2>1. deps[a][i] \in Reach(kids, a)
    BY <1>2, <1>3 DEF ToSet
  <2> QED
    BY <1>1, <2>1, ReachFacts
<1>5. \A a \in Apps : Reach(deps, a) = Reach(kids, a)
  BY <1>1, <1>3, <1>4, ReachSame
<1> QED
  BY <1>2, <1>3, <1>4, <1>5

\* M bounds the number of levels and L the length of a list; the level the
\* program takes for "all", the largest of an int16_t, bounds their product.
Small(L, M) == /\ L \in Nat /\ M \in Nat /\ L * M <= 32767
               /\ \A a \in Apps : a <= M
               /\ Cardinality(Apps) <= L
               /\ \A l \in Projects : \A a \in Apps : Len(l[a]) <= L

\* The arithmetic of the levels.
LEMMA Steps ==
  ASSUME NEW L \in Nat, NEW p \in Nat, NEW q \in Nat, p < q
  PROVE  L * q >= L * p + L /\ L * p >= 0
<1>1. PICK r \in Nat : q = p + 1 + r
  <2>1. q - p - 1 \in Nat /\ q = p + 1 + (q - p - 1)
    OBVIOUS
  <2> QED
    BY <2>1
<1>2. L * q = L * p + L + L * r /\ L * r >= 0 /\ L * p >= 0
  BY <1>1
<1>3. L * q \in Int /\ L * p \in Int /\ L * r \in Int
  OBVIOUS
<1> QED
  BY <1>2, <1>3

\* Then every list is short, also one of dep_libs.
LEMMA ListsShort ==
  ASSUME InputsOK, deps \in [Apps -> Seq(Apps)], ListsOK, NEW L, NEW M, Small(L, M)
  PROVE  \A a \in Apps : a <= M /\ Len(deps[a]) <= L
<1> SUFFICES ASSUME NEW a \in Apps
             PROVE  Len(deps[a]) <= L
  BY DEF Small
<1>1. CASE deps[a] = kids[a]
  BY <1>1 DEF Small, InputsOK
<1>2. CASE Relisted(kids, deps, a)
  <2>1. Cardinality(Apps) \in Nat /\ Len(deps[a]) \in Nat
    BY AppsAssumption, FS_CardinalityType
  <2> QED
    BY <1>2, <2>1 DEF Relisted, Small
<1> QED
  BY <1>1, <1>2 DEF ListsOK

\* The lowest level with which nothing below an application wraps.
Lowest(L, M, a) == L * (M - a) - 32768

\* A level that is too high by far to come to its least value before the last
\* application does not wrap, and the same can be said of what is left of it.
LEMMA NoWrap ==
  ASSUME Increasing(deps), NEW L \in Nat, NEW M \in Nat,
         \A x \in Apps : x <= M /\ Len(deps[x]) <= L,
         NEW a \in Apps, NEW i \in DOMAIN deps[a],
         NEW n \in Int16s, n >= Lowest(L, M, a)
  PROVE  /\ Int16(n - i + 1) = n - i + 1 /\ Int16(n - i) = n - i /\ n - i \in Int16s
         /\ n - i >= Lowest(L, M, deps[a][i])
         /\ L * (M - a) >= L * (M - deps[a][i]) + L /\ L * (M - deps[a][i]) \in Nat
<1> DEFINE z == deps[a][i]
           p == L * (M - a)
           q == L * (M - z)
<1>1. i \in Nat /\ 1 <= i /\ i <= L /\ z \in Apps /\ z > a
  BY DEF Increasing
<1> HIDE DEF z
<1>2. M - a \in Nat /\ M - z \in Nat /\ M - z < M - a
  <2>1. a \in Nat /\ z \in Nat /\ a <= M /\ z <= M
    BY <1>1, AppsAssumption
  <2> QED
    BY <1>1, <2>1
<1>3. p >= q + L /\ q >= 0 /\ p \in Int /\ q \in Int
  BY <1>2, Steps
<1> HIDE DEF p, q
<1>4. n - i >= q - 32768 /\ n - i \in Int16s /\ n - i + 1 \in Int16s
  <2>1. n >= p - 32768 /\ n \in Int /\ -32768 <= n /\ n <= 32767
    BY Int16sDef DEF p, Lowest
  <2>2. n - i >= q - 32768 /\ n - i \in Int /\ -32768 <= n - i /\ n - i + 1 <= 32767
    BY <1>1, <1>3, <2>1
  <2> QED
    BY <2>2, Int16sDef
<1>5. Int16(n - i) = n - i /\ Int16(n - i + 1) = n - i + 1
  BY <1>4, Int16Facts
<1> QED
  BY <1>3, <1>4, <1>5 DEF p, q, z, Lowest

\* A level that selects something without a wrap is not below one.
LEMMA BelowPositive ==
  ASSUME Increasing(deps), NEW L \in Nat, NEW M \in Nat,
         \A x \in Apps : x <= M /\ Len(deps[x]) <= L
  PROVE  \A a \in Apps, n \in Int16s : n >= Lowest(L, M, a) /\ Below(a, n) # {} => n >= 1
<1> DEFINE T == {a \in Apps : \A n \in Int16s : n >= Lowest(L, M, a) /\ Below(a, n) # {} => n >= 1}
<1>1. ASSUME NEW a \in Apps, \A b \in Apps : b > a => b \in T
      PROVE  a \in T
  <2> SUFFICES ASSUME NEW n \in Int16s, n >= Lowest(L, M, a), NEW y \in Below(a, n)
               PROVE  n >= 1
    OBVIOUS
  <2>1. PICK i \in DOMAIN deps[a] : Int16(n - i + 1) > 0 \/ y \in Below(deps[a][i], Int16(n - i))
    BY BelowDef
  <2>2. i \in Nat /\ i >= 1 /\ deps[a][i] \in Apps /\ deps[a][i] > a
    BY DEF Increasing
  <2>3. /\ Int16(n - i + 1) = n - i + 1 /\ Int16(n - i) = n - i /\ n - i \in Int16s
        /\ n - i >= Lowest(L, M, deps[a][i])
    BY NoWrap
  <2>4. y \in Below(deps[a][i], n - i) => n - i >= 1
    BY <1>1, <2>2, <2>3
  <2>5. n \in Int
    BY Int16sDef
  <2> QED
    BY <2>1, <2>2, <2>3, <2>4, <2>5
<1>2. Apps \subseteq T
  <2> HIDE DEF T
  <2> QED
    BY <1>1, Downwards
<1> QED
  BY <1>2

\* What a level selects hangs together, also in a list of dep_libs: what
\* depends on an application comes before it, and gets the higher level.
LEMMA BelowConnected ==
  ASSUME InputsOK, deps \in [Apps -> Seq(Apps)], ListsOK, NEW L, NEW M, Small(L, M)
  PROVE  \A a \in Apps, n \in Int16s : n >= Lowest(L, M, a) => \A y \in Below(a, n) :
           \E b \in {a} \cup Below(a, n) : y \in ToSet(kids[b])
<1> DEFINE T == {a \in Apps : \A n \in Int16s : n >= Lowest(L, M, a) => \A y \in Below(a, n) :
                   \E b \in {a} \cup Below(a, n) : y \in ToSet(kids[b])}
<1>0. L \in Nat /\ M \in Nat /\ \A x \in Apps : x <= M /\ Len(deps[x]) <= L
  <2>1. \A x \in Apps : x <= M /\ Len(deps[x]) <= L
    BY ListsShort
  <2> QED
    BY <2>1 DEF Small
<1>1. ASSUME NEW a \in Apps, \A b \in Apps : b > a => b \in T
      PROVE  a \in T
  <2> SUFFICES ASSUME NEW n \in Int16s, n >= Lowest(L, M, a), NEW y \in Below(a, n)
               PROVE  \E b \in {a} \cup Below(a, n) : y \in ToSet(kids[b])
    OBVIOUS
  <2>1. Increasing(deps) /\ Increasing(kids)
    BY Inputs, ListsFacts
  <2>2. PICK i \in DOMAIN deps[a] : \/ n - i + 1 > 0 /\ y = deps[a][i]
                                    \/ y \in Below(deps[a][i], n - i)
    <3>1. PICK i \in DOMAIN deps[a] : \/ Int16(n - i + 1) > 0 /\ y = deps[a][i]
                                      \/ y \in Below(deps[a][i], Int16(n - i))
      BY <2>1, BelowDef
    <3>2. Int16(n - i + 1) = n - i + 1 /\ Int16(n - i) = n - i
      BY <1>0, <2>1, NoWrap
    <3> QED
      BY <3>1, <3>2
  <2>3. i \in Nat /\ deps[a][i] \in Apps /\ deps[a][i] > a
    BY <2>1 DEF Increasing
  <2>4. \A j \in DOMAIN deps[a] :
          /\ Int16(n - j + 1) = n - j + 1 /\ Int16(n - j) = n - j /\ n - j \in Int16s
          /\ n - j >= Lowest(L, M, deps[a][j])
    <3> SUFFICES ASSUME NEW j \in DOMAIN deps[a]
                 PROVE  /\ Int16(n - j + 1) = n - j + 1 /\ Int16(n - j) = n - j /\ n - j \in Int16s
                        /\ n - j >= Lowest(L, M, deps[a][j])
      OBVIOUS
    <3>1. Increasing(deps)
      BY <2>1
    <3>2. L \in Nat /\ M \in Nat /\ n \in Int16s
      BY <1>0
    <3> QED
      BY <1>0, <3>1, <3>2, NoWrap, SMTT(30)
  <2>5. n \in Int
    BY Int16sDef
  <2>6. CASE y \in Below(deps[a][i], n - i)
    <3> DEFINE z == deps[a][i]
    <3>1. PICK b \in {z} \cup Below(z, n - i) : y \in ToSet(kids[b])
      BY <1>1, <2>3, <2>6, <2>4
    <3>2. Below(z, n - i) \subseteq Below(a, n)
      BY <2>1, <2>4, BelowDef
    <3>3. n - i >= 1
      BY <1>0, <2>1, <2>3, <2>6, <2>4, BelowPositive
    <3>4. n - i + 1 > 0
      BY <2>3, <2>5, <3>3
    <3>5. z \in Below(a, n)
      BY <2>1, <2>4, <3>4, BelowDef
    <3> QED
      BY <3>1, <3>2, <3>5
  <2>7. CASE n - i + 1 > 0 /\ y = deps[a][i]
    <3>1. CASE deps[a] = kids[a]
      BY <2>7, <3>1 DEF ToSet
    <3>2. CASE Relisted(kids, deps, a)
      <4>1. y \in Reach(kids, a)
        BY <2>7, <3>2 DEF Relisted, ToSet
      <4>2. PICK b \in {a} \cup Reach(kids, a) : y \in ToSet(kids[b])
        BY <2>1, <4>1, ReachFacts
      <4>3. CASE b \in Reach(kids, a)
        <5>1. PICK m \in DOMAIN deps[a] : b = deps[a][m]
          BY <3>2, <4>3 DEF Relisted, ToSet
        <5>2. b \in Apps /\ m \in Nat
          BY <2>1, <5>1 DEF Increasing
        <5>3. y \in Reach(kids, b)
          BY <2>1, <4>2, <5>2, Children
        <5>4. m < i
          BY <2>7, <3>2, <5>1, <5>3 DEF Relisted, InOrder
        <5>5. n - m + 1 > 0
          BY <2>3, <2>7, <2>5, <5>2, <5>4
        <5>6. b \in Below(a, n)
          BY <2>1, <2>4, <5>1, <5>5, BelowDef
        <5> QED
          BY <4>2, <5>6
      <4> QED
        BY <4>2, <4>3
    <3> QED
      BY <3>1, <3>2 DEF ListsOK
  <2> QED
    BY <2>2, <2>6, <2>7
<1>2. Apps \subseteq T
  <2> HIDE DEF T
  <2> QED
    BY <1>1, Downwards
<1> QED
  BY <1>2

\* A level is a number, and a level of a bare -d at most fits in 16 bits.
LEMMA LevelType ==
  ASSUME InputsOK
  PROVE  /\ Level \in Nat /\ Int16(Level) \in Int16s
         /\ arg.level < 32768 => Int16(Level) = Level
<1>1. arg.level \in Nat
  BY DepArgsAssumption DEF InputsOK
<1>2. Level \in Nat /\ (arg.level < 32768 => Level < 32768)
  BY <1>1 DEF Level
<1>3. Level < 32768 => Level \in Int16s
  BY <1>2, Int16sDef
<1> HIDE DEF Level
<1> QED
  BY <1>2, <1>3, Int16Facts

\* What is selected is below the root.
LEMMA SelectedFacts ==
  ASSUME SelectInv, pc = "select"
  PROVE  root \in RootSet /\ Selected \subseteq Reach(kids, root)
<1> USE DEF SelectInv
<1>1. root \in RootSet /\ root \in Apps
  BY Inputs DEF TypeOK, root
<1>2. deps \in [Apps -> Seq(Apps)]
  BY DEF TypeOK
<1>3. Increasing(deps) /\ Increasing(kids) /\ \A a \in Apps : Reach(deps, a) = Reach(kids, a)
  BY <1>2, Inputs, ListsFacts
<1>4. Direct \subseteq Reach(kids, root) /\ Direct \subseteq Apps
  BY <1>1, <1>2, <1>3, ListsFacts, ReachDef DEF Direct
<1> DEFINE n == Int16(Level)
<1>5. n \in Int16s
  BY LevelType
<1>6. \A a \in Selected : a \in Direct \/ \E c \in Direct : a \in Below(c, n)
  BY DEF Selected
<1> HIDE DEF n
<1>7. \A c \in Direct : Below(c, n) \subseteq Reach(kids, c)
  BY <1>3, <1>4, <1>5, BelowFacts
<1>8. \A c \in Direct : Reach(kids, c) \subseteq Reach(kids, root)
  BY <1>1, <1>3, <1>4, ReachFacts
<1> QED
  BY <1>1, <1>4, <1>6, <1>7, <1>8

\* A selection of a level that does not wrap hangs together.
LEMMA SelectedConnected ==
  ASSUME SelectInv, pc = "select", arg.level < 32768, NEW L, NEW M, Small(L, M)
  PROVE  \A a \in Selected : \E b \in Apps : a \in ToSet(kids[b]) /\ b \in RootSet \cup Selected
<1> USE DEF SelectInv
<1>1. root \in RootSet /\ root \in Apps
  BY Inputs DEF TypeOK, root
<1>2. deps \in [Apps -> Seq(Apps)]
  BY DEF TypeOK
<1>3. Increasing(deps) /\ Increasing(kids) /\ \A a \in Apps : Reach(deps, a) = Reach(kids, a)
  BY <1>2, Inputs, ListsFacts
<1>4. Direct \subseteq Reach(kids, root) /\ Direct \subseteq Apps
  BY <1>1, <1>2, <1>3, ListsFacts, ReachDef DEF Direct
<1> DEFINE n == Int16(Level)
<1>5. n \in Int16s /\ n \in Nat /\ (n >= 1 => Level # 0)
  BY LevelType
<1>6. \A a \in Selected : \/ a \in Direct /\ (Level # 0 \/ a \in arg.names)
                          \/ \E c \in Direct : a \in Below(c, n)
  BY DEF Selected
<1>7. Level # 0 => Direct \subseteq Selected
  BY DEF Selected
<1>8. \A c \in Direct : Below(c, n) \subseteq Selected
  BY DEF Selected
<1> HIDE DEF n
<1>9. Selected \subseteq Reach(kids, root)
  BY SelectedFacts
<1>10. L \in Nat /\ M \in Nat /\ \A x \in Apps : x <= M /\ Len(deps[x]) <= L
  <2>1. \A x \in Apps : x <= M /\ Len(deps[x]) <= L
    BY <1>2, ListsShort
  <2> QED
    BY <2>1 DEF Small
<1>11. \A c \in Direct : n >= Lowest(L, M, c)
  <2> SUFFICES ASSUME NEW c \in Direct
               PROVE  n >= Lowest(L, M, c)
    OBVIOUS
  <2>1. c \in Nat /\ L * M <= 32767
    BY <1>4, AppsAssumption DEF Small
  <2>2. L * (M - c) = L * M - L * c /\ L * c >= 0 /\ L * c \in Int /\ L * M \in Int
    BY <1>10, <2>1
  <2> QED
    BY <1>5, <2>1, <2>2 DEF Lowest
<1>12. ASSUME NEW a \in Selected
       PROVE  \E b \in Apps : a \in ToSet(kids[b]) /\ b \in RootSet \cup Selected
  <2>1. CASE a \in Direct /\ Level # 0
    <3>1. CASE deps[root] = kids[root]
      BY <1>1, <2>1, <3>1 DEF Direct
    <3>2. CASE Relisted(kids, deps, root)
      <4>1. PICK b \in {root} \cup Reach(kids, root) : a \in ToSet(kids[b])
        BY <1>1, <1>3, <1>4, <2>1, ReachFacts
      <4>2. b \in RootSet \cup Selected /\ b \in Apps
        BY <1>1, <1>4, <1>7, <2>1, <3>2 DEF Relisted, Direct
      <4> QED
        BY <4>1, <4>2
    <3> QED
      BY <1>1, <3>1, <3>2 DEF ListsOK
  <2>2. CASE a \in Direct /\ a \in arg.names
    <3>1. CASE deps = kids
      BY <1>1, <2>2, <3>1 DEF Direct
    <3>2. CASE arg.names \subseteq ToSet(kids[roots[1]])
      <4>1. roots[1] \in RootSet /\ roots[1] \in Apps
        BY Inputs
      <4> QED
        BY <2>2, <3>2, <4>1
    <3> QED
      BY <3>1, <3>2 DEF NamesOK
  <2>3. ASSUME NEW c \in Direct, a \in Below(c, n)
        PROVE  \E b \in Apps : a \in ToSet(kids[b]) /\ b \in RootSet \cup Selected
    <3>1. PICK b \in {c} \cup Below(c, n) : a \in ToSet(kids[b])
      BY <1>2, <1>4, <1>5, <1>11, <2>3, BelowConnected
    <3>2. c \in Selected
      <4>1. n >= 1
        BY <1>3, <1>4, <1>5, <1>10, <1>11, <2>3, BelowPositive
      <4> QED
        BY <1>5, <1>7, <2>3, <4>1
    <3>3. b \in Selected
      BY <1>8, <3>1, <3>2
    <3>4. b \in Apps
      BY <1>1, <1>3, <1>9, <3>3, ReachDef
    <3> QED
      BY <3>1, <3>3, <3>4
  <2> QED
    BY <1>6, <2>1, <2>2, <2>3
<1> QED
  BY <1>1, <1>9, <1>12

\* The other two parts of the argument of -d.
LEMMA ArgType ==
  ASSUME InputsOK
  PROVE  arg.plus \in BOOLEAN /\ arg.names \subseteq Apps
  BY DepArgsAssumption DEF InputsOK

\* Select gives each application one of its lists.
LEMMA SelectLists ==
  ASSUME SelectInv, Select
  PROVE  /\ deps' \in [Apps -> Seq(Apps)]
         /\ \A a \in Apps : deps'[a] = deps[a] \/ Relisted(kids, deps', a)
         /\ Relisted(kids, deps', root)
         /\ \A a \in Apps \ ({root} \cup Reach(kids, root)) : deps'[a] = deps[a]
<1> USE DEF SelectInv
<1>1. deps \in [Apps -> Seq(Apps)] /\ root \in Apps
  BY Inputs DEF TypeOK, root
<1>2. Increasing(deps) /\ \A a \in Apps : Reach(deps, a) = Reach(kids, a)
  BY <1>1, ListsFacts
<1>3. deps' \in [Apps -> Seq(Apps)] /\ \A a \in Apps : deps'[a] \in Lists(a)
  BY <1>2, GraphingsFacts DEF Select
<1>4. \A a \in Apps : deps'[a] \in Graphed(a) => Relisted(kids, deps', a)
  BY <1>2, GraphedFacts DEF Relisted
<1> QED
  BY <1>1, <1>2, <1>3, <1>4 DEF Lists

\* Every step keeps the types.
LEMMA TypeOKStep ==
  ASSUME SelectInv, Next
  PROVE  InputsOK' /\ TypeOK'
<1> USE DEF SelectInv
<1>1. InputsOK'
  BY DEF InputsOK, Next, Select, SelectFails, Root, Ignore, Again, Build, BuildFails, NoWork, Ended, vars,
         input, RootSet
<1>2. /\ roots \in Seq(Apps) /\ k \in 1..Len(roots) /\ Len(roots) \in Nat /\ root \in Apps
      /\ roots' = roots /\ DOMAIN roots = 1..Len(roots)
  BY Inputs DEF TypeOK, root, Next, Select, SelectFails, Root, Ignore, Again, Build, BuildFails, NoWork,
                Ended, vars, input
<1> SUFFICES TypeOK'
  BY <1>1
<1>3. ASSUME Onward
      PROVE  /\ todo' \in Seq(Apps) /\ k' \in DOMAIN roots'
             /\ pc \in {"select", "root", "process", "done", "exit"} =>
                  pc' \in {"select", "root", "process", "done", "exit"}
  <2>1. CASE todo # <<>>
    <3>1. Tail(todo) \in Seq(Apps)
      BY <2>1 DEF TypeOK
    <3> QED
      BY <1>2, <1>3, <2>1, <3>1 DEF Onward
  <2>2. CASE todo = <<>>
    BY <1>2, <1>3, <2>2 DEF Onward, NextRoot, TypeOK
  <2> QED
    BY <2>1, <2>2
<1>4. ASSUME NEW a \in Apps, Forget(a)
      PROVE  main_' \in [Apps -> BOOLEAN]
  <2>1. MainOf(a) \in BOOLEAN
    BY DEF MainOf, TypeOK
  <2> HIDE DEF MainOf
  <2> QED
    BY <1>4, <2>1 DEF Forget, TypeOK
<1>5. CASE Select
  <2>1. deps' \in [Apps -> Seq(Apps)]
    BY <1>5, SelectLists
  <2>2. ig' \in [Apps -> BOOLEAN]
    <3>1. \A a \in Apps : (IF a = root THEN arg.plus ELSE ig[a] /\ a \notin Selected) \in BOOLEAN
      BY ArgType DEF TypeOK
    <3> HIDE DEF Selected
    <3> QED
      BY <1>5, <3>1 DEF Select
  <2>3. pc' \in {"select", "root"} /\ k' \in DOMAIN roots'
    BY <1>2, <1>5 DEF Select
  <2> QED
    BY <1>5, <2>1, <2>2, <2>3 DEF Select, TypeOK
<1>6. CASE SelectFails
  BY <1>2, <1>6 DEF SelectFails, TypeOK, app
<1>7. CASE Root
  <2>1. deps[root] \in Seq(Apps)
    BY <1>2 DEF TypeOK
  <2>2. Reverse(deps[root]) \in Seq(Apps)
    BY <2>1 DEF Reverse
  <2> QED
    BY <1>2, <1>7, <2>2 DEF Root, TypeOK, app
<1>8. CASE Ignore
  BY <1>2, <1>3, <1>8 DEF Ignore, TypeOK, app
<1>9. ASSUME NEW a \in Apps, Again(a)
      PROVE  TypeOK'
  BY <1>2, <1>3, <1>4, <1>9 DEF Again, TypeOK
<1>10. ASSUME NEW a \in Apps, Build(a)
       PROVE  TypeOK'
  <2>1. artifact' \in [Apps -> {"none", "lib", "exe"}]
    BY <1>10 DEF Build, TypeOK
  <2> QED
    BY <1>2, <1>3, <1>4, <1>10, <2>1 DEF Build, TypeOK
<1>11. ASSUME NEW a \in Apps, BuildFails(a)
       PROVE  TypeOK'
  BY <1>2, <1>4, <1>11 DEF BuildFails, TypeOK
<1>12. ASSUME NEW a \in Apps, NoWork(a)
       PROVE  TypeOK'
  <2>1. artifact' \in [Apps -> {"none", "lib", "exe"}]
    BY <1>12 DEF NoWork, TypeOK
  <2> QED
    BY <1>2, <1>3, <1>4, <1>12, <2>1 DEF NoWork, TypeOK
<1>13. CASE Ended
  BY <1>13 DEF Ended, vars, input, app, TypeOK
<1> QED
  BY <1>1, <1>5, <1>6, <1>7, <1>8, <1>9, <1>10, <1>11, <1>12, <1>13 DEF Next

\* The selection invariant holds at first.
LEMMA SelectInvInit == Init => SelectInv
<1> SUFFICES ASSUME Init
             PROVE  SelectInv
  OBVIOUS
<1>1. InputsOK
  BY DEF Init, InputsOK, RootSet
<1>2. TypeOK
  <2>1. kids \in [Apps -> Seq(Apps)]
    BY ProjectsAssumption DEF Init
  <2>2. 1 \in DOMAIN roots
    BY <1>1, Inputs
  <2> QED
    BY <2>1, <2>2 DEF Init, TypeOK
<1>3. ListsOK /\ NamesOK
  BY DEF Init, ListsOK, NamesOK
<1> QED
  BY <1>1, <1>2, <1>3 DEF SelectInv

\* A step that leaves the lists and the selection.
LEMMA SelectionUnchanged ==
  ASSUME SelectInv, UNCHANGED <<kids, roots, arg, deps, ig>>,
         pc' = "exit" \/ (pc \notin {"select", "exit"} /\ pc' # "select")
  PROVE  ListsOK' /\ NamesOK'
<1>1. ListsOK'
  BY DEF SelectInv, ListsOK
<1>2. NamesOK'
  BY DEF SelectInv, NamesOK
<1> QED
  BY <1>1, <1>2

\* Select keeps the selection invariant.
LEMMA SelectSelects ==
  ASSUME SelectInv, Select
  PROVE  ListsOK' /\ NamesOK'
<1>1. pc = "select" /\ UNCHANGED <<kids, roots, arg>> /\ arg.names \subseteq Direct /\ root \in Apps
  BY Inputs DEF Select, input, SelectInv, TypeOK, root
<1>2. ListsOK'
  <2>1. \A a \in Apps : deps'[a] = deps[a] \/ Relisted(kids, deps', a)
    BY SelectLists
  <2>2. \A a \in Apps : deps[a] = kids[a] \/ Relisted(kids, deps, a)
    BY DEF SelectInv, ListsOK
  <2>3. ASSUME NEW a \in Apps
        PROVE  deps'[a] = kids[a] \/ Relisted(kids, deps', a)
    BY <2>1, <2>2 DEF Relisted
  <2> QED
    BY <1>1, <2>3 DEF ListsOK
<1>3. NamesOK'
  <2>1. CASE arg.names \subseteq ToSet(kids[roots[1]])
    BY <1>1, <2>1 DEF NamesOK
  <2>2. CASE k = 1 /\ deps = kids
    BY <1>1, <2>2 DEF NamesOK, Direct, root
  <2> QED
    BY <1>1, <2>1, <2>2 DEF SelectInv, NamesOK
<1> QED
  BY <1>2, <1>3

\* Every step keeps the selection invariant.
LEMMA SelectInvStep == SelectInv /\ [Next]_vars => SelectInv'
<1> SUFFICES ASSUME SelectInv, [Next]_vars
             PROVE  SelectInv'
  OBVIOUS
<1>1. CASE UNCHANGED vars
  BY <1>1 DEF SelectInv, InputsOK, RootSet, TypeOK, ListsOK, NamesOK, vars, input, app
<1>2. CASE Next
  <2>1. InputsOK' /\ TypeOK'
    BY <1>2, TypeOKStep
  <2>2. CASE Select
    BY <2>1, <2>2, SelectSelects DEF SelectInv
  <2>3. CASE ~Select /\ ~Ended
    <3>1. /\ UNCHANGED <<kids, roots, arg, deps, ig>>
          /\ pc' = "exit" \/ (pc \notin {"select", "exit"} /\ pc' # "select")
      BY <1>2, <2>3 DEF Next, SelectFails, Root, Ignore, Again, Build, BuildFails, NoWork, Turn, Onward, NextRoot,
                        input, app
    <3> QED
      BY <2>1, <3>1, SelectionUnchanged DEF SelectInv
  <2>4. CASE Ended
    <3>1. /\ UNCHANGED <<kids, roots, arg, deps, ig>>
          /\ pc' = "exit" \/ (pc \notin {"select", "exit"} /\ pc' # "select")
      BY <2>4 DEF Ended, vars, input, app
    <3> QED
      BY <2>1, <3>1, SelectionUnchanged DEF SelectInv
  <2> QED
    BY <2>2, <2>3, <2>4
<1> QED
  BY <1>1, <1>2

\* The selection invariant holds always.
LEMMA SelectInvariance == Spec => []SelectInv
  BY SelectInvInit, SelectInvStep, PTL DEF Spec

\* The types of the state.
THEOREM TypeCorrect == Spec => []TypeOK
<1>1. SelectInv => TypeOK
  BY DEF SelectInv
<1> QED
  BY <1>1, SelectInvariance, PTL

\* Every step keeps the selection connected, when no level wraps.
LEMMA ConnectedStep ==
  ASSUME SelectInv, SelectionConnected, [Next]_vars, NEW L, NEW M, Small(L, M)
  PROVE  SelectionConnected'
<1>1. CASE Select
  <2>1. pc = "select" /\ UNCHANGED <<kids, roots, arg>> /\ RootSet' = RootSet
    BY <1>1 DEF Select, input, RootSet
  <2>2. \A a \in Apps \ {root} : ~ig'[a] <=> ~ig[a] \/ a \in Selected
    <3> HIDE DEF Selected
    <3> QED
      BY <1>1 DEF Select
  <2>3. root \in RootSet
    BY <2>1, SelectedFacts
  <2> SUFFICES ASSUME arg.level < 32768, NEW a \in Apps \ RootSet, ~ig'[a]
               PROVE  \E b \in Apps : a \in ToSet(kids[b]) /\ (b \in RootSet \/ ~ig'[b])
    BY <2>1 DEF SelectionConnected
  <2>4. CASE ~ig[a]
    <3>1. PICK b \in Apps : a \in ToSet(kids[b]) /\ (b \in RootSet \/ ~ig[b])
      BY <2>4 DEF SelectionConnected
    <3> QED
      BY <2>2, <2>3, <3>1
  <2>5. CASE a \in Selected
    <3>1. PICK b \in Apps : a \in ToSet(kids[b]) /\ b \in RootSet \cup Selected
      BY <2>1, <2>5, SelectedConnected
    <3> QED
      BY <2>2, <2>3, <3>1
  <2> QED
    BY <2>2, <2>3, <2>4, <2>5
<1>2. CASE ~Select
  <2>1. UNCHANGED <<kids, roots, arg, ig>>
    BY <1>2 DEF Next, SelectFails, Root, Ignore, Again, Build, BuildFails, NoWork, Ended, Turn, Onward, NextRoot,
                vars, input, app
  <2> QED
    BY <2>1 DEF SelectionConnected, RootSet
<1> QED
  BY <1>1, <1>2

\* No dependency is selected that no root or selected application has in its
\* list, for every level up to that of a bare -d and also when lists of
\* dep_libs take the place of those of the yaml, as long as the lists are short
\* and the levels few enough for a level not to wrap on its way down.
THEOREM SelectionSound ==
  ASSUME NEW L, NEW M, Small(L, M)
  PROVE  Spec => []SelectionConnected
<1>1. Init => SelectionConnected
  BY DEF Init, SelectionConnected
<1>2. SelectInv /\ SelectionConnected /\ [Next]_vars => SelectionConnected'
  BY ConnectedStep
<1> QED
  BY <1>1, <1>2, SelectInvariance, PTL DEF Spec

-----------------------------------------------------------------------------
(* The default level.                                                      *)

\* The roots whose dependencies are selected.
Chosen(j) == (pc = "select" /\ j < k) \/ pc \in {"root", "process", "done"}

DefaultLevel == arg.level = 32767 \/ (arg.plus /\ arg.names = {})

AllInv == DefaultLevel => \A j \in DOMAIN roots : Chosen(j) =>
            \A a \in Reach(kids, roots[j]) \ RootSet : ~ig[a]

\* A level that is high enough selects everything below an application: each
\* step down costs at most the length of a list.
LEMMA BelowAll ==
  ASSUME Increasing(deps), NEW L \in Nat, NEW M \in Nat,
         \A a \in Apps : a <= M /\ Len(deps[a]) <= L
  PROVE  \A a \in Apps, n \in Int16s : n >= L * (M - a) => Reach(deps, a) \subseteq Below(a, n)
<1> DEFINE T == {a \in Apps : \A n \in Int16s : n >= L * (M - a) => Reach(deps, a) \subseteq Below(a, n)}
<1>1. ASSUME NEW a \in Apps, \A b \in Apps : b > a => b \in T
      PROVE  a \in T
  <2> SUFFICES ASSUME NEW n \in Int16s, n >= L * (M - a), NEW y \in Reach(deps, a)
               PROVE  y \in Below(a, n)
    OBVIOUS
  <2>1. PICK z \in ToSet(deps[a]) : y = z \/ y \in Reach(deps, z)
    BY ReachDef
  <2>2. PICK i \in DOMAIN deps[a] : z = deps[a][i]
    BY DEF ToSet
  <2>3. i \in Nat /\ i <= L /\ z \in Apps /\ z > a
    BY <2>2 DEF Increasing
  <2> DEFINE p == L * (M - a)
             q == L * (M - z)
  <2>4. p \in Int /\ n \in Int /\ n >= Lowest(L, M, a)
    <3>1. p \in Int /\ n \in Int
      BY AppsAssumption, Int16sDef
    <3>2. n >= p
      OBVIOUS
    <3> HIDE DEF p
    <3>3. n >= p - 32768
      BY <3>1, <3>2
    <3> QED
      BY <3>1, <3>3 DEF p, Lowest
  <2>5. /\ Int16(n - i + 1) = n - i + 1 /\ Int16(n - i) = n - i /\ n - i \in Int16s
        /\ p >= q + L /\ q \in Nat
    BY <2>2, <2>4, NoWrap
  <2>6. n - i >= q /\ n - i + 1 > 0
    <3>1. n >= p
      OBVIOUS
    <3> HIDE DEF p, q
    <3> QED
      BY <2>3, <2>4, <2>5, <3>1
  <2>7. y \in Reach(deps, z) => y \in Below(z, n - i)
    BY <1>1, <2>3, <2>5, <2>6
  <2> QED
    BY <2>1, <2>2, <2>5, <2>6, <2>7, BelowDef
<1>2. Apps \subseteq T
  <2> HIDE DEF T
  <2> QED
    BY <1>1, Downwards
<1> QED
  BY <1>2

\* The default level selects everything below the root.
LEMMA SelectedAll ==
  ASSUME SelectInv, pc = "select", DefaultLevel, NEW L, NEW M, Small(L, M)
  PROVE  Reach(kids, root) \subseteq Selected
<1>1. root \in Apps /\ deps \in [Apps -> Seq(Apps)] /\ Increasing(deps)
      /\ \A a \in Apps : Reach(deps, a) = Reach(kids, a)
  BY Inputs, ListsFacts DEF SelectInv, TypeOK, root
<1>2. Level = 32767
  BY DEF DefaultLevel, Level
<1>3. Int16(Level) = 32767 /\ Level # 0
  BY <1>2, Int16Facts, Int16sDef
<1>4. L \in Nat /\ M \in Nat /\ L * M <= 32767 /\ \A a \in Apps : a <= M
  BY DEF Small
<1>5. \A a \in Apps : Len(deps[a]) <= L
  BY <1>1, ListsShort DEF SelectInv
<1>6. \A c \in Apps : 32767 >= L * (M - c)
  <2> SUFFICES ASSUME NEW c \in Apps
               PROVE  32767 >= L * (M - c)
    OBVIOUS
  <2>1. L * (M - c) = L * M - L * c /\ L * c >= 0 /\ L * c \in Int /\ L * M \in Int
    BY <1>4, AppsAssumption
  <2> QED
    BY <1>4, <2>1
<1>7. \A c \in Apps : Reach(deps, c) \subseteq Below(c, 32767)
  <2>1. \A a \in Apps, n \in Int16s : n >= L * (M - a) => Reach(deps, a) \subseteq Below(a, n)
    <3>1. L \in Nat /\ M \in Nat /\ Increasing(deps) /\ \A a \in Apps : a <= M /\ Len(deps[a]) <= L
      <4>1. ASSUME NEW a \in Apps
            PROVE  a <= M /\ Len(deps[a]) <= L
        BY <1>4, <1>5
      <4> QED
        BY <1>1, <1>4, <4>1
    <3> QED
      BY <3>1, BelowAll, Zenon
  <2>2. 32767 \in Int16s
    BY Int16sDef
  <2> QED
    BY <1>6, <2>1, <2>2
<1>8. Direct = ToSet(deps[root]) /\ Direct \subseteq Apps
  BY <1>1, InList DEF Direct
<1>9. Selected = Direct \cup UNION {Below(a, 32767) : a \in Direct}
  BY <1>3 DEF Selected
<1>10. Reach(deps, root) = UNION {{y} \cup Reach(deps, y) : y \in Direct}
  BY <1>1, <1>8, ReachDef
<1> HIDE DEF Selected, Direct
<1> QED
  BY <1>1, <1>7, <1>8, <1>9, <1>10

\* Every step keeps AllInv.
LEMMA AllInvStep ==
  ASSUME SelectInv, AllInv, [Next]_vars, NEW L, NEW M, Small(L, M)
  PROVE  AllInv'
<1> SUFFICES ASSUME DefaultLevel', NEW j \in DOMAIN roots', Chosen(j)',
                    NEW a \in Reach(kids', roots'[j]) \ RootSet'
             PROVE  ~ig'[a]
  BY DEF AllInv
<1>1. UNCHANGED <<kids, roots, arg>>
  BY DEF Next, Select, SelectFails, Root, Ignore, Again, Build, BuildFails, NoWork, Ended, vars, input
<1>2. DefaultLevel /\ j \in DOMAIN roots /\ a \in Reach(kids, roots[j]) /\ a \notin RootSet
  BY <1>1 DEF DefaultLevel, RootSet
<1>3. Chosen(j) => ~ig[a]
  BY <1>2 DEF AllInv
<1>4. a \in Apps /\ j \in Nat /\ k \in Nat /\ j <= Len(roots) /\ root \in RootSet
  <2>1. roots[j] \in Apps
    BY <1>2, Inputs DEF SelectInv
  <2> QED
    BY <1>2, <2>1, Inputs, ReachFacts DEF SelectInv, TypeOK, root
<1>5. CASE Select
  <2>1. a # root /\ (ig'[a] <=> ig[a] /\ a \notin Selected)
    <3> HIDE DEF Selected
    <3> QED
      BY <1>2, <1>4, <1>5 DEF Select
  <2>2. j < k \/ j = k
    <3>1. Len(roots) \in Nat
      BY Inputs DEF SelectInv
    <3>2. CASE k < Len(roots)
      BY <1>4, <1>5, <3>2 DEF Select, Chosen
    <3>3. CASE ~(k < Len(roots))
      <4>1. k = Len(roots)
        BY <1>4, <3>1, <3>3, Inputs DEF SelectInv, TypeOK
      <4> QED
        BY <1>4, <4>1
    <3> QED
      BY <3>2, <3>3
  <2>3. CASE j < k
    BY <1>3, <1>5, <2>1, <2>3 DEF Chosen, Select
  <2>4. CASE j = k
    BY <1>2, <1>5, <2>1, <2>4, SelectedAll DEF Select, root
  <2> QED
    BY <2>2, <2>3, <2>4
<1>6. CASE ~Select
  <2>1. ig' = ig /\ (Chosen(j)' => Chosen(j))
    BY <1>6 DEF Next, SelectFails, Root, Ignore, Again, Build, BuildFails, NoWork, Ended, Turn, Onward,
                NextRoot, vars, app, Chosen
  <2> QED
    BY <1>3, <2>1
<1> QED
  BY <1>5, <1>6

\* `-d` and `-d +` leave no dependency of a root out, as long as the lists are
\* short and the levels few enough for the level that stands for "all".
THEOREM AllSelected ==
  ASSUME NEW L, NEW M, Small(L, M)
  PROVE  Spec => []AllMeansAll
<1>1. Init => AllInv
  <2> SUFFICES ASSUME Init, NEW j \in DOMAIN roots
               PROVE  ~Chosen(j)
    BY DEF AllInv
  <2>1. j \in Nat /\ j >= 1
    BY SelectInvInit, Inputs DEF SelectInv
  <2> QED
    BY <2>1 DEF Init, Chosen
<1>2. SelectInv /\ AllInv /\ [Next]_vars => AllInv'
  BY AllInvStep
<1>3. SelectInv /\ AllInv => AllMeansAll
  <2> SUFFICES ASSUME SelectInv, AllInv, pc \in {"root", "process", "done"}, DefaultLevel,
                      NEW r \in RootSet, NEW a \in Reach(kids, r) \ RootSet
               PROVE  ~ig[a]
    BY DEF AllMeansAll, DefaultLevel
  <2>1. PICK j \in DOMAIN roots : r = roots[j]
    BY DEF RootSet, ToSet
  <2> QED
    BY <2>1 DEF AllInv, Chosen
<1> QED
  BY <1>1, <1>2, <1>3, SelectInvariance, PTL DEF Spec

-----------------------------------------------------------------------------
(* The build, when no root is a dependency of a root.                      *)

\* The roots that were processed.
Processed(j) == (pc \in {"root", "process"} /\ j < k) \/ pc = "done"

\* Nothing is left to do for a.
Handled(a) == ig[a] \/ a \in recorded \/ Wanted(a) = "none"

RootsListed == \A j \in DOMAIN roots : Chosen(j) => Relisted(kids, deps, roots[j])

OnlySelected == pc # "exit" => \A a \in Apps : ~ig[a] =>
  \E j \in DOMAIN roots : Chosen(j) /\ a \in {roots[j]} \cup Reach(kids, roots[j])

MainKept == \A a \in Apps : main_[a] <=> a \in mains

ArtifactsOK == pc # "exit" => \A a \in Apps :
  /\ artifact[a] = IF a \in recorded THEN Wanted(a) ELSE "none"
  /\ a \in recorded => Wanted(a) # "none"

RootsDone == \A j \in DOMAIN roots : Processed(j) =>
  \A a \in {roots[j]} \cup Reach(kids, roots[j]) : Handled(a)

\* What is left of the list of the root is in order, and what is gone from it
\* is done.
TodoOK == pc = "process" =>
  /\ ToSet(todo) \subseteq Reach(kids, root)
  /\ \A i, j \in DOMAIN todo : todo[j] \in Reach(kids, todo[i]) => j < i
  /\ \A a \in Reach(kids, root) \ ToSet(todo) : Handled(a)

BuildInv == /\ SelectInv
            /\ Independent /\ RootsListed /\ OnlySelected
            /\ MainKept /\ ArtifactsOK /\ RootsDone /\ TodoOK

\* No root is below a root.
LEMMA NoRootBelow ==
  ASSUME SelectInv, Independent
  PROVE  /\ \A r, q \in RootSet : r \notin Reach(kids, q)
         /\ root \in RootSet /\ root \in Apps /\ Reach(kids, root) \subseteq Apps
         /\ k \in Nat /\ 1 <= k /\ k <= Len(roots) /\ k \in DOMAIN roots /\ root = roots[k]
<1>1. \A r, q \in RootSet : r \notin Reach(kids, q)
  BY DEF Independent, RootSet, ToSet
<1>2. root \in RootSet /\ root \in Apps /\ Reach(kids, root) \subseteq Apps
  BY Inputs, ReachDef DEF SelectInv, TypeOK, root
<1>3. k \in Nat /\ 1 <= k /\ k <= Len(roots) /\ k \in DOMAIN roots /\ root = roots[k]
  BY Inputs DEF SelectInv, TypeOK, root
<1> QED
  BY <1>1, <1>2, <1>3

\* Select keeps the build invariant.
LEMMA BuildInvSelect ==
  ASSUME BuildInv, Select
  PROVE  RootsListed' /\ OnlySelected' /\ RootsDone' /\ TodoOK'
<1> USE DEF BuildInv
<1>1. /\ pc = "select" /\ UNCHANGED <<kids, roots, mains, sourced>>
      /\ \/ pc' = "select" /\ k' = k + 1 /\ k < Len(roots)
         \/ pc' = "root" /\ k' = 1 /\ ~(k < Len(roots))
  <2>1. pc = "select" /\ UNCHANGED <<kids, roots, mains, sourced>>
    BY DEF Select, input
  <2>2. CASE k < Len(roots)
    BY <2>1, <2>2 DEF Select
  <2>3. CASE ~(k < Len(roots))
    BY <2>1, <2>3 DEF Select
  <2> QED
    BY <2>1, <2>2, <2>3
<1>2. /\ k \in Nat /\ root \in Apps /\ root = roots[k] /\ k \in DOMAIN roots
      /\ \A j \in DOMAIN roots : j \in Nat /\ 1 <= j /\ j <= Len(roots)
                                 /\ roots[j] \in RootSet /\ roots[j] \in Apps
  <2>1. DOMAIN roots = 1..Len(roots) /\ Len(roots) \in Nat /\ RootSet \subseteq Apps
        /\ \A j \in DOMAIN roots : roots[j] \in RootSet
    BY Inputs DEF SelectInv
  <2> QED
    BY <2>1, NoRootBelow
<1>3. \A j \in DOMAIN roots : Chosen(j)' => Chosen(j) \/ j = k
  BY <1>1, <1>2, Inputs DEF Chosen, SelectInv
<1>4. \A j \in DOMAIN roots : (Chosen(j) \/ j = k) => Chosen(j)'
  BY <1>1, <1>2 DEF Chosen
<1>5. RootsListed'
  <2> SUFFICES ASSUME NEW j \in DOMAIN roots, Chosen(j)'
               PROVE  Relisted(kids, deps', roots[j])
    BY <1>1 DEF RootsListed
  <2>1. CASE roots[j] = root
    BY <2>1, SelectLists
  <2>2. CASE roots[j] # root
    <3>1. Relisted(kids, deps, roots[j])
      BY <1>2, <1>3, <2>2 DEF RootsListed
    <3>2. roots[j] \notin Reach(kids, root) /\ roots[j] \in Apps
      BY <1>2, NoRootBelow
    <3>3. deps'[roots[j]] = deps[roots[j]]
      BY <2>2, <3>2, SelectLists
    <3> QED
      BY <3>1, <3>3 DEF Relisted
  <2> QED
    BY <2>1, <2>2
<1>6. OnlySelected'
  <2> SUFFICES ASSUME NEW a \in Apps, ~ig'[a]
               PROVE  \E j \in DOMAIN roots : Chosen(j)' /\ a \in {roots[j]} \cup Reach(kids, roots[j])
    BY <1>1 DEF OnlySelected
  <2>1. a = root \/ ~ig[a] \/ a \in Selected
    <3> HIDE DEF Selected
    <3> QED
      BY DEF Select
  <2>2. CASE a \in {root} \cup Selected
    <3>1. PICK n \in DOMAIN roots : n = k
      BY <1>2
    <3>2. a \in {roots[n]} \cup Reach(kids, roots[n])
      BY <1>1, <1>2, <2>2, <3>1, SelectedFacts
    <3>3. Chosen(n)'
      BY <1>4, <3>1
    <3> QED
      BY <3>2, <3>3
  <2>3. CASE ~ig[a]
    <3>1. PICK j \in DOMAIN roots : Chosen(j) /\ a \in {roots[j]} \cup Reach(kids, roots[j])
      BY <1>1, <2>3 DEF OnlySelected
    <3> QED
      BY <1>4, <3>1
  <2> QED
    BY <2>1, <2>2, <2>3
<1>7. RootsDone'
  <2>1. \A j \in DOMAIN roots : ~Processed(j)'
    BY <1>1, <1>2 DEF Processed
  <2> QED
    BY <1>1, <2>1 DEF RootsDone
<1>8. TodoOK'
  BY <1>1 DEF TodoOK
<1> QED
  BY <1>5, <1>6, <1>7, <1>8

\* An action that changes neither lists nor selection, from one phase of the
\* processing to another.
LEMMA ListedUnchanged ==
  ASSUME BuildInv, UNCHANGED <<kids, roots, deps, ig>>,
         pc' = "exit" \/ (pc \in {"root", "process"} /\ pc' \in {"root", "process", "done"})
  PROVE  RootsListed' /\ OnlySelected'
<1>1. \A j \in DOMAIN roots : Chosen(j)' => Chosen(j)
  BY DEF Chosen
<1>2. RootsListed'
  BY <1>1 DEF BuildInv, RootsListed
<1>3. pc' # "exit" => \A j \in DOMAIN roots : Chosen(j)'
  BY DEF Chosen
<1>4. OnlySelected'
  BY <1>3 DEF BuildInv, OnlySelected
<1> QED
  BY <1>2, <1>4

\* Root keeps the build invariant: the reversed list is in order, leafs first.
LEMMA BuildInvRoot ==
  ASSUME BuildInv, Root
  PROVE  RootsListed' /\ OnlySelected' /\ RootsDone' /\ TodoOK'
<1> USE DEF BuildInv
<1>1. pc = "root" /\ pc' = "process" /\ UNCHANGED <<kids, roots, mains, sourced, deps, ig, recorded, k>>
      /\ todo' = Reverse(deps[root])
  BY DEF Root, input, app
<1>2. RootsListed' /\ OnlySelected'
  BY <1>1, ListedUnchanged
<1>3. \A a \in Apps : Handled(a)' <=> Handled(a)
  BY <1>1 DEF Handled, Wanted, RootSet
<1>4. RootsDone'
  <2> SUFFICES ASSUME NEW j \in DOMAIN roots, Processed(j)',
                      NEW a \in {roots[j]} \cup Reach(kids, roots[j])
               PROVE  Handled(a)'
    BY <1>1 DEF RootsDone
  <2>1. Processed(j)
    BY <1>1 DEF Processed
  <2>2. a \in Apps
    <3>1. roots[j] \in Apps /\ Increasing(kids)
      BY Inputs DEF SelectInv
    <3> QED
      BY <3>1, ReachDef
  <2> QED
    BY <1>3, <2>1, <2>2 DEF RootsDone
<1>5. TodoOK'
  <2> DEFINE s == deps[root]
  <2>1. Relisted(kids, deps, root) /\ root \in Apps
    BY <1>1, NoRootBelow DEF RootsListed, Chosen
  <2>2. s \in Seq(Apps) /\ ToSet(s) = Reach(kids, root)
        /\ \A i, j \in DOMAIN s : s[j] \in Reach(kids, s[i]) => i < j
    BY <2>1 DEF SelectInv, TypeOK, Relisted, InOrder
  <2> HIDE DEF s
  <2>3. DOMAIN s = 1..Len(s) /\ Len(s) \in Nat
    BY <2>2
  <2>4. todo' = [i \in 1..Len(s) |-> s[Len(s) - i + 1]]
    BY <1>1 DEF Reverse, s
  <2>5. DOMAIN todo' = 1..Len(s) /\ \A i \in 1..Len(s) : todo'[i] = s[Len(s) - i + 1]
    BY <2>4
  <2>6. \A i \in 1..Len(s) : Len(s) - i + 1 \in 1..Len(s)
    BY <2>3
  <2>7. ToSet(todo') = ToSet(s)
    <3>1. ToSet(todo') \subseteq ToSet(s)
      BY <2>3, <2>5, <2>6 DEF ToSet
    <3>2. ASSUME NEW i \in 1..Len(s)
          PROVE  s[i] \in ToSet(todo')
      <4>1. Len(s) - (Len(s) - i + 1) + 1 = i
        BY <2>3
      <4> QED
        BY <2>5, <2>6, <4>1 DEF ToSet
    <3> QED
      BY <2>3, <3>1, <3>2 DEF ToSet
  <2>8. ASSUME NEW i \in 1..Len(s), NEW j \in 1..Len(s), todo'[j] \in Reach(kids, todo'[i])
        PROVE  j < i
    <3>1. Len(s) - i + 1 < Len(s) - j + 1
      BY <2>2, <2>3, <2>5, <2>6, <2>8
    <3> QED
      BY <2>3, <3>1
  <2>9. root' = root
    BY <1>1 DEF root
  <2> QED
    BY <1>1, <2>2, <2>5, <2>7, <2>8, <2>9 DEF TodoOK
<1> QED
  BY <1>2, <1>4, <1>5

\* The application that process() turns to is the head of what is left, a
\* dependency and no root, or else the root.
LEMMA TurnFacts ==
  ASSUME BuildInv, pc = "process", NEW a, IF todo # <<>> THEN a = Head(todo) ELSE a = root
  PROVE  /\ a \in Apps /\ (MainOf(a) <=> a \in mains)
         /\ Wanted(a) = IF MainOf(a) THEN "exe" ELSE IF a \in sourced THEN "lib" ELSE "none"
         /\ Reach(kids, a) \subseteq Reach(kids, root)
         /\ todo # <<>> => a \in Reach(kids, root) /\ a \notin RootSet
         /\ \A d \in Reach(kids, a) : d \notin RootSet /\ Handled(d)
<1> USE DEF BuildInv
<1>1. mains \subseteq RootSet /\ Increasing(kids) /\ todo \in Seq(Apps)
  BY Inputs DEF SelectInv, InputsOK, TypeOK
<1>2. CASE todo = <<>>
  <2>1. a = root /\ a \in Apps /\ Reach(kids, a) \subseteq Apps
    BY <1>2, NoRootBelow
  <2>2. MainOf(a) <=> a \in mains
    BY <1>2, <2>1 DEF MainOf, MainKept
  <2>3. ToSet(todo) = {}
    BY <1>2 DEF ToSet
  <2>4. \A d \in Reach(kids, a) : d \notin RootSet /\ Handled(d)
    BY <2>1, <2>3, NoRootBelow DEF TodoOK
  <2> QED
    BY <1>1, <1>2, <2>1, <2>2, <2>4 DEF Wanted
<1>3. CASE todo # <<>>
  <2>1. a = todo[1] /\ 1 \in DOMAIN todo /\ a \in Apps
    BY <1>1, <1>3
  <2>2. a \in ToSet(todo) /\ a \in Reach(kids, root)
    BY <2>1 DEF ToSet, TodoOK
  <2>3. a \notin RootSet /\ Reach(kids, a) \subseteq Reach(kids, root)
    BY <1>1, <2>2, NoRootBelow, ReachFacts
  <2>4. ~MainOf(a) /\ a \notin mains
    BY <1>1, <1>3, <2>3 DEF MainOf
  <2>5. ASSUME NEW d \in Reach(kids, a)
        PROVE  d \notin RootSet /\ Handled(d)
    <3>1. d \in Reach(kids, root) /\ d \notin RootSet
      BY <2>3, NoRootBelow
    <3>2. d \notin ToSet(todo)
      <4> SUFFICES ASSUME NEW j \in DOMAIN todo, d = todo[j]
                   PROVE  FALSE
        BY DEF ToSet
      <4>1. j \in Nat /\ j >= 1
        BY <1>1
      <4>2. j < 1
        BY <2>1 DEF TodoOK
      <4> QED
        BY <4>1, <4>2
    <3> QED
      BY <3>1, <3>2 DEF TodoOK
  <2> QED
    BY <1>3, <2>1, <2>2, <2>3, <2>4, <2>5 DEF Wanted
<1> QED
  BY <1>2, <1>3

\* process() goes on after a, when nothing is left to do for it.
LEMMA OnwardStep ==
  ASSUME BuildInv, pc = "process", NEW a, IF todo # <<>> THEN a = Head(todo) ELSE a = root,
         Onward, UNCHANGED <<input, deps, ig>>, Handled(a)',
         \A x \in Apps : Handled(x) => Handled(x)'
  PROVE  RootsListed' /\ OnlySelected' /\ RootsDone' /\ TodoOK'
<1> USE DEF BuildInv
<1>1. UNCHANGED <<kids, roots, deps, ig>>
  BY DEF input
<1>2. /\ pc' = "process" /\ k' = k /\ todo' = Tail(todo) /\ todo # <<>>
      \/ /\ todo = <<>> /\ k < Len(roots) /\ pc' = "root" /\ k' = k + 1
      \/ /\ todo = <<>> /\ ~(k < Len(roots)) /\ pc' = "done"
  BY DEF Onward, NextRoot
<1>3. RootsListed' /\ OnlySelected'
  BY <1>1, <1>2, ListedUnchanged
<1>4. \A j \in DOMAIN roots : j \in Nat /\ j <= Len(roots) /\ Reach(kids, roots[j]) \subseteq Apps /\ roots[j] \in Apps
  <2>1. \A j \in DOMAIN roots : j \in Nat /\ j <= Len(roots) /\ roots[j] \in Apps
    BY Inputs DEF SelectInv
  <2> QED
    BY <2>1, Inputs, ReachDef DEF SelectInv
<1>5. RootsDone'
  <2> SUFFICES ASSUME NEW j \in DOMAIN roots, Processed(j)', NEW x \in {roots[j]} \cup Reach(kids, roots[j])
               PROVE  Handled(x)'
    BY <1>1 DEF RootsDone
  <2>1. Processed(j) \/ (todo = <<>> /\ j = k)
    <3>1. k \in Nat /\ Len(roots) \in Nat /\ j \in Nat /\ j <= Len(roots) /\ k <= Len(roots)
      BY <1>4, NoRootBelow, Inputs DEF SelectInv
    <3> QED
      BY <1>2, <3>1 DEF Processed
  <2>2. CASE Processed(j)
    BY <1>4, <2>2 DEF RootsDone
  <2>3. CASE todo = <<>> /\ j = k
    <3>1. a = roots[j] /\ \A d \in Reach(kids, a) : Handled(d)
      BY <2>3, TurnFacts DEF root
    <3> QED
      BY <1>4, <3>1
  <2> QED
    BY <2>1, <2>2, <2>3
<1>6. TodoOK'
  <2> SUFFICES ASSUME pc' = "process"
               PROVE  /\ ToSet(todo') \subseteq Reach(kids, root)
                      /\ \A i, j \in DOMAIN todo' : todo'[j] \in Reach(kids, todo'[i]) => j < i
                      /\ \A x \in Reach(kids, root) \ ToSet(todo') : Handled(x)'
    BY <1>1, <1>2 DEF TodoOK, root
  <2>1. /\ todo' = Tail(todo) /\ todo # <<>> /\ todo \in Seq(Apps)
        /\ ToSet(todo) \subseteq Reach(kids, root)
        /\ \A i, j \in DOMAIN todo : todo[j] \in Reach(kids, todo[i]) => j < i
        /\ \A x \in Reach(kids, root) \ ToSet(todo) : Handled(x)
    BY <1>2 DEF TodoOK, SelectInv, TypeOK
  <2>2. /\ DOMAIN todo' = 1..(Len(todo) - 1) /\ DOMAIN todo = 1..Len(todo) /\ Len(todo) \in Nat
        /\ \A i \in 1..(Len(todo) - 1) : todo'[i] = todo[i + 1]
    BY <2>1
  <2>3. \A i \in 1..(Len(todo) - 1) : i + 1 \in 1..Len(todo)
    BY <2>2
  <2>4. ToSet(todo') \subseteq ToSet(todo)
    BY <2>2, <2>3 DEF ToSet
  <2>5. ASSUME NEW i \in DOMAIN todo', NEW j \in DOMAIN todo', todo'[j] \in Reach(kids, todo'[i])
        PROVE  j < i
    <3>1. j + 1 < i + 1
      BY <2>1, <2>2, <2>3, <2>5
    <3> QED
      BY <2>2, <3>1
  <2>6. ASSUME NEW x \in Reach(kids, root), x \notin ToSet(todo'), x \in ToSet(todo)
        PROVE  x = a
    <3>1. PICK i \in DOMAIN todo : x = todo[i]
      BY <2>6 DEF ToSet
    <3>2. i = 1
      <4> SUFFICES ASSUME i # 1
                   PROVE  FALSE
        OBVIOUS
      <4>1. i - 1 \in 1..(Len(todo) - 1) /\ (i - 1) + 1 = i
        BY <2>2
      <4>2. todo'[i - 1] = x
        BY <2>2, <3>1, <4>1
      <4> QED
        BY <2>2, <2>6, <4>1, <4>2 DEF ToSet
    <3> QED
      BY <2>1, <3>1, <3>2
  <2> QED
    BY <2>1, <2>4, <2>5, <2>6, NoRootBelow
<1> QED
  BY <1>3, <1>5, <1>6

\* A dependency's main file is forgotten, which it never has here.
LEMMA ForgetStep ==
  ASSUME BuildInv, pc = "process", NEW a, IF todo # <<>> THEN a = Head(todo) ELSE a = root,
         Forget(a), UNCHANGED input
  PROVE  MainKept'
<1>1. a \in Apps /\ (MainOf(a) <=> a \in mains)
  BY TurnFacts
<1>2. main_ \in [Apps -> BOOLEAN] /\ \A x \in Apps : main_[x] <=> x \in mains
  BY DEF BuildInv, SelectInv, TypeOK, MainKept
<1> HIDE DEF MainOf
<1>3. \A x \in Apps : main_'[x] <=> x \in mains
  BY <1>1, <1>2 DEF Forget
<1> QED
  BY <1>3 DEF MainKept, input

\* What process() does with one application, by the outcome.
LEMMA ProcessStep ==
  ASSUME BuildInv, NEW a \in Apps, Again(a) \/ Build(a) \/ NoWork(a)
  PROVE  RootsListed' /\ OnlySelected' /\ RootsDone' /\ TodoOK' /\ MainKept' /\ ArtifactsOK'
<1> USE DEF BuildInv
<1>1. /\ pc = "process" /\ IF todo # <<>> THEN a = Head(todo) ELSE a = root
      /\ Forget(a) /\ Onward /\ UNCHANGED <<input, deps, ig>>
  BY DEF Again, Build, NoWork, Turn
<1>2. MainKept'
  BY <1>1, ForgetStep
<1>3. /\ \A x \in Apps : Wanted(x)' = Wanted(x)
      /\ Wanted(a) = IF MainOf(a) THEN "exe" ELSE IF a \in sourced THEN "lib" ELSE "none"
      /\ pc' # "exit"
  BY <1>1, TurnFacts DEF Wanted, RootSet, input, Onward, NextRoot
<1>4. /\ artifact \in [Apps -> {"none", "lib", "exe"}]
      /\ \A x \in Apps : /\ artifact[x] = IF x \in recorded THEN Wanted(x) ELSE "none"
                         /\ x \in recorded => Wanted(x) # "none"
  BY <1>1 DEF ArtifactsOK, SelectInv, TypeOK
<1> HIDE DEF MainOf, Wanted
<1>5. CASE Again(a)
  <2>1. a \in recorded /\ UNCHANGED <<artifact, recorded>>
    BY <1>5 DEF Again
  <2>2. ArtifactsOK'
    BY <1>3, <1>4, <2>1 DEF ArtifactsOK
  <2>3. Handled(a)' /\ \A x \in Apps : Handled(x) => Handled(x)'
    BY <1>1, <1>3, <2>1 DEF Handled
  <2> QED
    BY <1>1, <1>2, <2>2, <2>3, OnwardStep
<1>6. CASE Build(a)
  <2>1. /\ recorded' = recorded \cup {a}
        /\ artifact' = [artifact EXCEPT ![a] = Wanted(a)]
        /\ Wanted(a) # "none"
    BY <1>3, <1>6 DEF Build, Work
  <2>2. ArtifactsOK'
    BY <1>3, <1>4, <2>1 DEF ArtifactsOK
  <2>3. Handled(a)' /\ \A x \in Apps : Handled(x) => Handled(x)'
    BY <1>1, <1>3, <2>1 DEF Handled
  <2> QED
    BY <1>1, <1>2, <2>2, <2>3, OnwardStep
<1>7. CASE NoWork(a)
  <2>1. /\ recorded' = recorded /\ Wanted(a) = "none"
        /\ artifact' = artifact \/ artifact' = [artifact EXCEPT ![a] = "none"]
    BY <1>3, <1>7 DEF NoWork, Work
  <2>2. ArtifactsOK'
    BY <1>3, <1>4, <2>1 DEF ArtifactsOK
  <2>3. Handled(a)' /\ \A x \in Apps : Handled(x) => Handled(x)'
    BY <1>1, <1>3, <2>1 DEF Handled
  <2> QED
    BY <1>1, <1>2, <2>2, <2>3, OnwardStep
<1> QED
  BY <1>5, <1>6, <1>7

\* Every step keeps the build invariant.
LEMMA BuildInvStep == BuildInv /\ [Next]_vars => BuildInv'
<1> SUFFICES ASSUME BuildInv, [Next]_vars
             PROVE  BuildInv'
  OBVIOUS
<1>1. SelectInv'
  BY SelectInvStep DEF BuildInv
<1>2. UNCHANGED input
  BY DEF Next, Select, SelectFails, Root, Ignore, Again, Build, BuildFails, NoWork, Ended, vars
<1>3. Independent'
  BY <1>2 DEF BuildInv, Independent, input
<1>4. UNCHANGED artifact /\ UNCHANGED recorded /\ (pc = "exit" => pc' = "exit") => ArtifactsOK'
  BY <1>2 DEF BuildInv, ArtifactsOK, Wanted, RootSet, input
<1>5. UNCHANGED main_ => MainKept'
  BY <1>2 DEF BuildInv, MainKept, input
<1>6. CASE Select
  BY <1>1, <1>3, <1>4, <1>5, <1>6, BuildInvSelect DEF Select, BuildInv
<1>7. CASE Root
  BY <1>1, <1>3, <1>4, <1>5, <1>7, BuildInvRoot DEF Root, BuildInv, app
<1>8. CASE SelectFails
  <2>1. pc' = "exit" /\ UNCHANGED <<app, k, todo>>
    BY <1>8 DEF SelectFails
  <2>2. RootsListed' /\ OnlySelected'
    BY <1>2, <2>1, ListedUnchanged DEF input, app
  <2> QED
    BY <1>1, <1>3, <1>4, <1>5, <2>1, <2>2 DEF BuildInv, RootsDone, Processed, TodoOK, ArtifactsOK, app
<1>9. ASSUME NEW a \in Apps, BuildFails(a)
      PROVE  BuildInv'
  <2>1. /\ pc = "process" /\ IF todo # <<>> THEN a = Head(todo) ELSE a = root
        /\ Forget(a) /\ UNCHANGED <<input, deps, ig>> /\ pc' = "exit"
    BY <1>9 DEF BuildFails, Turn
  <2>2. RootsListed' /\ OnlySelected'
    BY <2>1, ListedUnchanged DEF input
  <2>3. MainKept'
    BY <2>1, ForgetStep
  <2> QED
    BY <1>1, <1>3, <2>1, <2>2, <2>3 DEF BuildInv, RootsDone, Processed, TodoOK, ArtifactsOK
<1>10. CASE Ignore
  <2> DEFINE a == IF todo # <<>> THEN Head(todo) ELSE root
  <2>1. /\ pc = "process" /\ IF todo # <<>> THEN a = Head(todo) ELSE a = root
        /\ Onward /\ UNCHANGED <<input, deps, ig, recorded, main_, artifact>> /\ ig[a]
    BY <1>10 DEF Ignore, app
  <2>2. \A x : Handled(x) => Handled(x)'
    BY <2>1 DEF Handled, Wanted, RootSet, input
  <2>3. PICK b : b = a
    OBVIOUS
  <2>4. Handled(b)'
    BY <2>1, <2>3 DEF Handled
  <2> HIDE DEF a
  <2>5. RootsListed' /\ OnlySelected' /\ RootsDone' /\ TodoOK'
    BY <2>1, <2>2, <2>3, <2>4, OnwardStep
  <2> QED
    BY <1>1, <1>3, <1>4, <1>5, <2>1, <2>5 DEF BuildInv
<1>11. ASSUME NEW a \in Apps, Again(a) \/ Build(a) \/ NoWork(a)
       PROVE  BuildInv'
  BY <1>1, <1>3, <1>11, ProcessStep DEF BuildInv
<1>12. CASE UNCHANGED vars
  BY <1>1, <1>3, <1>4, <1>5, <1>12 DEF BuildInv, vars, input, app, RootsListed, OnlySelected, RootsDone, TodoOK,
       Chosen, Processed, Handled, Wanted, RootSet, root
<1> QED
  BY <1>6, <1>7, <1>8, <1>9, <1>10, <1>11, <1>12 DEF Next, Ended

\* The build invariant holds at first.
LEMMA BuildInvInit ==
  ASSUME SelfDeps = FALSE
  PROVE  Init => BuildInv
<1> SUFFICES ASSUME Init
             PROVE  BuildInv
  OBVIOUS
<1>1. SelectInv /\ Independent
  BY SelectInvInit DEF Init
<1>2. \A j \in DOMAIN roots : ~Chosen(j) /\ ~Processed(j)
  <2>1. \A j \in DOMAIN roots : j \in Nat /\ j >= 1
    BY <1>1, Inputs DEF SelectInv
  <2> QED
    BY <2>1 DEF Init, Chosen, Processed
<1> QED
  BY <1>1, <1>2 DEF Init, BuildInv, RootsListed, OnlySelected, MainKept, ArtifactsOK, RootsDone, TodoOK

\* Where no root is a dependency of a root, a run that ends well leaves the
\* executable or library of each selected root and the library of each selected
\* dependency.
THEOREM EverythingBuilt ==
  ASSUME SelfDeps = FALSE
  PROVE  Spec => []AllBuilt
<1>1. BuildInv => AllBuilt
  <2> SUFFICES ASSUME BuildInv, pc = "done", NEW a \in Apps, ~ig[a]
               PROVE  artifact[a] = Wanted(a)
    BY DEF AllBuilt
  <2>1. PICK j \in DOMAIN roots : a \in {roots[j]} \cup Reach(kids, roots[j])
    BY DEF BuildInv, OnlySelected
  <2>2. Handled(a)
    BY <2>1 DEF BuildInv, RootsDone, Processed
  <2> QED
    BY <2>2 DEF Handled, BuildInv, ArtifactsOK
<1> QED
  BY <1>1, BuildInvInit, BuildInvStep, PTL DEF Spec

\* And an application is linked only after the libraries of the selected
\* dependencies below it, at any depth.
THEOREM DependenciesFirst ==
  ASSUME SelfDeps = FALSE
  PROVE  Spec => DepsFirst
<1> DEFINE LinkedAfter == \A a \in Apps : artifact'[a] # artifact[a] /\ artifact'[a] # "none" =>
                            \A d \in Reach(kids, a) \cap sourced : ~ig[d] => artifact[d] = "lib"
<1>1. BuildInv /\ [Next]_vars => LinkedAfter
  <2> SUFFICES ASSUME BuildInv, [Next]_vars, NEW a \in Apps, artifact'[a] # artifact[a],
                      artifact'[a] # "none", NEW d \in Reach(kids, a) \cap sourced, ~ig[d]
               PROVE  artifact[d] = "lib"
    OBVIOUS
  <2>1. Build(a)
    <3>1. artifact \in [Apps -> {"none", "lib", "exe"}]
      BY DEF BuildInv, SelectInv, TypeOK
    <3>2. PICK b \in Apps : Build(b) \/ NoWork(b)
      BY DEF Next, Select, SelectFails, Root, Ignore, Again, BuildFails, Ended, vars, app
    <3>3. ~NoWork(b)
      BY <3>1 DEF NoWork
    <3>4. b = a
      BY <3>1, <3>2, <3>3 DEF Build
    <3> QED
      BY <3>2, <3>3, <3>4
  <2>2. pc = "process" /\ IF todo # <<>> THEN a = Head(todo) ELSE a = root
    BY <2>1 DEF Build, Turn
  <2>3. d \notin RootSet /\ Handled(d)
    BY <2>2, TurnFacts
  <2>4. d \in Apps /\ Wanted(d) = "lib"
    BY <2>3 DEF Wanted, BuildInv, SelectInv, InputsOK
  <2> QED
    BY <2>2, <2>3, <2>4 DEF Handled, BuildInv, ArtifactsOK
<1> QED
  BY <1>1, BuildInvInit, BuildInvStep, PTL DEF Spec, DepsFirst
=============================================================================
