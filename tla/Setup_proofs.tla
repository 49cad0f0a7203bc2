---------------------------- MODULE Setup_proofs ----------------------------
(***************************************************************************)
(* Proofs about Setup, for any yaml files of any finite projects: the      *)
(* types (TypeCorrect); no check against loops fires without one           *)
(* (NoFalseCycle); properties are inherited from all supers                *)
(* (SupersInherited); applications are set up once (OneSetUp); public      *)
(* include directories are complete (IncludesWhole); and loops of          *)
(* dependencies are not set up (LoopsStop).                                *)
(*                                                                         *)
(* Closure, Lineage and the lists come first, then what each action does   *)
(* in terms of frames (StepDoes).  The layers of the invariant: types      *)
(* (Typed); everything follows edges of the yaml files (Edges); the stack  *)
(* is a path (Placed) and nothing created is forgotten (Remembered); the   *)
(* directories of what is done with (Incs).  For loops: where the par      *)
(* links lead (Links), so that a loop always has someone who is still to   *)
(* look up his chain (Noticed).                                            *)
(***************************************************************************)
EXTENDS Setup, Induction, SequenceTheorems

-----------------------------------------------------------------------------
(* Graphs of applications.                                                 *)

Graph == [Apps -> SUBSET Apps]

\* There are finitely many applications.
LEMMA AppsFinite == IsFiniteSet(Apps) /\ Cardinality(Apps) \in Nat
<1>1. IsFiniteSet(Profiles) /\ IsFiniteSet(Projects)
  BY ProjectsAssumption, ProfilesAssumption
<1>2. IsFiniteSet(Projects \X Profiles)
  BY <1>1, FS_Product
<1> QED
  BY <1>2, FS_CardinalityType DEF Apps

\* The recursion of Closure has a solution.
LEMMA ClosureExists ==
  ASSUME NEW E \in Graph
  PROVE  \E C \in [SUBSET Apps -> SUBSET Apps] :
           C = [S \in SUBSET Apps |->
                  LET T == S \cup UNION {E[b] : b \in S} IN IF T = S THEN S ELSE C[T]]
<1> DEFINE N == Cardinality(Apps)
           V == SUBSET Apps
           rank == [S \in V |-> N - Cardinality(S)]
           Up(S) == S \cup UNION {E[b] : b \in S}
           H == [S \in V |-> [g \in [V -> V] |-> IF Up(S) = S THEN S ELSE g[Up(S)]]]
<1>1. \A S \in V : Up(S) \in V
  BY DEF Graph
<1>2. rank \in [V -> 0..N]
  BY AppsFinite, FS_Subset, FS_CardinalityType
<1>3. \A S \in V : Up(S) # S => rank[Up(S)] < rank[S]
  <2> SUFFICES ASSUME NEW S \in V, Up(S) # S
               PROVE  rank[Up(S)] < rank[S]
    OBVIOUS
  <2>1. S \in SUBSET Up(S) /\ Up(S) \in SUBSET Apps
    BY <1>1
  <2> HIDE DEF Up
  <2>2. IsFiniteSet(Up(S))
    BY <2>1, AppsFinite, FS_Subset
  <2>3. Cardinality(S) <= Cardinality(Up(S)) /\ Cardinality(S) # Cardinality(Up(S))
    BY <2>1, <2>2, FS_Subset
  <2>4. Cardinality(S) \in Nat /\ Cardinality(Up(S)) \in Nat
    BY <2>1, <2>2, FS_Subset, FS_CardinalityType
  <2> QED
    BY <2>1, <2>3, <2>4, AppsFinite
<1>4. H \in [V -> [[V -> V] -> V]]
  <2> HIDE DEF Up
  <2> QED
    BY <1>1
<1>5. ASSUME NEW S \in V, NEW g \in [V -> V], NEW h \in [V -> V],
             \A T \in V : rank[T] < rank[S] => g[T] = h[T]
      PROVE  H[S][g] = H[S][h]
  <2> HIDE DEF Up, rank
  <2>1. Up(S) # S => g[Up(S)] = h[Up(S)]
    BY <1>1, <1>3, <1>5
  <2> QED
    BY <2>1
<1>6. Ranked(V, V, N, rank, H)
  <2>1. V # {}
    OBVIOUS
  <2> HIDE DEF H, rank, V
  <2> QED
    BY <1>2, <1>4, <1>5, <2>1, AppsFinite DEF Ranked
<1>7. \E f \in [V -> V] : f = [S \in V |-> H[S][f]]
  <2> HIDE DEF V, H, rank
  <2> QED
    BY <1>6, RankedRecursion
<1> QED
  BY <1>7

\* What an induction over sets of applications, largest first, needs.
LEMMA Upwards ==
  ASSUME NEW T, \A S \in SUBSET Apps : (\A R \in SUBSET Apps : S \subseteq R /\ S # R => R \in T) => S \in T
  PROVE  SUBSET Apps \subseteq T
<1> DEFINE N == Cardinality(Apps)
           rank == [S \in SUBSET Apps |-> N - Cardinality(S)]
<1>1. \A S \in SUBSET Apps : rank[S] \in Nat
  BY AppsFinite, FS_Subset, FS_CardinalityType
<1>2. ASSUME NEW S \in SUBSET Apps, NEW R \in SUBSET Apps, S \subseteq R, S # R
      PROVE  rank[R] < rank[S]
  <2>1. IsFiniteSet(R) /\ IsFiniteSet(S)
    BY AppsFinite, FS_Subset
  <2>2. Cardinality(S) <= Cardinality(R) /\ Cardinality(S) # Cardinality(R)
    BY <1>2, <2>1, FS_Subset
  <2>3. Cardinality(S) \in Nat /\ Cardinality(R) \in Nat
    BY <2>1, FS_CardinalityType
  <2> QED
    BY <2>2, <2>3, AppsFinite
<1>3. ASSUME NEW S \in SUBSET Apps, \A R \in SUBSET Apps : rank[R] < rank[S] => R \in T
      PROVE  S \in T
  <2> HIDE DEF rank
  <2> QED
    BY <1>2, <1>3
<1> DEFINE V == SUBSET Apps
<1>4. \A S \in V : (\A R \in V : rank[R] < rank[S] => R \in T) => S \in T
  BY <1>3
<1>5. \A S \in V : rank[S] \in Nat
  BY <1>1
<1>6. V \subseteq T
  <2> HIDE DEF rank, V
  <2> QED
    BY <1>4, <1>5, RankInduction
<1> QED
  BY <1>6

\* Closure is what its recursion says.
LEMMA ClosureDef ==
  ASSUME NEW E \in Graph, NEW A \in SUBSET Apps
  PROVE  /\ Closure(E, A) \in SUBSET Apps
         /\ Closure(E, A) = LET T == A \cup UNION {E[b] : b \in A} IN
                            IF T = A THEN A ELSE Closure(E, T)
<1> DEFINE C[S \in SUBSET Apps] ==
             LET T == S \cup UNION {E[b] : b \in S} IN IF T = S THEN S ELSE C[T]
           Up(S) == S \cup UNION {E[b] : b \in S}
<1>1. C = [S \in SUBSET Apps |-> LET T == S \cup UNION {E[b] : b \in S} IN IF T = S THEN S ELSE C[T]]
  <2>1. \E f \in [SUBSET Apps -> SUBSET Apps] :
          f = [S \in SUBSET Apps |-> LET T == S \cup UNION {E[b] : b \in S} IN IF T = S THEN S ELSE f[T]]
    BY ClosureExists
  <2> QED
    BY <2>1, ZenonT(30)
<1>2. \A S : Closure(E, S) = C[S]
  BY DEF Closure
<1> HIDE DEF C
<1>3. \A S \in SUBSET Apps : Up(S) \in SUBSET Apps /\ C[S] = IF Up(S) = S THEN S ELSE C[Up(S)]
  BY <1>1 DEF Graph
<1> DEFINE T == {S \in SUBSET Apps : C[S] \in SUBSET Apps}
<1>4. ASSUME NEW S \in SUBSET Apps, \A R \in SUBSET Apps : S \subseteq R /\ S # R => R \in T
      PROVE  S \in T
  <2>1. Up(S) # S => Up(S) \in T
    BY <1>3, <1>4
  <2> HIDE DEF Up
  <2> QED
    BY <1>3, <2>1
<1>5. A \in T
  <2> HIDE DEF T
  <2> QED
    BY <1>4, Upwards
<1> QED
  BY <1>2, <1>3, <1>5

\* It is the least set with A that the edges do not leave.
Closed(E, S) == \A b \in S : E[b] \subseteq S

\* So it has what it starts from, is closed, and is in every closed set that has
\* it.
LEMMA ClosureFacts ==
  ASSUME NEW E \in Graph, NEW A \in SUBSET Apps
  PROVE  /\ Closure(E, A) \in SUBSET Apps
         /\ A \subseteq Closure(E, A)
         /\ Closed(E, Closure(E, A))
         /\ \A Z : A \subseteq Z /\ Closed(E, Z) => Closure(E, A) \subseteq Z
<1> DEFINE Up(S) == S \cup UNION {E[b] : b \in S}
           C(S) == Closure(E, S)
           Fine(S) == /\ S \subseteq C(S)
                      /\ Closed(E, C(S))
                      /\ \A Z : S \subseteq Z /\ Closed(E, Z) => C(S) \subseteq Z
           T == {S \in SUBSET Apps : Fine(S)}
<1>1. \A S \in SUBSET Apps : Up(S) \in SUBSET Apps /\ C(S) = IF Up(S) = S THEN S ELSE C(Up(S))
  <2>1. \A S \in SUBSET Apps : C(S) = LET W == S \cup UNION {E[b] : b \in S} IN IF W = S THEN S ELSE Closure(E, W)
    BY ClosureDef
  <2> QED
    BY <2>1 DEF Graph
<1>2. ASSUME NEW S \in SUBSET Apps, \A R \in SUBSET Apps : S \subseteq R /\ S # R => R \in T
      PROVE  Fine(S)
  <2>1. CASE Up(S) = S
    <3>1. C(S) = S
      BY <1>1, <2>1
    <3>2. Closed(E, S)
      BY <2>1 DEF Closed
    <3> HIDE DEF C
    <3> QED
      BY <3>1, <3>2
  <2>2. CASE Up(S) # S
    <3>1. Up(S) \in T /\ C(S) = C(Up(S))
      BY <1>1, <1>2, <2>2
    <3>2. Fine(Up(S))
      BY <3>1
    <3>3. \A Z : S \subseteq Z /\ Closed(E, Z) => Up(S) \subseteq Z
      BY DEF Closed
    <3>4. S \subseteq Up(S)
      OBVIOUS
    <3> HIDE DEF C, Up
    <3> QED
      BY <3>1, <3>2, <3>3, <3>4
  <2> QED
    BY <2>1, <2>2
<1>3. A \in T
  <2>1. \A S \in SUBSET Apps : (\A R \in SUBSET Apps : S \subseteq R /\ S # R => R \in T) => S \in T
    BY <1>2
  <2> HIDE DEF T
  <2> QED
    BY <2>1, Upwards
<1>4. Closure(E, A) \in SUBSET Apps
  BY ClosureDef
<1> QED
  BY <1>3, <1>4

\* What leads somewhere.
LEMMA Leads ==
  ASSUME NEW E \in Graph, NEW a \in Apps
  PROVE  /\ Closure(E, {a}) \in SUBSET Apps
         /\ a \in Closure(E, {a})
         /\ E[a] \subseteq Apps
         /\ E[a] \subseteq Closure(E, {a})
         /\ \A b \in Closure(E, {a}) : b \in Apps /\ E[b] \subseteq Closure(E, {a})
         /\ \A b \in Closure(E, {a}) : Closure(E, {b}) \subseteq Closure(E, {a})
         /\ Closure(E, {a}) = {a} \cup Below(E, a)
         /\ Below(E, a) = UNION {Closure(E, {b}) : b \in E[a]}
<1>1. E[a] \in SUBSET Apps /\ {a} \in SUBSET Apps
  BY DEF Graph
<1>2. /\ Closure(E, {a}) \in SUBSET Apps
      /\ {a} \subseteq Closure(E, {a})
      /\ Closed(E, Closure(E, {a}))
  BY <1>1, ClosureFacts
<1>3. ASSUME NEW b \in Closure(E, {a})
      PROVE  Closure(E, {b}) \subseteq Closure(E, {a})
  <2>1. {b} \in SUBSET Apps /\ {b} \subseteq Closure(E, {a})
    BY <1>2
  <2> QED
    BY <1>2, <2>1, ClosureFacts
<1>4. \A b \in Closure(E, {a}) : E[b] \subseteq Closure(E, {a})
  BY <1>2 DEF Closed
<1>5. /\ Below(E, a) \in SUBSET Apps
      /\ E[a] \subseteq Below(E, a)
      /\ Closed(E, Below(E, a))
      /\ \A Z : E[a] \subseteq Z /\ Closed(E, Z) => Below(E, a) \subseteq Z
  <2>1. /\ Closure(E, E[a]) \in SUBSET Apps
        /\ E[a] \subseteq Closure(E, E[a])
        /\ Closed(E, Closure(E, E[a]))
        /\ \A Z : E[a] \subseteq Z /\ Closed(E, Z) => Closure(E, E[a]) \subseteq Z
    BY <1>1, ClosureFacts
  <2> QED
    BY <2>1 DEF Below
<1>6. Closure(E, {a}) = {a} \cup Below(E, a)
  <2>1. Below(E, a) \subseteq Closure(E, {a})
    BY <1>2, <1>4, <1>5
  <2>2. Closed(E, {a} \cup Below(E, a))
    BY <1>5 DEF Closed
  <2>3. Closure(E, {a}) \subseteq {a} \cup Below(E, a)
    <3>1. {a} \subseteq {a} \cup Below(E, a)
      OBVIOUS
    <3> QED
      BY <1>1, <2>2, <3>1, ClosureFacts
  <2> QED
    BY <1>2, <2>1, <2>3
<1>7. Below(E, a) = UNION {Closure(E, {b}) : b \in E[a]}
  <2> DEFINE U == UNION {Closure(E, {b}) : b \in E[a]}
  <2>1. \A b \in E[a] : /\ b \in Closure(E, {b})
                        /\ Closed(E, Closure(E, {b}))
                        /\ \A Z : {b} \subseteq Z /\ Closed(E, Z) => Closure(E, {b}) \subseteq Z
    <3> SUFFICES ASSUME NEW b \in E[a]
                 PROVE  /\ b \in Closure(E, {b})
                        /\ Closed(E, Closure(E, {b}))
                        /\ \A Z : {b} \subseteq Z /\ Closed(E, Z) => Closure(E, {b}) \subseteq Z
      OBVIOUS
    <3>1. {b} \in SUBSET Apps
      BY <1>1
    <3>2. /\ {b} \subseteq Closure(E, {b})
          /\ Closed(E, Closure(E, {b}))
          /\ \A Z : {b} \subseteq Z /\ Closed(E, Z) => Closure(E, {b}) \subseteq Z
      BY <3>1, ClosureFacts
    <3> QED
      BY <3>2
  <2>2. E[a] \subseteq U
    BY <2>1
  <2>3. Closed(E, U)
    <3> SUFFICES ASSUME NEW c \in E[a], NEW b \in Closure(E, {c})
                 PROVE  E[b] \subseteq U
      BY DEF Closed
    <3>1. E[b] \subseteq Closure(E, {c})
      BY <2>1 DEF Closed
    <3> QED
      BY <3>1
  <2>4. U \subseteq Below(E, a)
    <3> SUFFICES ASSUME NEW c \in E[a]
                 PROVE  Closure(E, {c}) \subseteq Below(E, a)
      OBVIOUS
    <3>1. {c} \subseteq Below(E, a)
      BY <1>5
    <3> QED
      BY <1>5, <2>1, <3>1
  <2>5. Below(E, a) \subseteq U
    BY <1>5, <2>2, <2>3
  <2> QED
    BY <2>4, <2>5
<1> QED
  BY <1>1, <1>2, <1>3, <1>4, <1>6, <1>7

\* Something below is an edge away from the application or something below it.
LEMMA LastEdge ==
  ASSUME NEW E \in Graph, NEW a \in Apps, NEW z \in Below(E, a)
  PROVE  \E w \in Closure(E, {a}) : z \in E[w]
<1> DEFINE Z == {y \in Apps : \E w \in Closure(E, {a}) : y \in E[w]}
<1>1. E[a] \subseteq Z /\ E[a] \in SUBSET Apps
  BY Leads DEF Graph
<1>2. Closed(E, Z)
  <2> SUFFICES ASSUME NEW y \in Z, NEW x \in E[y]
               PROVE  x \in Z
    BY DEF Closed
  <2>1. y \in Closure(E, {a})
    BY Leads
  <2>2. x \in Apps
    BY DEF Graph
  <2> QED
    BY <2>1, <2>2
<1>3. Below(E, a) \subseteq Z
  <2> HIDE DEF Z
  <2> QED
    BY <1>1, <1>2, ClosureFacts DEF Below
<1> QED
  BY <1>3

\* More edges lead to more.
LEMMA MoreEdges ==
  ASSUME NEW E \in Graph, NEW F \in Graph, \A a \in Apps : E[a] \subseteq F[a], NEW A \in SUBSET Apps
  PROVE  Closure(E, A) \subseteq Closure(F, A)
<1>1. /\ Closure(F, A) \in SUBSET Apps
      /\ A \subseteq Closure(F, A)
      /\ Closed(F, Closure(F, A))
  BY ClosureFacts
<1>2. Closed(E, Closure(F, A))
  BY <1>1 DEF Closed
<1> QED
  BY <1>1, <1>2, ClosureFacts

\* Edges from elsewhere lead to no more.
LEMMA SameEdges ==
  ASSUME NEW E \in Graph, NEW F \in Graph, NEW Z \in SUBSET Apps, Closed(E, Z),
         \A a \in Z : E[a] = F[a], NEW A \in SUBSET Z
  PROVE  Closure(F, A) = Closure(E, A)
<1>1. A \in SUBSET Apps
  OBVIOUS
<1>2. /\ Closure(E, A) \in SUBSET Apps /\ A \subseteq Closure(E, A) /\ Closed(E, Closure(E, A))
      /\ Closure(E, A) \subseteq Z
  BY <1>1, ClosureFacts
<1>3. /\ Closure(F, A) \in SUBSET Apps /\ A \subseteq Closure(F, A) /\ Closed(F, Closure(F, A))
      /\ \A W : A \subseteq W /\ Closed(F, W) => Closure(F, A) \subseteq W
  BY <1>1, ClosureFacts
<1>4. Closed(F, Closure(E, A))
  BY <1>2 DEF Closed
<1>5. Closure(F, A) \subseteq Closure(E, A)
  BY <1>2, <1>3, <1>4
<1>6. Closed(E, Closure(F, A))
  BY <1>2, <1>3, <1>5 DEF Closed
<1>7. Closure(E, A) \subseteq Closure(F, A)
  BY <1>1, <1>3, <1>6, ClosureFacts
<1> QED
  BY <1>5, <1>7

\* What the lists of an invocation hold.
LEMMA YamlFacts ==
  ASSUME yaml \in Yamls, NEW a \in Apps
  PROVE  /\ Listed(yaml.dep, a) \in Seq(Entries)
         /\ Listed(yaml.with, a) \in Seq(Entries)
         /\ Listed(yaml.self, a) \in Seq(Profiles \ {0})
         /\ yaml.cli \in Seq(Entries)
         /\ yaml.roots \in Seq(Apps)
         /\ HasParent(a) => ParentOf(a) \in Apps /\ ParentOf(a)[1] = a[1] /\ ParentOf(a)[2] # 0
         /\ HasSuper(a) => SuperOf(a) \in Apps /\ SuperOf(a)[2] = 0 /\ yaml.super[a[1]] \in Projects
         /\ a \in Projects \X Profiles /\ a[1] \in Projects /\ a[2] \in Profiles /\ a = <<a[1], a[2]>>
<1>1. /\ Lists(yaml.dep, Entries) /\ Lists(yaml.with, Entries)
      /\ Lists(yaml.self, Profiles \ {0})
      /\ \A b \in DOMAIN yaml.parent : b \in Apps /\ yaml.parent[b] \in Profiles \ {0}
      /\ \A q \in DOMAIN yaml.super : q \in Projects /\ yaml.super[q] \in Projects
      /\ yaml.roots \in Seq(Apps)
      /\ yaml.cli \in Seq(Entries)
  BY YamlsAssumption
<1>2. <<>> \in Seq(Entries) /\ <<>> \in Seq(Profiles \ {0})
  OBVIOUS
<1>3. /\ Listed(yaml.dep, a) \in Seq(Entries)
      /\ Listed(yaml.with, a) \in Seq(Entries)
      /\ Listed(yaml.self, a) \in Seq(Profiles \ {0})
  BY <1>1, <1>2 DEF Lists, Listed
<1>4. a \in Projects \X Profiles /\ a[1] \in Projects /\ a[2] \in Profiles /\ a = <<a[1], a[2]>>
  BY DEF Apps
<1>5. HasParent(a) => ParentOf(a) \in Apps /\ ParentOf(a)[1] = a[1] /\ ParentOf(a)[2] # 0
  BY <1>1, <1>4 DEF HasParent, ParentOf, Apps
<1>6. HasSuper(a) => SuperOf(a) \in Apps /\ SuperOf(a)[2] = 0 /\ yaml.super[a[1]] \in Projects
  BY <1>1, <1>4, ProfilesAssumption DEF HasSuper, SuperOf, Apps
<1> QED
  BY <1>1, <1>3, <1>4, <1>5, <1>6

-----------------------------------------------------------------------------
(* Lineage.                                                                *)

Steps(a, s) ==
  /\ s \in Seq(Apps) /\ s # <<>> /\ s[1] = a
  /\ Len(s) <= Cardinality(Profiles) + 1
  /\ \A i \in 1..Len(s) : s[i] \in Apps /\ s[i][1] = a[1]
  /\ \A i \in 1..Len(s) - 1 : HasParent(s[i]) /\ s[i + 1] = ParentOf(s[i])

\* How many profiles a project may have.
LEMMA ProfilesCount == Cardinality(Profiles) \in Nat /\ Cardinality(Profiles) >= 1
<1>1. Cardinality(Profiles) \in Nat
  BY ProfilesAssumption, FS_CardinalityType
<1>2. Cardinality(Profiles) # 0
  BY ProfilesAssumption, FS_EmptySet
<1> QED
  BY <1>1, <1>2

\* The recursion of Lineage has a solution.
LEMMA LineageExists ==
  ASSUME yaml \in Yamls, NEW a \in Apps
  PROVE  \E L : L = [s \in Seq(Apps) \ {<<>>} |->
            IF HasParent(Last(s)) /\ Len(s) <= Cardinality(Profiles)
            THEN L[Append(s, ParentOf(Last(s)))] ELSE s]
<1> DEFINE D == Seq(Apps) \ {<<>>}
           K == Cardinality(Profiles)
           N == K + 1
           Up(s) == Append(s, ParentOf(Last(s)))
           More(s) == HasParent(Last(s)) /\ Len(s) <= K
           rank == [s \in D |-> IF Len(s) <= K THEN N - Len(s) ELSE 0]
           H == [s \in D |-> [g \in [D -> D] |-> IF More(s) THEN g[Up(s)] ELSE s]]
<1>1. K \in Nat
  BY ProfilesCount
<1>2. \A s \in D : Last(s) \in Apps /\ Len(s) \in Nat /\ Len(s) >= 1
  BY DEF Last
<1>3. \A s \in D : More(s) => Up(s) \in D /\ Len(Up(s)) = Len(s) + 1
  <2> SUFFICES ASSUME NEW s \in D, More(s)
               PROVE  Up(s) \in D /\ Len(Up(s)) = Len(s) + 1
    OBVIOUS
  <2>1. ParentOf(Last(s)) \in Apps
    BY <1>2, YamlFacts
  <2>2. Up(s) \in Seq(Apps) /\ Len(Up(s)) = Len(s) + 1
    BY <2>1
  <2>3. Len(Up(s)) # 0
    BY <1>2, <2>2
  <2> QED
    BY <2>2, <2>3
<1>4. rank \in [D -> 0..N]
  BY <1>1, <1>2
<1>5. \A s \in D : More(s) => rank[Up(s)] < rank[s]
  BY <1>1, <1>2, <1>3
<1>6. H \in [D -> [[D -> D] -> D]]
  <2> HIDE DEF More, Up, D
  <2> QED
    BY <1>3
<1>7. ASSUME NEW s \in D, NEW g \in [D -> D], NEW h \in [D -> D],
             \A t \in D : rank[t] < rank[s] => g[t] = h[t]
      PROVE  H[s][g] = H[s][h]
  <2> HIDE DEF More, Up, D, rank
  <2>1. More(s) => g[Up(s)] = h[Up(s)]
    BY <1>3, <1>5, <1>7
  <2> QED
    BY <2>1
<1>8. D # {}
  <2>1. <<a>> \in Seq(Apps) /\ Len(<<a>>) = 1
    OBVIOUS
  <2>2. <<a>> # <<>>
    BY <2>1
  <2> QED
    BY <2>1, <2>2
<1>9. Ranked(D, D, N, rank, H)
  <2>1. N \in Nat
    BY <1>1
  <2>2. \A s \in D : \A g, h \in [D -> D] :
          (\A t \in D : rank[t] < rank[s] => g[t] = h[t]) => H[s][g] = H[s][h]
    BY <1>7
  <2> HIDE DEF H, rank, D, N
  <2> QED
    BY <1>4, <1>6, <2>2, <1>8, <2>1 DEF Ranked
<1>10. \E f \in [D -> D] : f = [s \in D |-> H[s][f]]
  <2> HIDE DEF D, H, rank
  <2> QED
    BY <1>9, RankedRecursion
<1>11. PICK f \in [D -> D] : f = [s \in D |-> H[s][f]]
  BY <1>10
<1>12. \A s \in D : H[s][f] = IF More(s) THEN f[Up(s)] ELSE s
  <2> HIDE DEF D, More, Up
  <2> QED
    OBVIOUS
<1>13. f = [s \in D |-> IF More(s) THEN f[Up(s)] ELSE s]
  <2> HIDE DEF D, More, Up, H
  <2> QED
    BY <1>11, <1>12
<1> QED
  BY <1>13

\* The profile and its parents: each the parent of the one before, until one has
\* none or there are more than the project has profiles.
LEMMA LineageFacts ==
  ASSUME yaml \in Yamls, NEW a \in Apps
  PROVE  /\ Steps(a, Lineage(a))
         /\ HasParent(Last(Lineage(a))) => Len(Lineage(a)) = Cardinality(Profiles) + 1
<1> DEFINE L[s \in Seq(Apps) \ {<<>>}] ==
             IF HasParent(Last(s)) /\ Len(s) <= Cardinality(Profiles)
             THEN L[Append(s, ParentOf(Last(s)))] ELSE s
           D == Seq(Apps) \ {<<>>}
           K == Cardinality(Profiles)
           Up(s) == Append(s, ParentOf(Last(s)))
           More(s) == HasParent(Last(s)) /\ Len(s) <= K
<1>1. L = [s \in Seq(Apps) \ {<<>>} |->
            IF HasParent(Last(s)) /\ Len(s) <= Cardinality(Profiles)
            THEN L[Append(s, ParentOf(Last(s)))] ELSE s]
  <2>1. \E f : f = [s \in Seq(Apps) \ {<<>>} |->
            IF HasParent(Last(s)) /\ Len(s) <= Cardinality(Profiles)
            THEN f[Append(s, ParentOf(Last(s)))] ELSE s]
    BY LineageExists
  <2> QED
    BY <2>1, ZenonT(30)
<1>2. Lineage(a) = L[<<a>>]
  BY DEF Lineage
<1> HIDE DEF L
<1>3. \A s \in D : L[s] = IF More(s) THEN L[Up(s)] ELSE s
  BY <1>1
<1>4. K \in Nat
  BY ProfilesCount
<1> DEFINE rank == [s \in D |-> IF Len(s) <= K THEN K + 1 - Len(s) ELSE 0]
           Good(s) == Steps(a, s) /\ (HasParent(Last(s)) => Len(s) = K + 1)
           T == {s \in D : Steps(a, s) => Good(L[s])}
<1>5. ASSUME NEW s \in D, Steps(a, s), More(s)
      PROVE  Up(s) \in D /\ Steps(a, Up(s)) /\ Len(Up(s)) = Len(s) + 1
  <2>1. /\ Len(s) \in Nat /\ Len(s) >= 1 /\ s \in Seq(Apps)
        /\ \A i \in 1..Len(s) : s[i] \in Apps /\ s[i][1] = a[1]
    BY <1>5 DEF Steps
  <2>2. Last(s) = s[Len(s)] /\ Last(s) \in Apps /\ Last(s)[1] = a[1]
    BY <2>1 DEF Last
  <2> DEFINE p == ParentOf(Last(s))
  <2>3. p \in Apps /\ p[1] = a[1]
    BY <1>5, <2>2, YamlFacts
  <2> HIDE DEF p
  <2>4. /\ Append(s, p) \in Seq(Apps) /\ Len(Append(s, p)) = Len(s) + 1
        /\ \A i \in 1..Len(s) : Append(s, p)[i] = s[i]
        /\ Append(s, p)[Len(s) + 1] = p
    BY <2>1, <2>3
  <2>5. Append(s, p) # <<>>
    BY <2>1, <2>4
  <2>6. HasParent(s[Len(s)]) /\ p = ParentOf(s[Len(s)])
    BY <1>5, <2>2 DEF p
  <2>7. \A i \in 1..Len(s) - 1 : HasParent(s[i]) /\ s[i + 1] = ParentOf(s[i])
    BY <1>5 DEF Steps
  <2>8. ASSUME NEW i \in 1..Len(s)
        PROVE  HasParent(Append(s, p)[i]) /\ Append(s, p)[i + 1] = ParentOf(Append(s, p)[i])
    <3>1. CASE i = Len(s)
      BY <2>4, <2>6, <3>1
    <3>2. CASE i # Len(s)
      <4>1. i \in 1..Len(s) - 1 /\ i + 1 \in 1..Len(s)
        BY <2>1, <3>2
      <4> QED
        BY <2>4, <2>7, <4>1
    <3> QED
      BY <3>1, <3>2
  <2>9. \A i \in 1..Len(s) + 1 : Append(s, p)[i] \in Apps /\ Append(s, p)[i][1] = a[1]
    <3> SUFFICES ASSUME NEW i \in 1..Len(s) + 1
                 PROVE  Append(s, p)[i] \in Apps /\ Append(s, p)[i][1] = a[1]
      OBVIOUS
    <3>1. i = Len(s) + 1 \/ i \in 1..Len(s)
      BY <2>1
    <3> QED
      BY <2>1, <2>3, <2>4, <3>1
  <2>10. Append(s, p)[1] = a /\ Len(s) + 1 <= K + 1
    BY <1>4, <1>5, <2>1, <2>4 DEF Steps
  <2>11. Steps(a, Append(s, p))
    <3>1. Len(Append(s, p)) - 1 = Len(s)
      BY <2>1, <2>4
    <3> QED
      BY <2>4, <2>5, <2>8, <2>9, <2>10, <3>1 DEF Steps
  <2> QED
    BY <2>4, <2>5, <2>11 DEF p
<1>6. ASSUME NEW s \in D, \A t \in D : rank[t] < rank[s] => t \in T
      PROVE  s \in T
  <2> SUFFICES ASSUME Steps(a, s)
               PROVE  Good(L[s])
    OBVIOUS
  <2>1. CASE More(s)
    <3>1. Up(s) \in D /\ Steps(a, Up(s)) /\ Len(Up(s)) = Len(s) + 1
      BY <1>5, <2>1
    <3> HIDE DEF Up
    <3>2. rank[Up(s)] < rank[s]
      BY <1>4, <2>1, <3>1 DEF Steps
    <3> HIDE DEF More, rank, Good
    <3>3. Good(L[Up(s)])
      BY <1>6, <3>1, <3>2
    <3> QED
      BY <1>3, <2>1, <3>3
  <2>2. CASE ~More(s)
    <3>1. L[s] = s
      BY <1>3, <2>2
    <3>2. HasParent(Last(s)) => Len(s) = K + 1
      BY <1>4, <2>2 DEF Steps
    <3> QED
      BY <3>1, <3>2
  <2> QED
    BY <2>1, <2>2
<1>7. \A s \in D : rank[s] \in Nat
  BY <1>4
<1>8. D \subseteq T
  <2>1. \A s \in D : (\A t \in D : rank[t] < rank[s] => t \in T) => s \in T
    BY <1>6
  <2> HIDE DEF D, T, rank
  <2> QED
    BY <1>7, <2>1, RankInduction
<1>9. <<a>> \in D /\ Steps(a, <<a>>)
  <2>1. <<a>> \in Seq(Apps) /\ Len(<<a>>) = 1 /\ <<a>>[1] = a
    OBVIOUS
  <2>2. <<a>> # <<>>
    BY <2>1
  <2> QED
    BY <1>4, <2>1, <2>2 DEF Steps
<1>10. Good(L[<<a>>])
  BY <1>8, <1>9
<1> QED
  BY <1>2, <1>10

\* A lineage that ends is of different profiles.
LEMMA StepsShort ==
  ASSUME yaml \in Yamls, NEW a \in Apps, NEW s, Steps(a, s), ~HasParent(Last(s))
  PROVE  Len(s) <= Cardinality(Profiles)
<1> DEFINE K == Cardinality(Profiles)
           N == Len(s)
<1>1. K \in Nat /\ N \in Nat /\ N <= K + 1 /\ Last(s) = s[N]
  BY ProfilesCount DEF Steps, Last
<1> SUFFICES ASSUME N = K + 1
             PROVE  FALSE
  BY <1>1
<1> DEFINE f == [i \in 1..N |-> s[i][2]]
<1>2. \A i \in 1..N : s[i] = <<a[1], s[i][2]>> /\ s[i][2] \in Profiles
  BY DEF Steps, Apps
<1>3. \E x, y \in 1..N : x # y /\ f[x] = f[y]
  <2>1. f \in [1..N -> Profiles]
    BY <1>2
  <2>2. IsFiniteSet(1..N) /\ Cardinality(1..N) = N
    BY <1>1, FS_Interval
  <2>3. IsFiniteSet(Profiles) /\ Cardinality(Profiles) < N
    BY <1>1, ProfilesAssumption
  <2> HIDE DEF f, N, K
  <2> QED
    BY <2>1, <2>2, <2>3, FS_PigeonHole
<1>4. PICK x \in 1..N, y \in 1..N : x < y /\ s[x] = s[y]
  <2>1. PICK x \in 1..N, y \in 1..N : x # y /\ f[x] = f[y]
    BY <1>3
  <2>2. s[x] = s[y]
    BY <1>2, <2>1
  <2>3. x < y \/ y < x
    BY <1>1, <2>1
  <2> QED
    BY <2>2, <2>3
<1> DEFINE T == {d \in Nat : y + d <= N => s[x + d] = s[y + d]}
<1>5. Nat \subseteq T
  <2>1. 0 \in T
    BY <1>1, <1>4
  <2>2. ASSUME NEW d \in Nat, d \in T
        PROVE  d + 1 \in T
    <3> SUFFICES ASSUME y + (d + 1) <= N
                 PROVE  s[x + (d + 1)] = s[y + (d + 1)]
      OBVIOUS
    <3>1. y + d \in 1..N - 1 /\ x + d \in 1..N - 1 /\ s[x + d] = s[y + d]
      BY <1>1, <1>4, <2>2
    <3>2. s[(y + d) + 1] = ParentOf(s[y + d]) /\ s[(x + d) + 1] = ParentOf(s[x + d])
      BY <3>1 DEF Steps
    <3>3. (y + d) + 1 = y + (d + 1) /\ (x + d) + 1 = x + (d + 1)
      BY <1>1, <1>4
    <3> QED
      BY <3>1, <3>2, <3>3
  <2> HIDE DEF T
  <2> QED
    BY <2>1, <2>2, SetInduction
<1>6. N - y \in T /\ x + (N - y) \in 1..N - 1 /\ y + (N - y) = N
  <2>1. N - y \in Nat /\ x + (N - y) \in 1..N - 1 /\ y + (N - y) = N
    BY <1>1, <1>4
  <2> HIDE DEF T
  <2> QED
    BY <1>5, <2>1
<1>7. s[x + (N - y)] = s[N]
  BY <1>6
<1>8. HasParent(s[x + (N - y)])
  BY <1>6 DEF Steps
<1> QED
  BY <1>1, <1>7, <1>8

\* preSetupValidation, for the profile that is set up.
LEMMA ValidationFacts ==
  ASSUME yaml \in Yamls, NEW a \in Apps
  PROVE  /\ Validation(a[1]) \in {"ok", "parents", "overflow"}
         /\ Validation(a[1]) = "ok" => Len(Lineage(a)) <= Cardinality(Profiles)
<1> DEFINE q == a[1]
           bad == {p \in Profiles \ {0} : Climb(<<q, p>>) # "ok"}
           K == Cardinality(Profiles)
<1>1. \A b : Climb(b) \in {"ok", "parents", "overflow"}
  BY DEF Climb
<1>2. bad # {} => Min(bad) \in bad
  <2> SUFFICES ASSUME bad # {}
               PROVE  Min(bad) \in bad
    OBVIOUS
  <2>1. bad \subseteq Nat
    BY ProfilesAssumption
  <2>2. \E x \in bad : \A y \in bad : x <= y
    <3> HIDE DEF bad
    <3> QED
      BY <2>1, Least
  <2> HIDE DEF bad
  <2> QED
    BY <2>2 DEF Min
<1>3. Validation(q) = IF bad = {} THEN "ok" ELSE Climb(<<q, Min(bad)>>)
  BY DEF Validation
<1>4. bad # {} => Climb(<<q, Min(bad)>>) # "ok"
  BY <1>2
<1>5. ASSUME bad = {}, NEW b \in Apps, b[1] = q, b[2] # 0
      PROVE  ~HasParent(Last(Lineage(b)))
  <2>1. b[2] \in Profiles \ {0} /\ <<q, b[2]>> = b
    BY <1>5, YamlFacts
  <2>2. Climb(b) = "ok"
    BY <1>5, <2>1
  <2> QED
    BY <2>2 DEF Climb
<1>6. ASSUME bad = {}, NEW b \in Apps, b[1] = q, b[2] # 0
      PROVE  Len(Lineage(b)) <= K
  BY <1>5, <1>6, LineageFacts, StepsShort
<1>7. ASSUME bad = {}, HasParent(Last(Lineage(a)))
      PROVE  FALSE
  <2> DEFINE s == Lineage(a)
             p == s[2]
             t == Lineage(p)
  <2>1. Steps(a, s) /\ Len(s) = K + 1 /\ K \in Nat /\ K >= 1 /\ Last(s) = s[K + 1]
    BY <1>7, LineageFacts, ProfilesCount DEF Last
  <2>2. /\ s[1] = a
        /\ \A i \in 1..K + 1 : s[i] \in Apps /\ s[i][1] = q
        /\ \A i \in 1..K : HasParent(s[i]) /\ s[i + 1] = ParentOf(s[i])
    <3>1. Len(s) - 1 = K
      BY <2>1
    <3> HIDE DEF s
    <3> QED
      BY <2>1, <3>1 DEF Steps
  <2>3. p \in Apps /\ p[1] = q /\ p[2] # 0
    <3>1. 1 \in 1..K /\ 2 \in 1..K + 1 /\ 1 + 1 = 2
      BY <2>1
    <3>2. p = ParentOf(a) /\ HasParent(a) /\ p \in Apps /\ p[1] = q
      BY <2>2, <3>1
    <3> QED
      BY <3>2, YamlFacts
  <2>4. Steps(p, t) /\ ~HasParent(Last(t)) /\ Len(t) <= K /\ Last(t) = t[Len(t)]
    <3> HIDE DEF p
    <3> QED
      BY <1>5, <1>6, <1>7, <2>3, LineageFacts DEF Last
  <2>5. Len(t) \in Nat /\ Len(t) >= 1
    BY <2>4 DEF Steps
  <2> DEFINE T == {k \in Nat : k + 1 <= Len(t) => t[k + 1] = s[k + 2]}
  <2>6. Nat \subseteq T
    <3>1. 0 \in T
      BY <2>4 DEF Steps
    <3>2. ASSUME NEW k \in Nat, k \in T
          PROVE  k + 1 \in T
      <4> HIDE DEF s, t
      <4> SUFFICES ASSUME (k + 1) + 1 <= Len(t)
                   PROVE  t[(k + 1) + 1] = s[(k + 1) + 2]
        OBVIOUS
      <4>1. k + 1 \in 1..Len(t) - 1 /\ t[k + 1] = s[k + 2] /\ k + 2 \in 1..K
        BY <2>1, <2>4, <2>5, <3>2
      <4>2. t[(k + 1) + 1] = ParentOf(t[k + 1])
        BY <2>4, <4>1 DEF Steps
      <4>3. s[(k + 2) + 1] = ParentOf(s[k + 2])
        BY <2>2, <4>1
      <4>4. (k + 2) + 1 = (k + 1) + 2
        OBVIOUS
      <4> QED
        BY <4>1, <4>2, <4>3, <4>4
    <3> HIDE DEF T
    <3> QED
      BY <3>1, <3>2, SetInduction
  <2> HIDE DEF s, t
  <2>7. t[Len(t)] = s[Len(t) + 1]
    <3>1. Len(t) - 1 \in T /\ (Len(t) - 1) + 1 = Len(t) /\ (Len(t) - 1) + 2 = Len(t) + 1
      BY <2>5, <2>6
    <3> QED
      BY <2>5, <3>1
  <2>8. HasParent(s[Len(t) + 1])
    <3>1. Len(t) + 1 \in 1..K \/ Len(t) + 1 = K + 1
      BY <2>1, <2>4, <2>5
    <3> QED
      BY <1>7, <2>1, <2>2, <3>1 DEF s
  <2> QED
    BY <2>4, <2>7, <2>8
<1>8. bad = {} => Len(Lineage(a)) <= K
  BY <1>7, LineageFacts, StepsShort
<1> QED
  BY <1>1, <1>3, <1>4, <1>8

-----------------------------------------------------------------------------
(* The lists.                                                              *)

\* w begins with v and goes on in S.
Onward(v, w, S) ==
  /\ w \in Seq(Apps) /\ Len(v) <= Len(w)
  /\ \A i \in 1..Len(v) : w[i] = v[i]
  /\ \A i \in Len(v) + 1..Len(w) : w[i] \in S

\* An entry of a list adds what it names, or nothing.
LEMMA AddEntryFacts ==
  ASSUME NEW v \in Seq(Apps), NEW e \in Entries, NEW S, \A p \in ToSet(e[2]) : <<e[1], p>> \in S
  PROVE  Onward(v, AddEntry(v, e), S)
<1> DEFINE u == [i \in DOMAIN e[2] |-> <<e[1], e[2][i]>>]
<1>1. e[1] \in Projects /\ e[2] \in Seq(Profiles)
  BY DEF Entries
<1>2. u \in Seq(Apps) /\ Len(u) = Len(e[2]) /\ \A i \in 1..Len(u) : u[i] \in S
  BY <1>1 DEF Apps, ToSet
<1>3. Onward(v, v \o u, S)
  <2> HIDE DEF u
  <2>1. v \o u \in Seq(Apps) /\ Len(v \o u) = Len(v) + Len(u) /\ Len(v) \in Nat /\ Len(u) \in Nat
    BY <1>2
  <2>2. \A i \in 1..Len(v) : (v \o u)[i] = v[i]
    BY <1>2, <2>1
  <2>3. ASSUME NEW i \in Len(v) + 1..Len(v \o u)
        PROVE  (v \o u)[i] \in S
    <3>1. i - Len(v) \in 1..Len(u)
      BY <2>1
    <3>2. (v \o u)[i] = u[i - Len(v)]
      BY <1>2, <2>1
    <3> QED
      BY <1>2, <3>1, <3>2
  <2> QED
    BY <2>1, <2>2, <2>3 DEF Onward
<1>4. Onward(v, v, S)
  BY DEF Onward
<1>5. AddEntry(v, e) = v \/ AddEntry(v, e) = v \o u
  BY DEF AddEntry
<1> QED
  BY <1>3, <1>4, <1>5

\* What is added to twice is added to.
LEMMA OnwardTwice ==
  ASSUME NEW v \in Seq(Apps), NEW w, NEW x, NEW S, Onward(v, w, S), Onward(w, x, S)
  PROVE  Onward(v, x, S)
<1>1. Len(v) \in Nat /\ Len(w) \in Nat /\ Len(x) \in Nat
  BY DEF Onward
<1>2. ASSUME NEW i \in Len(v) + 1..Len(x)
      PROVE  x[i] \in S
  <2>1. i \in Len(v) + 1..Len(w) \/ i \in Len(w) + 1..Len(x)
    BY <1>1
  <2>2. i \in Len(v) + 1..Len(w) => i \in 1..Len(w)
    BY <1>1
  <2> QED
    BY <2>1, <2>2 DEF Onward
<1>3. \A i \in 1..Len(v) : x[i] = v[i]
  BY <1>1 DEF Onward
<1> QED
  BY <1>1, <1>2, <1>3 DEF Onward

\* The recursion of Popped has a solution.
LEMMA PoppedExists ==
  ASSUME NEW es \in Seq(Entries)
  PROVE  \E P \in [0..Len(es) -> [Seq(Apps) -> Seq(Apps)]] : P = [n \in 0..Len(es) |-> [w \in Seq(Apps) |->
           IF n = 0 THEN w ELSE P[n - 1][AddEntry(w, es[Len(es) - n + 1])]]]
<1> DEFINE N == Len(es)
           D == 0..N
           V == [Seq(Apps) -> Seq(Apps)]
           rank == [n \in D |-> n]
           H == [n \in D |-> [g \in [D -> V] |-> [w \in Seq(Apps) |->
                   IF n = 0 THEN w ELSE g[n - 1][AddEntry(w, es[N - n + 1])]]]]
<1>1. N \in Nat
  OBVIOUS
<1>2. \A n \in D : n # 0 => n - 1 \in D /\ N - n + 1 \in 1..N
  BY <1>1
<1>3. \A n \in D, w \in Seq(Apps) : n # 0 => AddEntry(w, es[N - n + 1]) \in Seq(Apps)
  <2> SUFFICES ASSUME NEW n \in D, NEW w \in Seq(Apps), n # 0
               PROVE  AddEntry(w, es[N - n + 1]) \in Seq(Apps)
    OBVIOUS
  <2>1. es[N - n + 1] \in Entries
    BY <1>2
  <2>2. \A p \in ToSet(es[N - n + 1][2]) : <<es[N - n + 1][1], p>> \in Apps
    BY <2>1 DEF Entries, Apps, ToSet
  <2>3. Onward(w, AddEntry(w, es[N - n + 1]), Apps)
    BY <2>1, <2>2, AddEntryFacts
  <2> QED
    BY <2>3 DEF Onward
<1>4. H \in [D -> [[D -> V] -> V]]
  <2> SUFFICES ASSUME NEW n \in D, NEW g \in [D -> V], NEW w \in Seq(Apps)
               PROVE  (IF n = 0 THEN w ELSE g[n - 1][AddEntry(w, es[N - n + 1])]) \in Seq(Apps)
    OBVIOUS
  <2>1. CASE n # 0
    <3>1. g[n - 1] \in V
      BY <1>2, <2>1
    <3> QED
      BY <1>3, <2>1, <3>1
  <2> QED
    BY <2>1
<1>5. ASSUME NEW n \in D, NEW g \in [D -> V], NEW h \in [D -> V],
             \A m \in D : rank[m] < rank[n] => g[m] = h[m]
      PROVE  H[n][g] = H[n][h]
  <2>1. n # 0 => g[n - 1] = h[n - 1]
    BY <1>1, <1>2, <1>5
  <2> QED
    BY <2>1
<1>6. Ranked(D, V, N, rank, H)
  <2>1. V # {} /\ rank \in [D -> 0..N]
    <3>1. [w \in Seq(Apps) |-> w] \in V
      OBVIOUS
    <3> QED
      BY <3>1
  <2>2. \A n \in D : \A g, h \in [D -> V] :
          (\A m \in D : rank[m] < rank[n] => g[m] = h[m]) => H[n][g] = H[n][h]
    BY <1>5
  <2> HIDE DEF H, rank, D, V, N
  <2> QED
    BY <1>1, <1>4, <2>1, <2>2 DEF Ranked
<1>7. \E f \in [D -> V] : f = [n \in D |-> H[n][f]]
  <2> HIDE DEF D, V, H, rank
  <2> QED
    BY <1>6, RankedRecursion
<1>8. PICK f \in [D -> V] : f = [n \in D |-> H[n][f]]
  BY <1>7
<1>9. \A n \in D : H[n][f] = [w \in Seq(Apps) |-> IF n = 0 THEN w ELSE f[n - 1][AddEntry(w, es[N - n + 1])]]
  <2> HIDE DEF D, V, N
  <2> QED
    OBVIOUS
<1>10. f = [n \in D |-> [w \in Seq(Apps) |-> IF n = 0 THEN w ELSE f[n - 1][AddEntry(w, es[N - n + 1])]]]
  <2> HIDE DEF D, V, N, H
  <2> QED
    BY <1>8, <1>9
<1> QED
  BY <1>10

\* popDepOrMod only adds, and only what the entries name.
LEMMA PoppedFacts ==
  ASSUME NEW v \in Seq(Apps), NEW es \in Seq(Entries), NEW S, Of(es) \subseteq S
  PROVE  Onward(v, Popped(v, es), S)
<1> DEFINE P[n \in 0..Len(es)] == [w \in Seq(Apps) |->
             IF n = 0 THEN w ELSE P[n - 1][AddEntry(w, es[Len(es) - n + 1])]]
           N == Len(es)
<1>1. P = [n \in 0..Len(es) |-> [w \in Seq(Apps) |->
            IF n = 0 THEN w ELSE P[n - 1][AddEntry(w, es[Len(es) - n + 1])]]]
  <2>1. \E f : f = [n \in 0..Len(es) |-> [w \in Seq(Apps) |->
            IF n = 0 THEN w ELSE f[n - 1][AddEntry(w, es[Len(es) - n + 1])]]]
    BY PoppedExists
  <2> QED
    BY <2>1, ZenonT(30)
<1>2. Popped(v, es) = P[N][v]
  BY DEF Popped
<1> HIDE DEF P
<1>3. N \in Nat
  OBVIOUS
<1>4. \A n \in 0..N, w \in Seq(Apps) :
        P[n][w] = IF n = 0 THEN w ELSE P[n - 1][AddEntry(w, es[N - n + 1])]
  <2>1. \A n \in 0..N : P[n] = [w \in Seq(Apps) |->
          IF n = 0 THEN w ELSE P[n - 1][AddEntry(w, es[N - n + 1])]]
    BY <1>1, Zenon
  <2> QED
    BY <2>1
<1> DEFINE T == {n \in Nat : n <= N => \A w \in Seq(Apps) : Onward(w, P[n][w], S)}
<1>5. 0 \in T
  <2>1. \A w \in Seq(Apps) : P[0][w] = w
    BY <1>3, <1>4
  <2>2. \A w \in Seq(Apps) : Onward(w, w, S)
    BY DEF Onward
  <2> QED
    BY <2>1, <2>2
<1>6. ASSUME NEW n \in Nat, n \in T
      PROVE  n + 1 \in T
  <2> SUFFICES ASSUME n + 1 <= N, NEW w \in Seq(Apps)
               PROVE  Onward(w, P[n + 1][w], S)
    OBVIOUS
  <2> DEFINE e == es[N - (n + 1) + 1]
  <2>1. N - (n + 1) + 1 \in 1..N /\ n + 1 \in 0..N /\ n + 1 # 0 /\ (n + 1) - 1 = n
    BY <1>3
  <2>2. e \in Entries /\ e \in ToSet(es)
    BY <2>1 DEF ToSet
  <2>3. \A p \in ToSet(e[2]) : <<e[1], p>> \in S
    BY <2>2 DEF Of
  <2> HIDE DEF e
  <2>4. Onward(w, AddEntry(w, e), S)
    BY <2>2, <2>3, AddEntryFacts
  <2>5. AddEntry(w, e) \in Seq(Apps)
    BY <2>4 DEF Onward
  <2>6. Onward(AddEntry(w, e), P[n][AddEntry(w, e)], S)
    BY <1>3, <1>6, <2>1, <2>5
  <2>7. P[n + 1][w] = P[n][AddEntry(w, e)]
    BY <1>4, <2>1 DEF e
  <2>8. Onward(w, P[n][AddEntry(w, e)], S)
    BY <2>4, <2>6, OnwardTwice
  <2> QED
    BY <2>7, <2>8
<1>7. N \in T
  <2> HIDE DEF T, N
  <2> QED
    BY <1>3, <1>5, <1>6, SetInduction
<1> QED
  BY <1>2, <1>3, <1>7

\* What is new in a list that goes on.
LEMMA NewFacts ==
  ASSUME NEW v \in Seq(Apps), NEW w, NEW S, Onward(v, w, S)
  PROVE  /\ ToSet(SubSeq(w, Len(v) + 1, Len(w))) \subseteq S \cap Apps
         /\ ToSet(w) = ToSet(v) \cup ToSet(SubSeq(w, Len(v) + 1, Len(w)))
         /\ ToSet(w) \subseteq Apps
         /\ \A k \in DOMAIN w : k \in DOMAIN v \/ w[k] \in ToSet(SubSeq(w, Len(v) + 1, Len(w)))
<1> DEFINE m == Len(v)
           n == Len(w)
           t == SubSeq(w, m + 1, n)
<1>1. m \in Nat /\ n \in Nat /\ m <= n /\ w \in Seq(Apps) /\ DOMAIN w = 1..n /\ DOMAIN v = 1..m
  BY DEF Onward
<1>2. DOMAIN t = 1..n - m /\ \A i \in 1..n - m : t[i] = w[m + i]
  BY <1>1
<1>3. \A k \in m + 1..n : k - m \in 1..n - m /\ m + (k - m) = k
  BY <1>1
<1>4. \A i \in 1..n - m : m + i \in m + 1..n
  BY <1>1
<1> HIDE DEF t
<1>5. ToSet(t) = {w[k] : k \in m + 1..n}
  <2>1. ASSUME NEW k \in m + 1..n
        PROVE  w[k] \in ToSet(t)
    <3>1. t[k - m] = w[k] /\ k - m \in DOMAIN t
      BY <1>2, <1>3
    <3> QED
      BY <3>1 DEF ToSet
  <2>2. ToSet(t) \subseteq {w[k] : k \in m + 1..n}
    BY <1>2, <1>4 DEF ToSet
  <2> QED
    BY <2>1, <2>2
<1>6. \A k \in m + 1..n : w[k] \in S /\ w[k] \in Apps
  BY <1>1 DEF Onward
<1>7. \A k \in 1..m : w[k] = v[k]
  BY DEF Onward
<1>8. \A k \in 1..n : k \in 1..m \/ k \in m + 1..n
  BY <1>1
<1>9. \A k \in 1..m : k \in 1..n
  BY <1>1
<1>10. \A k \in m + 1..n : k \in 1..n
  BY <1>1
<1>11. ToSet(w) = {w[k] : k \in 1..n} /\ ToSet(v) = {v[k] : k \in 1..m}
  BY <1>1 DEF ToSet
<1>12. ToSet(w) = ToSet(v) \cup ToSet(t)
  <2> HIDE DEF m, n
  <2> QED
    BY <1>5, <1>7, <1>8, <1>9, <1>10, <1>11
<1>13. ToSet(w) \subseteq Apps
  BY <1>1 DEF ToSet
<1>14. ToSet(t) \subseteq S \cap Apps
  BY <1>5, <1>6
<1>15. \A k \in DOMAIN w : k \in DOMAIN v \/ w[k] \in ToSet(t)
  BY <1>1, <1>5, <1>8
<1> QED
  BY <1>12, <1>13, <1>14, <1>15 DEF t

\* The recursion of WithEntries has a solution.
LEMMA WithEntriesExists ==
  ASSUME yaml \in Yamls, NEW s \in Seq(Apps), NEW r \in Seq(Entries)
  PROVE  \E W \in [0..Len(s) -> Seq(Entries)] : W = [n \in 0..Len(s) |->
           IF n = 0 THEN r ELSE W[n - 1] \o Listed(yaml.with, s[n])]
<1> DEFINE N == Len(s)
           D == 0..N
           V == Seq(Entries)
           rank == [n \in D |-> n]
           H == [n \in D |-> [g \in [D -> V] |-> IF n = 0 THEN r ELSE g[n - 1] \o Listed(yaml.with, s[n])]]
<1>1. N \in Nat
  OBVIOUS
<1>2. \A n \in D : n # 0 => n - 1 \in D /\ n \in 1..N
  BY <1>1
<1>3. \A n \in D : n # 0 => Listed(yaml.with, s[n]) \in Seq(Entries)
  BY <1>2, YamlFacts
<1>4. H \in [D -> [[D -> V] -> V]]
  <2> SUFFICES ASSUME NEW n \in D, NEW g \in [D -> V]
               PROVE  (IF n = 0 THEN r ELSE g[n - 1] \o Listed(yaml.with, s[n])) \in V
    OBVIOUS
  <2>1. CASE n # 0
    <3>1. g[n - 1] \in V
      BY <1>2, <2>1
    <3> QED
      BY <1>3, <2>1, <3>1
  <2> QED
    BY <2>1
<1>5. ASSUME NEW n \in D, NEW g \in [D -> V], NEW h \in [D -> V],
             \A m \in D : rank[m] < rank[n] => g[m] = h[m]
      PROVE  H[n][g] = H[n][h]
  <2>1. n # 0 => g[n - 1] = h[n - 1]
    BY <1>1, <1>2, <1>5
  <2> QED
    BY <2>1
<1>6. Ranked(D, V, N, rank, H)
  <2>1. V # {} /\ rank \in [D -> 0..N]
    BY <1>1
  <2>2. \A n \in D : \A g, h \in [D -> V] :
          (\A m \in D : rank[m] < rank[n] => g[m] = h[m]) => H[n][g] = H[n][h]
    BY <1>5
  <2> HIDE DEF H, rank, D, V, N
  <2> QED
    BY <1>1, <1>4, <2>1, <2>2 DEF Ranked
<1>7. \E f \in [D -> V] : f = [n \in D |-> H[n][f]]
  <2> HIDE DEF D, V, H, rank
  <2> QED
    BY <1>6, RankedRecursion
<1>8. PICK f \in [D -> V] : f = [n \in D |-> H[n][f]]
  BY <1>7
<1>9. \A n \in D : H[n][f] = IF n = 0 THEN r ELSE f[n - 1] \o Listed(yaml.with, s[n])
  <2> HIDE DEF D, V, N
  <2> QED
    OBVIOUS
<1>10. f = [n \in D |-> IF n = 0 THEN r ELSE f[n - 1] \o Listed(yaml.with, s[n])]
  <2> HIDE DEF D, V, N, H
  <2> QED
    BY <1>8, <1>9
<1> QED
  BY <1>10

\* Entries one after the other name what each of them names.
LEMMA OfBoth ==
  ASSUME NEW x \in Seq(Entries), NEW y \in Seq(Entries)
  PROVE  Of(x \o y) \subseteq Of(x) \cup Of(y)
<1>1. ToSet(x \o y) \subseteq ToSet(x) \cup ToSet(y)
  <2> SUFFICES ASSUME NEW i \in 1..Len(x \o y)
               PROVE  (x \o y)[i] \in ToSet(x) \cup ToSet(y)
    BY DEF ToSet
  <2>1. Len(x \o y) = Len(x) + Len(y) /\ Len(x) \in Nat /\ Len(y) \in Nat
    OBVIOUS
  <2>2. CASE i <= Len(x)
    <3>1. i \in DOMAIN x /\ (x \o y)[i] = x[i]
      BY <2>1, <2>2
    <3> QED
      BY <3>1 DEF ToSet
  <2>3. CASE ~(i <= Len(x))
    <3>1. i - Len(x) \in DOMAIN y /\ (x \o y)[i] = y[i - Len(x)]
      BY <2>1, <2>3
    <3> QED
      BY <3>1 DEF ToSet
  <2> QED
    BY <2>2, <2>3
<1> QED
  BY <1>1 DEF Of

\* The scalar entries, of the command line and of the lineage.
LEMMA WithEntriesFacts ==
  ASSUME yaml \in Yamls, me \in Apps
  PROVE  /\ WithEntries \in Seq(Entries)
         /\ Of(WithEntries) \subseteq Named(yaml.with, me) \cup (IF me \in ro THEN Of(yaml.cli) ELSE {})
<1> DEFINE s == Lineage(me)
           N == Len(s)
           r == IF me \in ro THEN yaml.cli ELSE <<>>
           W[n \in 0..Len(Lineage(me))] ==
             IF n = 0 THEN IF me \in ro THEN yaml.cli ELSE <<>>
             ELSE W[n - 1] \o Listed(yaml.with, Lineage(me)[n])
           S == Named(yaml.with, me) \cup (IF me \in ro THEN Of(yaml.cli) ELSE {})
<1>1. s \in Seq(Apps)
  BY LineageFacts DEF Steps
<1>2. r \in Seq(Entries) /\ Of(r) \subseteq S
  <2>1. Of(<<>>) = {}
    BY DEF Of, ToSet
  <2>2. yaml.cli \in Seq(Entries)
    BY YamlFacts
  <2> QED
    BY <2>1, <2>2
<1>3. \E f \in [0..Len(s) -> Seq(Entries)] : f = [n \in 0..Len(s) |->
           IF n = 0 THEN r ELSE f[n - 1] \o Listed(yaml.with, s[n])]
  <2> HIDE DEF s, r
  <2> QED
    BY <1>1, <1>2, WithEntriesExists
<1>4. W = [n \in 0..Len(Lineage(me)) |->
             IF n = 0 THEN IF me \in ro THEN yaml.cli ELSE <<>>
             ELSE W[n - 1] \o Listed(yaml.with, Lineage(me)[n])]
  <2>1. \E f : f = [n \in 0..Len(Lineage(me)) |->
             IF n = 0 THEN IF me \in ro THEN yaml.cli ELSE <<>>
             ELSE f[n - 1] \o Listed(yaml.with, Lineage(me)[n])]
    BY <1>3
  <2> QED
    BY <2>1, ZenonT(30)
<1>5. WithEntries = W[N]
  BY DEF WithEntries
<1> HIDE DEF W
<1>6. N \in Nat
  BY <1>1
<1>7. \A n \in 0..N : W[n] = IF n = 0 THEN r ELSE W[n - 1] \o Listed(yaml.with, s[n])
  BY <1>4
<1> DEFINE T == {n \in Nat : n <= N => W[n] \in Seq(Entries) /\ Of(W[n]) \subseteq S}
<1>8. 0 \in T
  <2>1. W[0] = r
    BY <1>6, <1>7
  <2> HIDE DEF r, S
  <2> QED
    BY <1>2, <2>1
<1>9. ASSUME NEW n \in Nat, n \in T
      PROVE  n + 1 \in T
  <2> SUFFICES ASSUME n + 1 <= N
               PROVE  W[n + 1] \in Seq(Entries) /\ Of(W[n + 1]) \subseteq S
    OBVIOUS
  <2> DEFINE t == Listed(yaml.with, s[n + 1])
  <2>1. n + 1 \in 0..N /\ n + 1 # 0 /\ (n + 1) - 1 = n /\ n + 1 \in 1..N
    BY <1>6
  <2>2. s[n + 1] \in Apps /\ s[n + 1] \in ToSet(s)
    BY <1>1, <2>1 DEF ToSet
  <2>3. t \in Seq(Entries) /\ Of(t) \subseteq S
    BY <2>2, YamlFacts DEF Named
  <2>4. W[n + 1] = W[n] \o t
    BY <1>7, <2>1
  <2> HIDE DEF t, S
  <2>5. W[n] \in Seq(Entries) /\ Of(W[n]) \subseteq S
    BY <1>6, <1>9
  <2>6. Of(W[n] \o t) \subseteq Of(W[n]) \cup Of(t) /\ W[n] \o t \in Seq(Entries)
    BY <2>3, <2>5, OfBoth
  <2> QED
    BY <2>3, <2>4, <2>5, <2>6
<1>10. N \in T
  <2> HIDE DEF T, N
  <2> QED
    BY <1>6, <1>8, <1>9, SetInduction
<1> HIDE DEF S
<1>11. WithEntries \in Seq(Entries) /\ Of(WithEntries) \subseteq S
  BY <1>5, <1>6, <1>10
<1> QED
  BY <1>11 DEF S

\* Application::par and sup are null, or an application.
LEMMA NoAppFacts == NoApp \notin Apps
<1> SUFFICES ASSUME NoApp \in Apps
             PROVE  FALSE
  OBVIOUS
<1>1. PICK q \in Projects, p \in Profiles : NoApp = <<q, p>>
  BY DEF Apps
<1>2. Len(<<q, p>>) = 2 /\ Len(NoApp) = 0
  BY DEF NoApp
<1> QED
  BY <1>1, <1>2

\* What hangs on the yaml files only does not change.
LEMMA Static ==
  ASSUME yaml' = yaml
  PROVE  /\ \A a : Lineage(a)' = Lineage(a) /\ HasSuper(a)' = HasSuper(a) /\ SuperOf(a)' = SuperOf(a)
         /\ \A q : Validation(q)' = Validation(q)
         /\ Needs' = Needs /\ Withs' = Withs /\ Supers' = Supers /\ All' = All /\ There' = There
         /\ SuperLoops' = SuperLoops
         /\ \A a : WithLoop(a)' = WithLoop(a)
         /\ Sane' = Sane
<1> USE DEF HasParent, ParentOf, HasSuper, SuperOf, Listed
<1>1. \A a : Lineage(a)' = Lineage(a) /\ HasSuper(a)' = HasSuper(a) /\ SuperOf(a)' = SuperOf(a)
  BY SMT DEF Lineage
<1>2. \A q : Validation(q)' = Validation(q)
  BY SMT DEF Validation, Climb, Lineage
<1>3. Needs' = Needs /\ Withs' = Withs /\ Supers' = Supers /\ All' = All
  BY SMT DEF Needs, Withs, Supers, All, Named, Selfs, Lineage
<1>4. There' = There
  BY SMT, <1>3 DEF There
<1>5. SuperLoops' = SuperLoops
  BY SMT, <1>3, <1>4 DEF SuperLoops
<1>6. \A a : WithLoop(a)' = WithLoop(a)
  BY SMT, <1>3 DEF WithLoop
<1>7. Sane' = Sane
  BY SMT, <1>2, <1>3, <1>4 DEF Sane, ParentsFine
<1> QED
  BY <1>1, <1>2, <1>3, <1>4, <1>5, <1>6, <1>7

\* What entries name are applications.
LEMMA OfFacts ==
  ASSUME NEW es \in Seq(Entries)
  PROVE  Of(es) \subseteq Apps
<1> SUFFICES ASSUME NEW e \in ToSet(es), NEW p \in ToSet(e[2])
             PROVE  <<e[1], p>> \in Apps
  BY DEF Of
<1>1. e \in Entries
  BY DEF ToSet
<1>2. e[1] \in Projects /\ e[2] \in Seq(Profiles)
  BY <1>1 DEF Entries
<1>3. p \in Profiles
  BY <1>2 DEF ToSet
<1> QED
  BY <1>2, <1>3 DEF Apps

\* A lineage is of applications of one project, the profile itself first.
LEMMA LineageApps ==
  ASSUME yaml \in Yamls, NEW a \in Apps
  PROVE  /\ Lineage(a) \in Seq(Apps)
         /\ Len(Lineage(a)) \in Nat /\ Len(Lineage(a)) >= 1
         /\ Lineage(a)[1] = a
         /\ \A n \in 1..Len(Lineage(a)) : /\ Lineage(a)[n] \in Apps
                                          /\ Lineage(a)[n][1] = a[1]
                                          /\ Lineage(a)[n] \in ToSet(Lineage(a))
         /\ \A b \in ToSet(Lineage(a)) : b \in Apps /\ b[1] = a[1]
<1>1. Steps(a, Lineage(a))
  BY LineageFacts
<1> HIDE DEF Lineage
<1>2. /\ Lineage(a) \in Seq(Apps)
      /\ Len(Lineage(a)) \in Nat /\ Len(Lineage(a)) >= 1
      /\ Lineage(a)[1] = a
      /\ \A n \in 1..Len(Lineage(a)) : Lineage(a)[n] \in Apps /\ Lineage(a)[n][1] = a[1]
  BY <1>1 DEF Steps
<1>3. ToSet(Lineage(a)) = {Lineage(a)[n] : n \in 1..Len(Lineage(a))}
  BY <1>2 DEF ToSet
<1> QED
  BY <1>2, <1>3

\* The edges of the yaml files are graphs, and do not leave what there is.
LEMMA YamlGraphs ==
  ASSUME yaml \in Yamls
  PROVE  /\ Needs \in Graph /\ Withs \in Graph /\ Supers \in Graph /\ All \in Graph
         /\ There \in SUBSET Apps
         /\ ToSet(yaml.roots) \subseteq There
         /\ \A a \in Apps : All[a] = Needs[a] \cup Withs[a] \cup Supers[a]
         /\ \A a \in There : All[a] \subseteq There
         /\ \A a \in Apps : HasSuper(a) => SuperOf(a) \in Apps /\ Supers[a] = {SuperOf(a)} /\ SuperOf(a) \in All[a]
         /\ \A a \in Apps : ~HasSuper(a) => Supers[a] = {}
<1>1. ASSUME NEW a \in Apps
      PROVE  Named(yaml.dep, a) \subseteq Apps /\ Named(yaml.with, a) \subseteq Apps /\ Selfs(a) \subseteq Apps
  <2>1. \A b \in ToSet(Lineage(a)) : Of(Listed(yaml.dep, b)) \subseteq Apps /\ Of(Listed(yaml.with, b)) \subseteq Apps
    <3> SUFFICES ASSUME NEW b \in ToSet(Lineage(a))
                 PROVE  Of(Listed(yaml.dep, b)) \subseteq Apps /\ Of(Listed(yaml.with, b)) \subseteq Apps
      OBVIOUS
    <3>1. b \in Apps
      BY LineageApps
    <3>2. Listed(yaml.dep, b) \in Seq(Entries) /\ Listed(yaml.with, b) \in Seq(Entries)
      BY <3>1, YamlFacts
    <3> QED
      BY <3>2, OfFacts
  <2>2. \A b \in ToSet(Lineage(a)) : ToSet(Listed(yaml.self, b)) \subseteq Profiles
    <3> SUFFICES ASSUME NEW b \in ToSet(Lineage(a))
                 PROVE  ToSet(Listed(yaml.self, b)) \subseteq Profiles
      OBVIOUS
    <3>1. b \in Apps
      BY LineageApps
    <3>2. Listed(yaml.self, b) \in Seq(Profiles \ {0})
      BY <3>1, YamlFacts
    <3> QED
      BY <3>2 DEF ToSet
  <2>3. a[1] \in Projects
    BY DEF Apps
  <2>4. Selfs(a) \subseteq Apps
    BY <2>2, <2>3 DEF Selfs, Apps
  <2> QED
    BY <2>1, <2>4 DEF Named
<1>2. Of(yaml.cli) \subseteq Apps /\ ToSet(yaml.roots) \subseteq Apps
  <2>1. yaml.cli \in Seq(Entries) /\ yaml.roots \in Seq(Apps)
    BY YamlsAssumption
  <2> QED
    BY <2>1, OfFacts DEF ToSet
<1>3. \A a \in Apps : HasSuper(a) => SuperOf(a) \in Apps
  BY YamlFacts
<1>4. Needs \in Graph
  BY <1>1 DEF Needs, Graph
<1>5. Withs \in Graph
  BY <1>1, <1>2 DEF Withs, Graph
<1>6. Supers \in Graph
  BY <1>3 DEF Supers, Graph
<1>7. All \in Graph /\ \A a \in Apps : All[a] = Needs[a] \cup Withs[a] \cup Supers[a]
  BY <1>4, <1>5, <1>6 DEF All, Graph
<1>8. /\ There \in SUBSET Apps
      /\ ToSet(yaml.roots) \subseteq There
      /\ Closed(All, There)
  BY <1>2, <1>7, ClosureFacts DEF There
<1>9. \A a \in Apps : /\ HasSuper(a) => Supers[a] = {SuperOf(a)}
                      /\ ~HasSuper(a) => Supers[a] = {}
  BY DEF Supers
<1> QED
  BY <1>3, <1>4, <1>5, <1>6, <1>7, <1>8, <1>9 DEF Closed

-----------------------------------------------------------------------------
(* The stack.                                                              *)

Where == {"super", "inherit", "validate", "take", "self", "each"}
Late  == {"take", "self", "each"}
Frame == [app : Apps, at : Where, n : Nat, with : BOOLEAN, i : Nat \ {0}, apps : SUBSET Apps]

\* A call of setup() starts with setSuper.
LEMMA CallFacts ==
  ASSUME NEW b \in Apps
  PROVE  /\ Call(b) \in Frame
         /\ Call(b).app = b /\ Call(b).at = "super" /\ Call(b).n = 1 /\ Call(b).with = FALSE
         /\ Call(b).i = 1 /\ Call(b).apps = {}
BY DEF Call, Frame, Where

\* The running call goes on as f, calls setup of b and goes on as f then, or
\* comes to its end.
Moved(f) ==
  /\ stack' \in Seq(Frame) /\ Len(stack') = Len(stack)
  /\ stack'[1] = f
  /\ \A i \in 2..Len(stack) : stack'[i] = stack[i]
  /\ ToSet(stack') = {f} \cup ToSet(Tail(stack))

Called(b, f) ==
  /\ stack' \in Seq(Frame) /\ Len(stack') = Len(stack) + 1
  /\ stack'[1] = Call(b) /\ stack'[2] = f
  /\ \A i \in 2..Len(stack) : stack'[i + 1] = stack[i]
  /\ ToSet(stack') = {Call(b), f} \cup ToSet(Tail(stack))

Left ==
  /\ stack' \in Seq(Frame) /\ Len(stack') = Len(stack) - 1
  /\ \A i \in 1..Len(stack) - 1 : stack'[i] = stack[i + 1]
  /\ ToSet(stack') = ToSet(Tail(stack))

\* The elements of a sequence.
LEMMA SetOf ==
  ASSUME NEW S, NEW s \in Seq(S)
  PROVE  ToSet(s) = {s[i] : i \in 1..Len(s)}
BY DEF ToSet

\* One put in front of a sequence.
LEMMA ConsSet ==
  ASSUME NEW S, NEW s \in Seq(S), NEW x \in S
  PROVE  /\ <<x>> \o s \in Seq(S) /\ Len(<<x>> \o s) = Len(s) + 1
         /\ (<<x>> \o s)[1] = x
         /\ \A i \in 1..Len(s) : (<<x>> \o s)[i + 1] = s[i]
         /\ ToSet(<<x>> \o s) = {x} \cup ToSet(s)
<1> DEFINE t == <<x>> \o s
<1>1. <<x>> \in Seq(S) /\ Len(<<x>>) = 1 /\ <<x>>[1] = x
  OBVIOUS
<1>2. t \in Seq(S) /\ Len(t) = Len(s) + 1 /\ Len(s) \in Nat
  BY <1>1
<1>3. t[1] = x
  BY <1>1, <1>2
<1>4. \A i \in 1..Len(s) : t[i + 1] = s[i]
  <2> SUFFICES ASSUME NEW i \in 1..Len(s)
               PROVE  t[i + 1] = s[i]
    OBVIOUS
  <2>1. i + 1 \in 1..Len(s) + 1 /\ ~(i + 1 <= 1) /\ (i + 1) - 1 = i
    BY <1>2
  <2> QED
    BY <1>1, <1>2, <2>1
<1> HIDE DEF t
<1>5. ToSet(t) = {t[i] : i \in 1..Len(s) + 1} /\ ToSet(s) = {s[i] : i \in 1..Len(s)}
  BY <1>2, SetOf
<1>6. \A i \in 1..Len(s) + 1 : i = 1 \/ (i - 1 \in 1..Len(s) /\ (i - 1) + 1 = i)
  BY <1>2
<1>7. 1 \in 1..Len(s) + 1 /\ \A i \in 1..Len(s) : i + 1 \in 1..Len(s) + 1
  BY <1>2
<1>8. ToSet(t) \subseteq {x} \cup ToSet(s)
  <2> SUFFICES ASSUME NEW i \in 1..Len(s) + 1
               PROVE  t[i] \in {x} \cup ToSet(s)
    BY <1>5
  <2>1. i # 1 => t[i] = s[i - 1]
    BY <1>4, <1>6
  <2> QED
    BY <1>3, <1>5, <1>6, <2>1
<1>9. {x} \cup ToSet(s) \subseteq ToSet(t)
  BY <1>3, <1>4, <1>5, <1>7
<1> QED
  BY <1>2, <1>3, <1>4, <1>8, <1>9 DEF t

\* One put at the end of a sequence.
LEMMA AppendSet ==
  ASSUME NEW S, NEW s \in Seq(S), NEW x \in S
  PROVE  /\ Append(s, x) \in Seq(S) /\ Len(Append(s, x)) = Len(s) + 1
         /\ \A i \in 1..Len(s) : Append(s, x)[i] = s[i]
         /\ Append(s, x)[Len(s) + 1] = x
         /\ ToSet(Append(s, x)) = ToSet(s) \cup {x}
<1>1. PICK t : t = Append(s, x)
  OBVIOUS
<1>2. /\ t \in Seq(S) /\ Len(t) = Len(s) + 1 /\ Len(s) \in Nat
      /\ \A i \in 1..Len(s) : t[i] = s[i]
      /\ t[Len(s) + 1] = x
  BY <1>1
<1>3. ToSet(t) = {t[i] : i \in 1..Len(s) + 1} /\ ToSet(s) = {s[i] : i \in 1..Len(s)}
  BY <1>2, SetOf
<1>4. /\ \A i \in 1..Len(s) + 1 : i \in 1..Len(s) \/ i = Len(s) + 1
      /\ \A i \in 1..Len(s) : i \in 1..Len(s) + 1
      /\ Len(s) + 1 \in 1..Len(s) + 1
  BY <1>2
<1>5. ToSet(t) = ToSet(s) \cup {x}
  BY <1>2, <1>3, <1>4
<1> QED
  BY <1>1, <1>2, <1>5

\* The running call.
LEMMA TopFacts ==
  ASSUME stack \in Seq(Frame), stack # <<>>
  PROVE  /\ top \in Frame /\ top = stack[1] /\ Len(stack) \in Nat /\ Len(stack) >= 1
         /\ Tail(stack) \in Seq(Frame) /\ Len(Tail(stack)) = Len(stack) - 1
         /\ \A i \in 1..Len(stack) - 1 : Tail(stack)[i] = stack[i + 1]
         /\ ToSet(stack) = {top} \cup ToSet(Tail(stack))
         /\ me \in Apps
<1>1. Len(stack) \in Nat /\ Len(stack) >= 1 /\ top = stack[1] /\ top \in Frame
  BY DEF top
<1>2. /\ Tail(stack) \in Seq(Frame) /\ Len(Tail(stack)) = Len(stack) - 1
      /\ \A i \in 1..Len(stack) - 1 : Tail(stack)[i] = stack[i + 1]
  BY <1>1
<1>3. stack = <<top>> \o Tail(stack)
  BY <1>1
<1>4. ToSet(stack) = {top} \cup ToSet(Tail(stack))
  BY <1>1, <1>2, <1>3, ConsSet
<1>5. me \in Apps
  BY <1>1 DEF me, Frame
<1> QED
  BY <1>1, <1>2, <1>4, <1>5

\* Go moves the running call.
LEMMA MovedFacts ==
  ASSUME stack \in Seq(Frame), stack # <<>>, NEW f \in Frame, stack' = <<f>> \o Tail(stack)
  PROVE  Moved(f)
<1>1. /\ Tail(stack) \in Seq(Frame) /\ Len(Tail(stack)) = Len(stack) - 1 /\ Len(stack) \in Nat /\ Len(stack) >= 1
      /\ \A i \in 1..Len(stack) - 1 : Tail(stack)[i] = stack[i + 1]
  BY TopFacts
<1>2. PICK t \in Seq(Frame) : t = Tail(stack)
  BY <1>1
<1>3. /\ <<f>> \o t \in Seq(Frame) /\ Len(<<f>> \o t) = Len(t) + 1
      /\ (<<f>> \o t)[1] = f
      /\ \A i \in 1..Len(t) : (<<f>> \o t)[i + 1] = t[i]
      /\ ToSet(<<f>> \o t) = {f} \cup ToSet(t)
  BY ConsSet
<1>4. /\ stack' \in Seq(Frame) /\ Len(stack') = Len(t) + 1
      /\ stack'[1] = f
      /\ \A i \in 1..Len(t) : stack'[i + 1] = t[i]
      /\ ToSet(stack') = {f} \cup ToSet(t)
  BY <1>2, <1>3
<1>5. ASSUME NEW i \in 2..Len(stack)
      PROVE  stack'[i] = stack[i]
  <2>1. i - 1 \in 1..Len(stack) - 1 /\ i - 1 \in 1..Len(t) /\ (i - 1) + 1 = i
    BY <1>1, <1>2
  <2> QED
    BY <1>1, <1>2, <1>4, <2>1
<1> QED
  BY <1>1, <1>2, <1>4, <1>5 DEF Moved

\* SetUp calls another.
LEMMA CalledFacts ==
  ASSUME stack \in Seq(Frame), stack # <<>>, NEW b \in Apps, NEW f \in Frame,
         stack' = <<Call(b), f>> \o Tail(stack)
  PROVE  Called(b, f)
<1>1. /\ Tail(stack) \in Seq(Frame) /\ Len(Tail(stack)) = Len(stack) - 1 /\ Len(stack) \in Nat /\ Len(stack) >= 1
      /\ \A i \in 1..Len(stack) - 1 : Tail(stack)[i] = stack[i + 1]
  BY TopFacts
<1>2. PICK t \in Seq(Frame) : t = Tail(stack)
  BY <1>1
<1>3. PICK c \in Frame : c = Call(b)
  BY CallFacts
<1>4. PICK u : u = <<f>> \o t
  OBVIOUS
<1>5. /\ u \in Seq(Frame) /\ Len(u) = Len(t) + 1
      /\ u[1] = f
      /\ \A i \in 1..Len(t) : u[i + 1] = t[i]
      /\ ToSet(u) = {f} \cup ToSet(t)
  BY <1>4, ConsSet
<1>6. /\ <<c>> \o u \in Seq(Frame) /\ Len(<<c>> \o u) = Len(u) + 1
      /\ (<<c>> \o u)[1] = c
      /\ \A i \in 1..Len(u) : (<<c>> \o u)[i + 1] = u[i]
      /\ ToSet(<<c>> \o u) = {c} \cup ToSet(u)
  BY <1>5, ConsSet
<1>7. <<c, f>> \o t = <<c>> \o (<<f>> \o t)
  OBVIOUS
<1>8. stack' = <<c>> \o u
  BY <1>2, <1>3, <1>4, <1>7
<1>9. /\ stack' \in Seq(Frame) /\ Len(stack') = Len(u) + 1
      /\ stack'[1] = c
      /\ \A i \in 1..Len(u) : stack'[i + 1] = u[i]
      /\ ToSet(stack') = {c} \cup ToSet(u)
  BY <1>6, <1>8
<1>10. ASSUME NEW i \in 2..Len(stack)
       PROVE  stack'[i + 1] = stack[i]
  <2>1. i - 1 \in 1..Len(stack) - 1 /\ i - 1 \in 1..Len(t) /\ (i - 1) + 1 = i /\ i \in 1..Len(u)
    BY <1>1, <1>2, <1>5
  <2> QED
    BY <1>1, <1>2, <1>5, <1>9, <2>1
<1>11. stack'[2] = f
  <2>1. 1 \in 1..Len(u) /\ 1 + 1 = 2
    BY <1>5
  <2> QED
    BY <1>5, <1>9, <2>1
<1>12. ToSet(stack') = {Call(b), f} \cup ToSet(Tail(stack))
  BY <1>2, <1>3, <1>5, <1>9
<1>13. Len(stack') = Len(stack) + 1
  BY <1>1, <1>2, <1>5, <1>9
<1> QED
  BY <1>3, <1>9, <1>10, <1>11, <1>12, <1>13 DEF Called

\* The end of a call.
LEMMA LeftFacts ==
  ASSUME stack \in Seq(Frame), stack # <<>>, stack' = Tail(stack)
  PROVE  Left
<1>1. /\ Tail(stack) \in Seq(Frame) /\ Len(Tail(stack)) = Len(stack) - 1
      /\ \A i \in 1..Len(stack) - 1 : Tail(stack)[i] = stack[i + 1]
  BY TopFacts
<1> QED
  BY <1>1 DEF Left

\* The ways the actions change a frame.
Like(g, f, at, n, w, i, s) ==
  g \in Frame /\ g.app = f.app /\ g.at = at /\ g.n = n /\ g.with = w /\ g.i = i /\ g.apps = s

\* A frame at another place.
LEMMA ChangedFacts ==
  ASSUME NEW f \in Frame, NEW x \in Where, NEW n \in Nat, NEW w \in BOOLEAN, NEW y \in Nat \ {0},
         NEW s \in SUBSET Apps
  PROVE  /\ Like([f EXCEPT !.at = x], f, x, f.n, f.with, f.i, f.apps)
         /\ Like([f EXCEPT !.at = x, !.i = y, !.apps = s], f, x, f.n, f.with, y, s)
         /\ Like([f EXCEPT !.i = y, !.apps = s], f, f.at, f.n, f.with, y, s)
         /\ Like([f EXCEPT !.at = x, !.i = y], f, x, f.n, f.with, y, f.apps)
         /\ Like([f EXCEPT !.i = y], f, f.at, f.n, f.with, y, f.apps)
         /\ Like([f EXCEPT !.at = x, !.n = n], f, x, n, f.with, f.i, f.apps)
         /\ Like([f EXCEPT !.at = x, !.with = w], f, x, f.n, w, f.i, f.apps)
BY DEF Like, Frame

\* The frames that the actions make of the running one.
LEMMA FrameFacts ==
  ASSUME NEW f \in Frame, NEW s \in SUBSET Apps, NEW b \in Apps
  PROVE  /\ \A x \in Where : Like([f EXCEPT !.at = x], f, x, f.n, f.with, f.i, f.apps)
         /\ Like([f EXCEPT !.at = "self", !.i = 1, !.apps = s], f, "self", f.n, f.with, 1, s)
         /\ Like([f EXCEPT !.i = @ + 1, !.apps = @ \cup {b}], f, f.at, f.n, f.with, f.i + 1, f.apps \cup {b})
         /\ Like([f EXCEPT !.at = "each", !.i = 1], f, "each", f.n, f.with, 1, f.apps)
         /\ Like([f EXCEPT !.i = @ + 1], f, f.at, f.n, f.with, f.i + 1, f.apps)
         /\ Like([f EXCEPT !.at = "take", !.n = @ + 1], f, "take", f.n + 1, f.with, f.i, f.apps)
         /\ Like([f EXCEPT !.at = "take", !.with = TRUE], f, "take", f.n, TRUE, f.i, f.apps)
<1>1. PICK x \in Where, y \in Where, z \in Where : x = "self" /\ y = "each" /\ z = "take"
  BY DEF Where
<1>2. PICK j \in Nat \ {0} : j = 1
  OBVIOUS
<1>3. /\ f.i + 1 \in Nat \ {0} /\ f.n + 1 \in Nat /\ f.apps \cup {b} \in SUBSET Apps
      /\ f.i \in Nat \ {0} /\ f.n \in Nat /\ f.with \in BOOLEAN /\ f.apps \in SUBSET Apps /\ f.at \in Where
  BY DEF Frame
<1>4. PICK i \in Nat \ {0}, n \in Nat, t \in SUBSET Apps : i = f.i + 1 /\ n = f.n + 1 /\ t = f.apps \cup {b}
  BY <1>3
<1>5. \A u \in Where : Like([f EXCEPT !.at = u], f, u, f.n, f.with, f.i, f.apps)
  BY <1>3, ChangedFacts
<1>6. Like([f EXCEPT !.at = x, !.i = j, !.apps = s], f, x, f.n, f.with, j, s)
  BY ChangedFacts, <1>3
<1>7. Like([f EXCEPT !.i = i, !.apps = t], f, f.at, f.n, f.with, i, t)
  BY ChangedFacts, <1>3
<1>8. Like([f EXCEPT !.at = y, !.i = j], f, y, f.n, f.with, j, f.apps)
  BY ChangedFacts, <1>3
<1>9. Like([f EXCEPT !.i = i], f, f.at, f.n, f.with, i, f.apps)
  BY ChangedFacts, <1>3
<1>10. Like([f EXCEPT !.at = z, !.n = n], f, z, n, f.with, f.i, f.apps)
  BY ChangedFacts, <1>3
<1>11. Like([f EXCEPT !.at = z, !.with = TRUE], f, z, f.n, TRUE, f.i, f.apps)
  BY ChangedFacts, <1>3
<1>12. Like([f EXCEPT !.i = @ + 1, !.apps = @ \cup {b}], f, f.at, f.n, f.with, f.i + 1, f.apps \cup {b})
  <2>1. [f EXCEPT !.i = @ + 1, !.apps = @ \cup {b}] = [f EXCEPT !.i = f.i + 1, !.apps = f.apps \cup {b}]
    BY SMT DEF Frame
  <2> QED
    BY <1>4, <1>7, <2>1
<1>13. Like([f EXCEPT !.at = "take", !.n = @ + 1], f, "take", f.n + 1, f.with, f.i, f.apps)
  <2>1. [f EXCEPT !.at = "take", !.n = @ + 1] = [f EXCEPT !.at = "take", !.n = f.n + 1]
    OBVIOUS
  <2> QED
    BY <1>1, <1>4, <1>10, <2>1
<1>14. Like([f EXCEPT !.at = "self", !.i = 1, !.apps = s], f, "self", f.n, f.with, 1, s)
  BY <1>1, <1>2, <1>6
<1>15. Like([f EXCEPT !.at = "each", !.i = 1], f, "each", f.n, f.with, 1, f.apps)
  BY <1>1, <1>2, <1>8
<1>16. Like([f EXCEPT !.i = @ + 1], f, f.at, f.n, f.with, f.i + 1, f.apps)
  <2>1. [f EXCEPT !.i = @ + 1] = [f EXCEPT !.i = f.i + 1]
    OBVIOUS
  <2> QED
    BY <1>4, <1>9, <2>1
<1>17. Like([f EXCEPT !.at = "take", !.with = TRUE], f, "take", f.n, TRUE, f.i, f.apps)
  BY <1>1, <1>11
<1> QED
  BY <1>5, <1>12, <1>13, <1>14, <1>15, <1>16, <1>17

-----------------------------------------------------------------------------
(* What each action does, with the stack in terms of its frames.           *)

RootKnown ==
  /\ status = "run" /\ stack = <<>> /\ todo # <<>>
  /\ todo' = Tail(todo) /\ ro' = ro \cup {Head(todo)}
  /\ Head(todo) \in memo
  /\ UNCHANGED <<yaml, status, stack, memo, bd, sup, par, deps, ps, incs, filled, main_, early>>

RootNew ==
  /\ status = "run" /\ stack = <<>> /\ todo # <<>>
  /\ todo' = Tail(todo) /\ ro' = ro \cup {Head(todo)}
  /\ Head(todo) \notin memo /\ memo' = memo \cup {Head(todo)}
  /\ stack' = <<Call(Head(todo))>>
  /\ UNCHANGED <<yaml, status, bd, sup, par, deps, ps, incs, filled, main_, early>>

SkipSuper(f) ==
  /\ At("super") /\ (sup[me] # NoApp \/ ~HasSuper(me))
  /\ Moved(f) /\ Like(f, top, "validate", top.n, top.with, top.i, top.apps)
  /\ UNCHANGED <<yaml, status, todo, memo, ro, bd, sup, par, deps, ps, incs, filled, main_, early>>

OwnSuper ==
  /\ At("super") /\ HasSuper(me) /\ SuperOf(me)[1] = me[1]
  /\ status' = "super"
  /\ UNCHANGED <<yaml, todo, stack, memo, ro, bd, sup, par, deps, ps, incs, filled, main_, early>>

SuperThere(f) ==
  /\ At("super") /\ sup[me] = NoApp /\ HasSuper(me) /\ SuperOf(me) \in memo
  /\ Moved(f) /\ Like(f, top, "inherit", top.n, top.with, top.i, top.apps)
  /\ UNCHANGED <<yaml, status, todo, memo, ro, bd, sup, par, deps, ps, incs, filled, main_, early>>

CallSuper(f) ==
  /\ At("super") /\ sup[me] = NoApp /\ HasSuper(me) /\ SuperOf(me) \notin memo
  /\ Called(SuperOf(me), f) /\ Like(f, top, "inherit", top.n, top.with, top.i, top.apps)
  /\ memo' = memo \cup {SuperOf(me)}
  /\ UNCHANGED <<yaml, status, todo, ro, bd, sup, par, deps, ps, incs, filled, main_, early>>

SuperLoop ==
  /\ At("inherit")
  /\ sup' = [sup EXCEPT ![me] = SuperOf(me)]
  /\ \E b \in Chain(sup', SuperOf(me)) : b[1] = me[1]
  /\ status' = "super"
  /\ ps' = [ps EXCEPT ![SuperOf(me)] = @ \cup {SuperOf(me)[1]}]
  /\ UNCHANGED <<yaml, todo, stack, memo, ro, bd, par, deps, incs, filled, main_, early>>

InheritFrom(f) ==
  /\ At("inherit")
  /\ sup' = [sup EXCEPT ![me] = SuperOf(me)]
  /\ ~\E b \in Chain(sup', SuperOf(me)) : b[1] = me[1]
  /\ ps' = [ps EXCEPT ![SuperOf(me)] = @ \cup {SuperOf(me)[1]}, ![me] = Inherited(SuperOf(me))]
  /\ early' = IF SuperOf(me) \in early \/ (HasSuper(SuperOf(me)) /\ sup[SuperOf(me)] = NoApp)
              THEN early \cup {me} ELSE early
  /\ Moved(f) /\ Like(f, top, "validate", top.n, top.with, top.i, top.apps)
  /\ UNCHANGED <<yaml, status, todo, memo, ro, bd, par, deps, incs, filled, main_>>

Validated(f) ==
  /\ At("validate") /\ Validation(me[1]) = "ok"
  /\ ps' = [ps EXCEPT ![me] = @ \cup {me[1]}]
  /\ bd' = bd \cup {me}
  /\ Moved(f) /\ Like(f, top, "take", top.n, top.with, top.i, top.apps)
  /\ UNCHANGED <<yaml, status, todo, memo, ro, sup, par, deps, incs, filled, main_, early>>

NotValid ==
  /\ At("validate") /\ Validation(me[1]) # "ok"
  /\ ps' = [ps EXCEPT ![me] = @ \cup {me[1]}]
  /\ status' = Validation(me[1])
  /\ UNCHANGED <<yaml, todo, stack, memo, ro, bd, sup, par, deps, incs, filled, main_, early>>

\* new: what the list v of me's dependencies gained.
Takes(f, v, new) ==
  /\ At("take")
  /\ Onward(deps[me], v, IF top.with THEN Withs[me] ELSE Needs[me])
  /\ ToSet(v) = ToSet(deps[me]) \cup new
  /\ new \subseteq Apps /\ new \subseteq (IF top.with THEN Withs[me] ELSE Needs[me])
  /\ \A k \in DOMAIN v : k \in DOMAIN deps[me] \/ v[k] \in new
  /\ deps' = [deps EXCEPT ![me] = v]
  /\ memo' = memo \cup new
  /\ par' = IF top.with THEN par ELSE [b \in Apps |-> IF b \in new THEN me ELSE par[b]]
  /\ Moved(f) /\ Like(f, top, "self", top.n, top.with, 1, new)
  /\ UNCHANGED <<yaml, status, todo, ro, bd, sup, ps, incs, filled, main_, early>>

\* The self: entry that a frame at "self" has come to.
Self(f, b) ==
  /\ f.at = "self" /\ ~f.with
  /\ f.i \in DOMAIN Listed(yaml.self, Lineage(f.app)[f.n])
  /\ b = <<f.app[1], Listed(yaml.self, Lineage(f.app)[f.n])[f.i]>>

SelfCalls(b) ==
  /\ At("self") /\ Self(top, b) /\ b \in Apps /\ b \notin memo
  /\ memo' = memo \cup {b}
  /\ Called(b, top)
  /\ UNCHANGED <<yaml, status, todo, ro, bd, sup, par, deps, ps, incs, filled, main_, early>>

SelfTakes(f, b) ==
  /\ At("self") /\ Self(top, b) /\ b \in memo
  /\ par' = [par EXCEPT ![b] = me]
  /\ deps' = [deps EXCEPT ![me] = Append(@, b)]
  /\ Moved(f) /\ Like(f, top, "self", top.n, top.with, top.i + 1, top.apps \cup {b})
  /\ UNCHANGED <<yaml, status, todo, memo, ro, bd, sup, ps, incs, filled, main_, early>>

Stopped ==
  /\ At("self")
  /\ \/ Endless(par, me) /\ status' = "overflow"
     \/ OnChain /\ status' = "cycle"
  /\ UNCHANGED <<yaml, todo, stack, memo, ro, bd, sup, par, deps, ps, incs, filled, main_, early>>

Checked(f) ==
  /\ At("self") /\ top.i \notin DOMAIN Selves /\ ~Endless(par, me) /\ ~OnChain
  /\ Moved(f) /\ Like(f, top, "each", top.n, top.with, 1, top.apps)
  /\ UNCHANGED <<yaml, status, todo, memo, ro, bd, sup, par, deps, ps, incs, filled, main_, early>>

EachCalls(f, b) ==
  /\ At("each") /\ top.i \in DOMAIN deps[me] /\ b = deps[me][top.i] /\ b \notin bd
  /\ Called(b, f) /\ Like(f, top, "each", top.n, top.with, top.i + 1, top.apps)
  /\ UNCHANGED <<yaml, status, todo, memo, ro, bd, sup, par, deps, ps, incs, filled, main_, early>>

EachSkips(f) ==
  /\ At("each") /\ top.i \in DOMAIN deps[me] /\ deps[me][top.i] \in bd
  /\ Moved(f) /\ Like(f, top, "each", top.n, top.with, top.i + 1, top.apps)
  /\ UNCHANGED <<yaml, status, todo, memo, ro, bd, sup, par, deps, ps, incs, filled, main_, early>>

NodeDone(f) ==
  /\ At("each") /\ top.i \notin DOMAIN deps[me] /\ ~top.with
  /\ incs' = [incs EXCEPT ![me] = @ \cup {me}]
  /\ filled' = IF top.n = 1 THEN [filled EXCEPT ![me] = @ + 1] ELSE filled
  /\ Moved(f)
  /\ \/ top.n < Len(Lineage(me)) /\ Like(f, top, "take", top.n + 1, top.with, top.i, top.apps)
     \/ Like(f, top, "take", top.n, TRUE, top.i, top.apps)
  /\ UNCHANGED <<yaml, status, todo, memo, ro, bd, sup, par, deps, ps, main_, early>>

Ends ==
  /\ At("each") /\ top.i \notin DOMAIN deps[me] /\ top.with
  /\ incs' = [incs EXCEPT ![me] = Public]
  /\ main_' = IF par[me] = NoApp /\ (me \in main_ \/ HasMain) THEN main_ \cup {me} ELSE main_ \ {me}
  /\ Left
  /\ UNCHANGED <<yaml, status, todo, memo, ro, bd, sup, par, deps, ps, filled, early>>

\* What the variables hold.
Fits(f) ==
  /\ f.app \in memo /\ f.apps \subseteq memo
  /\ f.n \in 1..Len(Lineage(f.app))
  /\ f.at \in Late => f.app \in bd
  /\ f.at \notin Late => f.n = 1 /\ ~f.with
  /\ f.at = "inherit" => HasSuper(f.app)

Typed ==
  /\ yaml \in Yamls
  /\ status \in {"run", "done", "cycle", "super", "parents", "overflow"}
  /\ todo \in Seq(Apps) /\ ToSet(todo) \subseteq ToSet(yaml.roots) /\ ro \subseteq ToSet(yaml.roots)
  /\ stack \in Seq(Frame) /\ \A f \in ToSet(stack) : Fits(f)
  /\ memo \in SUBSET Apps /\ ro \in SUBSET memo /\ bd \in SUBSET memo
  /\ \A a \in bd : Validation(a[1]) = "ok"
  /\ sup \in [Apps -> Apps \cup {NoApp}]
  /\ par \in [Apps -> Apps \cup {NoApp}]
  /\ deps \in [Apps -> Seq(Apps)] /\ \A a \in Apps : ToSet(deps[a]) \subseteq memo
  /\ ps \in [Apps -> SUBSET Projects]
  /\ incs \in [Apps -> SUBSET Apps]
  /\ filled \in [Apps -> Nat]
  /\ main_ \in SUBSET memo /\ early \in SUBSET memo

\* What is known of the running call.
LEMMA Running ==
  ASSUME Typed, NEW where, At(where)
  PROVE  /\ status = "run" /\ stack # <<>> /\ top.at = where
         /\ stack \in Seq(Frame) /\ top \in Frame /\ top = stack[1]
         /\ Len(stack) \in Nat /\ Len(stack) >= 1
         /\ ToSet(stack) = {top} \cup ToSet(Tail(stack))
         /\ me \in Apps /\ me = top.app /\ me \in memo /\ Fits(top)
<1>1. stack \in Seq(Frame) /\ stack # <<>> /\ status = "run" /\ top.at = where
  BY DEF Typed, At
<1>2. /\ top \in Frame /\ top = stack[1] /\ Len(stack) \in Nat /\ Len(stack) >= 1
      /\ ToSet(stack) = {top} \cup ToSet(Tail(stack))
      /\ me \in Apps
  BY <1>1, TopFacts
<1>3. Fits(top)
  BY <1>2 DEF Typed
<1> QED
  BY <1>1, <1>2, <1>3 DEF Fits, me

\* setSuper, up to the properties.
LEMMA SetSuperDoes ==
  ASSUME Typed, SetSuper
  PROVE  OwnSuper \/ \E f : SkipSuper(f) \/ SuperThere(f) \/ CallSuper(f)
<1>1. At("super")
  BY DEF SetSuper
<1>2. stack \in Seq(Frame) /\ stack # <<>> /\ top \in Frame /\ me \in Apps /\ yaml \in Yamls
  BY <1>1, Running DEF Typed
<1>3. /\ Like([top EXCEPT !.at = "validate"], top, "validate", top.n, top.with, top.i, top.apps)
      /\ Like([top EXCEPT !.at = "inherit"], top, "inherit", top.n, top.with, top.i, top.apps)
  <2>1. "validate" \in Where /\ "inherit" \in Where
    BY DEF Where
  <2> QED
    BY <1>2, <2>1, FrameFacts
<1>4. PICK g, h : g = [top EXCEPT !.at = "validate"] /\ h = [top EXCEPT !.at = "inherit"]
  OBVIOUS
<1>5. g \in Frame /\ h \in Frame
  BY <1>3, <1>4 DEF Like
<1>6. CASE GoTo("validate") /\ (sup[me] # NoApp \/ ~HasSuper(me)) /\ UNCHANGED <<status, memo>>
  <2>1. stack' = <<g>> \o Tail(stack)
    BY <1>4, <1>6 DEF GoTo, Go
  <2>2. Moved(g)
    BY <1>2, <1>5, <2>1, MovedFacts
  <2>3. SkipSuper(g)
    BY <1>1, <1>3, <1>4, <1>6, <2>2 DEF SkipSuper, SetSuper
  <2> QED
    BY <2>3
<1>7. CASE sup[me] = NoApp /\ HasSuper(me) /\ SuperOf(me)[1] = me[1] /\ status' = "super" /\ UNCHANGED <<stack, memo>>
  BY <1>1, <1>7 DEF OwnSuper, SetSuper
<1>8. CASE /\ sup[me] = NoApp /\ HasSuper(me)
           /\ memo' = memo \cup {SuperOf(me)}
           /\ IF SuperOf(me) \in memo
              THEN GoTo("inherit")
              ELSE SetUp(SuperOf(me), [top EXCEPT !.at = "inherit"])
           /\ UNCHANGED status
  <2>1. SuperOf(me) \in Apps
    BY <1>2, <1>8, YamlFacts
  <2>2. CASE SuperOf(me) \in memo
    <3>1. stack' = <<h>> \o Tail(stack)
      BY <1>4, <1>8, <2>2 DEF GoTo, Go
    <3>2. Moved(h)
      BY <1>2, <1>5, <3>1, MovedFacts
    <3>3. memo' = memo
      BY <1>8, <2>2
    <3>4. SuperThere(h)
      BY <1>1, <1>3, <1>4, <1>8, <2>2, <3>2, <3>3 DEF SuperThere, SetSuper
    <3> QED
      BY <3>4
  <2>3. CASE SuperOf(me) \notin memo
    <3>1. stack' = <<Call(SuperOf(me)), h>> \o Tail(stack)
      BY <1>4, <1>8, <2>3 DEF SetUp
    <3>2. Called(SuperOf(me), h)
      BY <1>2, <1>5, <2>1, <3>1, CalledFacts
    <3>3. CallSuper(h)
      BY <1>1, <1>3, <1>4, <1>8, <2>3, <3>2 DEF CallSuper, SetSuper
    <3> QED
      BY <3>3
  <2> QED
    BY <2>2, <2>3
<1> QED
  BY <1>6, <1>7, <1>8 DEF SetSuper

\* The rest of setSuper.
LEMMA InheritDoes ==
  ASSUME Typed, Inherit
  PROVE  SuperLoop \/ \E f : InheritFrom(f)
<1>1. At("inherit")
  BY DEF Inherit
<1>2. stack \in Seq(Frame) /\ stack # <<>> /\ top \in Frame /\ me \in Apps
  BY <1>1, Running
<1>3. Like([top EXCEPT !.at = "validate"], top, "validate", top.n, top.with, top.i, top.apps)
  <2>1. "validate" \in Where
    BY DEF Where
  <2> QED
    BY <1>2, <2>1, FrameFacts
<1>4. PICK g : g = [top EXCEPT !.at = "validate"]
  OBVIOUS
<1>5. g \in Frame
  BY <1>3, <1>4 DEF Like
<1>6. CASE \E b \in Chain(sup', SuperOf(me)) : b[1] = me[1]
  BY <1>1, <1>6 DEF SuperLoop, Inherit
<1>7. CASE ~\E b \in Chain(sup', SuperOf(me)) : b[1] = me[1]
  <2>1. stack' = <<g>> \o Tail(stack)
    BY <1>4, <1>7 DEF GoTo, Go, Inherit
  <2>2. Moved(g)
    BY <1>2, <1>5, <2>1, MovedFacts
  <2>3. InheritFrom(g)
    BY <1>1, <1>3, <1>4, <1>7, <2>2 DEF InheritFrom, Inherit
  <2> QED
    BY <2>3
<1> QED
  BY <1>6, <1>7

\* preSetupValidation and buildDir().
LEMMA ValidateDoes ==
  ASSUME Typed, Validate
  PROVE  NotValid \/ \E f : Validated(f)
<1>1. At("validate")
  BY DEF Validate
<1>2. stack \in Seq(Frame) /\ stack # <<>> /\ top \in Frame /\ me \in Apps
  BY <1>1, Running
<1>3. Like([top EXCEPT !.at = "take"], top, "take", top.n, top.with, top.i, top.apps)
  <2>1. "take" \in Where
    BY DEF Where
  <2> QED
    BY <1>2, <2>1, FrameFacts
<1>4. PICK g : g = [top EXCEPT !.at = "take"]
  OBVIOUS
<1>5. g \in Frame
  BY <1>3, <1>4 DEF Like
<1>6. CASE Validation(me[1]) # "ok"
  BY <1>1, <1>6 DEF NotValid, Validate
<1>7. CASE Validation(me[1]) = "ok"
  <2>1. stack' = <<g>> \o Tail(stack)
    BY <1>4, <1>7 DEF GoTo, Go, Validate
  <2>2. Moved(g)
    BY <1>2, <1>5, <2>1, MovedFacts
  <2>3. Validated(g)
    BY <1>1, <1>3, <1>4, <1>7, <2>2 DEF Validated, Validate
  <2> QED
    BY <2>3
<1> QED
  BY <1>6, <1>7

\* Application::CREATE.
LEMMA CreateRootDoes ==
  ASSUME Typed, CreateRoot
  PROVE  RootKnown \/ RootNew
<1>1. CASE Head(todo) \in memo
  <2>1. memo' = memo
    BY <1>1 DEF CreateRoot
  <2> QED
    BY <1>1, <2>1 DEF CreateRoot, RootKnown
<1>2. CASE Head(todo) \notin memo
  BY <1>2 DEF CreateRoot, RootNew
<1> QED
  BY <1>1, <1>2

\* The profile whose lists a frame reads, and its self: entries.
LEMMA NodeFacts ==
  ASSUME Typed, NEW f \in ToSet(stack)
  PROVE  /\ f \in Frame /\ f.app \in Apps /\ f.app \in memo
         /\ Lineage(f.app)[f.n] \in Apps /\ Lineage(f.app)[f.n] \in ToSet(Lineage(f.app))
         /\ Lineage(f.app)[f.n][1] = f.app[1]
         /\ Listed(yaml.self, Lineage(f.app)[f.n]) \in Seq(Profiles \ {0})
         /\ \A k \in DOMAIN Listed(yaml.self, Lineage(f.app)[f.n]) :
              /\ <<f.app[1], Listed(yaml.self, Lineage(f.app)[f.n])[k]>> \in Apps
              /\ <<f.app[1], Listed(yaml.self, Lineage(f.app)[f.n])[k]>> \in Needs[f.app]
<1>1. f \in Frame /\ Fits(f) /\ yaml \in Yamls /\ memo \subseteq Apps
  <2>1. stack \in Seq(Frame)
    BY DEF Typed
  <2>2. ToSet(stack) = {stack[i] : i \in 1..Len(stack)}
    BY <2>1, SetOf
  <2> QED
    BY <2>1, <2>2 DEF Typed
<1>2. f.app \in memo /\ f.app \in Apps /\ f.n \in 1..Len(Lineage(f.app))
  BY <1>1 DEF Fits
<1>0. PICK a \in Apps : a = f.app
  BY <1>2
<1>3. PICK b : a = f.app /\ b = Lineage(f.app)[f.n]
  BY <1>0
<1>4. b \in Apps /\ b \in ToSet(Lineage(a)) /\ b[1] = a[1]
  BY <1>1, <1>2, <1>3, LineageApps
<1>5. Listed(yaml.self, b) \in Seq(Profiles \ {0})
  BY <1>1, <1>4, YamlFacts
<1>6. ASSUME NEW k \in DOMAIN Listed(yaml.self, b)
      PROVE  <<a[1], Listed(yaml.self, b)[k]>> \in Apps /\ <<a[1], Listed(yaml.self, b)[k]>> \in Needs[a]
  <2>1. Listed(yaml.self, b)[k] \in Profiles /\ Listed(yaml.self, b)[k] \in ToSet(Listed(yaml.self, b))
    BY <1>5 DEF ToSet
  <2>2. a[1] \in Projects
    BY DEF Apps
  <2>3. <<a[1], Listed(yaml.self, b)[k]>> \in Selfs(a)
    BY <1>4, <2>1 DEF Selfs
  <2>4. Needs[a] = Named(yaml.dep, a) \cup Selfs(a)
    BY DEF Needs
  <2> QED
    BY <2>1, <2>2, <2>3, <2>4 DEF Apps
<1> QED
  BY <1>1, <1>2, <1>3, <1>4, <1>5, <1>6

\* The first loop.
LEMMA TakeDoes ==
  ASSUME Typed, Take
  PROVE  \E f, v, new : Takes(f, v, new)
<1>1. At("take")
  BY DEF Take
<1>2. /\ stack \in Seq(Frame) /\ stack # <<>> /\ top \in Frame /\ me \in Apps /\ me = top.app
      /\ top \in ToSet(stack)
  BY <1>1, Running
<1>3. /\ yaml \in Yamls /\ ro \subseteq ToSet(yaml.roots) /\ deps[me] \in Seq(Apps)
      /\ deps \in [Apps -> Seq(Apps)]
  BY <1>2 DEF Typed
<1>4. PICK es : es = IF top.with THEN WithEntries ELSE Listed(yaml.dep, node)
  OBVIOUS
<1>5. PICK S : S = IF top.with THEN Withs[me] ELSE Needs[me]
  OBVIOUS
<1>6. es \in Seq(Entries) /\ Of(es) \subseteq S
  <2>1. CASE top.with
    <3>1. /\ WithEntries \in Seq(Entries)
          /\ Of(WithEntries) \subseteq Named(yaml.with, me) \cup (IF me \in ro THEN Of(yaml.cli) ELSE {})
      BY <1>2, <1>3, WithEntriesFacts
    <3>2. Withs[me] = Named(yaml.with, me) \cup (IF me \in ToSet(yaml.roots) THEN Of(yaml.cli) ELSE {})
      BY <1>2 DEF Withs
    <3> QED
      BY <1>3, <1>4, <1>5, <2>1, <3>1, <3>2
  <2>2. CASE ~top.with
    <3>1. node \in Apps /\ node \in ToSet(Lineage(me))
      BY <1>2, NodeFacts DEF node
    <3>2. Listed(yaml.dep, node) \in Seq(Entries)
      BY <1>3, <3>1, YamlFacts
    <3>3. Of(Listed(yaml.dep, node)) \subseteq Named(yaml.dep, me)
      BY <3>1 DEF Named
    <3>4. Needs[me] = Named(yaml.dep, me) \cup Selfs(me)
      BY <1>2 DEF Needs
    <3> QED
      BY <1>4, <1>5, <2>2, <3>2, <3>3, <3>4
  <2> QED
    BY <2>1, <2>2
<1>7. PICK v : v = Popped(deps[me], es)
  OBVIOUS
<1>8. Onward(deps[me], v, S)
  BY <1>3, <1>6, <1>7, PoppedFacts
<1>9. PICK new : new = ToSet(SubSeq(v, Len(deps[me]) + 1, Len(v)))
  OBVIOUS
<1>10. /\ new \subseteq S \cap Apps /\ ToSet(v) = ToSet(deps[me]) \cup new
       /\ \A k \in DOMAIN v : k \in DOMAIN deps[me] \/ v[k] \in new
  BY <1>3, <1>8, <1>9, NewFacts
<1>11. /\ deps' = [deps EXCEPT ![me] = v]
       /\ memo' = memo \cup new
       /\ par' = IF top.with THEN par ELSE ParOf(new)
       /\ stack' = <<[top EXCEPT !.at = "self", !.i = 1, !.apps = new]>> \o Tail(stack)
       /\ UNCHANGED <<yaml, status, todo, ro, bd, sup, ps, incs, filled, main_, early>>
  BY <1>4, <1>7, <1>9 DEF Take, Go
<1>12. PICK g : g = [top EXCEPT !.at = "self", !.i = 1, !.apps = new]
  OBVIOUS
<1>13. Like(g, top, "self", top.n, top.with, 1, new)
  BY <1>2, <1>10, <1>12, FrameFacts
<1>14. Moved(g)
  <2>1. g \in Frame
    BY <1>13 DEF Like
  <2> QED
    BY <1>2, <1>11, <1>12, <2>1, MovedFacts
<1>15. Takes(g, v, new)
  BY <1>1, <1>5, <1>8, <1>10, <1>11, <1>13, <1>14 DEF Takes, ParOf
<1> QED
  BY <1>15

\* The self: entry that is to be taken.
LEMMA SelvesFacts ==
  ASSUME Typed, At("self"), top.i \in DOMAIN Selves, NEW b, b = <<me[1], Selves[top.i]>>
  PROVE  Self(top, b) /\ b \in Apps /\ b \in Needs[me]
<1>1. top \in ToSet(stack) /\ top.at = "self" /\ me = top.app
  BY Running
<1>2. ~top.with
  BY DEF Selves
<1>3. Selves = Listed(yaml.self, Lineage(top.app)[top.n])
  BY <1>1, <1>2 DEF Selves, node
<1> QED
  BY <1>1, <1>2, <1>3, NodeFacts DEF Self

\* The self: loop, when it sets one up.
LEMMA SelfSetUpDoes ==
  ASSUME Typed, SelfSetUp
  PROVE  \E b : SelfCalls(b)
<1>1. At("self") /\ top.i \in DOMAIN Selves
  BY DEF SelfSetUp
<1>2. PICK b : b = <<me[1], Selves[top.i]>>
  OBVIOUS
<1>3. Self(top, b) /\ b \in Apps
  BY <1>1, <1>2, SelvesFacts
<1>4. b \notin memo /\ memo' = memo \cup {b} /\ stack' = <<Call(b), top>> \o Tail(stack)
  BY <1>2 DEF SelfSetUp, SetUp
<1>5. stack \in Seq(Frame) /\ stack # <<>> /\ top \in Frame
  BY <1>1, Running
<1>6. Called(b, top)
  BY <1>3, <1>4, <1>5, CalledFacts
<1>7. SelfCalls(b)
  BY <1>1, <1>3, <1>4, <1>6 DEF SelfCalls, SelfSetUp
<1> QED
  BY <1>7

\* The self: loop, when it takes one.
LEMMA SelfTakeDoes ==
  ASSUME Typed, SelfTake
  PROVE  \E f, b : SelfTakes(f, b)
<1>1. At("self") /\ top.i \in DOMAIN Selves
  BY DEF SelfTake
<1>2. PICK b : b = <<me[1], Selves[top.i]>>
  OBVIOUS
<1>3. Self(top, b) /\ b \in Apps
  BY <1>1, <1>2, SelvesFacts
<1>4. /\ b \in memo
      /\ par' = [par EXCEPT ![b] = me]
      /\ deps' = [deps EXCEPT ![me] = Append(@, b)]
      /\ stack' = <<[top EXCEPT !.i = @ + 1, !.apps = @ \cup {b}]>> \o Tail(stack)
  BY <1>2 DEF SelfTake, Go
<1>5. stack \in Seq(Frame) /\ stack # <<>> /\ top \in Frame /\ top.at = "self"
  BY <1>1, Running
<1>6. PICK g : g = [top EXCEPT !.i = @ + 1, !.apps = @ \cup {b}]
  OBVIOUS
<1>7. Like(g, top, "self", top.n, top.with, top.i + 1, top.apps \cup {b})
  BY <1>3, <1>5, <1>6, FrameFacts
<1>8. Moved(g)
  <2>1. g \in Frame
    BY <1>7 DEF Like
  <2> QED
    BY <1>4, <1>5, <1>6, <2>1, MovedFacts
<1>9. SelfTakes(g, b)
  BY <1>1, <1>3, <1>4, <1>7, <1>8 DEF SelfTakes, SelfTake
<1> QED
  BY <1>9

\* cyclicCheck.
LEMMA CyclicCheckDoes ==
  ASSUME Typed, CyclicCheck
  PROVE  Stopped \/ \E f : Checked(f)
<1>1. At("self") /\ top.i \notin DOMAIN Selves
  BY DEF CyclicCheck
<1>2. stack \in Seq(Frame) /\ stack # <<>> /\ top \in Frame /\ me \in Apps
  BY <1>1, Running
<1>3. CASE ~Endless(par, me) /\ ~OnChain
  <2>1. stack' = <<[top EXCEPT !.at = "each", !.i = 1]>> \o Tail(stack) /\ UNCHANGED status
    BY <1>3 DEF CyclicCheck, Go
  <2>2. PICK g : g = [top EXCEPT !.at = "each", !.i = 1]
    OBVIOUS
  <2>3. Like(g, top, "each", top.n, top.with, 1, top.apps)
    BY <1>2, <2>2, FrameFacts
  <2>4. Moved(g)
    <3>1. g \in Frame
      BY <2>3 DEF Like
    <3> QED
      BY <1>2, <2>1, <2>2, <3>1, MovedFacts
  <2>5. Checked(g)
    BY <1>1, <1>3, <2>1, <2>3, <2>4 DEF Checked, CyclicCheck, applications
  <2> QED
    BY <2>5
<1>4. CASE Endless(par, me) \/ OnChain
  BY <1>1, <1>4 DEF CyclicCheck, Stopped, applications
<1> QED
  BY <1>3, <1>4

\* The last loop.
LEMMA EachDoes ==
  ASSUME Typed, Each
  PROVE  \E f : EachSkips(f) \/ \E b \in Apps : EachCalls(f, b)
<1>1. At("each") /\ top.i \in DOMAIN deps[me]
  BY DEF Each
<1>2. stack \in Seq(Frame) /\ stack # <<>> /\ top \in Frame /\ top.at = "each" /\ me \in Apps
  BY <1>1, Running
<1>3. PICK g : g = [top EXCEPT !.i = @ + 1]
  OBVIOUS
<1>4. Like(g, top, "each", top.n, top.with, top.i + 1, top.apps)
  BY <1>2, <1>3, FrameFacts
<1>5. g \in Frame
  BY <1>4 DEF Like
<1>6. PICK b : b = deps[me][top.i]
  OBVIOUS
<1>7. b \in Apps
  BY <1>1, <1>2, <1>6 DEF Typed
<1>8. /\ IF b \notin bd THEN stack' = <<Call(b), g>> \o Tail(stack) ELSE stack' = <<g>> \o Tail(stack)
      /\ UNCHANGED <<yaml, status, todo, memo, ro, bd, sup, par, deps, ps, incs, filled, main_, early>>
  BY <1>3, <1>6 DEF Each, NotYet, SetUp, Go, applications
<1>9. CASE b \notin bd
  <2>1. Called(b, g)
    BY <1>2, <1>5, <1>7, <1>8, <1>9, CalledFacts
  <2>2. EachCalls(g, b)
    BY <1>1, <1>4, <1>6, <1>8, <1>9, <2>1 DEF EachCalls
  <2> QED
    BY <1>7, <2>2
<1>10. CASE b \in bd
  <2>1. Moved(g)
    BY <1>2, <1>5, <1>8, <1>10, MovedFacts
  <2>2. EachSkips(g)
    BY <1>1, <1>4, <1>6, <1>8, <1>10, <2>1 DEF EachSkips
  <2> QED
    BY <2>2
<1> QED
  BY <1>9, <1>10

\* populateMaps, and on to the parent profile.
LEMMA NextNodeDoes ==
  ASSUME Typed, NextNode
  PROVE  \E f : NodeDone(f)
<1>1. At("each") /\ top.i \notin DOMAIN deps[me] /\ ~top.with
  BY DEF NextNode
<1>2. stack \in Seq(Frame) /\ stack # <<>> /\ top \in Frame /\ me \in Apps
  BY <1>1, Running
<1>3. PICK g, h : g = [top EXCEPT !.at = "take", !.n = @ + 1] /\ h = [top EXCEPT !.at = "take", !.with = TRUE]
  OBVIOUS
<1>4. /\ Like(g, top, "take", top.n + 1, top.with, top.i, top.apps)
      /\ Like(h, top, "take", top.n, TRUE, top.i, top.apps)
  BY <1>2, <1>3, FrameFacts
<1>5. g \in Frame /\ h \in Frame
  BY <1>4 DEF Like
<1>6. IF top.n < Len(Lineage(me)) THEN stack' = <<g>> \o Tail(stack) ELSE stack' = <<h>> \o Tail(stack)
  BY <1>3 DEF NextNode, Go
<1>7. CASE top.n < Len(Lineage(me))
  <2>1. Moved(g)
    BY <1>2, <1>5, <1>6, <1>7, MovedFacts
  <2>2. NodeDone(g)
    BY <1>1, <1>4, <1>7, <2>1 DEF NodeDone, NextNode
  <2> QED
    BY <2>2
<1>8. CASE ~(top.n < Len(Lineage(me)))
  <2>1. Moved(h)
    BY <1>2, <1>5, <1>6, <1>8, MovedFacts
  <2>2. NodeDone(h)
    BY <1>1, <1>4, <2>1 DEF NodeDone, NextNode
  <2> QED
    BY <2>2
<1> QED
  BY <1>7, <1>8

\* The end of setup().
LEMMA EndDoes ==
  ASSUME Typed, End
  PROVE  Ends
<1>1. At("each") /\ stack' = Tail(stack)
  BY DEF End
<1>2. stack \in Seq(Frame) /\ stack # <<>>
  BY <1>1, Running
<1>3. Left
  BY <1>1, <1>2, LeftFacts
<1> QED
  BY <1>1, <1>3 DEF End, Ends

\* Every step is one of these.
Finished ==
  /\ status = "run" /\ stack = <<>> /\ todo = <<>> /\ status' = "done"
  /\ UNCHANGED <<yaml, todo, stack, memo, ro, bd, sup, par, deps, ps, incs, filled, main_, early>>

Idle == UNCHANGED <<yaml, status, todo, stack, memo, ro, bd, sup, par, deps, ps, incs, filled, main_, early>>

\* Each action is one of them.
LEMMA StepDoes ==
  ASSUME Typed, [Next]_vars
  PROVE  \/ Idle \/ Finished \/ RootKnown \/ RootNew
         \/ OwnSuper \/ SuperLoop \/ NotValid \/ Stopped \/ Ends
         \/ \E f : \/ SkipSuper(f) \/ SuperThere(f) \/ CallSuper(f) \/ InheritFrom(f) \/ Validated(f)
                   \/ Checked(f) \/ EachSkips(f) \/ NodeDone(f)
                   \/ (\E b \in Apps : EachCalls(f, b))
                   \/ (\E b : SelfTakes(f, b))
                   \/ (\E v, new : Takes(f, v, new))
         \/ \E b : SelfCalls(b)
<1>1. CASE CreateRoot
  BY <1>1, CreateRootDoes
<1>2. CASE Created
  BY <1>2 DEF Created, Finished, applications
<1>3. CASE SetSuper
  BY <1>3, SetSuperDoes
<1>4. CASE Inherit
  BY <1>4, InheritDoes
<1>5. CASE Validate
  BY <1>5, ValidateDoes
<1>6. CASE Take
  BY <1>6, TakeDoes
<1>7. CASE SelfSetUp
  BY <1>7, SelfSetUpDoes
<1>8. CASE SelfTake
  BY <1>8, SelfTakeDoes
<1>9. CASE CyclicCheck
  BY <1>9, CyclicCheckDoes
<1>10. CASE Each
  BY <1>10, EachDoes
<1>11. CASE NextNode
  BY <1>11, NextNodeDoes
<1>12. CASE End
  BY <1>12, EndDoes
<1>13. CASE UNCHANGED vars
  BY <1>13 DEF vars, applications, Idle
<1>14. CASE Ended
  BY <1>13, <1>14 DEF Ended
<1> QED
  BY <1>1, <1>2, <1>3, <1>4, <1>5, <1>6, <1>7, <1>8, <1>9, <1>10, <1>11, <1>12, <1>13, <1>14
     DEF Next, Step

-----------------------------------------------------------------------------
(* Types.                                                                  *)

\* A frame that is kept is still fine.
LEMMA StillFits ==
  ASSUME Typed, yaml' = yaml, memo \subseteq memo', bd \subseteq bd'
  PROVE  \A f \in ToSet(stack) : Fits(f)'
<1> SUFFICES ASSUME NEW f \in ToSet(stack)
             PROVE  Fits(f)'
  OBVIOUS
<1>1. Fits(f)
  BY DEF Typed
<1>2. Lineage(f.app)' = Lineage(f.app) /\ HasSuper(f.app)' = HasSuper(f.app)
  BY Static
<1> QED
  BY <1>1, <1>2 DEF Fits

\* A frame of the running call, at another place.
LEMMA PutFits ==
  ASSUME Typed, NEW where, At(where), yaml' = yaml, memo \subseteq memo', bd \subseteq bd',
         NEW f, NEW at, NEW n, NEW w, NEW i, NEW s, Like(f, top, at, n, w, i, s), s \subseteq memo',
         n \in 1..Len(Lineage(me)), at \in Late => me \in bd', at \notin Late => n = 1 /\ ~w, at = "inherit" => HasSuper(me)
  PROVE  f \in Frame /\ Fits(f)'
<1>1. f \in Frame /\ f.app = me /\ me \in memo /\ f.at = at /\ f.n = n /\ f.with = w /\ f.apps = s
  BY Running DEF Like
<1>2. PICK a : a = me
  OBVIOUS
<1>3. Lineage(a)' = Lineage(a) /\ HasSuper(a)' = HasSuper(a)
  BY Static
<1> QED
  BY <1>1, <1>2, <1>3 DEF Fits

\* So is a new one.
LEMMA CallFits ==
  ASSUME Typed, yaml' = yaml, NEW b \in Apps, b \in memo'
  PROVE  Call(b) \in Frame /\ Fits(Call(b))'
<1>1. PICK f \in Frame : f = Call(b)
  BY CallFacts
<1>2. f.app = b /\ f.at = "super" /\ f.n = 1 /\ f.with = FALSE /\ f.apps = {}
  BY <1>1, CallFacts
<1>3. Lineage(b)' = Lineage(b)
  BY Static
<1>4. 1 \in 1..Len(Lineage(b))
  BY LineageApps DEF Typed
<1>5. Fits(f)'
  BY <1>2, <1>3, <1>4 DEF Fits, Late
<1> QED
  BY <1>1, <1>5

\* Typed is kept by Application::CREATE,
LEMMA TypedRoots ==
  ASSUME Typed, RootKnown \/ RootNew \/ Finished \/ Idle
  PROVE  Typed'
<1>0. yaml' = yaml /\ \A q : Validation(q)' = Validation(q)
  <2>1. yaml' = yaml
    BY DEF RootKnown, RootNew, Finished, Idle
  <2> QED
    BY <2>1, Static
<1>1. CASE RootKnown \/ RootNew
  <2>1. /\ todo \in Seq(Apps) /\ todo # <<>> /\ todo' = Tail(todo) /\ ToSet(todo) \subseteq ToSet(yaml.roots)
        /\ stack = <<>>
    BY <1>1 DEF RootKnown, RootNew, Typed
  <2>2. Head(todo) \in Apps /\ Head(todo) \in ToSet(todo) /\ todo' \in Seq(Apps) /\ ToSet(todo') \subseteq ToSet(todo)
    <3>1. Len(todo) \in Nat /\ Len(todo) >= 1 /\ Head(todo) = todo[1]
      BY <2>1
    <3>2. todo' \in Seq(Apps) /\ Len(todo') = Len(todo) - 1
      BY <2>1
    <3>3. \A i \in 1..Len(todo) - 1 : todo'[i] = todo[i + 1] /\ i + 1 \in 1..Len(todo)
      BY <2>1, <3>1
    <3>4. ToSet(todo) = {todo[i] : i \in 1..Len(todo)}
      BY <2>1, SetOf
    <3>5. ToSet(todo') = {todo'[i] : i \in 1..Len(todo')}
      BY <3>2, SetOf
    <3>6. ToSet(todo') \subseteq ToSet(todo)
      BY <3>1, <3>2, <3>3, <3>4, <3>5
    <3> QED
      BY <2>1, <3>1, <3>2, <3>4, <3>6
  <2>3. Head(todo) \in ToSet(yaml.roots)
    BY <2>1, <2>2
  <2>4. CASE RootKnown
    <3>1. \A f \in ToSet(stack) : Fits(f)'
      BY <1>0, <2>4, StillFits DEF RootKnown
    <3> QED
      BY <1>0, <2>1, <2>2, <2>3, <2>4, <3>1 DEF RootKnown, Typed
  <2>5. CASE RootNew
    <3>0. PICK b \in Apps : b = Head(todo)
      BY <2>2
    <3>1. PICK g : b = Head(todo) /\ g = Call(b)
      BY <3>0
    <3>2. g \in Frame /\ Fits(g)'
      <4>1. b \in memo'
        BY <2>5, <3>1 DEF RootNew
      <4>2. Call(b) \in Frame /\ Fits(Call(b))'
        BY <1>0, <4>1, CallFits
      <4> QED
        BY <3>1, <4>2
    <3>3. stack' \in Seq(Frame) /\ ToSet(stack') = {g}
      <4>1. stack' = <<g>>
        BY <2>5, <3>1 DEF RootNew
      <4>2. stack' \in Seq(Frame) /\ Len(stack') = 1 /\ stack'[1] = g
        BY <3>2, <4>1
      <4>3. ToSet(stack') = {stack'[i] : i \in 1..1}
        BY <4>2, SetOf
      <4> QED
        BY <4>2, <4>3
    <3>4. \A f \in ToSet(stack') : Fits(f)'
      BY <3>2, <3>3
    <3> QED
      BY <1>0, <2>1, <2>2, <2>3, <2>5, <3>3, <3>4 DEF RootNew, Typed
  <2> QED
    BY <1>1, <2>4, <2>5
<1>2. CASE Finished \/ Idle
  <2>1. \A f \in ToSet(stack) : Fits(f)'
    BY <1>0, <1>2, StillFits DEF Finished, Idle
  <2> QED
    BY <1>0, <1>2, <2>1 DEF Finished, Idle, Typed
<1> QED
  BY <1>1, <1>2

\* by what ends the run,
LEMMA TypedStops ==
  ASSUME Typed, OwnSuper \/ SuperLoop \/ NotValid \/ Stopped
  PROVE  Typed'
<1>0. yaml' = yaml /\ memo' = memo /\ bd' = bd /\ \A q : Validation(q)' = Validation(q)
  <2>1. yaml' = yaml /\ memo' = memo /\ bd' = bd
    BY DEF OwnSuper, SuperLoop, NotValid, Stopped
  <2> QED
    BY <2>1, Static
<1>1. \A f \in ToSet(stack) : Fits(f)'
  BY <1>0, StillFits
<1>2. CASE OwnSuper \/ Stopped
  BY <1>0, <1>1, <1>2 DEF OwnSuper, Stopped, Typed
<1>3. CASE NotValid
  <2>1. me \in Apps
    BY <1>3, Running DEF NotValid
  <2>2. me[1] \in Projects /\ status' \in {"parents", "overflow"}
    BY <1>3, <2>1, ValidationFacts, YamlFacts DEF NotValid, Typed
  <2>3. ps' \in [Apps -> SUBSET Projects]
    BY <1>3, <2>1, <2>2 DEF NotValid, Typed
  <2> QED
    BY <1>0, <1>1, <1>3, <2>2, <2>3 DEF NotValid, Typed
<1>4. CASE SuperLoop
  <2>1. me \in Apps /\ yaml \in Yamls
    BY <1>4, Running DEF SuperLoop, Typed
  <2>2. SuperOf(me) \in Apps
    BY <1>4, <2>1, Running, YamlFacts DEF SuperLoop, Fits
  <2>3. SuperOf(me)[1] \in Projects
    BY <2>1, <2>2, YamlFacts
  <2>4. sup' \in [Apps -> Apps \cup {NoApp}]
    BY <1>4, <2>1, <2>2 DEF SuperLoop, Typed
  <2>5. ps' \in [Apps -> SUBSET Projects]
    BY <1>4, <2>2, <2>3 DEF SuperLoop, Typed
  <2> QED
    BY <1>0, <1>1, <1>4, <2>4, <2>5 DEF SuperLoop, Typed
<1> QED
  BY <1>2, <1>3, <1>4

\* The frames are fine when those below the running one are kept.
LEMMA StackFits ==
  ASSUME Typed, NEW where, At(where), yaml' = yaml, memo \subseteq memo', bd \subseteq bd'
  PROVE  /\ \A f : Moved(f) /\ Fits(f)' => stack' \in Seq(Frame) /\ \A g \in ToSet(stack') : Fits(g)'
         /\ \A f : \A b \in Apps : Called(b, f) /\ b \in memo' /\ Fits(f)' =>
              stack' \in Seq(Frame) /\ \A g \in ToSet(stack') : Fits(g)'
         /\ Left => stack' \in Seq(Frame) /\ \A g \in ToSet(stack') : Fits(g)'
<1>1. \A g \in ToSet(Tail(stack)) : Fits(g)'
  BY StillFits, Running
<1>2. \A b \in Apps : b \in memo' => Fits(Call(b))'
  BY CallFits
<1>3. ASSUME NEW f, Moved(f), Fits(f)'
      PROVE  stack' \in Seq(Frame) /\ \A g \in ToSet(stack') : Fits(g)'
  BY <1>1, <1>3 DEF Moved
<1>4. ASSUME NEW b \in Apps, NEW f, Called(b, f), b \in memo', Fits(f)'
      PROVE  stack' \in Seq(Frame) /\ \A g \in ToSet(stack') : Fits(g)'
  <2>1. PICK c : c = Call(b)
    OBVIOUS
  <2>2. Fits(c)'
    BY <1>2, <1>4, <2>1
  <2>3. stack' \in Seq(Frame) /\ ToSet(stack') = {c, f} \cup ToSet(Tail(stack))
    BY <1>4, <2>1 DEF Called
  <2> QED
    BY <1>1, <1>4, <2>2, <2>3
<1>5. Left => stack' \in Seq(Frame) /\ \A g \in ToSet(stack') : Fits(g)'
  BY <1>1 DEF Left
<1> QED
  BY <1>3, <1>4, <1>5

\* by setSuper up to the call,
LEMMA TypedSupers ==
  ASSUME Typed, NEW f, SkipSuper(f) \/ SuperThere(f) \/ CallSuper(f)
  PROVE  Typed'
<1>0. /\ yaml' = yaml /\ \A q : Validation(q)' = Validation(q)
      /\ memo \subseteq memo' /\ bd' = bd /\ At("super")
  <2>1. yaml' = yaml /\ memo \subseteq memo' /\ bd' = bd /\ At("super")
    BY DEF SkipSuper, SuperThere, CallSuper
  <2> QED
    BY <2>1, Static
<1>1. me \in Apps /\ Fits(top) /\ me = top.app /\ yaml \in Yamls /\ top.at = "super"
  BY <1>0, Running DEF Typed
<1>2. top.n \in 1..Len(Lineage(me)) /\ top.apps \subseteq memo /\ top.n = 1 /\ ~top.with
  BY <1>1 DEF Fits, Late
<1>3. CASE SkipSuper(f)
  <2>1. Like(f, top, "validate", top.n, top.with, top.i, top.apps)
    BY <1>3 DEF SkipSuper
  <2>2. Fits(f)'
    BY <1>0, <1>2, <2>1, PutFits DEF Late
  <2>3. stack' \in Seq(Frame) /\ \A g \in ToSet(stack') : Fits(g)'
    BY <1>0, <1>3, <2>2, StackFits DEF SkipSuper
  <2> QED
    BY <1>0, <1>3, <2>3 DEF SkipSuper, Typed
<1>4. CASE SuperThere(f)
  <2>1. Like(f, top, "inherit", top.n, top.with, top.i, top.apps) /\ HasSuper(me)
    BY <1>4 DEF SuperThere
  <2>2. Fits(f)'
    BY <1>0, <1>2, <2>1, PutFits DEF Late
  <2>3. stack' \in Seq(Frame) /\ \A g \in ToSet(stack') : Fits(g)'
    BY <1>0, <1>4, <2>2, StackFits DEF SuperThere
  <2> QED
    BY <1>0, <1>4, <2>3 DEF SuperThere, Typed
<1>5. CASE CallSuper(f)
  <2>1. Like(f, top, "inherit", top.n, top.with, top.i, top.apps) /\ HasSuper(me)
    BY <1>5 DEF CallSuper
  <2>2. Fits(f)'
    BY <1>0, <1>2, <2>1, PutFits DEF Late
  <2>3. SuperOf(me) \in Apps
    BY <1>1, <2>1, YamlFacts
  <2>4. PICK S \in Apps : S = SuperOf(me)
    BY <2>3
  <2>5. Called(S, f) /\ S \in memo' /\ memo' = memo \cup {S}
    BY <1>5, <2>4 DEF CallSuper
  <2>6. stack' \in Seq(Frame) /\ \A g \in ToSet(stack') : Fits(g)'
    BY <1>0, <2>2, <2>5, StackFits
  <2> QED
    BY <1>0, <1>5, <2>5, <2>6 DEF CallSuper, Typed
<1> QED
  BY <1>3, <1>4, <1>5

\* by inheriting and validating,
LEMMA TypedInherits ==
  ASSUME Typed, NEW f, InheritFrom(f) \/ Validated(f)
  PROVE  Typed'
<1>0. /\ yaml' = yaml /\ \A q : Validation(q)' = Validation(q)
      /\ memo' = memo /\ bd \subseteq bd'
  <2>1. yaml' = yaml /\ memo' = memo /\ bd \subseteq bd'
    BY DEF InheritFrom, Validated
  <2> QED
    BY <2>1, Static
<1>1. CASE InheritFrom(f)
  <2>0. At("inherit")
    BY <1>1 DEF InheritFrom
  <2>1. me \in Apps /\ me \in memo /\ Fits(top) /\ me = top.app /\ yaml \in Yamls /\ top.at = "inherit"
    BY <2>0, Running DEF Typed
  <2>2. top.n \in 1..Len(Lineage(me)) /\ top.apps \subseteq memo /\ top.n = 1 /\ ~top.with /\ HasSuper(me)
    BY <2>1 DEF Fits, Late
  <2>3. Like(f, top, "validate", top.n, top.with, top.i, top.apps)
    BY <1>1 DEF InheritFrom
  <2>4. Fits(f)'
    BY <1>0, <2>0, <2>2, <2>3, PutFits DEF Late
  <2>5. stack' \in Seq(Frame) /\ \A g \in ToSet(stack') : Fits(g)'
    BY <1>0, <1>1, <2>0, <2>4, StackFits DEF InheritFrom
  <2>6. PICK S \in Apps : S = SuperOf(me)
    BY <2>1, <2>2, YamlFacts
  <2>7. S[1] \in Projects
    BY <2>1, YamlFacts
  <2>8. sup' \in [Apps -> Apps \cup {NoApp}]
    BY <1>1, <2>1, <2>6 DEF InheritFrom, Typed
  <2>9. ps' \in [Apps -> SUBSET Projects]
    <3>1. Inherited(S) \in SUBSET Projects
      BY <2>1, <2>7 DEF Inherited, Typed
    <3>2. ps \in [Apps -> SUBSET Projects] /\ ps' = [ps EXCEPT ![S] = @ \cup {S[1]}, ![me] = Inherited(S)]
      BY <1>1, <2>6 DEF InheritFrom, Typed
    <3>3. [ps EXCEPT ![S] = @ \cup {S[1]}] \in [Apps -> SUBSET Projects]
      BY <2>7, <3>2
    <3> QED
      BY <3>1, <3>2, <3>3
  <2>10. early' \in SUBSET memo'
    BY <1>0, <1>1, <2>1 DEF InheritFrom, Typed
  <2> QED
    BY <1>0, <1>1, <2>5, <2>8, <2>9, <2>10 DEF InheritFrom, Typed
<1>2. CASE Validated(f)
  <2>0. At("validate")
    BY <1>2 DEF Validated
  <2>1. me \in Apps /\ me \in memo /\ Fits(top) /\ me = top.app /\ yaml \in Yamls /\ top.at = "validate"
    BY <2>0, Running DEF Typed
  <2>2. top.n \in 1..Len(Lineage(me)) /\ top.apps \subseteq memo /\ top.n = 1 /\ ~top.with
    BY <2>1 DEF Fits, Late
  <2>3. Like(f, top, "take", top.n, top.with, top.i, top.apps) /\ me \in bd'
    BY <1>2 DEF Validated
  <2>4. Fits(f)'
    BY <1>0, <2>0, <2>2, <2>3, PutFits DEF Late
  <2>5. stack' \in Seq(Frame) /\ \A g \in ToSet(stack') : Fits(g)'
    BY <1>0, <1>2, <2>0, <2>4, StackFits DEF Validated
  <2>6. me[1] \in Projects
    BY <2>1, YamlFacts
  <2>7. ps' \in [Apps -> SUBSET Projects]
    BY <1>2, <2>1, <2>6 DEF Validated, Typed
  <2>8. bd' = bd \cup {me} /\ Validation(me[1]) = "ok"
    BY <1>2 DEF Validated
  <2>9. \A a \in bd' : Validation(a[1])' = "ok"
    BY <1>0, <2>8 DEF Typed
  <2> QED
    BY <1>0, <1>2, <2>1, <2>5, <2>7, <2>8, <2>9 DEF Validated, Typed
<1> QED
  BY <1>1, <1>2

\* by the first loop,
LEMMA TypedTakes ==
  ASSUME Typed, NEW f, NEW v, NEW new, Takes(f, v, new)
  PROVE  Typed'
<1>0. /\ yaml' = yaml /\ \A q : Validation(q)' = Validation(q)
      /\ memo' = memo \cup new /\ bd' = bd /\ At("take") /\ new \subseteq Apps
      /\ ToSet(v) = ToSet(deps[me]) \cup new /\ v \in Seq(Apps)
  <2>1. /\ yaml' = yaml /\ memo' = memo \cup new /\ bd' = bd /\ At("take") /\ new \subseteq Apps
        /\ ToSet(v) = ToSet(deps[me]) \cup new /\ v \in Seq(Apps)
    BY DEF Takes, Onward
  <2> QED
    BY <2>1, Static
<1>1. me \in Apps /\ me \in memo /\ Fits(top) /\ me = top.app /\ yaml \in Yamls /\ top.at = "take"
  BY <1>0, Running DEF Typed
<1>2. top.n \in 1..Len(Lineage(me)) /\ me \in bd
  BY <1>1 DEF Fits, Late
<1>3. Like(f, top, "self", top.n, top.with, 1, new)
  BY DEF Takes
<1>4. Fits(f)'
  BY <1>0, <1>2, <1>3, PutFits DEF Late
<1>5. stack' \in Seq(Frame) /\ \A g \in ToSet(stack') : Fits(g)'
  BY <1>0, <1>4, StackFits DEF Takes
<1>6. deps' \in [Apps -> Seq(Apps)] /\ \A a \in Apps : ToSet(deps'[a]) \subseteq memo'
  <2>1. deps' = [deps EXCEPT ![me] = v] /\ deps \in [Apps -> Seq(Apps)]
    BY DEF Takes, Typed
  <2>2. \A a \in Apps : deps'[a] = IF a = me THEN v ELSE deps[a]
    BY <1>1, <2>1
  <2>3. \A a \in Apps : ToSet(deps[a]) \subseteq memo
    BY DEF Typed
  <2> QED
    BY <1>0, <1>1, <2>1, <2>2, <2>3
<1>7. par' \in [Apps -> Apps \cup {NoApp}]
  BY <1>0, <1>1 DEF Takes, Typed
<1> QED
  BY <1>0, <1>5, <1>6, <1>7 DEF Takes, Typed

\* by the self: loop,
LEMMA TypedSelves ==
  ASSUME Typed, NEW f, NEW b, SelfCalls(b) \/ SelfTakes(f, b)
  PROVE  Typed'
<1>0. /\ yaml' = yaml /\ \A q : Validation(q)' = Validation(q)
      /\ memo \subseteq memo' /\ bd' = bd /\ At("self")
  <2>1. yaml' = yaml /\ memo \subseteq memo' /\ bd' = bd /\ At("self")
    BY DEF SelfCalls, SelfTakes
  <2> QED
    BY <2>1, Static
<1>1. /\ me \in Apps /\ me \in memo /\ Fits(top) /\ me = top.app /\ yaml \in Yamls /\ top.at = "self"
      /\ memo \subseteq Apps /\ top \in Frame /\ top \in ToSet(stack)
  BY <1>0, Running DEF Typed
<1>2. top.n \in 1..Len(Lineage(me)) /\ me \in bd /\ top.apps \subseteq memo
  BY <1>1 DEF Fits, Late
<1>3. CASE SelfCalls(b)
  <2>1. b \in Apps /\ b \in memo' /\ Called(b, top) /\ memo' = memo \cup {b}
    BY <1>3 DEF SelfCalls
  <2>2. PICK g \in ToSet(stack) : g = top
    BY <1>1
  <2>3. Fits(g)'
    BY <1>0, StillFits
  <2>4. stack' \in Seq(Frame) /\ \A h \in ToSet(stack') : Fits(h)'
    BY <1>0, <2>1, <2>2, <2>3, StackFits
  <2> QED
    BY <1>0, <1>3, <2>1, <2>4 DEF SelfCalls, Typed
<1>4. CASE SelfTakes(f, b)
  <2>1. b \in memo /\ b \in Apps /\ Like(f, top, "self", top.n, top.with, top.i + 1, top.apps \cup {b})
    BY <1>1, <1>4 DEF SelfTakes
  <2>2. Fits(f)'
    BY <1>0, <1>2, <2>1, PutFits DEF Late
  <2>3. stack' \in Seq(Frame) /\ \A g \in ToSet(stack') : Fits(g)'
    BY <1>0, <1>4, <2>2, StackFits DEF SelfTakes
  <2>4. deps' \in [Apps -> Seq(Apps)] /\ \A a \in Apps : ToSet(deps'[a]) \subseteq memo'
    <3>1. deps' = [deps EXCEPT ![me] = Append(deps[me], b)] /\ deps \in [Apps -> Seq(Apps)] /\ deps[me] \in Seq(Apps)
      BY <1>1, <1>4 DEF SelfTakes, Typed
    <3>2. \A a \in Apps : deps'[a] = IF a = me THEN Append(deps[me], b) ELSE deps[a]
      BY <1>1, <3>1
    <3>3. \A a \in Apps : ToSet(deps[a]) \subseteq memo
      BY DEF Typed
    <3>4. Append(deps[me], b) \in Seq(Apps) /\ ToSet(Append(deps[me], b)) = ToSet(deps[me]) \cup {b}
      BY <2>1, <3>1, AppendSet
    <3> QED
      BY <1>0, <1>1, <2>1, <3>1, <3>2, <3>3, <3>4
  <2>5. par' \in [Apps -> Apps \cup {NoApp}]
    BY <1>1, <1>4, <2>1 DEF SelfTakes, Typed
  <2> QED
    BY <1>0, <1>4, <2>3, <2>4, <2>5 DEF SelfTakes, Typed
<1> QED
  BY <1>3, <1>4

\* by cyclicCheck, the last loop and the end,
LEMMA TypedEach ==
  ASSUME Typed, NEW f, \/ Checked(f) \/ EachSkips(f) \/ NodeDone(f) \/ Ends
                       \/ (\E b \in Apps : EachCalls(f, b))
  PROVE  Typed'
<1>0. /\ yaml' = yaml /\ \A q : Validation(q)' = Validation(q)
      /\ memo' = memo /\ bd' = bd /\ \E where \in {"self", "each"} : At(where)
  <2>1. yaml' = yaml /\ memo' = memo /\ bd' = bd /\ \E where \in {"self", "each"} : At(where)
    BY DEF Checked, EachSkips, NodeDone, EachCalls, Ends
  <2> QED
    BY <2>1, Static
<1> PICK where \in {"self", "each"} : At(where)
  BY <1>0
<1>1. /\ me \in Apps /\ me \in memo /\ Fits(top) /\ me = top.app /\ yaml \in Yamls /\ top.at = where
      /\ memo \subseteq Apps /\ top \in Frame
  BY <1>0, Running DEF Typed
<1>2. top.n \in 1..Len(Lineage(me)) /\ me \in bd /\ top.apps \subseteq memo
  BY <1>1 DEF Fits, Late
<1>3. CASE Checked(f)
  <2>1. Fits(f)'
    BY <1>0, <1>2, <1>3, PutFits DEF Late, Checked
  <2>2. stack' \in Seq(Frame) /\ \A g \in ToSet(stack') : Fits(g)'
    BY <1>0, <1>3, <2>1, StackFits DEF Checked
  <2> QED
    BY <1>0, <1>3, <2>2 DEF Checked, Typed
<1>4. CASE EachSkips(f)
  <2>1. Fits(f)'
    BY <1>0, <1>2, <1>4, PutFits DEF Late, EachSkips
  <2>2. stack' \in Seq(Frame) /\ \A g \in ToSet(stack') : Fits(g)'
    BY <1>0, <1>4, <2>1, StackFits DEF EachSkips
  <2> QED
    BY <1>0, <1>4, <2>2 DEF EachSkips, Typed
<1>5. CASE NodeDone(f)
  <2>1. Fits(f)'
    <3>1. top.n < Len(Lineage(me)) => top.n + 1 \in 1..Len(Lineage(me))
      <4>1. Len(Lineage(me)) \in Nat
        BY <1>1, LineageApps
      <4> QED
        BY <1>2, <4>1
    <3>2. \/ top.n < Len(Lineage(me)) /\ Like(f, top, "take", top.n + 1, top.with, top.i, top.apps)
          \/ Like(f, top, "take", top.n, TRUE, top.i, top.apps)
      BY <1>5 DEF NodeDone
    <3>3. CASE top.n < Len(Lineage(me)) /\ Like(f, top, "take", top.n + 1, top.with, top.i, top.apps)
      BY <1>0, <1>2, <3>1, <3>3, PutFits DEF Late
    <3>4. CASE Like(f, top, "take", top.n, TRUE, top.i, top.apps)
      <4>1. f \in Frame /\ f.app = me /\ f.at = "take" /\ f.n = top.n /\ f.apps = top.apps
        BY <1>1, <3>4 DEF Like, me
      <4>2. PICK a : a = me
        OBVIOUS
      <4>3. Lineage(a)' = Lineage(a)
        BY <1>0, Static
      <4> QED
        BY <1>0, <1>1, <1>2, <4>1, <4>2, <4>3 DEF Fits, Late
    <3> QED
      BY <3>2, <3>3, <3>4
  <2>2. stack' \in Seq(Frame) /\ \A g \in ToSet(stack') : Fits(g)'
    BY <1>0, <1>5, <2>1, StackFits DEF NodeDone
  <2>3. incs' \in [Apps -> SUBSET Apps] /\ filled' \in [Apps -> Nat]
    BY <1>1, <1>5 DEF NodeDone, Typed
  <2> QED
    BY <1>0, <1>5, <2>2, <2>3 DEF NodeDone, Typed
<1>6. CASE Ends
  <2>1. stack' \in Seq(Frame) /\ \A g \in ToSet(stack') : Fits(g)'
    BY <1>0, <1>6, StackFits DEF Ends
  <2>2. Public \in SUBSET Apps
    <3>1. \A b \in ToSet(deps[me]) : b \in Apps
      BY <1>1 DEF Typed
    <3> QED
      BY <1>1, <3>1 DEF Typed, Public
  <2>3. incs' \in [Apps -> SUBSET Apps]
    BY <1>1, <1>6, <2>2 DEF Ends, Typed
  <2>4. main_' \in SUBSET memo'
    BY <1>0, <1>1, <1>6 DEF Ends, Typed
  <2> QED
    BY <1>0, <1>6, <2>1, <2>3, <2>4 DEF Ends, Typed
<1>7. CASE \E b \in Apps : EachCalls(f, b)
  <2>1. PICK b \in Apps : EachCalls(f, b)
    BY <1>7
  <2>2. Fits(f)'
    BY <1>0, <1>2, <2>1, PutFits DEF Late, EachCalls
  <2>3. b \in memo'
    <3>1. deps[me] \in Seq(Apps) /\ ToSet(deps[me]) \subseteq memo /\ b = deps[me][top.i] /\ top.i \in DOMAIN deps[me]
      BY <1>1, <2>1 DEF EachCalls, Typed
    <3> QED
      BY <1>0, <3>1 DEF ToSet
  <2>4. stack' \in Seq(Frame) /\ \A g \in ToSet(stack') : Fits(g)'
    BY <1>0, <2>1, <2>2, <2>3, StackFits DEF EachCalls
  <2> QED
    BY <1>0, <2>1, <2>4 DEF EachCalls, Typed
<1> QED
  BY <1>3, <1>4, <1>5, <1>6, <1>7

\* and so by every step.
LEMMA TypedNext ==
  ASSUME Typed, [Next]_vars
  PROVE  Typed'
<1>1. CASE Idle \/ Finished \/ RootKnown \/ RootNew
  BY <1>1, TypedRoots
<1>2. CASE OwnSuper \/ SuperLoop \/ NotValid \/ Stopped
  BY <1>2, TypedStops
<1>3. CASE Ends
  BY <1>3, TypedEach
<1>4. CASE \E f : SkipSuper(f) \/ SuperThere(f) \/ CallSuper(f)
  BY <1>4, TypedSupers
<1>5. CASE \E f : InheritFrom(f) \/ Validated(f)
  BY <1>5, TypedInherits
<1>6. CASE \E f : Checked(f) \/ EachSkips(f) \/ NodeDone(f) \/ (\E b \in Apps : EachCalls(f, b))
  BY <1>6, TypedEach
<1>7. CASE (\E f, b : SelfTakes(f, b)) \/ (\E b : SelfCalls(b))
  BY <1>7, TypedSelves
<1>8. CASE \E f, v, new : Takes(f, v, new)
  BY <1>8, TypedTakes
<1>9. \/ Idle \/ Finished \/ RootKnown \/ RootNew
         \/ OwnSuper \/ SuperLoop \/ NotValid \/ Stopped \/ Ends
         \/ \E f : \/ SkipSuper(f) \/ SuperThere(f) \/ CallSuper(f) \/ InheritFrom(f) \/ Validated(f)
                   \/ Checked(f) \/ EachSkips(f) \/ NodeDone(f)
                   \/ (\E b \in Apps : EachCalls(f, b))
                   \/ (\E b : SelfTakes(f, b))
                   \/ (\E v, new : Takes(f, v, new))
         \/ \E b : SelfCalls(b)
  BY StepDoes
<1> QED
  BY <1>1, <1>2, <1>3, <1>4, <1>5, <1>6, <1>7, <1>8, <1>9

\* It holds at the start.
LEMMA TypedInit ==
  ASSUME Init
  PROVE  Typed
<1>1. yaml \in Yamls /\ yaml.roots \in Seq(Apps)
  BY YamlsAssumption DEF Init
<1>2. stack \in Seq(Frame) /\ ToSet(stack) = {}
  BY DEF Init, ToSet
<1>3. \A a \in Apps : ToSet(deps[a]) = {} /\ deps[a] \in Seq(Apps)
  BY DEF Init, ToSet
<1> QED
  BY <1>1, <1>2, <1>3 DEF Init, Typed

\* What TypeOK says of the frames.
LEMMA TypedTypeOK ==
  ASSUME Typed
  PROVE  TypeOK
<1>1. ToSet(todo) \subseteq Apps
  BY DEF Typed, ToSet
<1>2. ASSUME NEW j \in DOMAIN stack
      PROVE  stack[j] \in Frames
  <2>1. stack \in Seq(Frame) /\ yaml \in Yamls /\ bd \subseteq Apps
    BY DEF Typed
  <2>2. stack[j] \in Frame /\ stack[j] \in ToSet(stack)
    BY <2>1 DEF ToSet
  <2>3. Fits(stack[j])
    BY <2>2 DEF Typed
  <2>4. PICK f : f = stack[j]
    OBVIOUS
  <2>5. /\ f \in Frame /\ Fits(f) /\ f.app \in Apps
        /\ f.at \in Late => Validation(f.app[1]) = "ok"
    BY <2>2, <2>3, <2>4 DEF Frame, Fits, Typed
  <2>6. f.n \in 1..Cardinality(Profiles)
    <3>1. CASE f.at \in Late
      <4>1. Len(Lineage(f.app)) <= Cardinality(Profiles)
        BY <2>1, <2>5, <3>1, ValidationFacts
      <4>2. f.n \in 1..Len(Lineage(f.app)) /\ Len(Lineage(f.app)) \in Nat
        BY <2>1, <2>5, LineageApps DEF Fits
      <4> QED
        BY <4>1, <4>2, ProfilesCount
    <3>2. CASE f.at \notin Late
      BY <2>5, <3>2, ProfilesCount DEF Fits
    <3> QED
      BY <3>1, <3>2
  <2>7. f \in Frames
    BY <2>5, <2>6 DEF Frame, Frames, Where
  <2> QED
    BY <2>4, <2>7
<1> QED
  BY <1>1, <1>2 DEF Typed, TypeOK

-----------------------------------------------------------------------------
(* Everything follows the edges of the yaml files.                         *)

Along(f) == f.apps \subseteq Needs[f.app] \cup Withs[f.app]

Edges ==
  /\ memo \subseteq There
  /\ ToSet(yaml.roots) \subseteq memo \cup ToSet(todo)
  /\ \A a \in Apps : ToSet(deps[a]) \subseteq Needs[a] \cup Withs[a]
  /\ \A a \in Apps : ToSet(deps[a]) # {} => a \in bd
  /\ \A a \in Apps : sup[a] # NoApp => HasSuper(a) /\ sup[a] = SuperOf(a)
  /\ \A a \in Apps : par[a] # NoApp => a \in ToSet(deps[par[a]]) /\ a \in Needs[par[a]]
  /\ \A f \in ToSet(stack) : Along(f)

\* The apps of the frames after a step.
LEMMA StackAlong ==
  ASSUME Typed, Edges, NEW where, At(where), yaml' = yaml
  PROVE  /\ \A f : Moved(f) /\ f.app = me /\ f.apps \subseteq Needs[me] \cup Withs[me] =>
              \A g \in ToSet(stack') : Along(g)'
         /\ \A f : \A b \in Apps : Called(b, f) /\ f.app = me /\ f.apps \subseteq Needs[me] \cup Withs[me] =>
              \A g \in ToSet(stack') : Along(g)'
         /\ Left => \A g \in ToSet(stack') : Along(g)'
         /\ top.apps \subseteq Needs[me] \cup Withs[me]
<1>1. Needs' = Needs /\ Withs' = Withs
  BY Static
<1>2. ToSet(stack) = {top} \cup ToSet(Tail(stack)) /\ me = top.app
  BY Running
<1>3. \A g \in ToSet(stack) : Along(g)' /\ Along(g)
  BY <1>1 DEF Along, Edges
<1>4. ASSUME NEW f, f.app = me, f.apps \subseteq Needs[me] \cup Withs[me]
      PROVE  Along(f)'
  <2>1. PICK a : a = me
    OBVIOUS
  <2> QED
    BY <1>1, <1>4, <2>1 DEF Along
<1>5. ASSUME NEW b \in Apps
      PROVE  Along(Call(b))'
  <2>1. PICK c : c = Call(b)
    OBVIOUS
  <2>2. c.apps = {}
    BY <2>1, CallFacts
  <2>3. Along(c)'
    BY <2>2 DEF Along
  <2> QED
    BY <2>1, <2>3
<1>6. \A f : Moved(f) /\ f.app = me /\ f.apps \subseteq Needs[me] \cup Withs[me] =>
              \A g \in ToSet(stack') : Along(g)'
  BY <1>2, <1>3, <1>4 DEF Moved
<1>7. ASSUME NEW b \in Apps, NEW f, Called(b, f), f.app = me, f.apps \subseteq Needs[me] \cup Withs[me]
      PROVE  \A g \in ToSet(stack') : Along(g)'
  <2>1. PICK c : c = Call(b)
    OBVIOUS
  <2>2. Along(c)' /\ Along(f)'
    BY <1>4, <1>5, <1>7, <2>1
  <2>3. ToSet(stack') = {c, f} \cup ToSet(Tail(stack))
    BY <1>7, <2>1 DEF Called
  <2> QED
    BY <1>2, <1>3, <2>2, <2>3
<1>8. Left => \A g \in ToSet(stack') : Along(g)'
  BY <1>2, <1>3 DEF Left
<1>9. top.apps \subseteq Needs[me] \cup Withs[me]
  BY <1>2, <1>3 DEF Along
<1> QED
  BY <1>6, <1>7, <1>8, <1>9

\* Edges holds at the start.
LEMMA EdgesInit ==
  ASSUME Init
  PROVE  Edges
BY DEF Init, Edges, ToSet

\* The steps that leave what Edges speaks of alone, but for the frames.
LEMMA EdgesSame ==
  ASSUME Typed, Edges, yaml' = yaml, memo' = memo, todo' = todo, deps' = deps, bd \subseteq bd',
         sup' = sup, par' = par, \A g \in ToSet(stack') : Along(g)'
  PROVE  Edges'
<1>1. Needs' = Needs /\ Withs' = Withs /\ There' = There /\ \A a : HasSuper(a)' = HasSuper(a) /\ SuperOf(a)' = SuperOf(a)
  BY Static
<1>2. /\ memo' \subseteq There' /\ ToSet(yaml.roots)' \subseteq memo' \cup ToSet(todo')
      /\ \A a \in Apps : ToSet(deps'[a]) \subseteq Needs'[a] \cup Withs'[a]
      /\ \A a \in Apps : ToSet(deps'[a]) # {} => a \in bd'
  BY <1>1 DEF Edges
<1>3. \A a \in Apps : sup'[a] # NoApp => HasSuper(a)' /\ sup'[a] = SuperOf(a)'
  BY <1>1 DEF Edges
<1>4. \A a \in Apps : par'[a] # NoApp => a \in ToSet(deps'[par'[a]]) /\ a \in Needs'[par'[a]]
  BY <1>1 DEF Edges
<1> QED
  BY <1>2, <1>3, <1>4 DEF Edges

\* It is kept by Application::CREATE,
LEMMA EdgesRoots ==
  ASSUME Typed, Edges, RootKnown \/ RootNew
  PROVE  Edges'
<1>0. /\ yaml' = yaml /\ deps' = deps /\ bd' = bd /\ sup' = sup /\ par' = par
      /\ todo \in Seq(Apps) /\ todo # <<>> /\ todo' = Tail(todo) /\ stack = <<>>
      /\ memo' = memo \cup {Head(todo)} /\ ToSet(todo) \subseteq ToSet(yaml.roots) /\ yaml \in Yamls
  BY DEF RootKnown, RootNew, Typed
<1>1. Needs' = Needs /\ Withs' = Withs /\ There' = There /\ \A a : HasSuper(a)' = HasSuper(a) /\ SuperOf(a)' = SuperOf(a)
  BY <1>0, Static
<1>2. PICK r \in Apps, t \in Seq(Apps) : r = Head(todo) /\ t = Tail(todo) /\ todo = <<r>> \o t
  <2>1. Len(todo) \in Nat /\ Len(todo) >= 1
    BY <1>0
  <2>2. Head(todo) \in Apps /\ Tail(todo) \in Seq(Apps) /\ todo = <<Head(todo)>> \o Tail(todo)
    BY <1>0, <2>1
  <2> QED
    BY <2>2
<1>3. ToSet(todo) = {r} \cup ToSet(t)
  BY <1>2, ConsSet
<1>4. r \in There
  BY <1>0, <1>3, YamlGraphs
<1>5. memo' \subseteq There' /\ ToSet(yaml.roots)' \subseteq memo' \cup ToSet(todo')
  BY <1>0, <1>1, <1>2, <1>3, <1>4 DEF Edges
<1>6. \A g \in ToSet(stack') : Along(g)'
  <2>1. CASE RootKnown
    BY <2>1 DEF RootKnown, ToSet
  <2>2. CASE RootNew
    <3>1. PICK c : c = Call(r)
      OBVIOUS
    <3>2. c \in Frame /\ c.apps = {}
      BY <3>1, CallFacts
    <3>3. stack' = <<c>>
      BY <1>2, <2>2, <3>1 DEF RootNew
    <3>4. stack' \in Seq(Frame) /\ Len(stack') = 1 /\ stack'[1] = c
      BY <3>2, <3>3
    <3>5. ToSet(stack') = {stack'[i] : i \in 1..1}
      BY <3>4, SetOf
    <3>6. Along(c)'
      BY <3>2 DEF Along
    <3> QED
      BY <3>4, <3>5, <3>6
  <2> QED
    BY <2>1, <2>2
<1>7. /\ \A a \in Apps : ToSet(deps'[a]) \subseteq Needs'[a] \cup Withs'[a]
      /\ \A a \in Apps : ToSet(deps'[a]) # {} => a \in bd'
  BY <1>0, <1>1 DEF Edges
<1>8. \A a \in Apps : sup'[a] # NoApp => HasSuper(a)' /\ sup'[a] = SuperOf(a)'
  BY <1>0, <1>1 DEF Edges
<1>9. \A a \in Apps : par'[a] # NoApp => a \in ToSet(deps'[par'[a]]) /\ a \in Needs'[par'[a]]
  BY <1>0, <1>1 DEF Edges
<1> QED
  BY <1>5, <1>6, <1>7, <1>8, <1>9 DEF Edges

\* by setSuper,
LEMMA EdgesSupers ==
  ASSUME Typed, Edges, (\E f : CallSuper(f) \/ InheritFrom(f)) \/ SuperLoop
  PROVE  Edges'
<1>0. /\ yaml' = yaml /\ todo' = todo /\ deps' = deps /\ bd' = bd /\ par' = par
      /\ \E where \in {"super", "inherit"} : At(where)
  BY DEF CallSuper, InheritFrom, SuperLoop
<1> PICK where \in {"super", "inherit"} : At(where)
  BY <1>0
<1>1. Needs' = Needs /\ Withs' = Withs /\ There' = There /\ \A a : HasSuper(a)' = HasSuper(a) /\ SuperOf(a)' = SuperOf(a)
  BY <1>0, Static
<1>2. me \in Apps /\ me \in memo /\ me = top.app /\ Fits(top) /\ top.at = where /\ yaml \in Yamls /\ me \in There
  BY Running DEF Typed, Edges
<1>3. CASE \E f : CallSuper(f)
  <2> PICK f : CallSuper(f)
    BY <1>3
  <2>1. HasSuper(me) /\ SuperOf(me) \in Apps /\ SuperOf(me) \in There
    BY <1>2, YamlFacts, YamlGraphs DEF CallSuper
  <2>2. memo' \subseteq There' /\ ToSet(yaml.roots)' \subseteq memo' \cup ToSet(todo') /\ sup' = sup
    BY <1>0, <1>1, <2>1 DEF Edges, CallSuper
  <2>3. \A g \in ToSet(stack') : Along(g)'
    <3>1. PICK S \in Apps : S = SuperOf(me)
      BY <2>1
    <3>2. Called(S, f) /\ f.app = me /\ f.apps = top.apps
      BY <1>2, <3>1 DEF CallSuper, Like
    <3> QED
      BY <1>0, <3>2, StackAlong
  <2>4. /\ \A a \in Apps : ToSet(deps'[a]) \subseteq Needs'[a] \cup Withs'[a]
        /\ \A a \in Apps : ToSet(deps'[a]) # {} => a \in bd'
    BY <1>0, <1>1 DEF Edges
  <2>5. \A a \in Apps : sup'[a] # NoApp => HasSuper(a)' /\ sup'[a] = SuperOf(a)'
    BY <1>0, <1>1, <2>2 DEF Edges
  <2>6. \A a \in Apps : par'[a] # NoApp => a \in ToSet(deps'[par'[a]]) /\ a \in Needs'[par'[a]]
    BY <1>0, <1>1 DEF Edges
  <2> QED
    BY <2>2, <2>3, <2>4, <2>5, <2>6 DEF Edges
<1>4. CASE (\E f : InheritFrom(f)) \/ SuperLoop
  <2>1. memo' = memo /\ sup' = [sup EXCEPT ![me] = SuperOf(me)] /\ At("inherit")
    BY <1>4 DEF InheritFrom, SuperLoop
  <2>2. HasSuper(me)
    BY <2>1, Running DEF Fits
  <2>3. PICK a, S : a \in Apps /\ a = me /\ S = SuperOf(a)
    BY <1>2
  <2>4. sup \in [Apps -> Apps \cup {NoApp}]
    BY DEF Typed
  <2>5. \A b \in Apps : sup'[b] = IF b = a THEN S ELSE sup[b]
    BY <2>1, <2>3, <2>4
  <2>6. \A b \in Apps : sup'[b] # NoApp => HasSuper(b)' /\ sup'[b] = SuperOf(b)'
    BY <1>1, <2>2, <2>3, <2>5 DEF Edges
  <2>7. \A g \in ToSet(stack') : Along(g)'
    <3>1. CASE SuperLoop
      BY <1>1, <3>1 DEF SuperLoop, Along, Edges
    <3>2. CASE \E f : InheritFrom(f)
      <4> PICK f : InheritFrom(f)
        BY <3>2
      <4>1. Moved(f) /\ f.app = me /\ f.apps = top.apps
        BY <1>2 DEF InheritFrom, Like
      <4> QED
        BY <1>0, <4>1, StackAlong
    <3> QED
      BY <1>4, <3>1, <3>2
  <2>8. /\ memo' \subseteq There' /\ ToSet(yaml.roots)' \subseteq memo' \cup ToSet(todo')
        /\ \A b \in Apps : ToSet(deps'[b]) \subseteq Needs'[b] \cup Withs'[b]
        /\ \A b \in Apps : ToSet(deps'[b]) # {} => b \in bd'
    BY <1>0, <1>1, <2>1 DEF Edges
  <2>9. \A b \in Apps : par'[b] # NoApp => b \in ToSet(deps'[par'[b]]) /\ b \in Needs'[par'[b]]
    BY <1>0, <1>1 DEF Edges
  <2> QED
    BY <2>6, <2>7, <2>8, <2>9 DEF Edges
<1> QED
  BY <1>3, <1>4

\* by the first loop,
LEMMA EdgesTakes ==
  ASSUME Typed, Edges, NEW f, NEW v, NEW new, Takes(f, v, new)
  PROVE  Edges'
<1>0. /\ yaml' = yaml /\ todo' = todo /\ bd' = bd /\ sup' = sup /\ memo' = memo \cup new
      /\ deps' = [deps EXCEPT ![me] = v] /\ ToSet(v) = ToSet(deps[me]) \cup new
      /\ par' = IF top.with THEN par ELSE [b \in Apps |-> IF b \in new THEN me ELSE par[b]]
      /\ new \subseteq (IF top.with THEN Withs[me] ELSE Needs[me])
      /\ new \subseteq Apps
      /\ At("take")
  BY DEF Takes
<1>1. Needs' = Needs /\ Withs' = Withs /\ There' = There /\ \A a : HasSuper(a)' = HasSuper(a) /\ SuperOf(a)' = SuperOf(a)
  BY <1>0, Static
<1>2. /\ me \in Apps /\ me \in memo /\ me = top.app /\ Fits(top) /\ top.at = "take" /\ yaml \in Yamls /\ me \in There
      /\ me \in bd
  BY <1>0, Running DEF Typed, Edges, Fits, Late
<1>3. PICK a \in Apps : a = me
  BY <1>2
<1>4. new \subseteq Needs[a] \cup Withs[a] /\ new \subseteq All[a]
  BY <1>0, <1>2, <1>3, YamlGraphs
<1>5. deps \in [Apps -> Seq(Apps)] /\ par \in [Apps -> Apps \cup {NoApp}]
  BY DEF Typed
<1>6. \A b \in Apps : ToSet(deps'[b]) = IF b = a THEN ToSet(deps[b]) \cup new ELSE ToSet(deps[b])
  <2>1. \A b \in Apps : deps'[b] = IF b = a THEN v ELSE deps[b]
    BY <1>0, <1>3, <1>5
  <2> QED
    BY <1>0, <1>3, <2>1
<1>7. memo' \subseteq There' /\ ToSet(yaml.roots)' \subseteq memo' \cup ToSet(todo')
  BY <1>0, <1>1, <1>2, <1>3, <1>4, YamlGraphs DEF Edges
<1>8. /\ \A b \in Apps : ToSet(deps'[b]) \subseteq Needs'[b] \cup Withs'[b]
      /\ \A b \in Apps : ToSet(deps'[b]) # {} => b \in bd'
  BY <1>0, <1>1, <1>2, <1>3, <1>4, <1>6 DEF Edges
<1>9. \A b \in Apps : sup'[b] # NoApp => HasSuper(b)' /\ sup'[b] = SuperOf(b)'
  BY <1>0, <1>1 DEF Edges
<1>10. ASSUME NEW b \in Apps, par'[b] # NoApp
       PROVE  b \in ToSet(deps'[par'[b]]) /\ b \in Needs'[par'[b]]
  <2>1. CASE par'[b] = par[b]
    <3>1. par[b] \in Apps /\ b \in ToSet(deps[par[b]]) /\ b \in Needs[par[b]]
      BY <1>5, <1>10, <2>1 DEF Edges
    <3> QED
      BY <1>1, <1>6, <2>1, <3>1
  <2>2. CASE par'[b] # par[b]
    <3>1. ~top.with /\ b \in new /\ par'[b] = a
      BY <1>0, <1>3, <2>2
    <3> QED
      BY <1>0, <1>1, <1>3, <1>6, <3>1
  <2> QED
    BY <2>1, <2>2
<1>11. \A g \in ToSet(stack') : Along(g)'
  <2>1. Moved(f) /\ f.app = me /\ f.apps = new
    BY <1>2 DEF Takes, Like
  <2> QED
    BY <1>0, <1>3, <1>4, <2>1, StackAlong
<1> QED
  BY <1>7, <1>8, <1>9, <1>10, <1>11 DEF Edges

\* A self: entry is an edge.
LEMMA SelfEdge ==
  ASSUME Typed, NEW f \in ToSet(stack), NEW b, Self(f, b)
  PROVE  b \in Apps /\ b \in Needs[f.app] /\ b \in All[f.app]
<1>1. b \in Apps /\ b \in Needs[f.app] /\ f.app \in Apps
  BY NodeFacts DEF Self
<1> QED
  BY <1>1, YamlGraphs DEF Typed

\* by the self: loop,
LEMMA EdgesSelves ==
  ASSUME Typed, Edges, NEW f, NEW b, SelfCalls(b) \/ SelfTakes(f, b)
  PROVE  Edges'
<1>0. yaml' = yaml /\ todo' = todo /\ bd' = bd /\ sup' = sup /\ At("self") /\ Self(top, b)
  BY DEF SelfCalls, SelfTakes
<1>1. Needs' = Needs /\ Withs' = Withs /\ There' = There /\ \A a : HasSuper(a)' = HasSuper(a) /\ SuperOf(a)' = SuperOf(a)
  BY <1>0, Static
<1>2. /\ me \in Apps /\ me \in memo /\ me = top.app /\ Fits(top) /\ top.at = "self" /\ yaml \in Yamls /\ me \in There
      /\ me \in bd /\ top \in ToSet(stack)
  BY <1>0, Running DEF Typed, Edges, Fits, Late
<1>3. PICK a \in Apps : a = me
  BY <1>2
<1>4. b \in Apps /\ b \in Needs[a] /\ b \in All[a] /\ b \in There
  BY <1>0, <1>2, <1>3, SelfEdge, YamlGraphs
<1>5. CASE SelfCalls(b)
  <2>1. memo' = memo \cup {b} /\ deps' = deps /\ par' = par /\ Called(b, top)
    BY <1>5 DEF SelfCalls
  <2>2. memo' \subseteq There' /\ ToSet(yaml.roots)' \subseteq memo' \cup ToSet(todo')
    BY <1>0, <1>1, <1>4, <2>1 DEF Edges
  <2>3. \A g \in ToSet(stack') : Along(g)'
    <3>1. top.apps \subseteq Needs[me] \cup Withs[me]
      BY <1>0, StackAlong
    <3>2. PICK h : h = top
      OBVIOUS
    <3> QED
      BY <1>0, <1>2, <1>4, <2>1, <3>1, <3>2, StackAlong
  <2>4. /\ \A c \in Apps : ToSet(deps'[c]) \subseteq Needs'[c] \cup Withs'[c]
        /\ \A c \in Apps : ToSet(deps'[c]) # {} => c \in bd'
    BY <1>0, <1>1, <2>1 DEF Edges
  <2>5. \A c \in Apps : sup'[c] # NoApp => HasSuper(c)' /\ sup'[c] = SuperOf(c)'
    BY <1>0, <1>1 DEF Edges
  <2>6. \A c \in Apps : par'[c] # NoApp => c \in ToSet(deps'[par'[c]]) /\ c \in Needs'[par'[c]]
    BY <1>0, <1>1, <2>1 DEF Edges
  <2> QED
    BY <2>2, <2>3, <2>4, <2>5, <2>6 DEF Edges
<1>6. CASE SelfTakes(f, b)
  <2>1. /\ memo' = memo /\ deps' = [deps EXCEPT ![me] = Append(@, b)] /\ par' = [par EXCEPT ![b] = me]
        /\ Moved(f) /\ f.app = me /\ f.apps = top.apps \cup {b}
    BY <1>2, <1>6 DEF SelfTakes, Like
  <2>2. memo' \subseteq There' /\ ToSet(yaml.roots)' \subseteq memo' \cup ToSet(todo')
    BY <1>0, <1>1, <1>4, <2>1 DEF Edges
  <2>3. \A g \in ToSet(stack') : Along(g)'
    <3>1. top.apps \subseteq Needs[me] \cup Withs[me]
      BY <1>0, StackAlong
    <3> QED
      BY <1>0, <1>3, <1>4, <2>1, <3>1, StackAlong
  <2>4. deps \in [Apps -> Seq(Apps)] /\ par \in [Apps -> Apps \cup {NoApp}]
    BY DEF Typed
  <2>5. \A c \in Apps : ToSet(deps'[c]) = IF c = a THEN ToSet(deps[c]) \cup {b} ELSE ToSet(deps[c])
    <3>1. \A c \in Apps : deps'[c] = IF c = a THEN Append(deps[a], b) ELSE deps[c]
      BY <1>3, <2>1, <2>4
    <3>2. ToSet(Append(deps[a], b)) = ToSet(deps[a]) \cup {b}
      BY <1>4, <2>4, AppendSet
    <3> QED
      BY <3>1, <3>2
  <2>6. /\ \A c \in Apps : ToSet(deps'[c]) \subseteq Needs'[c] \cup Withs'[c]
        /\ \A c \in Apps : ToSet(deps'[c]) # {} => c \in bd'
    <3>1. ASSUME NEW c \in Apps
          PROVE  /\ ToSet(deps'[c]) \subseteq Needs'[c] \cup Withs'[c]
                 /\ ToSet(deps'[c]) # {} => c \in bd'
      <4>1. ToSet(deps[c]) \subseteq Needs[c] \cup Withs[c] /\ (ToSet(deps[c]) # {} => c \in bd)
        BY DEF Edges
      <4>2. CASE c = a
        BY <1>0, <1>1, <1>2, <1>3, <1>4, <2>5, <4>1, <4>2
      <4>3. CASE c # a
        BY <1>0, <1>1, <2>5, <4>1, <4>3
      <4> QED
        BY <4>2, <4>3
    <3> QED
      BY <3>1
  <2>7. \A c \in Apps : sup'[c] # NoApp => HasSuper(c)' /\ sup'[c] = SuperOf(c)'
    BY <1>0, <1>1 DEF Edges
  <2>8. ASSUME NEW c \in Apps, par'[c] # NoApp
        PROVE  c \in ToSet(deps'[par'[c]]) /\ c \in Needs'[par'[c]]
    <3>1. par'[c] = IF c = b THEN a ELSE par[c]
      BY <1>3, <1>4, <2>1, <2>4
    <3>2. CASE c = b
      BY <1>1, <1>3, <1>4, <2>5, <3>1, <3>2
    <3>3. CASE c # b
      <4>1. par[c] \in Apps /\ c \in ToSet(deps[par[c]]) /\ c \in Needs[par[c]]
        BY <2>4, <2>8, <3>1, <3>3 DEF Edges
      <4> QED
        BY <1>1, <2>5, <3>1, <3>3, <4>1
    <3> QED
      BY <3>2, <3>3
  <2> QED
    BY <2>2, <2>3, <2>6, <2>7, <2>8 DEF Edges
<1> QED
  BY <1>5, <1>6

\* and so by every step.
LEMMA EdgesNext ==
  ASSUME Typed, Edges, [Next]_vars
  PROVE  Edges'
<1>1. CASE Idle \/ Finished \/ OwnSuper \/ NotValid \/ Stopped
  <2>1. /\ yaml' = yaml /\ memo' = memo /\ todo' = todo /\ deps' = deps /\ bd' = bd
        /\ sup' = sup /\ par' = par /\ stack' = stack
    BY <1>1 DEF Idle, Finished, OwnSuper, NotValid, Stopped
  <2>2. Needs' = Needs /\ Withs' = Withs
    BY <2>1, Static
  <2>3. \A g \in ToSet(stack') : Along(g)'
    BY <2>1, <2>2 DEF Along, Edges
  <2> QED
    BY <2>1, <2>3, EdgesSame
<1>2. CASE RootKnown \/ RootNew
  BY <1>2, EdgesRoots
<1>3. CASE (\E f : CallSuper(f) \/ InheritFrom(f)) \/ SuperLoop
  BY <1>3, EdgesSupers
<1>4. CASE \E f, v, new : Takes(f, v, new)
  BY <1>4, EdgesTakes
<1>5. CASE (\E f, b : SelfTakes(f, b)) \/ (\E b : SelfCalls(b))
  BY <1>5, EdgesSelves
<1>6. CASE \E f : SkipSuper(f) \/ SuperThere(f) \/ Validated(f) \/ Checked(f) \/ EachSkips(f) \/ NodeDone(f)
  <2> PICK f : SkipSuper(f) \/ SuperThere(f) \/ Validated(f) \/ Checked(f) \/ EachSkips(f) \/ NodeDone(f)
    BY <1>6
  <2>1. /\ yaml' = yaml /\ memo' = memo /\ todo' = todo /\ deps' = deps /\ bd \subseteq bd'
        /\ sup' = sup /\ par' = par /\ Moved(f) /\ f.app = top.app /\ f.apps = top.apps
        /\ \E where : At(where)
    BY DEF SkipSuper, SuperThere, Validated, Checked, EachSkips, NodeDone, Like, me
  <2>2. PICK where : At(where)
    BY <2>1
  <2>3. \A g \in ToSet(stack') : Along(g)'
    BY <2>1, <2>2, StackAlong DEF me
  <2> QED
    BY <2>1, <2>3, EdgesSame
<1>7. CASE \E f : \E b \in Apps : EachCalls(f, b)
  <2>0. PICK f : \E b \in Apps : EachCalls(f, b)
    BY <1>7
  <2> PICK b \in Apps : EachCalls(f, b)
    BY <2>0
  <2>1. /\ yaml' = yaml /\ memo' = memo /\ todo' = todo /\ deps' = deps /\ bd' = bd
        /\ sup' = sup /\ par' = par /\ Called(b, f) /\ f.app = top.app /\ f.apps = top.apps
        /\ At("each")
    BY DEF EachCalls, Like, me
  <2>2. \A g \in ToSet(stack') : Along(g)'
    BY <2>1, StackAlong DEF me
  <2> QED
    BY <2>1, <2>2, EdgesSame
<1>8. CASE Ends
  <2>1. /\ yaml' = yaml /\ memo' = memo /\ todo' = todo /\ deps' = deps /\ bd' = bd
        /\ sup' = sup /\ par' = par /\ Left /\ At("each")
    BY <1>8 DEF Ends
  <2>2. \A g \in ToSet(stack') : Along(g)'
    BY <2>1, StackAlong
  <2> QED
    BY <2>1, <2>2, EdgesSame
<1>9. \/ Idle \/ Finished \/ RootKnown \/ RootNew
         \/ OwnSuper \/ SuperLoop \/ NotValid \/ Stopped \/ Ends
         \/ \E f : \/ SkipSuper(f) \/ SuperThere(f) \/ CallSuper(f) \/ InheritFrom(f) \/ Validated(f)
                   \/ Checked(f) \/ EachSkips(f) \/ NodeDone(f)
                   \/ (\E b \in Apps : EachCalls(f, b))
                   \/ (\E b : SelfTakes(f, b))
                   \/ (\E v, new : Takes(f, v, new))
         \/ \E b : SelfCalls(b)
  BY StepDoes
<1> QED
  BY <1>1, <1>2, <1>3, <1>4, <1>5, <1>6, <1>7, <1>8, <1>9

-----------------------------------------------------------------------------
(* No false alarm.                                                         *)

\* An edge from a to what leads to a closes a loop.
LEMMA BelowItself ==
  ASSUME NEW E \in Graph, NEW a \in Apps, NEW b \in E[a], a \in Closure(E, {b})
  PROVE  a \in Below(E, a)
<1>1. Below(E, a) = UNION {Closure(E, {c}) : c \in E[a]}
  BY Leads
<1> QED
  BY <1>1

\* Such an edge is what Sane excludes.
LEMMA NotSane ==
  ASSUME yaml \in Yamls, NEW a \in There, NEW b \in All[a], a \in Closure(All, {b})
  PROVE  ~Sane
<1>1. All \in Graph /\ a \in Apps
  BY YamlGraphs
<1>2. a \in Below(All, a)
  BY <1>1, BelowItself
<1> QED
  BY <1>2 DEF Sane

\* Who is forever below someone is below himself.
LEMMA NoTop ==
  ASSUME NEW E \in Graph, NEW C, C \subseteq Apps, C # {}, NEW f,
         \A b \in C : f[b] \in C /\ b \in E[f[b]]
  PROVE  \E b \in C : b \in Below(E, b)
<1> DEFINE N == Cardinality(Apps)
           r(b) == N - Cardinality(Closure(E, {b}))
           R == {r(b) : b \in C}
<1>1. \A b \in Apps : /\ IsFiniteSet(Closure(E, {b})) /\ Cardinality(Closure(E, {b})) \in Nat
                      /\ r(b) \in Nat
  <2> SUFFICES ASSUME NEW b \in Apps
               PROVE  /\ IsFiniteSet(Closure(E, {b})) /\ Cardinality(Closure(E, {b})) \in Nat
                      /\ r(b) \in Nat
    OBVIOUS
  <2>1. Closure(E, {b}) \in SUBSET Apps
    BY Leads
  <2>2. PICK S \in SUBSET Apps : S = Closure(E, {b})
    BY <2>1
  <2>3. IsFiniteSet(S) /\ Cardinality(S) <= N /\ Cardinality(S) \in Nat /\ N \in Nat
    BY AppsFinite, FS_Subset, FS_CardinalityType
  <2> QED
    BY <2>2, <2>3
<1>2. R \subseteq Nat /\ R # {}
  <2> HIDE DEF r
  <2> QED
    BY <1>1
<1>3. PICK b \in C : \A c \in C : r(b) <= r(c)
  <2>1. PICK x \in R : \A y \in R : x <= y
    <3> HIDE DEF R
    <3> QED
      BY <1>2, Least
  <2> HIDE DEF r
  <2> QED
    BY <2>1
<1>4. b \in Apps /\ f[b] \in C /\ f[b] \in Apps /\ b \in E[f[b]]
  OBVIOUS
<1>5. PICK c \in C : c = f[b] /\ c \in Apps /\ b \in E[c]
  BY <1>4
<1>6. Closure(E, {b}) \subseteq Closure(E, {c}) /\ c \in Closure(E, {c})
  <2>1. b \in Closure(E, {c})
    BY <1>5, Leads
  <2> QED
    BY <1>5, <2>1, Leads
<1>7. Closure(E, {b}) = Closure(E, {c})
  <2>1. PICK B, D : B = Closure(E, {b}) /\ D = Closure(E, {c})
    OBVIOUS
  <2>2. /\ IsFiniteSet(B) /\ IsFiniteSet(D) /\ Cardinality(B) \in Nat /\ Cardinality(D) \in Nat
        /\ B \subseteq D /\ N - Cardinality(B) <= N - Cardinality(D) /\ N \in Nat
    BY <1>1, <1>3, <1>4, <1>5, <1>6, <2>1, AppsFinite
  <2>3. Cardinality(D) <= Cardinality(B)
    BY <2>2
  <2>4. B \in SUBSET D
    BY <2>2
  <2>5. Cardinality(B) <= Cardinality(D) /\ (Cardinality(B) = Cardinality(D) => B = D)
    BY <2>2, <2>4, FS_Subset
  <2> QED
    BY <2>1, <2>2, <2>3, <2>5
<1>8. c \in Closure(E, {b})
  BY <1>6, <1>7
<1>9. Closure(E, {b}) = {b} \cup Below(E, b) /\ E[b] \subseteq Apps /\ Below(E, b) = Closure(E, E[b])
  BY <1>4, Leads DEF Below
<1>10. Closed(E, Below(E, b)) /\ E[b] \subseteq Below(E, b)
  BY <1>9, ClosureFacts
<1>11. b \in Below(E, b)
  <2>1. CASE c = b
    BY <1>5, <1>10, <2>1
  <2>2. CASE c # b
    BY <1>5, <1>8, <1>9, <1>10, <2>2 DEF Closed
  <2> QED
    BY <2>1, <2>2
<1> QED
  BY <1>11

\* The chain of a function.
LEMMA ChainFacts ==
  ASSUME NEW f \in [Apps -> Apps \cup {NoApp}], NEW a \in Apps
  PROVE  /\ Chain(f, a) \in SUBSET Apps
         /\ a \in Chain(f, a)
         /\ \A b \in Chain(f, a) : f[b] # NoApp => f[b] \in Chain(f, a)
         /\ \A Z : a \in Z /\ (\A b \in Z : f[b] # NoApp => f[b] \in Z) => Chain(f, a) \subseteq Z
<1> DEFINE E == [b \in Apps |-> {f[b]} \ {NoApp}]
<1>1. E \in Graph
  BY DEF Graph
<1>2. Chain(f, a) = Closure(E, {a})
  BY DEF Chain
<1>3. {a} \in SUBSET Apps
  OBVIOUS
<1>4. \A b \in Apps : E[b] = {f[b]} \ {NoApp}
  OBVIOUS
<1>5. /\ Closure(E, {a}) \in SUBSET Apps
      /\ {a} \subseteq Closure(E, {a})
      /\ Closed(E, Closure(E, {a}))
      /\ \A Z : {a} \subseteq Z /\ Closed(E, Z) => Closure(E, {a}) \subseteq Z
  <2> HIDE DEF E
  <2> QED
    BY <1>1, <1>3, ClosureFacts
<1> HIDE DEF E
<1>6. \A b \in Chain(f, a) : f[b] # NoApp => f[b] \in Chain(f, a)
  BY <1>2, <1>4, <1>5 DEF Closed
<1>7. ASSUME NEW Z, a \in Z, \A b \in Z : f[b] # NoApp => f[b] \in Z
      PROVE  Chain(f, a) \subseteq Z
  <2>1. {a} \subseteq Z \cap Apps
    BY <1>7
  <2>2. Closed(E, Z \cap Apps)
    BY <1>4, <1>7 DEF Closed
  <2>3. Closure(E, {a}) \subseteq Z \cap Apps
    BY <1>5, <2>1, <2>2
  <2> QED
    BY <1>2, <2>3
<1> QED
  BY <1>2, <1>5, <1>6, <1>7

\* Each check that ends a run has a loop of the yaml files before it.
LEMMA StopsAtLoops ==
  ASSUME Typed, Edges, OwnSuper \/ SuperLoop \/ NotValid \/ Stopped
  PROVE  ~Sane
<1>0. yaml \in Yamls /\ All \in Graph /\ par \in [Apps -> Apps \cup {NoApp}]
  BY YamlGraphs DEF Typed
<1>1. PICK where : At(where)
  BY DEF OwnSuper, SuperLoop, NotValid, Stopped
<1>2. me \in Apps /\ me \in memo /\ me = top.app /\ Fits(top) /\ me \in There
  BY <1>1, Running DEF Edges
<1>3. PICK a \in Apps : a = me /\ a \in There
  BY <1>2
<1>4. ASSUME HasSuper(a)
      PROVE  /\ SuperOf(a) \in Apps /\ SuperOf(a) \in There /\ SuperOf(a) \in All[a]
             /\ \A b \in Apps : b[1] = a[1] => HasSuper(b) /\ SuperOf(b) = SuperOf(a)
  <2>1. SuperOf(a) \in Apps /\ SuperOf(a) \in There /\ SuperOf(a) \in All[a]
    BY <1>0, <1>3, <1>4, YamlGraphs
  <2>2. \A b \in Apps : b[1] = a[1] => HasSuper(b) /\ SuperOf(b) = SuperOf(a)
    BY <1>4 DEF HasSuper, SuperOf
  <2> QED
    BY <2>1, <2>2
<1>5. CASE OwnSuper
  <2>1. HasSuper(a) /\ SuperOf(a)[1] = a[1]
    BY <1>3, <1>5 DEF OwnSuper
  <2>2. PICK S \in Apps : S = SuperOf(a) /\ S \in There /\ HasSuper(S) /\ SuperOf(S) = S
    BY <1>4, <2>1
  <2>3. S \in All[S] /\ S \in Closure(All, {S})
    BY <1>0, <2>2, YamlGraphs, Leads
  <2> QED
    BY <1>0, <2>2, <2>3, NotSane
<1>6. CASE SuperLoop
  <2>1. HasSuper(a)
    BY <1>2, <1>3, <1>6, Running DEF SuperLoop, Fits
  <2>2. PICK S \in Apps : S = SuperOf(a) /\ S \in There
    BY <1>4, <2>1
  <2>3. sup \in [Apps -> Apps \cup {NoApp}] /\ sup' = [sup EXCEPT ![a] = S]
    BY <1>3, <1>6, <2>2 DEF SuperLoop, Typed
  <2>4. PICK g \in [Apps -> Apps \cup {NoApp}] : g = sup'
    BY <2>2, <2>3
  <2>5. PICK b \in Chain(g, S) : b[1] = a[1]
    BY <1>3, <1>6, <2>2, <2>4 DEF SuperLoop
  <2>6. \A c \in Apps : g[c] # NoApp => g[c] \in All[c]
    <3>1. \A c \in Apps : g[c] = IF c = a THEN S ELSE sup[c]
      BY <2>3, <2>4
    <3> QED
      BY <1>0, <1>4, <2>1, <2>2, <3>1, YamlGraphs DEF Edges
  <2>7. Chain(g, S) \subseteq Closure(All, {S})
    <3>1. S \in Closure(All, {S}) /\ \A c \in Closure(All, {S}) : c \in Apps /\ All[c] \subseteq Closure(All, {S})
      BY <1>0, Leads
    <3>2. \A c \in Closure(All, {S}) : g[c] # NoApp => g[c] \in Closure(All, {S})
      BY <2>6, <3>1
    <3> QED
      BY <2>4, <3>1, <3>2, ChainFacts
  <2>8. b \in Apps /\ b \in Closure(All, {S}) /\ HasSuper(b) /\ SuperOf(b) = S
    <3>1. b \in Apps
      BY <2>4, <2>5, ChainFacts
    <3> QED
      BY <1>4, <2>1, <2>2, <2>5, <2>7, <3>1
  <2>9. S \in All[b]
    BY <1>0, <2>8, YamlGraphs
  <2>10. b \in There
    <3>1. There \in SUBSET Apps /\ Closed(All, There) /\ {S} \subseteq There
      BY <1>0, <2>2, YamlGraphs DEF Closed
    <3>2. Closure(All, {S}) \subseteq There
      <4>1. {S} \in SUBSET Apps
        OBVIOUS
      <4> QED
        BY <1>0, <3>1, <4>1, ClosureFacts
    <3> QED
      BY <2>8, <3>2
  <2> QED
    BY <1>0, <2>8, <2>9, <2>10, NotSane
<1>7. CASE NotValid
  <2>1. a[1] \in Projects /\ Validation(a[1]) # "ok"
    BY <1>0, <1>3, <1>7, YamlFacts DEF NotValid
  <2> QED
    BY <2>1 DEF Sane, ParentsFine
<1>8. \A b \in Apps : par[b] # NoApp => b \in All[par[b]] /\ par[b] \in Apps /\ b \in There
  <2> SUFFICES ASSUME NEW b \in Apps, par[b] # NoApp
               PROVE  b \in All[par[b]] /\ par[b] \in Apps /\ b \in There
    OBVIOUS
  <2>1. PICK y \in Apps : y = par[b]
    BY <1>0
  <2>2. b \in ToSet(deps[y]) /\ b \in Needs[y]
    BY <2>1 DEF Edges
  <2>3. b \in memo
    BY <2>2 DEF Typed
  <2> QED
    BY <1>0, <2>1, <2>2, <2>3, YamlGraphs DEF Edges
<1>9. CASE Stopped /\ Endless(par, me)
  <2>1. PICK C : C = Chain(par, a)
    OBVIOUS
  <2>2. C \subseteq Apps /\ a \in C /\ \A b \in C : par[b] # NoApp => par[b] \in C
    BY <1>0, <2>1, ChainFacts
  <2>3. \A b \in C : par[b] # NoApp
    BY <1>3, <1>9, <2>1 DEF Endless
  <2>4. C # {} /\ \A b \in C : par[b] \in C /\ b \in All[par[b]]
    BY <1>8, <2>2, <2>3
  <2>5. PICK b \in C : b \in Below(All, b)
    <3>1. PICK f : f = par
      OBVIOUS
    <3> QED
      BY <1>0, <2>2, <2>4, <3>1, NoTop
  <2>6. b \in There
    BY <1>8, <2>2, <2>3
  <2> QED
    BY <2>5, <2>6 DEF Sane
<1>10. CASE Stopped /\ OnChain
  <2>1. PICK b \in Chain(par, a) : b \in top.apps
    BY <1>3, <1>10 DEF OnChain
  <2>2. b \in All[a]
    <3>1. b \in Needs[a] \cup Withs[a]
      BY <1>1, <1>3, <2>1, Running DEF Along, Edges
    <3> QED
      BY <1>0, <3>1, YamlGraphs
  <2> DEFINE Z == {c \in Apps : a \in Closure(All, {c})}
  <2>3. a \in Z
    BY <1>0, Leads
  <2>4. ASSUME NEW c \in Z, par[c] # NoApp
        PROVE  par[c] \in Z
    <3>1. PICK y \in Apps : y = par[c] /\ c \in All[y]
      BY <1>8, <2>4
    <3>2. c \in Closure(All, {y})
      BY <1>0, <3>1, Leads
    <3>3. Closure(All, {c}) \subseteq Closure(All, {y})
      BY <1>0, <3>1, <3>2, Leads
    <3> QED
      BY <3>1, <3>3
  <2>5. Chain(par, a) \subseteq Z
    <3> HIDE DEF Z
    <3> QED
      BY <1>0, <2>3, <2>4, ChainFacts
  <2>6. a \in Closure(All, {b})
    BY <2>1, <2>5
  <2> QED
    BY <1>0, <1>3, <2>2, <2>6, NotSane
<1> QED
  BY <1>5, <1>6, <1>7, <1>9, <1>10 DEF Stopped

Alarm == status \in {"run", "done"} \/ ~Sane

\* A run is ended by a check only where something loops.
LEMMA AlarmNext ==
  ASSUME Typed, Edges, Alarm, [Next]_vars
  PROVE  Alarm'
<1>1. CASE OwnSuper \/ SuperLoop \/ NotValid \/ Stopped
  <2>1. yaml' = yaml
    BY <1>1 DEF OwnSuper, SuperLoop, NotValid, Stopped
  <2>2. Sane' = Sane
    BY <2>1, Static
  <2> QED
    BY <1>1, <2>2, StopsAtLoops DEF Alarm
<1>2. CASE \/ Idle \/ RootKnown \/ RootNew \/ Finished \/ Ends
           \/ \E f : \/ SkipSuper(f) \/ SuperThere(f) \/ CallSuper(f) \/ InheritFrom(f) \/ Validated(f)
                     \/ Checked(f) \/ EachSkips(f) \/ NodeDone(f)
                     \/ (\E b \in Apps : EachCalls(f, b))
                     \/ (\E b : SelfTakes(f, b))
                     \/ (\E v, new : Takes(f, v, new))
           \/ \E b : SelfCalls(b)
  <2>1. yaml' = yaml /\ (status' = status \/ status' = "done")
    BY <1>2 DEF Idle, RootKnown, RootNew, Finished, Ends, SkipSuper, SuperThere, CallSuper, InheritFrom,
                Validated, Checked, EachSkips, NodeDone, EachCalls, SelfTakes, Takes, SelfCalls
  <2>2. Sane' = Sane
    BY <2>1, Static
  <2> QED
    BY <2>1, <2>2 DEF Alarm
<1> QED
  BY <1>1, <1>2, StepDoes

-----------------------------------------------------------------------------
(* Properties are inherited from all supers.                               *)

Goes == status \in {"run", "done"}

HasIts(a) == sup[a] # NoApp \/ ~HasSuper(a)

Inherits ==
  Goes =>
    /\ \A a \in Apps : sup[a] # NoApp /\ a \notin early => \A b \in Below(Supers, a) : b[1] \in ps[a]
    /\ \A a \in bd : HasIts(a)
    /\ \A f \in ToSet(stack) : f.at \notin {"super", "inherit"} => HasIts(f.app)

\* The chain of supers, one step up.
LEMMA NoSuper ==
  ASSUME yaml \in Yamls, NEW a \in Apps
  PROVE  /\ ~HasSuper(a) => Below(Supers, a) = {}
         /\ HasSuper(a) => Below(Supers, a) = {SuperOf(a)} \cup Below(Supers, SuperOf(a))
<1>1. Supers \in Graph
  BY YamlGraphs
<1>2. Below(Supers, a) = UNION {Closure(Supers, {b}) : b \in Supers[a]}
  BY <1>1, Leads
<1>3. ASSUME HasSuper(a)
      PROVE  Below(Supers, a) = {SuperOf(a)} \cup Below(Supers, SuperOf(a))
  <2>1. PICK S \in Apps : S = SuperOf(a) /\ Supers[a] = {S}
    BY <1>3, YamlGraphs
  <2>2. Closure(Supers, {S}) = {S} \cup Below(Supers, S)
    BY <1>1, <2>1, Leads
  <2> QED
    BY <1>2, <2>1, <2>2
<1>4. ~HasSuper(a) => Supers[a] = {}
  BY YamlGraphs
<1> QED
  BY <1>2, <1>3, <1>4

\* Steps that inherit nothing.
LEMMA InheritsSame ==
  ASSUME Typed, Inherits, Goes, yaml' = yaml, sup' = sup, early' = early,
         \A a \in Apps : ps[a] \subseteq ps'[a],
         \A a \in bd' : a \in bd \/ HasIts(a),
         \A f \in ToSet(stack') : f.at \notin {"super", "inherit"} => HasIts(f.app)
  PROVE  Inherits'
<1>1. Supers' = Supers /\ \A a : HasSuper(a)' = HasSuper(a)
  BY Static
<1>2. \A a : HasIts(a)' = HasIts(a)
  BY <1>1 DEF HasIts
<1>3. \A a : Below(Supers, a)' = Below(Supers, a)
  BY <1>1 DEF Below
<1>4. \A a \in Apps : sup'[a] # NoApp /\ a \notin early' => \A b \in Below(Supers, a)' : b[1] \in ps'[a]
  BY <1>3 DEF Inherits
<1>5. \A a \in bd' : HasIts(a)'
  BY <1>2 DEF Inherits
<1> QED
  BY <1>2, <1>4, <1>5 DEF Inherits

\* Inheriting from a super that has inherited takes all up the chain.
LEMMA InheritsNext ==
  ASSUME Typed, Edges, Inherits, [Next]_vars
  PROVE  Inherits'
<1>1. CASE OwnSuper \/ SuperLoop \/ NotValid \/ Stopped
  <2>1. status' \notin {"run", "done"}
    <3>1. NotValid => status' \in {"parents", "overflow"}
      <4>1. ASSUME NotValid
            PROVE  me \in Apps
        BY <4>1, Running DEF NotValid
      <4> QED
        BY <4>1, ValidationFacts DEF NotValid, Typed
    <3> QED
      BY <1>1, <3>1 DEF OwnSuper, SuperLoop, Stopped
  <2> QED
    BY <2>1 DEF Inherits, Goes
<1>2. CASE Idle \/ Finished \/ RootKnown
  <2>1. /\ yaml' = yaml /\ sup' = sup /\ early' = early /\ ps' = ps /\ bd' = bd /\ stack' = stack
        /\ (Goes => Goes') /\ (Goes' => Goes)
    BY <1>2 DEF Idle, Finished, RootKnown, Goes
  <2>2. CASE Goes
    BY <2>1, <2>2, InheritsSame DEF Inherits
  <2>3. CASE ~Goes
    BY <2>1, <2>3 DEF Inherits
  <2> QED
    BY <2>2, <2>3
<1>3. CASE RootNew
  <2>1. /\ yaml' = yaml /\ sup' = sup /\ early' = early /\ ps' = ps /\ bd' = bd /\ Goes
        /\ todo \in Seq(Apps) /\ todo # <<>> /\ stack' = <<Call(Head(todo))>>
    BY <1>3 DEF RootNew, Goes, Typed
  <2>2. PICK b \in Apps, c \in Frame : b = Head(todo) /\ c = Call(b) /\ c.at = "super"
    <3>1. Head(todo) \in Apps
      BY <2>1
    <3> QED
      BY <3>1, CallFacts
  <2>3. stack' = <<c>>
    BY <2>1, <2>2
  <2>4. stack' \in Seq(Frame) /\ Len(stack') = 1 /\ stack'[1] = c
    BY <2>3
  <2>5. ToSet(stack') = {stack'[i] : i \in 1..1}
    BY <2>4, SetOf
  <2>6. \A f \in ToSet(stack') : f.at = "super"
    BY <2>2, <2>4, <2>5
  <2> QED
    BY <2>1, <2>6, InheritsSame
<1>4. CASE Ends
  <2>1. /\ yaml' = yaml /\ sup' = sup /\ early' = early /\ ps' = ps /\ bd' = bd /\ Goes
        /\ ToSet(stack') = ToSet(Tail(stack)) /\ At("each")
    BY <1>4 DEF Ends, Goes, At, Left
  <2>2. ToSet(stack') \subseteq ToSet(stack)
    BY <2>1, Running
  <2> QED
    BY <2>1, <2>2, InheritsSame DEF Inherits
<1>5. ASSUME NEW f, NEW where, At(where), f.app = me, yaml' = yaml, sup' = sup, early' = early, bd' = bd,
             ps' = ps, f.at \in {"super", "inherit"} \/ HasIts(me),
             Moved(f) \/ \E b \in Apps : Called(b, f)
      PROVE  Inherits'
  <2>1. Goes /\ ToSet(stack) = {top} \cup ToSet(Tail(stack))
    BY <1>5, Running DEF Goes
  <2>2. \A g \in ToSet(Tail(stack)) : g.at \notin {"super", "inherit"} => HasIts(g.app)
    BY <2>1 DEF Inherits
  <2>3. f.at \notin {"super", "inherit"} => HasIts(f.app)
    BY <1>5
  <2>4. \A g \in ToSet(stack') : g.at \notin {"super", "inherit"} => HasIts(g.app)
    <3>1. CASE Moved(f)
      BY <2>2, <2>3, <3>1 DEF Moved
    <3>2. CASE \E b \in Apps : Called(b, f)
      <4>1. PICK b \in Apps : Called(b, f)
        BY <3>2
      <4>2. PICK c : c = Call(b)
        OBVIOUS
      <4>3. c.at = "super" /\ ToSet(stack') = {c, f} \cup ToSet(Tail(stack))
        BY <4>1, <4>2, CallFacts DEF Called
      <4> QED
        BY <2>2, <2>3, <4>3
    <3> QED
      BY <1>5, <3>1, <3>2
  <2> QED
    BY <1>5, <2>1, <2>4, InheritsSame
<1>6. \A where : At(where) /\ where \notin {"super", "inherit"} => HasIts(me)
  <2> SUFFICES ASSUME NEW where, At(where), where \notin {"super", "inherit"}
               PROVE  HasIts(me)
    OBVIOUS
  <2>1. top \in ToSet(stack) /\ top.at = where /\ me = top.app /\ Goes
    BY Running DEF Goes
  <2> QED
    BY <2>1 DEF Inherits
<1>7. CASE \E f : SkipSuper(f) \/ SuperThere(f) \/ CallSuper(f)
  <2> PICK f : SkipSuper(f) \/ SuperThere(f) \/ CallSuper(f)
    BY <1>7
  <2>1. /\ At("super") /\ f.app = me /\ yaml' = yaml /\ sup' = sup /\ early' = early /\ bd' = bd /\ ps' = ps
        /\ f.at \in {"super", "inherit"} \/ HasIts(me)
        /\ Moved(f) \/ (Called(SuperOf(me), f) /\ HasSuper(me))
    BY DEF SkipSuper, SuperThere, CallSuper, Like, HasIts, me
  <2>2. HasSuper(me) => SuperOf(me) \in Apps
    BY <2>1, Running, YamlFacts DEF Typed
  <2> QED
    BY <1>5, <2>1, <2>2
<1>8. CASE \E f : Checked(f) \/ EachSkips(f) \/ NodeDone(f) \/ (\E b \in Apps : EachCalls(f, b))
                  \/ (\E b : SelfTakes(f, b)) \/ (\E v, new : Takes(f, v, new))
  <2> PICK f : Checked(f) \/ EachSkips(f) \/ NodeDone(f) \/ (\E b \in Apps : EachCalls(f, b))
                  \/ (\E b : SelfTakes(f, b)) \/ (\E v, new : Takes(f, v, new))
    BY <1>8
  <2>1. /\ \E where : At(where) /\ where \notin {"super", "inherit"}
        /\ f.app = me /\ yaml' = yaml /\ sup' = sup /\ early' = early /\ bd' = bd /\ ps' = ps
        /\ Moved(f) \/ \E b \in Apps : Called(b, f)
    BY DEF Checked, EachSkips, NodeDone, EachCalls, SelfTakes, Takes, Like, me
  <2> QED
    BY <1>5, <1>6, <2>1
<1>9. CASE \E b : SelfCalls(b)
  <2> PICK b : SelfCalls(b)
    BY <1>9
  <2>1. /\ At("self") /\ b \in Apps /\ Called(b, top)
        /\ yaml' = yaml /\ sup' = sup /\ early' = early /\ bd' = bd /\ ps' = ps
    BY DEF SelfCalls
  <2>2. PICK f : f = top
    OBVIOUS
  <2>3. f.app = me /\ Called(b, f) /\ HasIts(me)
    BY <1>6, <2>1, <2>2 DEF me
  <2> QED
    BY <1>5, <2>1, <2>3
<1>10. CASE \E f : Validated(f)
  <2> PICK f : Validated(f)
    BY <1>10
  <2>1. /\ At("validate") /\ yaml' = yaml /\ sup' = sup /\ early' = early /\ bd' = bd \cup {me}
        /\ ps' = [ps EXCEPT ![me] = @ \cup {me[1]}] /\ Moved(f) /\ f.app = me
    BY DEF Validated, Like, me
  <2>2. HasIts(me)
    BY <1>6, <2>1
  <2>3. \A a \in Apps : ps[a] \subseteq ps'[a]
    BY <2>1 DEF Typed
  <2>4. ToSet(stack) = {top} \cup ToSet(Tail(stack)) /\ Goes
    BY <2>1, Running DEF Goes
  <2>5. \A g \in ToSet(stack') : g.at \notin {"super", "inherit"} => HasIts(g.app)
    BY <2>1, <2>2, <2>4 DEF Moved, Inherits
  <2>6. \A a \in bd' : a \in bd \/ HasIts(a)
    BY <2>1, <2>2
  <2> QED
    BY <2>1, <2>3, <2>4, <2>5, <2>6, InheritsSame
<1>11. CASE \E f : InheritFrom(f)
  <2> PICK f : InheritFrom(f)
    BY <1>11
  <2>1. /\ At("inherit") /\ yaml' = yaml /\ bd' = bd /\ Moved(f) /\ f.app = me
    BY DEF InheritFrom, Like, me
  <2>2. /\ me \in Apps /\ HasSuper(me) /\ Goes /\ yaml \in Yamls
        /\ ToSet(stack) = {top} \cup ToSet(Tail(stack))
    BY <2>1, Running DEF Goes, Fits, Typed
  <2>3. PICK a \in Apps, S \in Apps : a = me /\ S = SuperOf(a) /\ HasSuper(a)
    BY <2>2, YamlFacts
  <2>4. /\ sup' = [sup EXCEPT ![a] = S] /\ sup \in [Apps -> Apps \cup {NoApp}]
        /\ ps \in [Apps -> SUBSET Projects]
        /\ ps' = [ps EXCEPT ![S] = @ \cup {S[1]}, ![a] = Inherited(S)]
        /\ early' = IF S \in early \/ (HasSuper(S) /\ sup[S] = NoApp) THEN early \cup {a} ELSE early
    BY <2>3 DEF InheritFrom, Typed
  <2>5. Inherited(S) = ps[a] \cup ps[S] \cup {S[1]}
    BY <2>3 DEF Inherited
  <2>6. (\A c \in Apps : ps[c] \subseteq ps'[c]) /\ ps'[a] = ps[a] \cup ps[S] \cup {S[1]}
    <3>1. PICK I : I = Inherited(S)
      OBVIOUS
    <3>2. PICK p \in [Apps -> SUBSET (Projects \cup {S[1]})] : p = [ps EXCEPT ![S] = @ \cup {S[1]}]
      BY <2>4
    <3>3. ps' = [p EXCEPT ![a] = I]
      BY <2>4, <3>1, <3>2
    <3>4. \A c \in Apps : p[c] = IF c = S THEN ps[S] \cup {S[1]} ELSE ps[c]
      BY <2>4, <3>2
    <3>5. \A c \in Apps : ps'[c] = IF c = a THEN I ELSE p[c]
      BY <3>2, <3>3
    <3> QED
      BY <2>5, <3>1, <3>4, <3>5
  <2>7. \A c \in Apps : sup'[c] = IF c = a THEN S ELSE sup[c]
    BY <2>4
  <2>8. Supers' = Supers /\ \A c : HasSuper(c)' = HasSuper(c)
    BY <2>1, Static
  <2>9. \A c : Below(Supers, c)' = Below(Supers, c)
    BY <2>8 DEF Below
  <2>10. S # NoApp
    BY NoAppFacts
  <2>11. \A c \in Apps : HasIts(c) => HasIts(c)'
    BY <2>7, <2>8, <2>10 DEF HasIts
  <2>12. HasIts(a)'
    BY <2>7, <2>10 DEF HasIts
  <2>13. ASSUME NEW c \in Apps, sup'[c] # NoApp, c \notin early', NEW b \in Below(Supers, c)
         PROVE  b[1] \in ps'[c]
    <3>1. CASE c # a
      <4>1. sup[c] # NoApp /\ c \notin early
        BY <2>4, <2>7, <2>13, <3>1
      <4> QED
        BY <2>2, <2>6, <2>13, <4>1 DEF Inherits
    <3>2. CASE c = a
      <4>1. b = S \/ b \in Below(Supers, S)
        BY <2>2, <2>3, <2>13, <3>2, NoSuper
      <4>2. S \notin early /\ (HasSuper(S) => sup[S] # NoApp)
        BY <2>4, <2>13, <3>2
      <4>3. CASE b = S
        BY <2>6, <3>2, <4>3
      <4>4. CASE b \in Below(Supers, S)
        <5>1. HasSuper(S)
          BY <2>2, <4>4, NoSuper
        <5>2. b[1] \in ps[S]
          BY <2>2, <4>2, <4>4, <5>1 DEF Inherits
        <5> QED
          BY <2>6, <3>2, <5>2
      <4> QED
        BY <4>1, <4>3, <4>4
    <3> QED
      BY <3>1, <3>2
  <2>14. \A c \in bd' : HasIts(c)'
    <3>1. bd \subseteq Apps
      BY DEF Typed
    <3> QED
      BY <2>1, <2>2, <2>11, <3>1 DEF Inherits
  <2>15. \A g \in ToSet(stack') : g.at \notin {"super", "inherit"} => HasIts(g.app)'
    <3>1. \A g \in ToSet(Tail(stack)) : g.app \in Apps
      BY <2>2, NodeFacts
    <3>2. \A g \in ToSet(Tail(stack)) : g.at \notin {"super", "inherit"} => HasIts(g.app)'
      BY <2>2, <2>11, <3>1 DEF Inherits
    <3>3. HasIts(f.app)'
      BY <2>1, <2>3, <2>12
    <3> QED
      BY <2>1, <3>2, <3>3 DEF Moved
  <2>16. \A c \in Apps : sup'[c] # NoApp /\ c \notin early' => \A b \in Below(Supers, c)' : b[1] \in ps'[c]
    BY <2>9, <2>13
  <2> QED
    BY <2>14, <2>15, <2>16 DEF Inherits
<1> QED
  BY <1>1, <1>2, <1>3, <1>4, <1>7, <1>8, <1>9, <1>10, <1>11, StepDoes

\* At the end everything set up has inherited.
LEMMA InheritsAtEnd ==
  ASSUME Typed, Inherits
  PROVE  InheritsAll
<1> SUFFICES ASSUME status = "done", NEW a \in bd \ early, NEW b \in Below(Supers, a)
             PROVE  b[1] \in ps[a]
  BY DEF InheritsAll, InheritsBut
<1>1. a \in Apps /\ yaml \in Yamls /\ Goes
  BY DEF Typed, Goes
<1>2. HasSuper(a)
  BY <1>1, NoSuper
<1>3. sup[a] # NoApp
  BY <1>1, <1>2 DEF Inherits, HasIts
<1> QED
  BY <1>1, <1>3 DEF Inherits

-----------------------------------------------------------------------------
(* The recursion.                                                          *)

\* A list is only added to.
LEMMA Grows ==
  ASSUME Typed, [Next]_vars
  PROVE  /\ yaml' = yaml /\ memo \subseteq memo' /\ bd \subseteq bd'
         /\ \A a \in Apps : /\ deps'[a] \in Seq(Apps) /\ deps[a] \in Seq(Apps)
                            /\ \A k \in DOMAIN deps[a] : k \in DOMAIN deps'[a] /\ deps'[a][k] = deps[a][k]
                            /\ ToSet(deps[a]) \subseteq ToSet(deps'[a])
<1>1. CASE \/ Idle \/ Finished \/ RootKnown \/ RootNew
           \/ OwnSuper \/ SuperLoop \/ NotValid \/ Stopped \/ Ends
           \/ \E f : \/ SkipSuper(f) \/ SuperThere(f) \/ CallSuper(f) \/ InheritFrom(f) \/ Validated(f)
                     \/ Checked(f) \/ EachSkips(f) \/ NodeDone(f)
                     \/ (\E b \in Apps : EachCalls(f, b))
           \/ \E b : SelfCalls(b)
  <2>1. yaml' = yaml /\ memo \subseteq memo' /\ bd \subseteq bd' /\ deps' = deps
    BY <1>1 DEF Idle, Finished, RootKnown, RootNew, OwnSuper, SuperLoop, NotValid, Stopped, Ends, SkipSuper,
                SuperThere, CallSuper, InheritFrom, Validated, Checked, EachSkips, NodeDone, EachCalls, SelfCalls
  <2> QED
    BY <2>1 DEF Typed
<1>2. CASE \E f, v, new : Takes(f, v, new)
  <2> PICK f, v, new : Takes(f, v, new)
    BY <1>2
  <2>1. /\ yaml' = yaml /\ memo \subseteq memo' /\ bd' = bd /\ deps' = [deps EXCEPT ![me] = v]
        /\ ToSet(v) = ToSet(deps[me]) \cup new /\ me \in Apps /\ deps \in [Apps -> Seq(Apps)]
    BY Running DEF Takes, Typed
  <2>2. v \in Seq(Apps) /\ \A k \in DOMAIN deps[me] : k \in DOMAIN v /\ v[k] = deps[me][k]
    <3>1. /\ v \in Seq(Apps) /\ Len(deps[me]) <= Len(v) /\ deps[me] \in Seq(Apps)
          /\ \A i \in 1..Len(deps[me]) : v[i] = deps[me][i]
      BY <2>1 DEF Takes, Onward
    <3>2. DOMAIN deps[me] = 1..Len(deps[me]) /\ DOMAIN v = 1..Len(v) /\ Len(v) \in Nat /\ Len(deps[me]) \in Nat
      BY <3>1
    <3> QED
      BY <3>1, <3>2
  <2>3. \A a \in Apps : deps'[a] = IF a = me THEN v ELSE deps[a]
    BY <2>1
  <2> QED
    BY <2>1, <2>2, <2>3
<1>3. CASE \E f, b : SelfTakes(f, b)
  <2> PICK f, b : SelfTakes(f, b)
    BY <1>3
  <2>1. /\ yaml' = yaml /\ memo' = memo /\ bd' = bd /\ deps' = [deps EXCEPT ![me] = Append(deps[me], b)]
        /\ me \in Apps /\ deps \in [Apps -> Seq(Apps)] /\ b \in Apps
    BY Running DEF SelfTakes, Typed
  <2>0. PICK d \in Seq(Apps) : d = deps[me]
    BY <2>1
  <2>2. PICK v : v = Append(d, b)
    OBVIOUS
  <2>3. /\ Len(v) = Len(d) + 1 /\ Len(d) \in Nat
        /\ \A i \in 1..Len(d) : v[i] = d[i]
        /\ ToSet(v) = ToSet(d) \cup {b} /\ v \in Seq(Apps)
    BY <2>1, <2>0, <2>2, AppendSet
  <2>4. \A k \in DOMAIN d : k \in DOMAIN v /\ v[k] = d[k]
    <3>1. DOMAIN d = 1..Len(d) /\ DOMAIN v = 1..Len(v)
      BY <2>0, <2>2, <2>3
    <3> QED
      BY <2>3, <3>1
  <2>5. \A a \in Apps : deps'[a] = IF a = me THEN v ELSE deps[a]
    BY <2>1, <2>0, <2>2
  <2> QED
    BY <2>1, <2>0, <2>2, <2>3, <2>4, <2>5
<1> QED
  BY <1>1, <1>2, <1>3, StepDoes

\* What frame f waits for.
Calls(f, b) ==
  \/ f.at = "inherit" /\ HasSuper(f.app) /\ b = SuperOf(f.app)
  \/ Self(f, b)
  \/ f.at = "each" /\ f.i - 1 \in DOMAIN deps[f.app] /\ b = deps[f.app][f.i - 1]

Placed == \A j \in 2..Len(stack) : Calls(stack[j], stack[j - 1].app)

\* What a frame waits for does not change while it waits.
LEMMA CallsStay ==
  ASSUME Typed, [Next]_vars, NEW f, NEW b, Calls(f, b), f.app \in Apps
  PROVE  Calls(f, b)'
<1>1. /\ yaml' = yaml
      /\ \A k \in DOMAIN deps[f.app] : k \in DOMAIN deps'[f.app] /\ deps'[f.app][k] = deps[f.app][k]
  BY Grows
<1>2. HasSuper(f.app)' = HasSuper(f.app) /\ SuperOf(f.app)' = SuperOf(f.app) /\ Lineage(f.app)' = Lineage(f.app)
  BY <1>1, Static
<1>3. CASE f.at = "inherit" /\ HasSuper(f.app) /\ b = SuperOf(f.app)
  BY <1>2, <1>3 DEF Calls
<1>4. CASE Self(f, b)
  <2>1. Self(f, b)'
    BY <1>1, <1>2, <1>4 DEF Self, Listed
  <2> QED
    BY <2>1 DEF Calls
<1>5. CASE f.at = "each" /\ f.i - 1 \in DOMAIN deps[f.app] /\ b = deps[f.app][f.i - 1]
  BY <1>1, <1>5 DEF Calls
<1> QED
  BY <1>3, <1>4, <1>5 DEF Calls

\* What a step can do to the stack.
LEMMA StackDoes ==
  ASSUME Typed, [Next]_vars
  PROVE  \/ stack' = stack /\ bd' = bd
         \/ RootNew
         \/ Ends
         \/ /\ stack # <<>> /\ Goes /\ bd \subseteq bd' /\ bd' \subseteq bd \cup {me}
            /\ \E f \in Frame : f.app = me /\ Moved(f)
         \/ /\ stack # <<>> /\ Goes /\ bd' = bd
            /\ \E f \in Frame, b \in Apps : f.app = me /\ Called(b, f) /\ Calls(f, b)' /\ b \notin bd
<1>1. CASE \/ Idle \/ Finished \/ RootKnown \/ OwnSuper \/ SuperLoop \/ NotValid \/ Stopped
  BY <1>1 DEF Idle, Finished, RootKnown, OwnSuper, SuperLoop, NotValid, Stopped
<1>2. CASE \E f : \/ SkipSuper(f) \/ SuperThere(f) \/ InheritFrom(f) \/ Validated(f)
                  \/ Checked(f) \/ EachSkips(f) \/ NodeDone(f)
                  \/ (\E b : SelfTakes(f, b))
                  \/ (\E v, new : Takes(f, v, new))
  <2> PICK f : \/ SkipSuper(f) \/ SuperThere(f) \/ InheritFrom(f) \/ Validated(f)
               \/ Checked(f) \/ EachSkips(f) \/ NodeDone(f)
               \/ (\E b : SelfTakes(f, b))
               \/ (\E v, new : Takes(f, v, new))
    BY <1>2
  <2>1. /\ Moved(f) /\ f \in Frame /\ f.app = top.app /\ \E where : At(where)
        /\ bd \subseteq bd' /\ bd' \subseteq bd \cup {me}
    BY DEF SkipSuper, SuperThere, InheritFrom, Validated, Checked, EachSkips, NodeDone, SelfTakes, Takes, Like
  <2>2. stack # <<>> /\ Goes /\ me = top.app
    BY <2>1, Running DEF Goes
  <2> QED
    BY <2>1, <2>2
<1>3. CASE \E f : CallSuper(f)
  <2> PICK f : CallSuper(f)
    BY <1>3
  <2>1. /\ At("super") /\ HasSuper(me) /\ yaml' = yaml /\ f \in Frame /\ f.app = me /\ f.at = "inherit"
        /\ Called(SuperOf(me), f) /\ SuperOf(me) \notin bd /\ bd' = bd
    BY DEF CallSuper, Like, me, Typed
  <2>2. PICK a \in Apps : a = me
    BY <2>1, Running
  <2>3. SuperOf(a) \in Apps /\ stack # <<>> /\ Goes
    BY <2>1, <2>2, Running, YamlFacts DEF Typed, Goes
  <2>4. PICK S \in Apps : S = SuperOf(a)
    BY <2>3
  <2>5. HasSuper(a)' = HasSuper(a) /\ SuperOf(a)' = SuperOf(a)
    BY <2>1, Static
  <2>6. Calls(f, S)'
    BY <2>1, <2>2, <2>4, <2>5 DEF Calls
  <2> QED
    BY <2>1, <2>2, <2>3, <2>4, <2>6
<1>4. CASE \E b : SelfCalls(b)
  <2> PICK b : SelfCalls(b)
    BY <1>4
  <2>1. At("self") /\ Self(top, b) /\ b \in Apps /\ Called(b, top) /\ yaml' = yaml /\ b \notin bd /\ bd' = bd
    BY DEF SelfCalls, Typed
  <2>2. top \in Frame /\ stack # <<>> /\ Goes /\ me = top.app
    BY <2>1, Running DEF Goes
  <2>3. PICK f \in Frame : f = top
    BY <2>2
  <2>4. Lineage(f.app)' = Lineage(f.app)
    BY <2>1, Static
  <2>5. Self(f, b)'
    BY <2>1, <2>3, <2>4 DEF Self, Listed
  <2>6. Calls(f, b)'
    BY <2>5 DEF Calls
  <2> QED
    BY <2>1, <2>2, <2>3, <2>6
<1>5. CASE \E f : \E b \in Apps : EachCalls(f, b)
  <2> PICK f : \E b \in Apps : EachCalls(f, b)
    BY <1>5
  <2> PICK b \in Apps : EachCalls(f, b)
    OBVIOUS
  <2>1. /\ At("each") /\ top.i \in DOMAIN deps[me] /\ b = deps[me][top.i] /\ Called(b, f) /\ deps' = deps
        /\ b \notin bd /\ bd' = bd
        /\ f \in Frame /\ f.app = me /\ f.at = "each" /\ f.i = top.i + 1
    BY DEF EachCalls, Like, me
  <2>2. top \in Frame /\ stack # <<>> /\ Goes
    BY <2>1, Running DEF Goes
  <2>3. f.i - 1 = top.i
    BY <2>1, <2>2 DEF Frame
  <2>4. Calls(f, b)'
    BY <2>1, <2>3 DEF Calls
  <2> QED
    BY <2>1, <2>2, <2>4
<1> QED
  BY <1>1, <1>2, <1>3, <1>4, <1>5, StepDoes

\* Each call was made by the one below it.
LEMMA PlacedNext ==
  ASSUME Typed, Placed, [Next]_vars
  PROVE  Placed'
<1>0. stack \in Seq(Frame) /\ Len(stack) \in Nat /\ \A j \in 1..Len(stack) : stack[j].app \in Apps
  <2>1. stack \in Seq(Frame)
    BY DEF Typed
  <2>2. \A f \in Frame : f.app \in Apps
    BY DEF Frame
  <2> QED
    BY <2>1, <2>2
\* Of the frames as they are now.
<1> DEFINE Still(f, b) == Calls(f, b)'
<1>1. ASSUME NEW j \in 2..Len(stack)
      PROVE  \E f, b : f = stack[j] /\ b = stack[j - 1].app /\ Still(f, b)
  <2>1. PICK f, b : f = stack[j] /\ b = stack[j - 1].app /\ f.app \in Apps
    BY <1>0
  <2>2. Calls(f, b)
    BY <2>1 DEF Placed
  <2>3. Calls(f, b)'
    BY <2>1, <2>2, CallsStay
  <2> QED
    BY <2>1, <2>3
<1>2. ASSUME \A j \in 2..Len(stack') : \E f, b : f = stack'[j] /\ b = stack'[j - 1].app /\ Still(f, b)
      PROVE  Placed'
  <2> SUFFICES ASSUME NEW j \in 2..Len(stack')
               PROVE  Calls(stack[j], stack[j - 1].app)'
    BY DEF Placed
  <2>1. PICK f, b : f = stack'[j] /\ b = stack'[j - 1].app /\ Still(f, b)
    BY <1>2
  <2>2. Calls(f, b)'
    BY <2>1
  <2> QED
    BY <2>1, <2>2 DEF Calls, Self
<1> HIDE DEF Still
<1>3. CASE stack' = stack
  BY <1>1, <1>2, <1>3
<1>4. CASE RootNew
  <2>1. Len(stack') = 1
    BY <1>4 DEF RootNew
  <2> QED
    BY <1>2, <2>1
<1>5. CASE Ends
  <2>1. Len(stack') = Len(stack) - 1 /\ \A j \in 1..Len(stack) - 1 : stack'[j] = stack[j + 1]
    BY <1>5 DEF Ends, Left
  <2> SUFFICES ASSUME NEW j \in 2..Len(stack')
               PROVE  \E f, b : f = stack'[j] /\ b = stack'[j - 1].app /\ Still(f, b)
    BY <1>2
  <2>2. /\ j \in 1..Len(stack) - 1 /\ j - 1 \in 1..Len(stack) - 1
        /\ j + 1 \in 2..Len(stack) /\ (j - 1) + 1 = j /\ (j + 1) - 1 = j
    BY <1>0, <2>1
  <2> QED
    BY <1>1, <2>1, <2>2
<1>6. CASE \E f \in Frame : f.app = me /\ Moved(f)
  <2>1. PICK f \in Frame : f.app = me /\ Moved(f)
    BY <1>6
  <2>2. /\ Len(stack') = Len(stack) /\ stack'[1] = f
        /\ \A j \in 2..Len(stack) : stack'[j] = stack[j]
    BY <2>1 DEF Moved
  <2> SUFFICES ASSUME NEW j \in 2..Len(stack')
               PROVE  \E g, b : g = stack'[j] /\ b = stack'[j - 1].app /\ Still(g, b)
    BY <1>2
  <2>3. stack # <<>> /\ top = stack[1]
    BY <1>0, <2>2 DEF top
  <2>4. stack'[j] = stack[j] /\ stack'[j - 1].app = stack[j - 1].app
    <3>1. CASE j = 2
      BY <2>1, <2>2, <2>3, <3>1 DEF me
    <3>2. CASE j # 2
      <4>1. j - 1 \in 2..Len(stack)
        BY <1>0, <2>2, <3>2
      <4> QED
        BY <2>2, <4>1
    <3> QED
      BY <3>1, <3>2
  <2> QED
    BY <1>1, <2>2, <2>4
<1>7. CASE stack # <<>> /\ \E f \in Frame, b \in Apps : f.app = me /\ Called(b, f) /\ Calls(f, b)'
  <2>1. PICK f \in Frame : \E b \in Apps : f.app = me /\ Called(b, f) /\ Calls(f, b)'
    BY <1>7
  <2>2. PICK b \in Apps : f.app = me /\ Called(b, f) /\ Still(f, b)
    BY <2>1 DEF Still
  <2>3. /\ Len(stack') = Len(stack) + 1 /\ stack'[1].app = b /\ stack'[2] = f
        /\ \A j \in 2..Len(stack) : stack'[j + 1] = stack[j]
    BY <2>2, CallFacts DEF Called
  <2> SUFFICES ASSUME NEW j \in 2..Len(stack')
               PROVE  \E g, c : g = stack'[j] /\ c = stack'[j - 1].app /\ Still(g, c)
    BY <1>2
  <2>4. stack # <<>> /\ top = stack[1]
    BY <1>7 DEF top
  <2>5. CASE j = 2
    BY <2>2, <2>3, <2>5
  <2>6. CASE j # 2
    <3>1. j - 1 \in 2..Len(stack) /\ (j - 1) + 1 = j
      BY <1>0, <2>3, <2>6
    <3>2. stack'[j] = stack[j - 1]
      BY <2>3, <3>1
    <3>3. stack'[j - 1].app = stack[(j - 1) - 1].app
      <4>1. CASE j = 3
        BY <2>2, <2>3, <2>4, <4>1 DEF me
      <4>2. CASE j # 3
        <5>1. (j - 1) - 1 \in 2..Len(stack) /\ ((j - 1) - 1) + 1 = j - 1
          BY <1>0, <2>3, <2>6, <4>2
        <5> QED
          BY <2>3, <5>1
      <4> QED
        BY <4>1, <4>2
    <3> QED
      BY <1>1, <3>1, <3>2, <3>3
  <2> QED
    BY <2>5, <2>6
<1> QED
  BY <1>3, <1>4, <1>5, <1>6, <1>7, StackDoes

-----------------------------------------------------------------------------
(* What is on the stack, and what is done with.                            *)

OnStack == {f.app : f \in ToSet(stack)}

\* The applications whose setup() has come back.
Fin == bd \ OnStack

\* The stack as a set.
LEMMA OnStackFacts ==
  ASSUME Typed
  PROVE  /\ OnStack = {stack[j].app : j \in 1..Len(stack)}
         /\ OnStack \subseteq memo /\ OnStack \subseteq Apps
         /\ Fin \subseteq bd /\ Fin \subseteq Apps
         /\ stack = <<>> => OnStack = {}
         /\ stack # <<>> => me \in OnStack
<1>1. stack \in Seq(Frame) /\ \A f \in ToSet(stack) : f.app \in memo
  BY DEF Typed, Fits
<1>2. ToSet(stack) = {stack[j] : j \in 1..Len(stack)}
  BY <1>1, SetOf
<1>3. stack # <<>> => top \in ToSet(stack)
  BY <1>1, TopFacts
<1> QED
  BY <1>1, <1>2, <1>3 DEF OnStack, Fin, Typed, me

\* A step puts one more on the stack, or takes one off.
LEMMA OnStackDoes ==
  ASSUME Typed, [Next]_vars
  PROVE  \/ OnStack' = OnStack /\ bd \subseteq bd' /\ (bd' = bd \/ (stack # <<>> /\ bd' \subseteq bd \cup {me}))
         \/ /\ bd' = bd /\ \E b \in Apps : b \notin bd /\ OnStack' = OnStack \cup {b}
         \/ /\ Ends /\ bd' = bd /\ OnStack = OnStack' \cup {me}
<1>1. CASE stack' = stack /\ bd' = bd
  BY <1>1 DEF OnStack
<1>2. CASE RootNew
  <2>1. todo \in Seq(Apps) /\ todo # <<>> /\ stack = <<>> /\ bd' = bd /\ Head(todo) \notin bd /\ stack' = <<Call(Head(todo))>>
    BY <1>2 DEF RootNew, Typed
  <2>2. PICK r \in Apps : r = Head(todo)
    BY <2>1
  <2>3. PICK c \in Frame : c = Call(r) /\ c.app = r
    BY CallFacts
  <2>4. stack' = <<c>>
    BY <2>1, <2>2, <2>3
  <2>5. stack' \in Seq(Frame) /\ Len(stack') = 1 /\ stack'[1] = c
    BY <2>4
  <2>6. ToSet(stack') = {stack'[i] : i \in 1..1}
    BY <2>5, SetOf
  <2>7. OnStack' = {r}
    BY <2>3, <2>5, <2>6 DEF OnStack
  <2>8. OnStack = {}
    BY <2>1, OnStackFacts
  <2> QED
    BY <2>1, <2>2, <2>7, <2>8
<1>3. CASE Ends
  <2>1. At("each") /\ ToSet(stack') = ToSet(Tail(stack)) /\ bd' = bd
    BY <1>3 DEF Ends, Left
  <2>2. ToSet(stack) = {top} \cup ToSet(Tail(stack)) /\ me = top.app
    BY <2>1, Running
  <2> QED
    BY <1>3, <2>1, <2>2 DEF OnStack
<1>4. CASE /\ stack # <<>> /\ bd \subseteq bd' /\ bd' \subseteq bd \cup {me}
           /\ \E f \in Frame : f.app = me /\ Moved(f)
  <2>1. PICK f \in Frame : f.app = me /\ Moved(f)
    BY <1>4
  <2>2. ToSet(stack) = {top} \cup ToSet(Tail(stack)) /\ me = top.app
    BY <1>4, TopFacts DEF Typed, me
  <2> QED
    BY <1>4, <2>1, <2>2 DEF OnStack, Moved
<1>5. CASE /\ stack # <<>> /\ bd' = bd
           /\ \E f \in Frame, b \in Apps : f.app = me /\ Called(b, f) /\ Calls(f, b)' /\ b \notin bd
  <2>1. PICK f \in Frame : \E b \in Apps : f.app = me /\ Called(b, f) /\ b \notin bd
    BY <1>5
  <2>2. PICK b \in Apps : f.app = me /\ Called(b, f) /\ b \notin bd
    BY <2>1
  <2>3. ToSet(stack) = {top} \cup ToSet(Tail(stack)) /\ me = top.app
    BY <1>5, TopFacts DEF Typed, me
  <2>4. PICK c : c = Call(b) /\ c.app = b
    BY CallFacts
  <2>5. ToSet(stack') = {c, f} \cup ToSet(Tail(stack))
    BY <2>2, <2>4 DEF Called
  <2>6. OnStack' = OnStack \cup {b}
    BY <2>2, <2>3, <2>4, <2>5 DEF OnStack
  <2> QED
    BY <1>5, <2>2, <2>6
<1> QED
  BY <1>1, <1>2, <1>3, <1>4, <1>5, StackDoes

\* Only the end of a call adds to what is done with.
LEMMA FinDoes ==
  ASSUME Typed, [Next]_vars
  PROVE  /\ Fin \subseteq Fin'
         /\ Fin' = Fin \/ (Ends /\ Fin' \subseteq Fin \cup {me})
BY OnStackDoes, OnStackFacts DEF Fin

-----------------------------------------------------------------------------
(* Nothing that was created is forgotten.                                  *)

Pending(f, a) ==
  \E k \in DOMAIN deps[f.app] :
    deps[f.app][k] = a /\ (f.at = "self" \/ (f.at = "each" /\ k >= f.i))

Remembered == \A a \in memo \ bd : a \in OnStack \/ \E f \in ToSet(stack) : Pending(f, a)

\* What is pending stays pending.
LEMMA PendingStays ==
  ASSUME Typed, [Next]_vars, NEW f, f.app \in Apps, NEW a, Pending(f, a)
  PROVE  Pending(f, a)'
<1>1. \A k \in DOMAIN deps[f.app] : k \in DOMAIN deps'[f.app] /\ deps'[f.app][k] = deps[f.app][k]
  BY Grows
<1> QED
  BY <1>1 DEF Pending

\* What is created is pending, or set up at once.
LEMMA NewPending ==
  ASSUME Typed, [Next]_vars, NEW a \in memo', a \notin memo
  PROVE  a \in OnStack' \/ \E f \in ToSet(stack') : Pending(f, a)'
<1>1. CASE RootNew
  <2>1. /\ todo \in Seq(Apps) /\ todo # <<>> /\ memo' = memo \cup {Head(todo)} /\ stack' = <<Call(Head(todo))>>
    BY <1>1 DEF RootNew, Typed
  <2>2. PICK r \in Apps : r = Head(todo)
    BY <2>1
  <2>3. PICK c \in Frame : c = Call(r) /\ c.app = r
    BY CallFacts
  <2>4. stack' = <<c>>
    BY <2>1, <2>2, <2>3
  <2>5. 1 \in DOMAIN stack' /\ stack'[1] = c
    BY <2>4
  <2>6. c \in ToSet(stack')
    BY <2>5 DEF ToSet
  <2> QED
    BY <2>1, <2>2, <2>3, <2>6 DEF OnStack
<1>2. CASE (\E f : CallSuper(f)) \/ (\E b : SelfCalls(b))
  <2>1. PICK b, f : b \in Apps /\ memo' = memo \cup {b} /\ Called(b, f)
    <3>1. CASE \E f : CallSuper(f)
      <4> PICK f : CallSuper(f)
        BY <3>1
      <4>1. SuperOf(me) \in Apps
        BY Running, YamlFacts DEF CallSuper, Typed
      <4> QED
        BY <4>1 DEF CallSuper
    <3>2. CASE \E b : SelfCalls(b)
      BY <3>2 DEF SelfCalls
    <3> QED
      BY <1>2, <3>1, <3>2
  <2>2. PICK c : c = Call(b) /\ c.app = b
    BY <2>1, CallFacts
  <2>3. c \in ToSet(stack')
    BY <2>1, <2>2 DEF Called
  <2> QED
    BY <2>1, <2>2, <2>3 DEF OnStack
<1>3. CASE \E f, v, new : Takes(f, v, new)
  <2> PICK f, v, new : Takes(f, v, new)
    BY <1>3
  <2>1. /\ me \in Apps /\ deps \in [Apps -> Seq(Apps)] /\ deps' = [deps EXCEPT ![me] = v]
        /\ ToSet(v) = ToSet(deps[me]) \cup new /\ memo' = memo \cup new /\ f.at = "self" /\ f.app = me
        /\ f \in ToSet(stack')
    BY Running DEF Takes, Like, Typed, Moved, me
  <2>2. a \in ToSet(v) /\ deps'[f.app] = v
    BY <2>1
  <2>3. \E k \in DOMAIN v : v[k] = a
    BY <2>2 DEF ToSet
  <2>4. Pending(f, a)'
    BY <2>1, <2>2, <2>3 DEF Pending
  <2> QED
    BY <2>1, <2>4
<1>4. ASSUME memo' = memo
      PROVE  FALSE
  BY <1>4
<1>5. CASE \/ Idle \/ Finished \/ RootKnown
           \/ OwnSuper \/ SuperLoop \/ NotValid \/ Stopped \/ Ends
           \/ \E f : \/ SkipSuper(f) \/ SuperThere(f) \/ InheritFrom(f) \/ Validated(f)
                     \/ Checked(f) \/ EachSkips(f) \/ NodeDone(f)
                     \/ (\E b \in Apps : EachCalls(f, b))
                     \/ (\E b : SelfTakes(f, b))
  BY <1>4, <1>5 DEF Idle, Finished, RootKnown, OwnSuper, SuperLoop, NotValid, Stopped, Ends, SkipSuper,
                    SuperThere, InheritFrom, Validated, Checked, EachSkips, NodeDone, EachCalls, SelfTakes
<1> QED
  BY <1>1, <1>2, <1>3, <1>5, StepDoes

\* What the running call still has to set up.
LEMMA TopPending ==
  ASSUME Typed, [Next]_vars, stack # <<>>, NEW a, a \notin bd', Pending(top, a)
  PROVE  a \in OnStack' \/ \E f \in ToSet(stack') : Pending(f, a)'
<1>0. top \in Frame /\ me \in Apps /\ me = top.app /\ top \in ToSet(stack)
  BY TopFacts DEF Typed, me
<1>1. PICK k \in DOMAIN deps[me] : /\ deps[me][k] = a
                                   /\ top.at = "self" \/ (top.at = "each" /\ k >= top.i)
  BY <1>0 DEF Pending
<1>2. /\ k \in DOMAIN deps'[me] /\ deps'[me][k] = a /\ bd \subseteq bd' /\ a \notin bd
      /\ k \in Nat /\ k >= 1 /\ deps[me] \in Seq(Apps) /\ Len(deps[me]) \in Nat /\ DOMAIN deps[me] = 1..Len(deps[me])
  <2>1. deps[me] \in Seq(Apps)
    BY <1>0 DEF Typed
  <2> QED
    BY <1>0, <1>1, <2>1, Grows
<1>3. CASE top \in ToSet(stack')
  <2>1. PICK f : f = top
    OBVIOUS
  <2>2. Pending(f, a)'
    BY <1>0, <2>1, PendingStays
  <2> QED
    BY <1>3, <2>1, <2>2
<1>4. ASSUME NEW f, Moved(f) \/ (\E b \in Apps : Called(b, f)), f.app = me,
             f.at = "self" \/ (f.at = "each" /\ k >= f.i)
      PROVE  \E g \in ToSet(stack') : Pending(g, a)'
  <2>1. f \in ToSet(stack')
    BY <1>4 DEF Moved, Called
  <2>2. PICK x : x = me
    OBVIOUS
  <2>3. Pending(f, a)'
    BY <1>2, <1>4, <2>2 DEF Pending
  <2> QED
    BY <2>1, <2>3
<1>5. CASE \/ Idle \/ Finished \/ RootKnown \/ OwnSuper \/ SuperLoop \/ NotValid \/ Stopped
           \/ (\E b : SelfCalls(b))
  <2>1. stack' = stack \/ \E b : Called(b, top)
    BY <1>5 DEF Idle, Finished, RootKnown, OwnSuper, SuperLoop, NotValid, Stopped, SelfCalls
  <2> QED
    BY <1>0, <1>3, <2>1 DEF Called
<1>6. CASE \E f, b : SelfTakes(f, b)
  BY <1>4, <1>6 DEF SelfTakes, Like, me
<1>7. CASE \E f : Checked(f)
  <2> PICK f : Checked(f)
    BY <1>7
  <2>1. Moved(f) /\ f.app = me /\ f.at = "each" /\ f.i = 1
    BY DEF Checked, Like, me
  <2> QED
    BY <1>2, <1>4, <2>1
<1>8. CASE \E f : EachSkips(f)
  <2> PICK f : EachSkips(f)
    BY <1>8
  <2>1. Moved(f) /\ f.app = me /\ f.at = "each" /\ f.i = top.i + 1 /\ deps[me][top.i] \in bd /\ At("each")
    BY DEF EachSkips, Like, me
  <2>2. k >= top.i /\ k # top.i /\ top.i \in Nat
    BY <1>0, <1>1, <1>2, <2>1 DEF At, Frame
  <2> QED
    BY <1>2, <1>4, <2>1, <2>2
<1>9. CASE \E f : \E b \in Apps : EachCalls(f, b)
  <2> PICK f : \E b \in Apps : EachCalls(f, b)
    BY <1>9
  <2> PICK b \in Apps : EachCalls(f, b)
    OBVIOUS
  <2>1. Called(b, f) /\ f.app = me /\ f.at = "each" /\ f.i = top.i + 1 /\ deps[me][top.i] = b /\ At("each")
    BY DEF EachCalls, Like, me
  <2>2. k >= top.i /\ top.i \in Nat
    BY <1>0, <1>1, <1>2, <2>1 DEF At, Frame
  <2>3. CASE k = top.i
    <3>1. PICK c : c = Call(b) /\ c.app = b
      BY CallFacts
    <3>2. c \in ToSet(stack')
      BY <2>1, <3>1 DEF Called
    <3> QED
      BY <1>1, <2>1, <2>3, <3>1, <3>2 DEF OnStack
  <2>4. CASE k # top.i
    BY <1>2, <1>4, <2>1, <2>2, <2>4
  <2> QED
    BY <2>3, <2>4
<1>10. CASE (\E f : NodeDone(f)) \/ Ends
  <2>1. At("each") /\ top.i \notin DOMAIN deps[me]
    BY <1>10 DEF NodeDone, Ends
  <2>2. top.i \in Nat /\ top.i >= 1
    BY <1>0 DEF Frame
  <2>3. k >= top.i
    BY <1>1, <2>1 DEF At
  <2> QED
    BY <1>2, <2>1, <2>2, <2>3
<1>11. CASE \E f : \/ SkipSuper(f) \/ SuperThere(f) \/ CallSuper(f) \/ InheritFrom(f) \/ Validated(f)
                   \/ (\E v, new : Takes(f, v, new))
  BY <1>1, <1>11 DEF SkipSuper, SuperThere, CallSuper, InheritFrom, Validated, Takes, At
<1>12. CASE RootNew
  BY <1>12 DEF RootNew
<1> QED
  BY <1>5, <1>6, <1>7, <1>8, <1>9, <1>10, <1>11, <1>12, StepDoes

\* No step forgets what was created.
LEMMA RememberedNext ==
  ASSUME Typed, Remembered, [Next]_vars
  PROVE  Remembered'
<1> SUFFICES ASSUME NEW a \in memo', a \notin bd'
             PROVE  a \in OnStack' \/ \E f \in ToSet(stack') : Pending(f, a)'
  BY DEF Remembered
<1>1. bd \subseteq bd'
  BY Grows
<1>2. CASE a \notin memo
  BY <1>2, NewPending
<1>3. CASE a \in OnStack
  <2>1. CASE a \in OnStack'
    BY <2>1
  <2>2. CASE Ends /\ OnStack = OnStack' \cup {me} /\ a \notin OnStack'
    <3>1. a = me /\ At("each")
      BY <1>3, <2>2 DEF Ends
    <3>2. me \in bd
      BY <3>1, Running DEF Fits, Late
    <3> QED
      BY <1>1, <3>1, <3>2
  <2> QED
    BY <1>3, <2>1, <2>2, OnStackDoes
<1>4. CASE a \in memo /\ a \notin OnStack
  <2>1. PICK f \in ToSet(stack) : Pending(f, a)
    BY <1>1, <1>4 DEF Remembered
  <2>2. CASE f \in ToSet(stack')
    <3>1. Pending(f, a)'
      BY <2>1, NodeFacts, PendingStays
    <3> QED
      BY <2>2, <3>1
  <2>3. CASE f \notin ToSet(stack')
    <3>1. stack # <<>>
      BY <2>1 DEF ToSet
    <3>2. ToSet(stack) = {top} \cup ToSet(Tail(stack))
      BY <3>1, TopFacts DEF Typed
    <3>3. ToSet(Tail(stack)) \subseteq ToSet(stack')
      BY <2>1, <2>3, <3>1, <3>2, StackDoes DEF Moved, Called, Ends, Left, RootNew
    <3>4. f = top
      BY <2>3, <3>2, <3>3
    <3> QED
      BY <2>1, <3>1, <3>4, TopPending
  <2> QED
    BY <2>2, <2>3
<1> QED
  BY <1>2, <1>3, <1>4

-----------------------------------------------------------------------------
(* Set up once.                                                            *)

\* What is on the stack leads to the running call.
LEMMA StackPath ==
  ASSUME stack \in Seq(Frame), NEW E \in Graph,
         \A j \in 2..Len(stack) : stack[j - 1].app \in E[stack[j].app]
  PROVE  \A j \in 1..Len(stack) : stack[1].app \in Closure(E, {stack[j].app})
<1>0. Len(stack) \in Nat /\ \A j \in 1..Len(stack) : stack[j].app \in Apps
  <2>1. \A f \in Frame : f.app \in Apps
    BY DEF Frame
  <2> QED
    BY <2>1
<1> DEFINE T == {n \in Nat : n + 1 \in 1..Len(stack) => stack[1].app \in Closure(E, {stack[n + 1].app})}
<1>1. 0 \in T
  <2> SUFFICES ASSUME 0 + 1 \in 1..Len(stack)
               PROVE  stack[1].app \in Closure(E, {stack[0 + 1].app})
    OBVIOUS
  <2>1. 0 + 1 = 1 /\ stack[1].app \in Apps
    BY <1>0
  <2> QED
    BY <2>1, Leads
<1>2. ASSUME NEW n \in Nat, n \in T
      PROVE  n + 1 \in T
  <2> SUFFICES ASSUME n + 2 \in 1..Len(stack)
               PROVE  stack[1].app \in Closure(E, {stack[n + 2].app})
    OBVIOUS
  <2>1. /\ n + 1 \in 1..Len(stack) /\ n + 2 \in 2..Len(stack) /\ (n + 2) - 1 = n + 1
        /\ stack[n + 1].app \in Apps /\ stack[n + 2].app \in Apps
    BY <1>0
  <2>2. stack[1].app \in Closure(E, {stack[n + 1].app})
    BY <1>2, <2>1
  <2>3. stack[n + 1].app \in E[stack[n + 2].app]
    BY <2>1
  <2>4. stack[n + 1].app \in Closure(E, {stack[n + 2].app})
    BY <2>1, <2>3, Leads
  <2>5. Closure(E, {stack[n + 1].app}) \subseteq Closure(E, {stack[n + 2].app})
    BY <2>1, <2>4, Leads
  <2> QED
    BY <2>2, <2>5
<1>3. Nat \subseteq T
  <2> HIDE DEF T
  <2> QED
    BY <1>1, <1>2, SetInduction
<1> SUFFICES ASSUME NEW j \in 1..Len(stack)
             PROVE  stack[1].app \in Closure(E, {stack[j].app})
  OBVIOUS
<1>4. j - 1 \in Nat /\ (j - 1) + 1 = j
  BY <1>0
<1> QED
  BY <1>3, <1>4

\* A call follows an edge.
LEMMA CallEdge ==
  ASSUME Typed, Edges, NEW f \in ToSet(stack), NEW b, Calls(f, b)
  PROVE  b \in Apps /\ b \in All[f.app]
<1>0. f.app \in Apps /\ yaml \in Yamls /\ deps \in [Apps -> Seq(Apps)]
  BY NodeFacts DEF Typed
<1>1. CASE f.at = "inherit" /\ HasSuper(f.app) /\ b = SuperOf(f.app)
  BY <1>0, <1>1, YamlGraphs
<1>2. CASE Self(f, b)
  BY <1>2, SelfEdge
<1>3. CASE f.at = "each" /\ f.i - 1 \in DOMAIN deps[f.app] /\ b = deps[f.app][f.i - 1]
  <2>1. b \in ToSet(deps[f.app]) /\ b \in Apps
    BY <1>0, <1>3 DEF ToSet
  <2>2. b \in Needs[f.app] \cup Withs[f.app]
    BY <1>0, <2>1 DEF Edges
  <2> QED
    BY <1>0, <2>1, <2>2, YamlGraphs
<1> QED
  BY <1>1, <1>2, <1>3 DEF Calls

\* So the stack is a path in the graph of the yaml files.
LEMMA AllPath ==
  ASSUME Typed, Edges, Placed
  PROVE  /\ stack \in Seq(Frame) /\ Len(stack) \in Nat /\ All \in Graph /\ There \in SUBSET Apps
         /\ \A j \in 1..Len(stack) : /\ stack[j] \in ToSet(stack) /\ stack[j].app \in Apps
                                     /\ stack[j].app \in There
                                     /\ stack[1].app \in Closure(All, {stack[j].app})
         /\ \A j \in 2..Len(stack) : stack[j - 1].app \in All[stack[j].app]
<1>1. /\ stack \in Seq(Frame) /\ Len(stack) \in Nat /\ All \in Graph /\ There \in SUBSET Apps
      /\ \A j \in 1..Len(stack) : stack[j] \in ToSet(stack)
  BY YamlGraphs DEF Typed, ToSet
<1>2. \A j \in 1..Len(stack) : stack[j].app \in Apps /\ stack[j].app \in There
  BY <1>1, NodeFacts DEF Edges
<1>3. ASSUME NEW j \in 2..Len(stack)
      PROVE  stack[j - 1].app \in All[stack[j].app]
  <2>1. stack[j] \in ToSet(stack) /\ Calls(stack[j], stack[j - 1].app)
    BY <1>1 DEF Placed
  <2> QED
    BY <2>1, CallEdge
<1> QED
  BY <1>1, <1>2, <1>3, StackPath

\* A dependency that is on the stack but not set up is one that waits for its
\* super, which leads back to it.
LEMMA BackToSuper ==
  ASSUME Typed, Edges, Placed, stack # <<>>, NEW b \in All[me], b \notin bd, b \in OnStack,
         b = me => top.at \in Late
  PROVE  SuperLoops
<1>0. me = stack[1].app /\ me \in Apps /\ top = stack[1] /\ Len(stack) >= 1 /\ top \in ToSet(stack)
  BY TopFacts DEF Typed, me
<1>1. PICK j \in 1..Len(stack) : b = stack[j].app
  BY OnStackFacts
<1>2. stack[j] \in ToSet(stack) /\ b \in Apps /\ b \in There /\ Len(stack) \in Nat
  BY <1>1, AllPath
<1>3. stack[j].at \notin Late
  BY <1>1, <1>2 DEF Typed, Fits
<1>4. j # 1
  BY <1>0, <1>1, <1>3
<1>5. j \in 2..Len(stack) /\ j - 1 \in 1..Len(stack)
  BY <1>2, <1>4
<1>6. Calls(stack[j], stack[j - 1].app)
  BY <1>5 DEF Placed
<1>7. HasSuper(b) /\ stack[j - 1].app = SuperOf(b)
  BY <1>1, <1>3, <1>6 DEF Calls, Self, Late
<1>8. me \in Closure(All, {SuperOf(b)}) /\ SuperOf(b) \in Apps
  BY <1>0, <1>5, <1>7, AllPath
<1>9. b \in Closure(All, {SuperOf(b)})
  <2>1. All[me] \subseteq Closure(All, {SuperOf(b)})
    BY <1>8, AllPath, Leads
  <2> QED
    BY <2>1
<1> QED
  BY <1>2, <1>7, <1>9 DEF SuperLoops

\* The first lists of a profile are still to come.
First(f) == f.at \in Late => f.n = 1 /\ ~f.with

Once ==
  ~SuperLoops =>
    /\ \A j \in 1..Len(stack) : \A k \in 1..Len(stack) : stack[j].app = stack[k].app => j = k
    /\ \A a \in Apps : filled[a] <= 1 /\ (a \notin bd => filled[a] = 0)
    /\ \A f \in ToSet(stack) : First(f) => filled[f.app] = 0

\* The application that a step calls is not on the stack.
LEMMA CalledNew ==
  ASSUME Typed, Edges, Placed, ~SuperLoops, [Next]_vars, stack # <<>>, NEW f, NEW b \in Apps, Called(b, f)
  PROVE  b \notin OnStack
<1>0. memo \subseteq Apps /\ Len(stack) \in Nat /\ me \in Apps /\ top \in Frame /\ top \in ToSet(stack) /\ me = top.app
  BY TopFacts DEF Typed, me
<1>1. ASSUME NEW c \in Apps, NEW g, Called(c, g)
      PROVE  c = b
  <2>1. PICK x, y : x = Call(b) /\ y = Call(c)
    OBVIOUS
  <2>2. x = y /\ x.app = b /\ y.app = c
    BY <1>1, <2>1, CallFacts DEF Called
  <2> QED
    BY <2>2
<1>2. CASE (\E g : CallSuper(g)) \/ (\E c : SelfCalls(c))
  <2>1. b \notin memo
    <3>1. CASE \E g : CallSuper(g)
      <4>1. PICK g : CallSuper(g)
        BY <3>1
      <4>2. SuperOf(me) \in Apps /\ Called(SuperOf(me), g) /\ SuperOf(me) \notin memo
        BY <1>0, <4>1, YamlFacts DEF CallSuper, Typed
      <4> QED
        BY <1>1, <4>2
    <3>2. CASE \E c : SelfCalls(c)
      BY <1>1, <3>2 DEF SelfCalls
    <3> QED
      BY <1>2, <3>1, <3>2
  <2> QED
    BY <2>1, OnStackFacts
<1>3. CASE \E g : \E c \in Apps : EachCalls(g, c)
  <2>1. PICK g : \E c \in Apps : EachCalls(g, c)
    BY <1>3
  <2>2. EachCalls(g, b)
    BY <1>1, <2>1 DEF EachCalls
  <2>3. top.at = "each" /\ b \in ToSet(deps[me]) /\ b \notin bd
    BY <2>2 DEF EachCalls, At, ToSet
  <2>4. b \in All[me]
    <3>1. b \in Needs[me] \cup Withs[me] /\ yaml \in Yamls
      BY <1>0, <2>3 DEF Edges, Typed
    <3> QED
      BY <1>0, <3>1, YamlGraphs
  <2> QED
    BY <2>3, <2>4, BackToSuper DEF Late
<1>4. CASE (\E g : Moved(g)) \/ stack' = stack \/ Left
  BY <1>0, <1>4 DEF Moved, Called, Left
<1>5. CASE RootNew
  BY <1>5 DEF RootNew
<1>6. CASE \/ Idle \/ Finished \/ RootKnown \/ OwnSuper \/ SuperLoop \/ NotValid \/ Stopped \/ Ends
           \/ \E g : \/ SkipSuper(g) \/ SuperThere(g) \/ InheritFrom(g) \/ Validated(g)
                     \/ Checked(g) \/ EachSkips(g) \/ NodeDone(g)
                     \/ (\E c : SelfTakes(g, c))
                     \/ (\E v, new : Takes(g, v, new))
  BY <1>4, <1>6 DEF Idle, Finished, RootKnown, OwnSuper, SuperLoop, NotValid, Stopped, Ends, SkipSuper, SuperThere,
                    InheritFrom, Validated, Checked, EachSkips, NodeDone, SelfTakes, Takes
<1> QED
  BY <1>2, <1>3, <1>5, <1>6, StepDoes

\* Without loops through supers no application is on the stack twice,
LEMMA DistinctNext ==
  ASSUME Typed, Edges, Placed, ~SuperLoops, [Next]_vars,
         \A j \in 1..Len(stack) : \A k \in 1..Len(stack) : stack[j].app = stack[k].app => j = k
  PROVE  \A j \in 1..Len(stack') : \A k \in 1..Len(stack') : stack'[j].app = stack'[k].app => j = k
<1> SUFFICES ASSUME NEW j \in 1..Len(stack'), NEW k \in 1..Len(stack'), stack'[j].app = stack'[k].app
             PROVE  j = k
  OBVIOUS
<1>0. stack \in Seq(Frame) /\ Len(stack) \in Nat /\ (stack # <<>> => me = stack[1].app /\ Len(stack) >= 1)
  BY TopFacts DEF Typed, me
<1>1. CASE stack' = stack
  BY <1>1
<1>2. CASE RootNew
  <2>1. Len(stack') = 1
    BY <1>2 DEF RootNew
  <2> QED
    BY <2>1
<1>3. CASE Ends
  <2>1. Len(stack') = Len(stack) - 1 /\ \A i \in 1..Len(stack) - 1 : stack'[i] = stack[i + 1]
    BY <1>3 DEF Ends, Left
  <2>2. j + 1 \in 1..Len(stack) /\ k + 1 \in 1..Len(stack) /\ stack[j + 1].app = stack[k + 1].app
    BY <1>0, <2>1
  <2> QED
    BY <2>2
<1>4. CASE stack # <<>> /\ \E f \in Frame : f.app = me /\ Moved(f)
  <2>1. PICK f \in Frame : f.app = me /\ Moved(f)
    BY <1>4
  <2>2. Len(stack') = Len(stack) /\ \A i \in 1..Len(stack) : stack'[i].app = stack[i].app
    <3>1. Len(stack') = Len(stack) /\ stack'[1] = f /\ \A i \in 2..Len(stack) : stack'[i] = stack[i]
      BY <2>1 DEF Moved
    <3>2. \A i \in 1..Len(stack) : i = 1 \/ i \in 2..Len(stack)
      BY <1>0
    <3> QED
      BY <1>0, <1>4, <2>1, <3>1, <3>2
  <2> QED
    BY <2>2
<1>5. CASE stack # <<>> /\ \E f \in Frame, b \in Apps : f.app = me /\ Called(b, f)
  <2>1. PICK f \in Frame : \E b \in Apps : f.app = me /\ Called(b, f)
    BY <1>5
  <2>2. PICK b \in Apps : f.app = me /\ Called(b, f)
    BY <2>1
  <2>3. b \notin OnStack
    BY <1>5, <2>2, CalledNew
  <2>4. \A i \in 1..Len(stack) : stack[i].app # b
    BY <2>3, OnStackFacts
  <2>5. /\ Len(stack') = Len(stack) + 1 /\ stack'[1].app = b
        /\ \A i \in 1..Len(stack) : stack'[i + 1].app = stack[i].app
    <3>1. /\ Len(stack') = Len(stack) + 1 /\ stack'[1].app = b /\ stack'[2] = f
          /\ \A i \in 2..Len(stack) : stack'[i + 1] = stack[i]
      BY <2>2, CallFacts DEF Called
    <3>2. \A i \in 1..Len(stack) : i = 1 \/ i \in 2..Len(stack)
      BY <1>0
    <3> QED
      BY <1>0, <1>5, <2>2, <3>1, <3>2
  <2>6. \A i \in 1..Len(stack') : i = 1 \/ (i - 1 \in 1..Len(stack) /\ (i - 1) + 1 = i)
    BY <1>0, <2>5
  <2>7. \A i \in 1..Len(stack') : i # 1 => stack'[i].app = stack[i - 1].app /\ stack'[i].app # b
    BY <2>4, <2>5, <2>6
  <2>8. CASE j = 1 \/ k = 1
    BY <2>5, <2>7, <2>8
  <2>9. CASE j # 1 /\ k # 1
    <3>1. j - 1 \in 1..Len(stack) /\ k - 1 \in 1..Len(stack) /\ stack[j - 1].app = stack[k - 1].app
      BY <2>6, <2>7, <2>9
    <3>2. j - 1 = k - 1
      BY <3>1
    <3> QED
      BY <2>6, <2>9, <3>2
  <2> QED
    BY <2>8, <2>9
<1> QED
  BY <1>1, <1>2, <1>3, <1>4, <1>5, StackDoes

\* and its arguments and libraries are added once.
LEMMA OnceNext ==
  ASSUME Typed, Edges, Placed, Once, [Next]_vars
  PROVE  Once'
<1>0. yaml' = yaml /\ SuperLoops' = SuperLoops /\ bd \subseteq bd'
  BY Grows, Static
<1> SUFFICES ASSUME ~SuperLoops
             PROVE  /\ \A j \in 1..Len(stack') : \A k \in 1..Len(stack') : stack'[j].app = stack'[k].app => j = k
                    /\ \A a \in Apps : filled'[a] <= 1 /\ (a \notin bd' => filled'[a] = 0)
                    /\ \A f \in ToSet(stack') : First(f) => filled'[f.app] = 0
  BY <1>0 DEF Once, First
<1>1. /\ \A j \in 1..Len(stack) : \A k \in 1..Len(stack) : stack[j].app = stack[k].app => j = k
      /\ \A a \in Apps : filled[a] <= 1 /\ (a \notin bd => filled[a] = 0)
      /\ \A f \in ToSet(stack) : First(f) => filled[f.app] = 0
  BY DEF Once
<1>2. \A j \in 1..Len(stack') : \A k \in 1..Len(stack') : stack'[j].app = stack'[k].app => j = k
  BY <1>1, DistinctNext
<1>3. ASSUME filled' = filled,
             \A f \in ToSet(stack') : \/ f \in ToSet(stack)
                                      \/ f.app \in Apps /\ f.app \notin bd
                                      \/ f.app = me /\ top \in ToSet(stack) /\ (First(f) => First(top))
      PROVE  /\ \A a \in Apps : filled'[a] <= 1 /\ (a \notin bd' => filled'[a] = 0)
             /\ \A f \in ToSet(stack') : First(f) => filled'[f.app] = 0
  BY <1>0, <1>1, <1>3 DEF me
<1>4. CASE \/ Idle \/ Finished \/ RootKnown \/ OwnSuper \/ SuperLoop \/ NotValid \/ Stopped
  BY <1>2, <1>3, <1>4 DEF Idle, Finished, RootKnown, OwnSuper, SuperLoop, NotValid, Stopped
<1>5. CASE Ends
  <2>1. filled' = filled /\ ToSet(stack') \subseteq ToSet(stack)
    BY <1>5, Running DEF Ends, Left
  <2> QED
    BY <1>2, <1>3, <2>1
<1>6. CASE RootNew
  <2>1. filled' = filled /\ todo \in Seq(Apps) /\ todo # <<>> /\ Head(todo) \notin bd /\ stack' = <<Call(Head(todo))>>
    BY <1>6 DEF RootNew, Typed
  <2>2. PICK r \in Apps : r = Head(todo)
    BY <2>1
  <2>3. PICK c \in Frame : c = Call(r) /\ c.app = r
    BY CallFacts
  <2>4. stack' = <<c>>
    BY <2>1, <2>2, <2>3
  <2>5. stack' \in Seq(Frame) /\ Len(stack') = 1 /\ stack'[1] = c
    BY <2>4
  <2>6. ToSet(stack') = {stack'[i] : i \in 1..1}
    BY <2>5, SetOf
  <2> QED
    BY <1>2, <1>3, <2>1, <2>2, <2>3, <2>5, <2>6
<1>7. CASE \E f : \/ SkipSuper(f) \/ SuperThere(f) \/ InheritFrom(f) \/ Validated(f)
                  \/ Checked(f) \/ EachSkips(f)
                  \/ (\E b : SelfTakes(f, b))
                  \/ (\E v, new : Takes(f, v, new))
  <2> PICK f : \/ SkipSuper(f) \/ SuperThere(f) \/ InheritFrom(f) \/ Validated(f)
               \/ Checked(f) \/ EachSkips(f)
               \/ (\E b : SelfTakes(f, b))
               \/ (\E v, new : Takes(f, v, new))
    BY <1>7
  <2>1. filled' = filled /\ Moved(f) /\ f.app = top.app /\ f.n = top.n /\ f.with = top.with /\ \E where : At(where)
    BY DEF SkipSuper, SuperThere, InheritFrom, Validated, Checked, EachSkips, SelfTakes, Takes, Like
  <2>2. top.at \in Late => f.at \in Late
    BY DEF SkipSuper, SuperThere, InheritFrom, Validated, Checked, EachSkips, SelfTakes, Takes, Like, At, Late
  <2>3. top \in ToSet(stack) /\ ToSet(stack) = {top} \cup ToSet(Tail(stack)) /\ me = top.app
    BY <2>1, Running
  <2>4. First(f) => First(top)
    BY <2>1, <2>2 DEF First
  <2>5. ToSet(stack') = {f} \cup ToSet(Tail(stack))
    BY <2>1 DEF Moved
  <2> QED
    BY <1>2, <1>3, <2>1, <2>3, <2>4, <2>5
<1>8. CASE (\E f : CallSuper(f)) \/ (\E b : SelfCalls(b)) \/ (\E f : \E b \in Apps : EachCalls(f, b))
  <2>1. /\ stack # <<>> /\ top \in ToSet(stack) /\ ToSet(stack) = {top} \cup ToSet(Tail(stack)) /\ me = top.app
        /\ me \in Apps /\ yaml \in Yamls
    BY <1>8, Running DEF CallSuper, SelfCalls, EachCalls, Typed
  <2>2. \E f, b : b \in Apps /\ b \notin bd /\ Called(b, f) /\ f.app = me /\ (First(f) => First(top)) /\ filled' = filled
    <3>1. CASE \E f : CallSuper(f)
      <4> PICK f : CallSuper(f)
        BY <3>1
      <4>1. SuperOf(me) \in Apps /\ First(top)
        BY <2>1, YamlFacts DEF CallSuper, First, Late, At
      <4> QED
        BY <4>1 DEF CallSuper, Like, Typed, me
    <3>2. CASE \E b : SelfCalls(b)
      BY <2>1, <3>2 DEF SelfCalls, Typed
    <3>3. CASE \E f : \E b \in Apps : EachCalls(f, b)
      <4> PICK f : \E b \in Apps : EachCalls(f, b)
        BY <3>3
      <4> PICK b \in Apps : EachCalls(f, b)
        OBVIOUS
      <4>1. f.app = me /\ f.at = "each" /\ f.n = top.n /\ f.with = top.with /\ top.at = "each"
        BY DEF EachCalls, Like, me, At
      <4>2. First(f) => First(top)
        BY <4>1 DEF First
      <4> QED
        BY <4>1, <4>2 DEF EachCalls
    <3> QED
      BY <1>8, <3>1, <3>2, <3>3
  <2>3. PICK f, b : b \in Apps /\ b \notin bd /\ Called(b, f) /\ f.app = me /\ (First(f) => First(top)) /\ filled' = filled
    BY <2>2
  <2>4. PICK c : c = Call(b) /\ c.app = b
    BY <2>3, CallFacts
  <2>5. ToSet(stack') = {c, f} \cup ToSet(Tail(stack))
    BY <2>3, <2>4 DEF Called
  <2> QED
    BY <1>2, <1>3, <2>1, <2>3, <2>4, <2>5
<1>9. CASE \E f : NodeDone(f)
  <2> PICK f : NodeDone(f)
    BY <1>9
  <2>1. /\ At("each") /\ ~top.with /\ Moved(f) /\ f.app = me /\ f.at = "take"
        /\ filled' = IF top.n = 1 THEN [filled EXCEPT ![me] = @ + 1] ELSE filled
        /\ f.n = top.n + 1 \/ f.with = TRUE
    BY DEF NodeDone, Like, me
  <2>2. /\ top \in ToSet(stack) /\ ToSet(stack) = {top} \cup ToSet(Tail(stack)) /\ me = top.app /\ me \in Apps
        /\ me \in bd /\ top.n \in Nat /\ top.n >= 1 /\ top.at = "each" /\ filled \in [Apps -> Nat]
        /\ stack \in Seq(Frame) /\ Len(stack) \in Nat /\ top = stack[1] /\ stack # <<>>
    <3>1. Fits(top) /\ top \in Frame /\ stack \in Seq(Frame) /\ stack # <<>> /\ top.at = "each" /\ me = top.app /\ me \in Apps
      BY <2>1, Running
    <3>2. top.n \in Nat /\ top.n >= 1 /\ me \in bd
      <4>1. top.n \in 1..Len(Lineage(top.app)) /\ Len(Lineage(me)) \in Nat
        BY <3>1, LineageApps DEF Fits, Typed
      <4> QED
        BY <3>1, <4>1 DEF Fits, Late
    <3> QED
      BY <2>1, <3>1, <3>2, Running DEF Typed
  <2>3. ~First(f)
    BY <2>1, <2>2 DEF First, Late
  <2>4. top.n = 1 => filled[me] = 0
    BY <1>1, <2>1, <2>2 DEF First
  <2>5. \A a \in Apps : filled'[a] = IF a = me /\ top.n = 1 THEN filled[a] + 1 ELSE filled[a]
    BY <2>1, <2>2
  <2>6. \A a \in Apps : filled'[a] <= 1 /\ (a \notin bd' => filled'[a] = 0)
    BY <1>0, <1>1, <2>2, <2>4, <2>5
  <2>7. ASSUME NEW g \in ToSet(Tail(stack)), First(g)
        PROVE  filled'[g.app] = 0
    <3>1. g.app # me
      <4>1. /\ Tail(stack) \in Seq(Frame) /\ Len(Tail(stack)) = Len(stack) - 1
            /\ \A i \in 1..Len(stack) - 1 : Tail(stack)[i] = stack[i + 1]
        BY <2>2, TopFacts
      <4>2. PICK t \in Seq(Frame) : t = Tail(stack)
        BY <4>1
      <4>3. PICK i \in 1..Len(t) : g = t[i]
        BY <2>7, <4>2, SetOf
      <4>4. g = stack[i + 1] /\ i + 1 \in 1..Len(stack) /\ i + 1 # 1 /\ 1 \in 1..Len(stack)
        BY <2>2, <4>1, <4>2, <4>3
      <4>5. stack[i + 1].app # stack[1].app
        BY <1>1, <4>4
      <4> QED
        BY <2>2, <4>4, <4>5
    <3>2. g \in ToSet(stack) /\ g.app \in Apps
      BY <2>2, <2>7, NodeFacts
    <3> QED
      BY <1>1, <2>5, <2>7, <3>1, <3>2
  <2>8. ToSet(stack') = {f} \cup ToSet(Tail(stack))
    BY <2>1 DEF Moved
  <2> QED
    BY <1>2, <2>3, <2>6, <2>7, <2>8
<1> QED
  BY <1>4, <1>5, <1>6, <1>7, <1>8, <1>9, StepDoes

\* What nobody needs keeps its main file.
Mains ==
  Goes => \A r \in Fin : /\ ToSet(Lineage(r)) \cap yaml.mains # {}
                         /\ \A a \in Apps : r \notin Needed[a]
                         => r \in main_

\* Dependencies are only added.
LEMMA NeededGrows ==
  ASSUME Typed, [Next]_vars, NEW a \in Apps
  PROVE  /\ Needed[a] \subseteq Needed'[a] /\ Taken[a] \subseteq Taken'[a]
         /\ Taken[a] = ToSet(deps[a]) /\ Needed[a] = ToSet(deps[a]) \cap Needs[a]
         /\ Taken'[a] = ToSet(deps'[a]) /\ Needed'[a] = ToSet(deps'[a]) \cap Needs[a]
<1>1. yaml' = yaml /\ ToSet(deps[a]) \subseteq ToSet(deps'[a])
  BY Grows
<1>2. Needs' = Needs
  BY <1>1, Static
<1> QED
  BY <1>1, <1>2 DEF Needed, Taken

\* A run that is done has nothing left to do.
AtEnd == status = "done" => stack = <<>> /\ todo = <<>>

\* A run is done when the stack is empty, and no ended run goes on.
LEMMA AtEndNext ==
  ASSUME Typed, AtEnd, [Next]_vars
  PROVE  AtEnd' /\ (status = "run" => Goes) /\ (Goes' => Goes)
<1>1. CASE Idle \/ Finished
  BY <1>1 DEF Idle, Finished, AtEnd, Goes
<1>2. CASE status' = status /\ status = "run"
  BY <1>2 DEF AtEnd, Goes
<1>3. CASE OwnSuper \/ SuperLoop \/ NotValid \/ Stopped
  <2>1. status = "run" /\ status' # "done"
    <3>1. CASE NotValid
      <4>1. me \in Apps
        BY <3>1, Running DEF NotValid
      <4> QED
        BY <3>1, <4>1, ValidationFacts DEF NotValid, Typed, At
    <3> QED
      BY <1>3, <3>1 DEF OwnSuper, SuperLoop, Stopped, At
  <2> QED
    BY <2>1 DEF AtEnd, Goes
<1>4. CASE RootKnown \/ RootNew \/ Ends
  BY <1>2, <1>4 DEF RootKnown, RootNew, Ends, At
<1>5. CASE (\E b : SelfCalls(b))
           \/ \E f : \/ SkipSuper(f) \/ SuperThere(f) \/ CallSuper(f) \/ InheritFrom(f) \/ Validated(f)
                     \/ Checked(f) \/ EachSkips(f) \/ NodeDone(f)
                     \/ (\E b \in Apps : EachCalls(f, b))
                     \/ (\E b : SelfTakes(f, b))
                     \/ (\E v, new : Takes(f, v, new))
  BY <1>2, <1>5 DEF SelfCalls, SkipSuper, SuperThere, CallSuper, InheritFrom, Validated, Checked, EachSkips, NodeDone,
                    EachCalls, SelfTakes, Takes, At
<1> QED
  BY <1>1, <1>3, <1>4, <1>5, StepDoes

\* The main file is lost only to someone that needs the application.
LEMMA MainsNext ==
  ASSUME Typed, Edges, Mains, AtEnd, [Next]_vars
  PROVE  Mains'
<1> SUFFICES ASSUME Goes', NEW r \in Fin', ToSet(Lineage(r))' \cap yaml.mains' # {},
                    \A a \in Apps : r \notin Needed'[a]
             PROVE  r \in main_'
  BY DEF Mains
<1>1. yaml' = yaml /\ Lineage(r)' = Lineage(r) /\ Goes
  BY Grows, Static, AtEndNext
<1>2. ToSet(Lineage(r)) \cap yaml.mains # {} /\ \A a \in Apps : r \notin Needed[a]
  BY <1>1, NeededGrows
<1>3. r \in Fin => r \in main_
  BY <1>1, <1>2 DEF Mains
<1>4. CASE Ends
  <2>1. /\ At("each")
        /\ main_' = IF par[me] = NoApp /\ (me \in main_ \/ HasMain) THEN main_ \cup {me} ELSE main_ \ {me}
    BY <1>4 DEF Ends
  <2>2. me \in Apps /\ par \in [Apps -> Apps \cup {NoApp}] /\ yaml \in Yamls
    BY <2>1, Running DEF Typed
  <2>3. CASE r = me
    <3>1. par[me] = NoApp
      <4> SUFFICES ASSUME par[me] # NoApp
                   PROVE  FALSE
        OBVIOUS
      <4>1. par[me] \in Apps /\ me \in ToSet(deps[par[me]]) /\ me \in Needs[par[me]]
        BY <2>2 DEF Edges
      <4> QED
        BY <1>2, <2>3, <4>1, NeededGrows
    <3>2. HasMain
      BY <1>2, <2>3 DEF HasMain, ToSet
    <3> QED
      BY <2>1, <2>3, <3>1, <3>2
  <2>4. CASE r # me
    BY <1>3, <2>1, <2>4, FinDoes
  <2> QED
    BY <2>3, <2>4
<1>5. CASE ~Ends
  <2>1. main_' = main_
    BY <1>5, StepDoes DEF Idle, Finished, RootKnown, RootNew, OwnSuper, SuperLoop, NotValid, Stopped, SkipSuper,
       SuperThere, CallSuper, InheritFrom, Validated, Checked, EachSkips, NodeDone, EachCalls, SelfTakes, Takes, SelfCalls
  <2> QED
    BY <1>3, <1>5, <2>1, FinDoes
<1> QED
  BY <1>4, <1>5

\* What SetUpOnce says follows.
LEMMA SetUpOnceAtEnd ==
  ASSUME Typed, Edges, Remembered, Once, Mains, AtEnd
  PROVE  SetUpOnce
<1>1. (\E a \in Apps : filled[a] > 1) => SuperLoops
  <2>1. filled \in [Apps -> Nat]
    BY DEF Typed
  <2> QED
    BY <2>1 DEF Once
<1>2. ASSUME status = "done", NEW r \in ToSet(yaml.roots),
             ToSet(Lineage(r)) \cap yaml.mains # {}, \A a \in Apps : r \notin Needed[a]
      PROVE  r \in main_
  <2>1. stack = <<>> /\ todo = <<>> /\ Goes
    BY <1>2 DEF AtEnd, Goes
  <2>2. OnStack = {} /\ ToSet(stack) = {} /\ ToSet(todo) = {}
    BY <2>1, OnStackFacts DEF ToSet
  <2>3. r \in memo
    BY <2>2 DEF Edges
  <2>4. r \in Fin
    BY <2>2, <2>3 DEF Remembered, Fin
  <2> QED
    BY <1>2, <2>1, <2>4 DEF Mains
<1> QED
  BY <1>1, <1>2 DEF SetUpOnce

\* Nothing is set up at the start.
LEMMA EmptyAtInit ==
  ASSUME Init
  PROVE  Placed /\ Remembered /\ Once /\ Mains /\ AtEnd /\ Alarm /\ Inherits /\ Edges /\ Goes
         /\ stack = <<>> /\ OnStack = {} /\ Fin = {} /\ Len(stack) = 0 /\ ToSet(stack) = {}
<1>1. /\ status = "run" /\ stack = <<>> /\ memo = {} /\ bd = {}
      /\ sup = [a \in Apps |-> NoApp] /\ filled = [a \in Apps |-> 0]
  BY DEF Init
<1>2. Len(stack) = 0 /\ ToSet(stack) = {}
  BY <1>1 DEF ToSet
<1>3. OnStack = {} /\ Fin = {} /\ Goes
  BY <1>1, <1>2 DEF OnStack, Fin, Goes
<1>4. Placed /\ Remembered /\ Once
  BY <1>1, <1>2 DEF Placed, Remembered, Once
<1>5. Mains /\ AtEnd
  BY <1>1, <1>3 DEF Mains, AtEnd
<1>6. Alarm
  BY <1>1 DEF Alarm
<1>7. Inherits
  BY <1>1, <1>2 DEF Inherits
<1> QED
  BY <1>1, <1>2, <1>3, <1>4, <1>5, <1>6, <1>7, EdgesInit

-----------------------------------------------------------------------------
(* The public include directories.                                         *)

\* A new frame, by name.
LEMMA CallIs ==
  ASSUME NEW b
  PROVE  \E c : c = Call(b) /\ c.app = b /\ c.at = "super"
<1>1. Call(b).app = b /\ Call(b).at = "super"
  BY DEF Call
<1> QED
  BY <1>1

\* What the last loop has passed is set up, or being set up.
Passed ==
  \A f \in ToSet(stack) : f.at = "each" =>
    \A k \in 1..(f.i - 1) : k \in DOMAIN deps[f.app] /\ deps[f.app][k] \in bd \cup OnStack

\* The last loop leaves nothing out.
LEMMA PassedNext ==
  ASSUME Typed, Passed, [Next]_vars
  PROVE  Passed'
<1>0. bd \cup OnStack \subseteq bd' \cup OnStack'
  <2>1. ASSUME Ends
        PROVE  me \in bd
    <3>1. Fits(top) /\ top.at = "each" /\ me = top.app
      BY <2>1, Running DEF Ends
    <3> QED
      BY <3>1 DEF Fits, Late
  <2> QED
    BY <2>1, OnStackDoes
<1>1. ASSUME NEW f \in ToSet(stack), f.at = "each", NEW k \in 1..(f.i - 1)
      PROVE  k \in DOMAIN deps'[f.app] /\ deps'[f.app][k] \in bd' \cup OnStack'
  <2>1. f.app \in Apps
    BY NodeFacts
  <2>2. k \in DOMAIN deps[f.app] /\ deps[f.app][k] \in bd \cup OnStack
    BY <1>1 DEF Passed
  <2> QED
    BY <1>0, <2>1, <2>2, Grows
<1>2. ASSUME \A f \in ToSet(stack') : f \in ToSet(stack) \/ f.at # "each"
      PROVE  Passed'
  <2> SUFFICES ASSUME NEW f \in ToSet(stack'), f.at = "each", NEW k \in 1..(f.i - 1)
               PROVE  k \in DOMAIN deps'[f.app] /\ deps'[f.app][k] \in bd' \cup OnStack'
    BY DEF Passed
  <2> QED
    BY <1>1, <1>2
<1>3. CASE \/ Idle \/ Finished \/ RootKnown \/ OwnSuper \/ SuperLoop \/ NotValid \/ Stopped
  <2>1. stack' = stack
    BY <1>3 DEF Idle, Finished, RootKnown, OwnSuper, SuperLoop, NotValid, Stopped
  <2> QED
    BY <1>2, <2>1
<1>4. CASE RootNew
  <2>1. todo \in Seq(Apps) /\ todo # <<>> /\ stack' = <<Call(Head(todo))>>
    BY <1>4 DEF RootNew, Typed
  <2>2. PICK r \in Apps : r = Head(todo)
    BY <2>1
  <2>3. PICK c \in Frame : c = Call(r) /\ c.at = "super"
    BY CallFacts
  <2>4. stack' = <<c>>
    BY <2>1, <2>2, <2>3
  <2>5. stack' \in Seq(Frame) /\ Len(stack') = 1 /\ stack'[1] = c
    BY <2>4
  <2>6. ToSet(stack') = {stack'[i] : i \in 1..1}
    BY <2>5, SetOf
  <2> QED
    BY <1>2, <2>3, <2>5, <2>6
<1>5. CASE Ends
  <2>1. ToSet(stack') \subseteq ToSet(stack)
    BY <1>5, Running DEF Ends, Left
  <2> QED
    BY <1>2, <2>1
<1>6. CASE \E f : \/ SkipSuper(f) \/ SuperThere(f) \/ CallSuper(f) \/ InheritFrom(f) \/ Validated(f) \/ NodeDone(f)
                  \/ (\E b : SelfTakes(f, b))
                  \/ (\E v, new : Takes(f, v, new))
  <2> PICK f : \/ SkipSuper(f) \/ SuperThere(f) \/ CallSuper(f) \/ InheritFrom(f) \/ Validated(f) \/ NodeDone(f)
               \/ (\E b : SelfTakes(f, b))
               \/ (\E v, new : Takes(f, v, new))
    BY <1>6
  <2>1. (Moved(f) \/ Called(SuperOf(me), f)) /\ f.at # "each" /\ \E where : At(where)
    BY DEF SkipSuper, SuperThere, CallSuper, InheritFrom, Validated, NodeDone, SelfTakes, Takes, Like
  <2>2. ToSet(stack) = {top} \cup ToSet(Tail(stack))
    BY <2>1, Running
  <2>3. PICK c : c = Call(SuperOf(me)) /\ c.at = "super"
    BY CallIs
  <2>4. ToSet(stack') \subseteq {c, f} \cup ToSet(stack)
    BY <2>1, <2>2, <2>3 DEF Moved, Called
  <2> QED
    BY <1>2, <2>1, <2>3, <2>4
<1>7. CASE \E b : SelfCalls(b)
  <2> PICK b : SelfCalls(b)
    BY <1>7
  <2>1. Called(b, top) /\ At("self") /\ b \in Apps
    BY DEF SelfCalls
  <2>2. ToSet(stack) = {top} \cup ToSet(Tail(stack))
    BY <2>1, Running
  <2>3. PICK c : c = Call(b) /\ c.at = "super"
    BY <2>1, CallFacts
  <2>4. ToSet(stack') \subseteq {c} \cup ToSet(stack)
    BY <2>1, <2>2, <2>3 DEF Called
  <2> QED
    BY <1>2, <2>3, <2>4
<1>8. ASSUME NEW f, f.app = me, NEW where, At(where), \E c : c.at = "super" /\ ToSet(stack') \subseteq {c, f} \cup ToSet(stack),
             \A k \in 1..(f.i - 1) : k \in DOMAIN deps[me] /\ deps[me][k] \in bd' \cup OnStack'
      PROVE  Passed'
  <2>1. \A k \in 1..(f.i - 1) : k \in DOMAIN deps'[f.app] /\ deps'[f.app][k] \in bd' \cup OnStack'
    BY <1>8, Running, Grows
  <2> SUFFICES ASSUME NEW g \in ToSet(stack'), g.at = "each", NEW k \in 1..(g.i - 1)
               PROVE  k \in DOMAIN deps'[g.app] /\ deps'[g.app][k] \in bd' \cup OnStack'
    BY DEF Passed
  <2> QED
    BY <1>1, <1>8, <2>1
<1>9. CASE \E f : Checked(f)
  <2> PICK f : Checked(f)
    BY <1>9
  <2>1. Moved(f) /\ f.app = me /\ f.i = 1 /\ At("self")
    BY DEF Checked, Like, me
  <2>2. ToSet(stack) = {top} \cup ToSet(Tail(stack))
    BY <2>1, Running
  <2>3. PICK c : c = Call(me) /\ c.at = "super"
    BY CallIs
  <2>4. ToSet(stack') \subseteq {c, f} \cup ToSet(stack)
    BY <2>1, <2>2 DEF Moved
  <2> QED
    BY <1>8, <2>1, <2>3, <2>4
<1>10. CASE \E f : EachSkips(f) \/ \E b \in Apps : EachCalls(f, b)
  <2> PICK f : EachSkips(f) \/ \E b \in Apps : EachCalls(f, b)
    BY <1>10
  <2>1. /\ f.app = me /\ f.i = top.i + 1 /\ At("each") /\ top.i \in DOMAIN deps[me]
        /\ Moved(f) \/ Called(deps[me][top.i], f)
    BY DEF EachSkips, EachCalls, Like, me
  <2>2. top \in Frame /\ top.at = "each" /\ me \in Apps /\ me = top.app
        /\ ToSet(stack) = {top} \cup ToSet(Tail(stack))
    BY <2>1, Running
  <2>3. top.i \in Nat /\ top.i >= 1 /\ f.i - 1 = top.i
    BY <2>1, <2>2 DEF Frame
  <2>4. PICK c : c = Call(deps[me][top.i]) /\ c.at = "super" /\ c.app = deps[me][top.i]
    BY CallIs
  <2>5. ToSet(stack') \subseteq {c, f} \cup ToSet(stack)
    BY <2>1, <2>2, <2>4 DEF Moved, Called
  <2>6. deps[me][top.i] \in bd' \cup OnStack'
    <3>1. CASE EachSkips(f)
      BY <1>0, <3>1 DEF EachSkips
    <3>2. CASE \E b \in Apps : EachCalls(f, b)
      <4>1. Called(deps[me][top.i], f)
        BY <3>2 DEF EachCalls
      <4>2. c \in ToSet(stack')
        BY <2>4, <4>1 DEF Called
      <4> QED
        BY <2>4, <4>2 DEF OnStack
    <3> QED
      BY <3>1, <3>2
  <2>7. ASSUME NEW k \in 1..(f.i - 1)
        PROVE  k \in DOMAIN deps[me] /\ deps[me][k] \in bd' \cup OnStack'
    <3>1. k = top.i \/ k \in 1..(top.i - 1)
      BY <2>3
    <3>2. CASE k = top.i
      BY <2>1, <2>6, <3>2
    <3>3. CASE k \in 1..(top.i - 1)
      BY <1>0, <2>2, <3>3 DEF Passed
    <3> QED
      BY <3>1, <3>2, <3>3
  <2> QED
    BY <1>8, <2>1, <2>4, <2>5, <2>7
<1> QED
  BY <1>3, <1>4, <1>5, <1>6, <1>7, <1>9, <1>10, StepDoes

\* Where nothing loops no super does.
LEMMA SaneSupers ==
  ASSUME yaml \in Yamls, Sane
  PROVE  ~SuperLoops
<1> SUFFICES ASSUME NEW a \in There, HasSuper(a), a \in Closure(All, {SuperOf(a)})
             PROVE  FALSE
  BY DEF SuperLoops
<1>1. a \in Apps /\ SuperOf(a) \in All[a]
  BY YamlGraphs
<1> QED
  BY <1>1, NotSane

\* The dependencies of a call that comes to its end have come to theirs.
LEMMA EndsFin ==
  ASSUME Typed, Edges, Placed, Passed, Sane, Ends
  PROVE  ToSet(deps[me]) \subseteq Fin
<1> SUFFICES ASSUME NEW b \in ToSet(deps[me])
             PROVE  b \in Fin
  OBVIOUS
<1>1. /\ top \in Frame /\ top.at = "each" /\ me \in Apps /\ me = top.app /\ me = stack[1].app /\ me \in There
      /\ top \in ToSet(stack) /\ top.i \notin DOMAIN deps[me] /\ yaml \in Yamls /\ deps[me] \in Seq(Apps)
  BY Running DEF Ends, Typed, Edges
<1>2. PICK k \in DOMAIN deps[me] : b = deps[me][k]
  BY DEF ToSet
<1>3. k < top.i /\ k \in 1..(top.i - 1)
  <2>1. /\ top.i \in Nat /\ top.i >= 1 /\ Len(deps[me]) \in Nat /\ DOMAIN deps[me] = 1..Len(deps[me])
        /\ k \in 1..Len(deps[me])
    BY <1>1, <1>2 DEF Frame
  <2>2. top.i > Len(deps[me])
    BY <1>1, <2>1
  <2> QED
    BY <2>1, <2>2
<1>4. b \in bd \cup OnStack
  BY <1>1, <1>2, <1>3 DEF Passed
<1>5. b \in All[me] /\ b \in Apps
  <2>1. b \in Needs[me] \cup Withs[me]
    BY <1>1 DEF Edges
  <2> QED
    BY <1>1, <2>1, YamlGraphs DEF Graph
<1>6. b \notin OnStack
  <2> SUFFICES ASSUME b \in OnStack
               PROVE  FALSE
    OBVIOUS
  <2>1. PICK j \in 1..Len(stack) : b = stack[j].app
    BY OnStackFacts
  <2>2. me \in Closure(All, {b})
    BY <1>1, <2>1, AllPath
  <2> QED
    BY <1>1, <1>5, <2>2, NotSane
<1> QED
  BY <1>4, <1>6 DEF Fin

Incs ==
  Sane /\ Goes =>
    /\ \A a \in Fin : ToSet(deps[a]) \subseteq Fin /\ incs[a] = Closure(Taken, {a})
    /\ \A f \in ToSet(stack) : incs[f.app] \subseteq {f.app} /\ (~First(f) => f.app \in incs[f.app])
    /\ \A a \in Apps : a \notin bd => incs[a] = {}

\* The dependencies are a graph.
LEMMA TakenGraph ==
  ASSUME Typed
  PROVE  /\ Taken \in Graph
         /\ \A a \in Apps : Taken[a] = ToSet(deps[a]) /\ Taken[a] \subseteq Apps
<1>1. \A a \in Apps : ToSet(deps[a]) \subseteq Apps
  BY DEF Typed
<1> QED
  BY <1>1 DEF Taken, Graph

\* A step changes nothing of what is not on the stack.
LEMMA OnlyMe ==
  ASSUME Typed, [Next]_vars, NEW a \in Apps, a \notin OnStack
  PROVE  deps'[a] = deps[a] /\ incs'[a] = incs[a]
<1>0. /\ deps \in [Apps -> Seq(Apps)] /\ incs \in [Apps -> SUBSET Apps]
      /\ \A where : At(where) => me \in OnStack /\ me \in Apps
  BY OnStackFacts, Running DEF Typed
<1>1. CASE \/ Idle \/ Finished \/ RootKnown \/ RootNew
           \/ OwnSuper \/ SuperLoop \/ NotValid \/ Stopped
           \/ \E f : \/ SkipSuper(f) \/ SuperThere(f) \/ CallSuper(f) \/ InheritFrom(f) \/ Validated(f)
                     \/ Checked(f) \/ EachSkips(f)
                     \/ (\E b \in Apps : EachCalls(f, b))
           \/ \E b : SelfCalls(b)
  BY <1>1 DEF Idle, Finished, RootKnown, RootNew, OwnSuper, SuperLoop, NotValid, Stopped, SkipSuper,
              SuperThere, CallSuper, InheritFrom, Validated, Checked, EachSkips, EachCalls, SelfCalls
<1>2. CASE \E f, v, new : Takes(f, v, new)
  <2>1. incs' = incs /\ \E v : deps' = [deps EXCEPT ![me] = v] /\ me \in OnStack
    BY <1>0, <1>2 DEF Takes
  <2> QED
    BY <1>0, <2>1
<1>3. CASE \E f, b : SelfTakes(f, b)
  <2>1. incs' = incs /\ \E v : deps' = [deps EXCEPT ![me] = v] /\ me \in OnStack
    BY <1>0, <1>3 DEF SelfTakes
  <2> QED
    BY <1>0, <2>1
<1>4. CASE Ends \/ \E f : NodeDone(f)
  <2>1. deps' = deps /\ \E v : incs' = [incs EXCEPT ![me] = v] /\ me \in OnStack
    BY <1>0, <1>4 DEF Ends, NodeDone
  <2> QED
    BY <1>0, <2>1
<1> QED
  BY <1>1, <1>2, <1>3, <1>4, StepDoes

\* What has come to its end stays as it is.
LEMMA FinStays ==
  ASSUME Typed, Typed', Incs, Sane, Goes, [Next]_vars, NEW a \in Fin
  PROVE  /\ ToSet(deps'[a]) \subseteq Fin
         /\ incs'[a] = Closure(Taken', {a})
<1>1. Fin \subseteq Apps /\ \A b \in Fin : b \notin OnStack
  BY OnStackFacts DEF Fin
<1>2. \A b \in Fin : deps'[b] = deps[b] /\ incs'[b] = incs[b]
  BY <1>1, OnlyMe
<1>3. Taken \in Graph /\ Taken' \in Graph
  <2>1. \A b \in Apps : ToSet(deps'[b]) \subseteq Apps
    BY DEF Typed
  <2>2. Taken' \in Graph
    BY <2>1 DEF Taken, Graph
  <2> QED
    BY <2>2, TakenGraph
<1>4. \A b \in Fin : Taken[b] = ToSet(deps[b]) /\ Taken'[b] = ToSet(deps'[b])
  BY <1>1, TakenGraph DEF Taken
<1>5. PICK E \in Graph, F \in Graph : E = Taken /\ F = Taken'
  BY <1>3
<1>6. PICK Z \in SUBSET Apps : Z = Fin
  BY <1>1
<1>7. Closed(E, Z) /\ \A b \in Z : E[b] = F[b]
  <2>1. \A b \in Z : ToSet(deps[b]) \subseteq Z
    BY <1>6 DEF Incs
  <2>2. \A b \in Z : E[b] = ToSet(deps[b]) /\ F[b] = ToSet(deps'[b]) /\ deps'[b] = deps[b]
    BY <1>2, <1>4, <1>5, <1>6
  <2> QED
    BY <2>1, <2>2 DEF Closed
<1>8. {a} \in SUBSET Z
  BY <1>6
<1>9. Closure(F, {a}) = Closure(E, {a})
  BY <1>7, <1>8, SameEdges
<1>10. incs[a] = Closure(E, {a}) /\ ToSet(deps[a]) \subseteq Fin
  BY <1>5 DEF Incs
<1> QED
  BY <1>2, <1>5, <1>9, <1>10

\* A call that comes to its end has the directories of all that is below it.
LEMMA PublicFacts ==
  ASSUME Typed, Edges, Placed, Passed, Incs, Sane, Goes, Ends
  PROVE  Public = Closure(Taken, {me})
<1>1. /\ top \in ToSet(stack) /\ top.at = "each" /\ top.with /\ me \in Apps /\ me = top.app
  BY Running DEF Ends
<1>2. ToSet(deps[me]) \subseteq Fin
  BY EndsFin
<1>3. Taken \in Graph /\ Taken[me] = ToSet(deps[me])
  BY <1>1, TakenGraph
<1>4. ~First(top)
  BY <1>1 DEF First, Late
<1>5. incs[me] = {me}
  BY <1>1, <1>4 DEF Incs
<1>6. \A b \in ToSet(deps[me]) : incs[b] = Closure(Taken, {b})
  BY <1>2 DEF Incs
<1>7. PICK E \in Graph, a \in Apps : E = Taken /\ a = me
  BY <1>1, <1>3
<1>8. Closure(E, {a}) = {a} \cup Below(E, a) /\ Below(E, a) = UNION {Closure(E, {b}) : b \in E[a]}
  BY Leads
<1>9. Public = {a} \cup UNION {incs[b] : b \in E[a]}
  BY <1>3, <1>5, <1>7 DEF Public
<1>10. UNION {incs[b] : b \in E[a]} = UNION {Closure(E, {b}) : b \in E[a]}
  <2>1. \A b \in E[a] : incs[b] = Closure(E, {b})
    BY <1>3, <1>6, <1>7
  <2> QED
    BY <2>1
<1> QED
  BY <1>7, <1>8, <1>9, <1>10

\* Every step keeps the directories right.
LEMMA IncsNext ==
  ASSUME Typed, Typed', Edges, Placed, Passed, Once, Incs, AtEnd, [Next]_vars
  PROVE  Incs'
<1>0. yaml' = yaml /\ Sane' = Sane /\ bd \subseteq bd' /\ (Goes' => Goes)
  BY Grows, Static, AtEndNext
<1> SUFFICES ASSUME Sane, Goes
             PROVE  /\ \A a \in Fin' : ToSet(deps'[a]) \subseteq Fin' /\ incs'[a] = Closure(Taken', {a})
                    /\ \A f \in ToSet(stack') : incs'[f.app] \subseteq {f.app} /\ (~First(f) => f.app \in incs'[f.app])
                    /\ \A a \in Apps : a \notin bd' => incs'[a] = {}
  BY <1>0 DEF Incs, First
<1>1. /\ \A f \in ToSet(stack) : incs[f.app] \subseteq {f.app} /\ (~First(f) => f.app \in incs[f.app])
      /\ \A a \in Apps : a \notin bd => incs[a] = {}
  BY DEF Incs
<1>2. \A a \in Fin' : ToSet(deps'[a]) \subseteq Fin' /\ incs'[a] = Closure(Taken', {a})
  <2>1. \A a \in Fin : ToSet(deps'[a]) \subseteq Fin' /\ incs'[a] = Closure(Taken', {a})
    BY FinStays, FinDoes
  <2>2. CASE Fin' = Fin
    BY <2>1, <2>2
  <2>3. CASE Ends /\ Fin' \subseteq Fin \cup {me}
    <3>1. incs' = [incs EXCEPT ![me] = Public] /\ deps' = deps /\ me \in Apps /\ incs \in [Apps -> SUBSET Apps]
      BY <2>3, Running DEF Ends, Typed
    <3>2. Taken' = Taken
      BY <3>1 DEF Taken
    <3>3. incs'[me] = Closure(Taken', {me}) /\ ToSet(deps'[me]) \subseteq Fin'
      BY <2>3, <3>1, <3>2, EndsFin, PublicFacts, FinDoes
    <3> QED
      BY <2>1, <2>3, <3>3
  <2> QED
    BY <2>2, <2>3, FinDoes
<1>3. ASSUME incs' = incs,
             \A f \in ToSet(stack') : \/ f \in ToSet(stack)
                                      \/ f.app \in Apps /\ f.app \notin bd /\ First(f)
                                      \/ f.app = me /\ top \in ToSet(stack) /\ (First(top) => First(f))
      PROVE  /\ \A f \in ToSet(stack') : incs'[f.app] \subseteq {f.app} /\ (~First(f) => f.app \in incs'[f.app])
             /\ \A a \in Apps : a \notin bd' => incs'[a] = {}
  BY <1>0, <1>1, <1>3 DEF me
<1>4. CASE \/ Idle \/ Finished \/ RootKnown \/ OwnSuper \/ SuperLoop \/ NotValid \/ Stopped
  BY <1>2, <1>3, <1>4 DEF Idle, Finished, RootKnown, OwnSuper, SuperLoop, NotValid, Stopped
<1>5. CASE RootNew
  <2>1. incs' = incs /\ todo \in Seq(Apps) /\ todo # <<>> /\ Head(todo) \notin bd /\ stack' = <<Call(Head(todo))>>
    BY <1>5 DEF RootNew, Typed
  <2>2. PICK r \in Apps : r = Head(todo)
    BY <2>1
  <2>3. PICK c \in Frame : c = Call(r) /\ c.app = r /\ c.at = "super"
    BY CallFacts
  <2>4. stack' = <<c>>
    BY <2>1, <2>2, <2>3
  <2>5. stack' \in Seq(Frame) /\ Len(stack') = 1 /\ stack'[1] = c
    BY <2>4
  <2>6. ToSet(stack') = {stack'[i] : i \in 1..1}
    BY <2>5, SetOf
  <2>7. First(c)
    BY <2>3 DEF First, Late
  <2> QED
    BY <1>2, <1>3, <2>1, <2>2, <2>3, <2>5, <2>6, <2>7
<1>6. CASE \E f : \/ SkipSuper(f) \/ SuperThere(f) \/ InheritFrom(f) \/ Validated(f)
                  \/ Checked(f) \/ EachSkips(f)
                  \/ (\E b : SelfTakes(f, b))
                  \/ (\E v, new : Takes(f, v, new))
  <2> PICK f : \/ SkipSuper(f) \/ SuperThere(f) \/ InheritFrom(f) \/ Validated(f)
               \/ Checked(f) \/ EachSkips(f)
               \/ (\E b : SelfTakes(f, b))
               \/ (\E v, new : Takes(f, v, new))
    BY <1>6
  <2>1. incs' = incs /\ Moved(f) /\ f.app = top.app /\ f.n = top.n /\ f.with = top.with /\ \E where : At(where)
    BY DEF SkipSuper, SuperThere, InheritFrom, Validated, Checked, EachSkips, SelfTakes, Takes, Like
  <2>2. top \in ToSet(stack) /\ ToSet(stack) = {top} \cup ToSet(Tail(stack)) /\ me = top.app /\ Fits(top)
    BY <2>1, Running
  <2>3. First(top) => First(f)
    BY <2>1, <2>2 DEF First, Fits
  <2>4. ToSet(stack') = {f} \cup ToSet(Tail(stack))
    BY <2>1 DEF Moved
  <2> QED
    BY <1>2, <1>3, <2>1, <2>2, <2>3, <2>4
<1>7. CASE (\E f : CallSuper(f)) \/ (\E b : SelfCalls(b)) \/ (\E f : \E b \in Apps : EachCalls(f, b))
  <2>1. /\ stack # <<>> /\ top \in ToSet(stack) /\ ToSet(stack) = {top} \cup ToSet(Tail(stack)) /\ me = top.app
        /\ me \in Apps /\ yaml \in Yamls /\ Fits(top)
    BY <1>7, Running DEF CallSuper, SelfCalls, EachCalls, Typed
  <2>2. \E f, b : b \in Apps /\ b \notin bd /\ Called(b, f) /\ f.app = me /\ (First(top) => First(f)) /\ incs' = incs
    <3>1. CASE \E f : CallSuper(f)
      <4> PICK f : CallSuper(f)
        BY <3>1
      <4>1. SuperOf(me) \in Apps /\ f.at = "inherit"
        BY <2>1, YamlFacts DEF CallSuper, Like
      <4>2. First(f)
        BY <4>1 DEF First, Late
      <4> QED
        BY <4>1, <4>2 DEF CallSuper, Like, Typed, me
    <3>2. CASE \E b : SelfCalls(b)
      BY <2>1, <3>2 DEF SelfCalls, Typed
    <3>3. CASE \E f : \E b \in Apps : EachCalls(f, b)
      <4> PICK f : \E b \in Apps : EachCalls(f, b)
        BY <3>3
      <4> PICK b \in Apps : EachCalls(f, b)
        OBVIOUS
      <4>1. f.app = me /\ f.at = "each" /\ f.n = top.n /\ f.with = top.with /\ top.at = "each"
        BY DEF EachCalls, Like, me, At
      <4>2. First(top) => First(f)
        BY <4>1 DEF First
      <4> QED
        BY <4>1, <4>2 DEF EachCalls
    <3> QED
      BY <1>7, <3>1, <3>2, <3>3
  <2>3. PICK f, b : b \in Apps /\ b \notin bd /\ Called(b, f) /\ f.app = me /\ (First(top) => First(f)) /\ incs' = incs
    BY <2>2
  <2>4. PICK c : c = Call(b) /\ c.app = b /\ c.at = "super"
    BY <2>3, CallFacts
  <2>5. First(c)
    BY <2>4 DEF First, Late
  <2>6. ToSet(stack') = {c, f} \cup ToSet(Tail(stack))
    BY <2>3, <2>4 DEF Called
  <2> QED
    BY <1>2, <1>3, <2>1, <2>3, <2>4, <2>5, <2>6
<1>8. CASE \E f : NodeDone(f)
  <2> PICK f : NodeDone(f)
    BY <1>8
  <2>1. /\ At("each") /\ Moved(f) /\ f.app = me /\ incs' = [incs EXCEPT ![me] = @ \cup {me}] /\ bd' = bd
    BY DEF NodeDone, Like, me
  <2>2. /\ top \in ToSet(stack) /\ ToSet(stack) = {top} \cup ToSet(Tail(stack)) /\ me = top.app /\ me \in Apps
        /\ me \in bd /\ incs \in [Apps -> SUBSET Apps]
    <3>1. Fits(top) /\ top.at = "each" /\ me = top.app
      BY <2>1, Running
    <3> QED
      BY <2>1, <3>1, Running DEF Fits, Late, Typed
  <2>3. \A a \in Apps : incs'[a] = IF a = me THEN incs[a] \cup {me} ELSE incs[a]
    BY <2>1, <2>2
  <2>4. ToSet(stack') = {f} \cup ToSet(Tail(stack)) /\ \A g \in ToSet(stack) : g.app \in Apps
    BY <2>1, NodeFacts DEF Moved
  <2>5. \A g \in ToSet(stack') : incs'[g.app] \subseteq {g.app} /\ (~First(g) => g.app \in incs'[g.app])
    BY <1>1, <2>1, <2>2, <2>3, <2>4
  <2>6. \A a \in Apps : a \notin bd' => incs'[a] = {}
    BY <1>1, <2>1, <2>2, <2>3
  <2> QED
    BY <1>2, <2>5, <2>6
<1>9. CASE Ends
  <2>1. /\ At("each") /\ bd' = bd /\ incs' = [incs EXCEPT ![me] = Public] /\ Left
    BY <1>9 DEF Ends
  <2>2. /\ me = top.app /\ me \in Apps /\ me \in bd /\ incs \in [Apps -> SUBSET Apps] /\ me = stack[1].app
        /\ stack \in Seq(Frame) /\ Len(stack) \in Nat /\ Len(stack) >= 1 /\ stack # <<>>
        /\ ToSet(stack) = {top} \cup ToSet(Tail(stack))
    <3>1. Fits(top) /\ top.at = "each" /\ me = top.app
      BY <2>1, Running
    <3> QED
      BY <2>1, <3>1, Running DEF Fits, Late, Typed
  <2>3. \A a \in Apps : incs'[a] = IF a = me THEN Public ELSE incs[a]
    BY <2>1, <2>2
  <2>4. ~SuperLoops
    BY SaneSupers DEF Typed
  <2>5. ASSUME NEW g \in ToSet(stack')
        PROVE  g \in ToSet(stack) /\ g.app \in Apps /\ g.app # me
    <3>1. stack' \in Seq(Frame) /\ Len(stack') = Len(stack) - 1 /\ \A i \in 1..Len(stack) - 1 : stack'[i] = stack[i + 1]
      BY <2>1 DEF Left
    <3>2. PICK i \in 1..Len(stack') : g = stack'[i]
      BY <3>1, SetOf
    <3>3. g = stack[i + 1] /\ i + 1 \in 1..Len(stack) /\ i + 1 # 1 /\ 1 \in 1..Len(stack)
      BY <2>2, <3>1, <3>2
    <3>4. stack[i + 1].app # stack[1].app
      BY <2>4, <3>3 DEF Once
    <3>5. g \in ToSet(stack)
      BY <2>1, <2>2, <2>5 DEF Left
    <3> QED
      BY <2>2, <3>3, <3>4, <3>5, NodeFacts
  <2>6. \A g \in ToSet(stack') : incs'[g.app] \subseteq {g.app} /\ (~First(g) => g.app \in incs'[g.app])
    BY <1>1, <2>3, <2>5
  <2>7. \A a \in Apps : a \notin bd' => incs'[a] = {}
    BY <1>1, <2>1, <2>2, <2>3
  <2> QED
    BY <1>2, <2>6, <2>7
<1> QED
  BY <1>4, <1>5, <1>6, <1>7, <1>8, <1>9, StepDoes

\* There are none at the start.
LEMMA IncsInit ==
  ASSUME Init
  PROVE  Passed /\ Incs
<1>1. incs = [a \in Apps |-> {}]
  BY DEF Init
<1> QED
  BY <1>1, EmptyAtInit DEF Passed, Incs

\* At the end they are complete.
LEMMA IncludesAtEnd ==
  ASSUME Typed, AtEnd, Incs
  PROVE  IncludesComplete
<1> SUFFICES ASSUME status = "done", Sane
             PROVE  \A a \in bd : incs[a] = Closure(Taken, {a})
  BY DEF IncludesComplete
<1>1. stack = <<>> /\ Goes
  BY DEF AtEnd, Goes
<1>2. OnStack = {}
  BY <1>1, OnStackFacts
<1> QED
  BY <1>1, <1>2 DEF Fin, Incs

-----------------------------------------------------------------------------
(* Loops of dependencies are noticed.                                      *)

\* b is among the self: entries that frame f still has to take.
Awaits(f, b) ==
  /\ f.at = "self" /\ ~f.with
  /\ \E k \in DOMAIN Listed(yaml.self, Lineage(f.app)[f.n]) :
       k >= f.i /\ b = <<f.app[1], Listed(yaml.self, Lineage(f.app)[f.n])[k]>>

Coming == [a \in Apps |-> {b \in Apps : \E f \in ToSet(stack) : f.app = a /\ Awaits(f, b)}]

\* The dependencies an application needs and has or is about to have; and all
\* edges that the calls on the stack follow.
Plus == [a \in Apps |-> Needed[a] \cup Coming[a]]
Star == [a \in Apps |-> Taken[a] \cup Coming[a] \cup Supers[a]]

\* A self: entry that is awaited is needed.
LEMMA AwaitsNeeds ==
  ASSUME Typed, NEW f \in ToSet(stack), NEW b, Awaits(f, b)
  PROVE  b \in Apps /\ b \in Needs[f.app]
BY NodeFacts DEF Awaits

\* These are graphs within that of the yaml files.
LEMMA PlusFacts ==
  ASSUME Typed, Edges
  PROVE  /\ Plus \in Graph /\ Star \in Graph /\ All \in Graph /\ Taken \in Graph
         /\ \A a \in Apps : /\ Plus[a] = Needed[a] \cup Coming[a]
                            /\ Star[a] = Taken[a] \cup Coming[a] \cup Supers[a]
                            /\ Taken[a] = ToSet(deps[a])
                            /\ Needed[a] = ToSet(deps[a]) \cap Needs[a]
                            /\ Taken[a] \subseteq Needs[a] \cup Withs[a]
                            /\ Coming[a] \subseteq Needs[a]
                            /\ Plus[a] \subseteq Needs[a]
                            /\ Plus[a] \subseteq All[a] /\ Star[a] \subseteq All[a]
                            /\ Plus[a] \subseteq Star[a]
<1>1. yaml \in Yamls
  BY DEF Typed
<1>2. /\ Needs \in Graph /\ Withs \in Graph /\ Supers \in Graph /\ All \in Graph /\ Taken \in Graph
      /\ \A a \in Apps : /\ All[a] = Needs[a] \cup Withs[a] \cup Supers[a]
                         /\ Taken[a] = ToSet(deps[a])
                         /\ Needed[a] = ToSet(deps[a]) \cap Needs[a]
  BY <1>1, YamlGraphs, TakenGraph DEF Needed
<1>3. ASSUME NEW a \in Apps
      PROVE  Coming[a] \subseteq Needs[a] /\ Coming[a] \subseteq Apps
  BY AwaitsNeeds DEF Coming
<1>4. ASSUME NEW a \in Apps
      PROVE  /\ Plus[a] = Needed[a] \cup Coming[a]
             /\ Star[a] = Taken[a] \cup Coming[a] \cup Supers[a]
             /\ Taken[a] \subseteq Needs[a] \cup Withs[a]
             /\ Plus[a] \subseteq Needs[a]
             /\ Plus[a] \subseteq All[a] /\ Star[a] \subseteq All[a]
             /\ Plus[a] \subseteq Star[a]
  <2>1. Plus[a] = Needed[a] \cup Coming[a] /\ Star[a] = Taken[a] \cup Coming[a] \cup Supers[a]
    BY DEF Plus, Star
  <2>2. Taken[a] \subseteq Needs[a] \cup Withs[a]
    BY <1>2 DEF Edges
  <2> QED
    BY <1>2, <1>3, <2>1, <2>2
<1>5. All \in [Apps -> SUBSET Apps]
  BY <1>2 DEF Graph
<1>6. \A a \in Apps : Plus[a] \subseteq Apps /\ Star[a] \subseteq Apps
  BY <1>4, <1>5
<1>7. Plus \in Graph /\ Star \in Graph
  BY <1>6 DEF Plus, Star, Graph
<1> QED
  BY <1>2, <1>3, <1>4, <1>7

\* The frames that wait for self: entries.
LEMMA ComingSame ==
  ASSUME Typed, yaml' = yaml,
         \A f, b : f \in ToSet(stack') /\ f \notin ToSet(stack) => ~Awaits(f, b),
         \A f, b : f \in ToSet(stack) /\ f \notin ToSet(stack') => ~Awaits(f, b)
  PROVE  Coming' = Coming
<1>1. \A f : Lineage(f.app)' = Lineage(f.app)
  BY Static
<1>2. \A f, b : Awaits(f, b)' = Awaits(f, b)
  BY <1>1 DEF Awaits, Listed
<1>3. ASSUME NEW a \in Apps
      PROVE  {b \in Apps : \E f \in ToSet(stack') : f.app = a /\ Awaits(f, b)'}
             = {b \in Apps : \E f \in ToSet(stack) : f.app = a /\ Awaits(f, b)}
  BY <1>2
<1> QED
  BY <1>3 DEF Coming

\* The first loop makes more self: entries awaited.
LEMMA ComingTakes ==
  ASSUME Typed, NEW f, NEW v, NEW new, Takes(f, v, new)
  PROVE  \A a \in Apps : Coming[a] \subseteq Coming'[a] /\ (a # me => Coming'[a] = Coming[a])
<1>1. /\ yaml' = yaml /\ ToSet(stack') = {f} \cup ToSet(Tail(stack)) /\ ToSet(stack) = {top} \cup ToSet(Tail(stack))
      /\ top.at = "take" /\ f.app = me /\ top.app = me
  BY Running DEF Takes, Moved, Like, me
<1>2. \A g : Lineage(g.app)' = Lineage(g.app)
  BY <1>1, Static
<1>3. \A g, b : Awaits(g, b)' = Awaits(g, b)
  BY <1>1, <1>2 DEF Awaits, Listed
<1>4. \A b : ~Awaits(top, b)
  BY <1>1 DEF Awaits
<1> SUFFICES ASSUME NEW a \in Apps
             PROVE  Coming[a] \subseteq Coming'[a] /\ (a # me => Coming'[a] = Coming[a])
  OBVIOUS
<1>5. /\ Coming[a] = {b \in Apps : \E g \in ToSet(stack) : g.app = a /\ Awaits(g, b)}
      /\ Coming'[a] = {b \in Apps : \E g \in ToSet(stack') : g.app = a /\ Awaits(g, b)'}
  BY DEF Coming
<1> QED
  BY <1>1, <1>3, <1>4, <1>5

\* The self: loop makes one less awaited, which it takes.
LEMMA ComingSelfTakes ==
  ASSUME Typed, NEW f, NEW b, SelfTakes(f, b)
  PROVE  \A a \in Apps : /\ Coming'[a] \subseteq Coming[a]
                         /\ Coming[a] \subseteq Coming'[a] \cup (IF a = me THEN {b} ELSE {})
                         /\ a = me => b \in Coming[a]
<1>1. /\ yaml' = yaml /\ ToSet(stack') = {f} \cup ToSet(Tail(stack)) /\ ToSet(stack) = {top} \cup ToSet(Tail(stack))
      /\ top.at = "self" /\ f.app = me /\ top.app = me /\ f.at = "self" /\ f.with = top.with /\ f.n = top.n
      /\ f.i = top.i + 1 /\ Self(top, b) /\ top \in Frame /\ top \in ToSet(stack)
  BY Running DEF SelfTakes, Moved, Like, me
<1>2. \A g : Lineage(g.app)' = Lineage(g.app)
  BY <1>1, Static
<1>3. \A g, c : Awaits(g, c)' = Awaits(g, c)
  BY <1>1, <1>2 DEF Awaits, Listed
<1>4. PICK s \in Seq(Profiles \ {0}) : s = Listed(yaml.self, Lineage(top.app)[top.n])
  BY <1>1, NodeFacts
<1>5. top.i \in Nat /\ top.i \in DOMAIN s /\ ~top.with /\ b = <<me[1], s[top.i]>> /\ DOMAIN s = 1..Len(s) /\ Len(s) \in Nat
  BY <1>1, <1>4 DEF Self, Frame
<1>6. \A c : /\ Awaits(top, c) <=> \E k \in DOMAIN s : k >= top.i /\ c = <<me[1], s[k]>>
             /\ Awaits(f, c) <=> \E k \in DOMAIN s : k >= f.i /\ c = <<me[1], s[k]>>
  BY <1>1, <1>4, <1>5 DEF Awaits
<1>7. \A c : Awaits(top, c) <=> Awaits(f, c) \/ c = b
  <2>1. \A k \in DOMAIN s : k >= top.i <=> k >= f.i \/ k = top.i
    BY <1>1, <1>5
  <2>2. top.i >= top.i
    BY <1>5
  <2> QED
    BY <1>5, <1>6, <2>1, <2>2
<1>8. b \in Apps
  BY <1>1, SelfEdge
<1> SUFFICES ASSUME NEW a \in Apps
             PROVE  /\ Coming'[a] \subseteq Coming[a]
                    /\ Coming[a] \subseteq Coming'[a] \cup (IF a = me THEN {b} ELSE {})
                    /\ a = me => b \in Coming[a]
  OBVIOUS
<1>9. /\ Coming[a] = {c \in Apps : \E g \in ToSet(stack) : g.app = a /\ Awaits(g, c)}
      /\ Coming'[a] = {c \in Apps : \E g \in ToSet(stack') : g.app = a /\ Awaits(g, c)'}
  BY DEF Coming
<1> QED
  BY <1>1, <1>3, <1>7, <1>8, <1>9

\* A frame that is about to be checked has no self: entry left.
LEMMA NoMoreSelves ==
  ASSUME Typed, At("self"), top.i \notin DOMAIN Selves, NEW b
  PROVE  ~Awaits(top, b)
<1> SUFFICES ASSUME Awaits(top, b)
             PROVE  FALSE
  OBVIOUS
<1>1. top \in Frame /\ top \in ToSet(stack) /\ me = top.app
  BY Running
<1>2. PICK s \in Seq(Profiles \ {0}) : s = Listed(yaml.self, Lineage(top.app)[top.n])
  BY <1>1, NodeFacts
<1>3. ~top.with /\ \E k \in DOMAIN s : k >= top.i
  BY <1>2 DEF Awaits
<1>4. Selves = s
  BY <1>1, <1>2, <1>3 DEF Selves, node
<1>5. DOMAIN s = 1..Len(s) /\ Len(s) \in Nat /\ top.i \in Nat /\ top.i >= 1
  BY <1>1, <1>2 DEF Frame
<1> QED
  BY <1>3, <1>4, <1>5

\* No other step changes what is awaited or taken.
LEMMA ComingDoes ==
  ASSUME Typed, [Next]_vars
  PROVE  \/ Coming' = Coming /\ deps' = deps
         \/ \E f, b : SelfTakes(f, b)
         \/ \E f, v, new : Takes(f, v, new)
<1>0. yaml' = yaml
  BY Grows
<1>1. CASE \/ Idle \/ Finished \/ RootKnown \/ OwnSuper \/ SuperLoop \/ NotValid \/ Stopped
  <2>1. stack' = stack /\ deps' = deps
    BY <1>1 DEF Idle, Finished, RootKnown, OwnSuper, SuperLoop, NotValid, Stopped
  <2> QED
    BY <1>0, <2>1, ComingSame
<1>2. CASE RootNew
  <2>1. /\ todo \in Seq(Apps) /\ todo # <<>> /\ stack' = <<Call(Head(todo))>> /\ stack = <<>> /\ deps' = deps
    BY <1>2 DEF RootNew, Typed
  <2>2. PICK r \in Apps : r = Head(todo)
    BY <2>1
  <2>3. PICK c \in Frame : c = Call(r) /\ c.at = "super"
    BY CallFacts
  <2>4. stack' = <<c>>
    BY <2>1, <2>2, <2>3
  <2>5. stack' \in Seq(Frame) /\ Len(stack') = 1 /\ stack'[1] = c
    BY <2>4
  <2>6. ToSet(stack') = {stack'[i] : i \in 1..1} /\ ToSet(stack) = {}
    BY <2>1, <2>5, SetOf DEF ToSet
  <2>7. \A g \in ToSet(stack') : g.at = "super"
    BY <2>3, <2>5, <2>6
  <2>8. \A g, b : g \in ToSet(stack') => ~Awaits(g, b)
    BY <2>7 DEF Awaits
  <2> QED
    BY <1>0, <2>1, <2>6, <2>8, ComingSame
<1>3. ASSUME NEW f, NEW where, At(where), deps' = deps, \A b : ~Awaits(top, b), \A b : ~Awaits(f, b),
             ToSet(stack') \subseteq {f} \cup ToSet(stack) \cup {g \in ToSet(stack') : g.at = "super"},
             ToSet(Tail(stack)) \subseteq ToSet(stack')
      PROVE  Coming' = Coming
  <2>1. ToSet(stack) = {top} \cup ToSet(Tail(stack))
    BY <1>3, Running
  <2>2. \A g, b : g.at = "super" => ~Awaits(g, b)
    BY DEF Awaits
  <2> QED
    BY <1>0, <1>3, <2>1, <2>2, ComingSame
<1>4. CASE Ends
  <2>1. At("each") /\ deps' = deps /\ ToSet(stack') = ToSet(Tail(stack))
    BY <1>4 DEF Ends, Left
  <2>2. \A b : ~Awaits(top, b)
    BY <2>1 DEF Awaits, At
  <2>3. ToSet(stack) = {top} \cup ToSet(Tail(stack))
    BY <2>1, Running
  <2> QED
    BY <1>3, <2>1, <2>2, <2>3
<1>5. CASE \E f : \/ SkipSuper(f) \/ SuperThere(f) \/ CallSuper(f) \/ InheritFrom(f) \/ Validated(f)
                  \/ Checked(f) \/ EachSkips(f) \/ NodeDone(f)
                  \/ \E b \in Apps : EachCalls(f, b)
  <2> PICK f : \/ SkipSuper(f) \/ SuperThere(f) \/ CallSuper(f) \/ InheritFrom(f) \/ Validated(f)
               \/ Checked(f) \/ EachSkips(f) \/ NodeDone(f)
               \/ \E b \in Apps : EachCalls(f, b)
    BY <1>5
  <2>1. deps' = deps /\ f.at # "self" /\ (Moved(f) \/ \E b : Called(b, f)) /\ \E where : At(where)
    BY DEF SkipSuper, SuperThere, CallSuper, InheritFrom, Validated, Checked, EachSkips, NodeDone, EachCalls, Like
  <2>2. top.at # "self" \/ (At("self") /\ top.i \notin DOMAIN Selves)
    BY DEF SkipSuper, SuperThere, CallSuper, InheritFrom, Validated, Checked, EachSkips, NodeDone, EachCalls, At
  <2>3. \A b : ~Awaits(top, b)
    BY <2>2, NoMoreSelves DEF Awaits
  <2>4. \A b : ~Awaits(f, b)
    BY <2>1 DEF Awaits
  <2>5. ToSet(stack) = {top} \cup ToSet(Tail(stack))
    BY <2>1, Running
  <2>6. CASE Moved(f)
    BY <1>3, <2>1, <2>3, <2>4, <2>5, <2>6 DEF Moved
  <2>7. CASE \E b : Called(b, f)
    <3>1. PICK b : Called(b, f)
      BY <2>7
    <3>2. PICK c : c = Call(b) /\ c.app = b /\ c.at = "super"
      BY CallIs
    <3>3. ToSet(stack') = {c, f} \cup ToSet(Tail(stack))
      BY <3>1, <3>2 DEF Called
    <3> QED
      BY <1>3, <2>1, <2>3, <2>4, <2>5, <3>2, <3>3
  <2> QED
    BY <2>1, <2>6, <2>7
<1>6. CASE \E b : SelfCalls(b)
  <2> PICK b : SelfCalls(b)
    BY <1>6
  <2>1. At("self") /\ deps' = deps /\ Called(b, top) /\ b \in Apps
    BY DEF SelfCalls
  <2>2. ToSet(stack) = {top} \cup ToSet(Tail(stack))
    BY <2>1, Running
  <2>3. PICK c : c = Call(b) /\ c.app = b /\ c.at = "super"
    BY CallIs
  <2>4. ToSet(stack') = {c} \cup ToSet(stack)
    BY <2>1, <2>2, <2>3 DEF Called
  <2>5. \A d : ~Awaits(c, d)
    BY <2>3 DEF Awaits
  <2> QED
    BY <1>0, <2>1, <2>4, <2>5, ComingSame
<1> QED
  BY <1>1, <1>2, <1>4, <1>5, <1>6, StepDoes

\* So only the first loop adds edges to Plus, from the running application.
LEMMA PlusDoes ==
  ASSUME Typed, Edges, Typed', Edges', [Next]_vars
  PROVE  /\ \A a \in Apps : Plus[a] \subseteq Plus'[a] /\ Star[a] \subseteq Star'[a]
         /\ Plus' = Plus \/ ((\E f, v, new : Takes(f, v, new)) /\ \A a \in Apps : a # me => Plus'[a] = Plus[a])
<1>0. /\ yaml' = yaml /\ Needs' = Needs /\ Supers' = Supers /\ Plus \in Graph
      /\ \A a \in Apps : ToSet(deps[a]) \subseteq ToSet(deps'[a])
  BY Grows, Static, PlusFacts
<1>1. \A a \in Apps : /\ Plus[a] = (ToSet(deps[a]) \cap Needs[a]) \cup Coming[a]
                      /\ Plus'[a] = (ToSet(deps'[a]) \cap Needs[a]) \cup Coming'[a]
                      /\ Star[a] = ToSet(deps[a]) \cup Coming[a] \cup Supers[a]
                      /\ Star'[a] = ToSet(deps'[a]) \cup Coming'[a] \cup Supers[a]
  BY <1>0 DEF Plus, Star, Needed, Taken
<1>2. ASSUME \A a \in Apps : Plus'[a] = Plus[a]
      PROVE  Plus' = Plus
  BY <1>2 DEF Plus
<1>3. CASE Coming' = Coming /\ deps' = deps
  BY <1>1, <1>2, <1>3
<1>4. CASE \E f, b : SelfTakes(f, b)
  <2> PICK f, b : SelfTakes(f, b)
    BY <1>4
  <2>1. \A a \in Apps : /\ Coming'[a] \subseteq Coming[a]
                        /\ Coming[a] \subseteq Coming'[a] \cup (IF a = me THEN {b} ELSE {})
                        /\ a = me => b \in Coming[a]
    BY ComingSelfTakes
  <2>2. /\ deps' = [deps EXCEPT ![me] = Append(@, b)] /\ me \in Apps /\ deps \in [Apps -> Seq(Apps)]
        /\ Self(top, b) /\ top \in ToSet(stack) /\ top.app = me
    BY Running DEF SelfTakes, Typed, me
  <2>3. b \in Apps /\ b \in Needs[me]
    BY <2>2, SelfEdge
  <2>4. \A a \in Apps : ToSet(deps'[a]) = IF a = me THEN ToSet(deps[a]) \cup {b} ELSE ToSet(deps[a])
    <3>1. \A a \in Apps : deps'[a] = IF a = me THEN Append(deps[me], b) ELSE deps[a]
      BY <2>2
    <3>2. ToSet(Append(deps[me], b)) = ToSet(deps[me]) \cup {b}
      BY <2>2, <2>3, AppendSet
    <3> QED
      BY <3>1, <3>2
  <2>5. ASSUME NEW a \in Apps
        PROVE  Plus'[a] = Plus[a] /\ Star[a] \subseteq Star'[a]
    <3>1. CASE a = me
      <4>1. /\ Coming'[a] \subseteq Coming[a] /\ Coming[a] \subseteq Coming'[a] \cup {b} /\ b \in Coming[a]
            /\ b \in Needs[a] /\ ToSet(deps'[a]) = ToSet(deps[a]) \cup {b}
        BY <2>1, <2>3, <2>4, <3>1
      <4>2. /\ Plus[a] = (ToSet(deps[a]) \cap Needs[a]) \cup Coming[a]
            /\ Plus'[a] = (ToSet(deps'[a]) \cap Needs[a]) \cup Coming'[a]
            /\ Star[a] = ToSet(deps[a]) \cup Coming[a] \cup Supers[a]
            /\ Star'[a] = ToSet(deps'[a]) \cup Coming'[a] \cup Supers[a]
        BY <1>1
      <4>3. Plus'[a] \subseteq Plus[a]
        BY <4>1, <4>2
      <4>4. Plus[a] \subseteq Plus'[a]
        BY <4>1, <4>2
      <4>5. Star[a] \subseteq Star'[a]
        BY <4>1, <4>2
      <4> QED
        BY <4>3, <4>4, <4>5
    <3>2. CASE a # me
      BY <1>1, <2>1, <2>4, <3>2
    <3> QED
      BY <3>1, <3>2
  <2> QED
    BY <1>2, <2>5
<1>5. CASE \E f, v, new : Takes(f, v, new)
  <2> PICK f, v, new : Takes(f, v, new)
    BY <1>5
  <2>1. \A a \in Apps : Coming[a] \subseteq Coming'[a] /\ (a # me => Coming'[a] = Coming[a])
    BY ComingTakes
  <2>2. deps' = [deps EXCEPT ![me] = v] /\ deps \in [Apps -> Seq(Apps)]
    BY DEF Takes, Typed
  <2>3. \A a \in Apps : a # me => deps'[a] = deps[a]
    BY <2>2
  <2>4. \A a \in Apps : Plus[a] \subseteq Plus'[a] /\ Star[a] \subseteq Star'[a]
    BY <1>0, <1>1, <2>1
  <2>5. \A a \in Apps : a # me => Plus'[a] = Plus[a]
    BY <1>1, <2>1, <2>3
  <2> QED
    BY <2>4, <2>5
<1> QED
  BY <1>3, <1>4, <1>5, ComingDoes

\* What an application that has come to its end depends on is set up, or being
\* set up.
Kept == \A a \in Fin : ToSet(deps[a]) \subseteq bd \cup OnStack

\* A call that ends has passed all its dependencies.
LEMMA KeptNext ==
  ASSUME Typed, Passed, Kept, [Next]_vars
  PROVE  Kept'
<1>1. bd \cup OnStack \subseteq bd' \cup OnStack'
  <2>1. CASE Ends /\ bd' = bd /\ OnStack = OnStack' \cup {me}
    <3>1. Fits(top) /\ top.at = "each" /\ me = top.app
      BY <2>1, Running DEF Ends
    <3>2. me \in bd
      BY <3>1 DEF Fits, Late
    <3> QED
      BY <2>1, <3>2
  <2> QED
    BY <2>1, OnStackDoes
<1>2. ASSUME NEW a \in Fin
      PROVE  ToSet(deps'[a]) \subseteq bd' \cup OnStack'
  <2>1. a \in Apps /\ a \notin OnStack
    BY OnStackFacts DEF Fin
  <2>2. deps'[a] = deps[a]
    BY <2>1, OnlyMe
  <2> QED
    BY <1>1, <1>2, <2>2 DEF Kept
<1>3. ASSUME Ends
      PROVE  ToSet(deps'[me]) \subseteq bd' \cup OnStack'
  <2>1. /\ top \in Frame /\ top.at = "each" /\ me \in Apps /\ me = top.app
        /\ top \in ToSet(stack) /\ top.i \notin DOMAIN deps[me] /\ deps[me] \in Seq(Apps) /\ deps' = deps
    BY <1>3, Running DEF Ends, Typed
  <2> SUFFICES ASSUME NEW b \in ToSet(deps[me])
               PROVE  b \in bd \cup OnStack
    BY <1>1, <2>1
  <2>2. PICK k \in DOMAIN deps[me] : b = deps[me][k]
    BY DEF ToSet
  <2>3. k \in 1..(top.i - 1)
    <3>1. /\ top.i \in Nat /\ top.i >= 1 /\ Len(deps[me]) \in Nat /\ DOMAIN deps[me] = 1..Len(deps[me])
          /\ k \in 1..Len(deps[me])
      BY <2>1, <2>2 DEF Frame
    <3>2. top.i > Len(deps[me])
      BY <2>1, <3>1
    <3> QED
      BY <3>1, <3>2
  <2> QED
    BY <2>1, <2>2, <2>3 DEF Passed
<1>4. \A a \in Fin' : a \in Fin \/ (Ends /\ a = me)
  BY FinDoes
<1> QED
  BY <1>2, <1>3, <1>4 DEF Kept

-----------------------------------------------------------------------------
(* The par links.                                                          *)

\* What leads to y along the calls.
Reaches(y) == {v \in Apps : y \in Closure(Star, {v})}

\* S, of applications that have come to their end, holds with what leads to y
\* all that took z, and does not lead elsewhere.
Behind(S, z, y) ==
  /\ \A v \in S : Taken[v] \subseteq S \cup Reaches(y)
  /\ \A w \in Apps : z \in Taken[w] \ Withs[w] => w \in S \cup Reaches(y)

\* par is there for all that was taken but by with:, and whoever else took it
\* leads to par, or only to what has come to its end.
Links ==
  /\ \A w \in Apps : \A z \in Taken[w] \ Withs[w] : par[z] # NoApp
  /\ \A z \in Apps : par[z] # NoApp => \E S \in SUBSET Fin : Behind(S, z, par[z])

\* All that is on the stack leads to the running call.
LEMMA StarPath ==
  ASSUME Typed, Edges, Placed, stack # <<>>
  PROVE  OnStack \subseteq Reaches(me)
<1>1. /\ stack \in Seq(Frame) /\ Len(stack) \in Nat /\ Star \in Graph /\ me = stack[1].app
      /\ \A j \in 1..Len(stack) : stack[j] \in ToSet(stack) /\ stack[j].app \in Apps
  BY AllPath, PlusFacts, TopFacts DEF me
<1>2. ASSUME NEW j \in 2..Len(stack)
      PROVE  stack[j - 1].app \in Star[stack[j].app]
  <2>1. j \in 1..Len(stack) /\ j - 1 \in 1..Len(stack)
    BY <1>1
  <2>2. PICK f \in ToSet(stack) : f = stack[j]
    BY <1>1, <2>1
  <2>3. PICK b \in Apps : b = stack[j - 1].app
    BY <1>1, <2>1
  <2>4. Calls(f, b) /\ f.app \in Apps /\ f \in Frame /\ yaml \in Yamls /\ deps \in [Apps -> Seq(Apps)]
    BY <2>2, <2>3, NodeFacts DEF Placed, Typed
  <2>5. Star[f.app] = Taken[f.app] \cup Coming[f.app] \cup Supers[f.app] /\ Taken[f.app] = ToSet(deps[f.app])
    BY <2>4, PlusFacts
  <2>6. CASE f.at = "inherit" /\ HasSuper(f.app) /\ b = SuperOf(f.app)
    <3>1. Supers[f.app] = {b}
      BY <2>4, <2>6, YamlGraphs
    <3> QED
      BY <2>2, <2>3, <2>5, <3>1
  <2>7. CASE Self(f, b)
    <3>1. Awaits(f, b)
      <4>1. f.i >= f.i
        BY <2>4 DEF Frame
      <4> QED
        BY <2>7, <4>1 DEF Self, Awaits
    <3>2. b \in Coming[f.app]
      BY <2>4, <3>1 DEF Coming
    <3> QED
      BY <2>2, <2>3, <2>5, <3>2
  <2>8. CASE f.at = "each" /\ f.i - 1 \in DOMAIN deps[f.app] /\ b = deps[f.app][f.i - 1]
    <3>1. b \in ToSet(deps[f.app])
      BY <2>8 DEF ToSet
    <3> QED
      BY <2>2, <2>3, <2>5, <3>1
  <2> QED
    BY <2>4, <2>6, <2>7, <2>8 DEF Calls
<1>3. \A j \in 1..Len(stack) : me \in Closure(Star, {stack[j].app})
  BY <1>1, <1>2, StackPath
<1> SUFFICES ASSUME NEW a \in OnStack
             PROVE  a \in Reaches(me)
  OBVIOUS
<1>4. PICK j \in 1..Len(stack) : a = stack[j].app
  BY OnStackFacts
<1> QED
  BY <1>1, <1>3, <1>4 DEF Reaches

\* The graphs after a step.
LEMMA GraphsNext ==
  ASSUME Typed, Typed', [Next]_vars
  PROVE  /\ Plus' \in Graph /\ Star' \in Graph /\ Taken' \in Graph
         /\ Plus' = [a \in Apps |-> Needed'[a] \cup Coming'[a]]
         /\ Star' = [a \in Apps |-> Taken'[a] \cup Coming'[a] \cup Supers[a]]
<1>1. Needs' = Needs /\ Supers' = Supers /\ Supers \in Graph
  BY Grows, Static, YamlGraphs DEF Typed
<1>2. \A a \in Apps : deps'[a] \in Seq(Apps)
  BY Grows
<1>3. \A a \in Apps : Taken'[a] = ToSet(deps'[a]) /\ Needed'[a] = Taken'[a] \cap Needs[a]
  BY <1>1 DEF Taken, Needed
<1>4. \A a \in Apps : Taken'[a] \subseteq Apps /\ Needed'[a] \subseteq Apps /\ Supers[a] \subseteq Apps
  BY <1>1, <1>2, <1>3 DEF ToSet, Graph
<1>5. \A a \in Apps : Coming'[a] \subseteq Apps
  BY DEF Coming
<1>6. /\ Plus' = [a \in Apps |-> Needed'[a] \cup Coming'[a]]
      /\ Star' = [a \in Apps |-> Taken'[a] \cup Coming'[a] \cup Supers[a]]
      /\ Taken' = [a \in Apps |-> ToSet(deps'[a])]
  BY <1>1 DEF Plus, Star, Taken
<1> QED
  BY <1>3, <1>4, <1>5, <1>6 DEF Graph

\* What leads to y goes on leading there.
LEMMA ReachesGrows ==
  ASSUME Typed, Edges, Typed', Edges', [Next]_vars, NEW y
  PROVE  Reaches(y) \subseteq Reaches(y)'
<1>1. PICK E, F : E = Star /\ F = Star'
  OBVIOUS
<1>2. E \in Graph /\ F \in Graph
  BY <1>1, PlusFacts, GraphsNext
<1>3. \A a \in Apps : E[a] \subseteq F[a]
  BY <1>1, PlusDoes
<1>4. \A v \in Apps : Closure(E, {v}) \subseteq Closure(F, {v})
  BY <1>2, <1>3, MoreEdges
<1> QED
  BY <1>1, <1>4 DEF Reaches

\* A par link that is kept stays right.
LEMMA OldLink ==
  ASSUME Typed, Edges, Typed', Edges', [Next]_vars, NEW S \in SUBSET Fin, NEW z \in Apps, NEW y \in Apps,
         Behind(S, z, y), \A w \in Apps : z \in Taken'[w] \ Withs[w] => z \in Taken[w]
  PROVE  S \in SUBSET Fin' /\ Behind(S, z, y)'
<1>1. S \in SUBSET Fin' /\ Withs' = Withs /\ Fin \subseteq Apps /\ Reaches(y) \subseteq Reaches(y)'
  BY FinDoes, Grows, Static, OnStackFacts, ReachesGrows
<1>2. ASSUME NEW v \in S
      PROVE  Taken'[v] \subseteq S \cup Reaches(y)'
  <2>1. v \in Apps /\ v \notin OnStack
    BY <1>1 DEF Fin
  <2>2. deps'[v] = deps[v]
    BY <2>1, OnlyMe
  <2>3. Taken'[v] = Taken[v]
    BY <2>1, <2>2 DEF Taken
  <2> QED
    BY <1>1, <2>3 DEF Behind
<1>3. \A w \in Apps : z \in Taken'[w] \ Withs'[w] => w \in S \cup Reaches(y)'
  BY <1>1 DEF Behind
<1> QED
  BY <1>1, <1>2, <1>3 DEF Behind

\* A new one is right: all is done with, or on the stack.
LEMMA NewLink ==
  ASSUME Typed, Edges, Placed, Kept, Typed', Edges', [Next]_vars, stack # <<>>, bd' = bd,
         NEW m, m = me, NEW z \in Apps
  PROVE  \E S \in SUBSET Fin' : Behind(S, z, m)'
<1>1. PICK S : S = Fin
  OBVIOUS
<1>2. S \in SUBSET Fin' /\ S \subseteq Apps /\ Reaches(m) \subseteq Reaches(m)' /\ OnStack \subseteq Reaches(m)
  BY <1>1, FinDoes, OnStackFacts, ReachesGrows, StarPath
<1>3. bd \cup OnStack \subseteq S \cup Reaches(m)'
  BY <1>1, <1>2 DEF Fin
<1>4. ASSUME NEW v \in S
      PROVE  Taken'[v] \subseteq S \cup Reaches(m)'
  <2>1. v \in Apps /\ v \notin OnStack
    BY <1>1, <1>2 DEF Fin
  <2>2. deps'[v] = deps[v]
    BY <2>1, OnlyMe
  <2>3. Taken'[v] = ToSet(deps[v])
    BY <2>1, <2>2 DEF Taken
  <2> QED
    BY <1>1, <1>3, <2>3 DEF Kept
<1>5. ASSUME NEW w \in Apps, z \in Taken'[w]
      PROVE  w \in S \cup Reaches(m)'
  <2>1. z \in ToSet(deps'[w])
    BY <1>5 DEF Taken
  <2>2. w \in bd'
    BY <2>1 DEF Edges
  <2> QED
    BY <1>3, <2>2
<1>6. Behind(S, z, m)'
  BY <1>4, <1>5 DEF Behind
<1> QED
  BY <1>2, <1>6

\* The dependencies in new get me as their par.
LEMMA LinksTake ==
  ASSUME Typed, Edges, Placed, Kept, Links, Typed', Edges', [Next]_vars, stack # <<>>, bd' = bd,
         NEW new \in SUBSET Apps, par' = [b \in Apps |-> IF b \in new THEN me ELSE par[b]],
         \A w \in Apps : Taken'[w] \ Withs[w] \subseteq Taken[w] \cup new
  PROVE  Links'
<1>0. Withs' = Withs /\ par \in [Apps -> Apps \cup {NoApp}]
  BY Grows, Static DEF Typed
<1>1. PICK m \in Apps : m = me
  BY TopFacts DEF Typed
<1>2. \A z \in Apps : par'[z] = IF z \in new THEN m ELSE par[z]
  BY <1>1
<1>3. ASSUME NEW w \in Apps, NEW z \in Taken'[w] \ Withs'[w]
      PROVE  par'[z] # NoApp
  <2>1. z \in Apps
    BY <1>3, GraphsNext DEF Graph
  <2>2. CASE z \in new
    BY <1>1, <1>2, <2>1, <2>2, NoAppFacts
  <2>3. CASE z \notin new
    <3>1. z \in Taken[w] \ Withs[w]
      BY <1>0, <2>3
    <3>2. par[z] # NoApp
      BY <3>1 DEF Links
    <3> QED
      BY <1>2, <2>1, <2>3, <3>2
  <2> QED
    BY <2>2, <2>3
<1>4. ASSUME NEW z \in Apps, par'[z] # NoApp
      PROVE  \E S \in SUBSET Fin' : Behind(S, z, par[z])'
  <2>1. CASE z \in new
    <3>1. par'[z] = m
      BY <1>2, <2>1
    <3>2. PICK S \in SUBSET Fin' : Behind(S, z, m)'
      BY <1>1, NewLink
    <3> QED
      BY <3>1, <3>2
  <2>2. CASE z \notin new
    <3>1. par'[z] = par[z]
      BY <1>2, <2>2
    <3>2. PICK y \in Apps : y = par[z]
      BY <1>0, <1>4, <3>1
    <3>3. PICK S \in SUBSET Fin : Behind(S, z, y)
      BY <1>4, <3>1, <3>2 DEF Links
    <3>4. \A w \in Apps : z \in Taken'[w] \ Withs[w] => z \in Taken[w]
      BY <2>2
    <3>5. S \in SUBSET Fin' /\ Behind(S, z, y)'
      BY <3>2, <3>3, <3>4, OldLink
    <3> QED
      BY <3>1, <3>2, <3>5
  <2> QED
    BY <2>1, <2>2
<1> QED
  BY <1>3, <1>4 DEF Links

\* Every step keeps the links right.
LEMMA LinksNext ==
  ASSUME Typed, Edges, Placed, Kept, Links, Typed', Edges', [Next]_vars
  PROVE  Links'
<1>0. /\ Withs' = Withs /\ par \in [Apps -> Apps \cup {NoApp}] /\ Taken \in Graph
      /\ \A a \in Apps : Taken[a] = ToSet(deps[a]) /\ Taken'[a] = ToSet(deps'[a])
  BY Grows, Static, TakenGraph DEF Typed, Taken
<1>1. CASE deps' = deps /\ par' = par
  <2>1. Taken' = Taken
    BY <1>1 DEF Taken
  <2>2. \A w \in Apps : \A z \in Taken'[w] \ Withs'[w] : par'[z] # NoApp
    BY <1>0, <1>1, <2>1 DEF Links
  <2>3. ASSUME NEW z \in Apps, par'[z] # NoApp
        PROVE  \E S \in SUBSET Fin' : Behind(S, z, par[z])'
    <3>1. PICK y \in Apps : y = par[z]
      BY <1>0, <1>1, <2>3
    <3>2. PICK S \in SUBSET Fin : Behind(S, z, y)
      BY <1>1, <2>3, <3>1 DEF Links
    <3>3. S \in SUBSET Fin' /\ Behind(S, z, y)'
      BY <2>1, <3>1, <3>2, OldLink
    <3> QED
      BY <1>1, <3>1, <3>3
  <2> QED
    BY <2>2, <2>3 DEF Links
<1>2. CASE \E f, v, new : Takes(f, v, new)
  <2> PICK f, v, new : Takes(f, v, new)
    BY <1>2
  <2>1. /\ stack # <<>> /\ bd' = bd /\ me \in Apps /\ new \in SUBSET Apps
        /\ ToSet(v) = ToSet(deps[me]) \cup new /\ deps' = [deps EXCEPT ![me] = v]
        /\ new \subseteq (IF top.with THEN Withs[me] ELSE Needs[me])
        /\ par' = IF top.with THEN par ELSE [b \in Apps |-> IF b \in new THEN me ELSE par[b]]
        /\ deps \in [Apps -> Seq(Apps)]
    BY Running DEF Takes, Typed
  <2>2. \A w \in Apps : Taken'[w] \subseteq Taken[w] \cup (IF w = me THEN new ELSE {})
    <3> SUFFICES ASSUME NEW w \in Apps
                 PROVE  Taken'[w] \subseteq Taken[w] \cup (IF w = me THEN new ELSE {})
      OBVIOUS
    <3>1. deps'[w] = IF w = me THEN v ELSE deps[w]
      BY <2>1
    <3> QED
      BY <1>0, <2>1, <3>1
  <2>3. CASE top.with
    <3>1. PICK s \in SUBSET Apps : s = {}
      OBVIOUS
    <3>2. par' = [b \in Apps |-> IF b \in s THEN me ELSE par[b]]
      BY <1>0, <2>1, <2>3, <3>1
    <3>3. \A w \in Apps : Taken'[w] \ Withs[w] \subseteq Taken[w] \cup s
      BY <2>1, <2>2, <2>3
    <3> QED
      BY <2>1, <3>2, <3>3, LinksTake
  <2>4. CASE ~top.with
    <3>1. par' = [b \in Apps |-> IF b \in new THEN me ELSE par[b]]
      BY <2>1, <2>4
    <3>2. \A w \in Apps : Taken'[w] \ Withs[w] \subseteq Taken[w] \cup new
      BY <2>2
    <3> QED
      BY <2>1, <3>1, <3>2, LinksTake
  <2> QED
    BY <2>3, <2>4
<1>3. CASE \E f, b : SelfTakes(f, b)
  <2> PICK f, b : SelfTakes(f, b)
    BY <1>3
  <2>1. /\ stack # <<>> /\ bd' = bd /\ me \in Apps /\ Self(top, b) /\ top \in ToSet(stack)
        /\ deps' = [deps EXCEPT ![me] = Append(@, b)] /\ par' = [par EXCEPT ![b] = me]
        /\ deps \in [Apps -> Seq(Apps)]
    BY Running DEF SelfTakes, Typed
  <2>2. b \in Apps
    BY <2>1, SelfEdge
  <2>3. PICK s \in SUBSET Apps : s = {b}
    BY <2>2
  <2>4. \A w \in Apps : Taken'[w] \subseteq Taken[w] \cup s
    <3> SUFFICES ASSUME NEW w \in Apps
                 PROVE  Taken'[w] \subseteq Taken[w] \cup s
      OBVIOUS
    <3>1. deps'[w] = IF w = me THEN Append(deps[me], b) ELSE deps[w]
      BY <2>1
    <3>2. ToSet(Append(deps[me], b)) = ToSet(deps[me]) \cup {b}
      BY <2>1, <2>2, AppendSet
    <3> QED
      BY <1>0, <2>3, <3>1, <3>2
  <2>5. par' = [c \in Apps |-> IF c \in s THEN me ELSE par[c]]
    BY <1>0, <2>1, <2>3
  <2> QED
    BY <2>1, <2>4, <2>5, LinksTake
<1>4. \/ deps' = deps /\ par' = par
      \/ \E f, v, new : Takes(f, v, new)
      \/ \E f, b : SelfTakes(f, b)
  <2>1. CASE \/ Idle \/ Finished \/ RootKnown \/ RootNew
             \/ OwnSuper \/ SuperLoop \/ NotValid \/ Stopped \/ Ends
             \/ \E f : \/ SkipSuper(f) \/ SuperThere(f) \/ CallSuper(f) \/ InheritFrom(f) \/ Validated(f)
                       \/ Checked(f) \/ EachSkips(f) \/ NodeDone(f)
                       \/ (\E b \in Apps : EachCalls(f, b))
             \/ \E b : SelfCalls(b)
    BY <2>1 DEF Idle, Finished, RootKnown, RootNew, OwnSuper, SuperLoop, NotValid, Stopped, SkipSuper,
                SuperThere, CallSuper, InheritFrom, Validated, Checked, EachSkips, EachCalls, SelfCalls,
                NodeDone, Ends
  <2> QED
    BY <2>1, StepDoes
<1> QED
  BY <1>1, <1>2, <1>3, <1>4

\* There are none at the start.
LEMMA LinksInit ==
  ASSUME Init
  PROVE  Kept /\ Links
<1>1. Typed /\ Fin = {} /\ par = [a \in Apps |-> NoApp] /\ deps = [a \in Apps |-> <<>>]
  BY TypedInit, EmptyAtInit DEF Init
<1>2. \A w \in Apps : Taken[w] = {}
  <2> SUFFICES ASSUME NEW w \in Apps
               PROVE  Taken[w] = {}
    OBVIOUS
  <2>1. deps[w] = <<>> /\ Taken[w] = ToSet(deps[w])
    BY <1>1, TakenGraph
  <2> QED
    BY <2>1 DEF ToSet
<1> QED
  BY <1>1, <1>2 DEF Kept, Links

-----------------------------------------------------------------------------
(* Loops, in graphs.                                                       *)

\* What leads on leads all the way.
LEMMA Through ==
  ASSUME NEW E \in Graph
  PROVE  /\ \A a \in Apps : a \in Closure(E, {a}) /\ E[a] \subseteq Apps
         /\ \A a, b \in Apps : b \in E[a] => b \in Closure(E, {a})
         /\ \A a, b, c \in Apps : b \in Closure(E, {a}) /\ c \in Closure(E, {b}) => c \in Closure(E, {a})
         /\ \A a, b, c \in Apps : b \in Closure(E, {a}) /\ c \in E[b] => c \in Closure(E, {a})
         /\ \A a \in Apps : \A b \in Closure(E, {a}) : b \in Apps
         /\ \A a \in Apps : Below(E, a) \subseteq Closure(E, {a})
         /\ \A a, b \in Apps : a \in Below(E, a) /\ b \in Closure(E, {a}) => b \in Below(E, a)
<1>1. ASSUME NEW a \in Apps
      PROVE  /\ a \in Closure(E, {a}) /\ E[a] \subseteq Apps /\ E[a] \subseteq Closure(E, {a})
             /\ \A b \in Closure(E, {a}) : b \in Apps /\ E[b] \subseteq Closure(E, {a})
             /\ \A b \in Closure(E, {a}) : Closure(E, {b}) \subseteq Closure(E, {a})
             /\ Closure(E, {a}) = {a} \cup Below(E, a)
  BY Leads
<1> QED
  BY <1>1

\* A set that the edges do not leave.
LEMMA Within ==
  ASSUME NEW E \in Graph, NEW Q \in SUBSET Apps, \A q \in Q : E[q] \subseteq Q, NEW a \in Q
  PROVE  Closure(E, {a}) \subseteq Q
<1>1. {a} \in SUBSET Apps /\ {a} \subseteq Q /\ Closed(E, Q)
  BY DEF Closed
<1> QED
  BY <1>1, ClosureFacts

\* A loop that m is not on does not need the edges that m got.
LEMMA LoopWithout ==
  ASSUME NEW E \in Graph, NEW F \in Graph, NEW m \in Apps, \A a \in Apps : a # m => F[a] = E[a],
         NEW z \in Apps, z \in Below(F, z), m \notin Closure(F, {z}) \/ z \notin Closure(F, {m})
  PROVE  z \in Below(E, z)
<1>1. CASE m \notin Closure(F, {z})
  <2>1. PICK Z \in SUBSET Apps : Z = Closure(F, {z})
    BY Leads
  <2>2. z \in Z /\ \A a \in Z : F[a] \subseteq Z
    BY <2>1, Leads
  <2>3. \A a \in Z : F[a] = E[a]
    BY <1>1, <2>1
  <2>4. Closed(F, Z) /\ F[z] \in SUBSET Z
    BY <2>2 DEF Closed
  <2>5. Closure(E, F[z]) = Closure(F, F[z])
    BY <2>3, <2>4, SameEdges
  <2> QED
    BY <2>2, <2>3, <2>5 DEF Below
<1>2. CASE z \notin Closure(F, {m})
  <2>1. z # m /\ F[z] = E[z] /\ E[z] \in SUBSET Apps
    BY <1>2, Leads
  <2>2. PICK B \in SUBSET Apps : B = Closure(E, E[z]) /\ E[z] \subseteq B /\ \A a \in B : E[a] \subseteq B
    BY <2>1, ClosureFacts DEF Closed
  <2>3. PICK M \in SUBSET Apps : M = Closure(F, {m}) /\ m \in M /\ \A a \in M : F[a] \subseteq M
    BY Leads
  <2>4. PICK Q \in SUBSET Apps : Q = B \cup M
    BY <2>2, <2>3
  <2>5. \A a \in Q : F[a] \subseteq Q
    BY <2>2, <2>3, <2>4
  <2>6. F[z] \subseteq Q /\ Closed(F, Q) /\ F[z] \in SUBSET Apps
    BY <2>1, <2>2, <2>4, <2>5 DEF Closed
  <2>7. Closure(F, F[z]) \subseteq Q
    BY <2>6, ClosureFacts
  <2> QED
    BY <1>2, <2>2, <2>3, <2>4, <2>7 DEF Below
<1> QED
  BY <1>1, <1>2

\* E, dependencies; G, with those by with: in W and the supers in P; A, all edges
\* of the yaml files.  On a loop of E through z, no edge of W or P.
Loop(E, G, A, W, P, z) ==
  /\ E \in Graph /\ G \in Graph /\ A \in Graph
  /\ \A a \in Apps : E[a] \subseteq A[a] /\ G[a] \subseteq A[a] /\ G[a] \subseteq E[a] \cup W[a] \cup P[a]
  /\ z \in Apps /\ z \in Below(E, z)
  /\ \A q \in Closure(A, {z}) : \A r \in W[q] \cup P[q] : z \notin Closure(A, {r})

\* Who is above someone of the loop, and below by G, is on it.
LEMMA StaysOnLoop ==
  ASSUME NEW E, NEW G, NEW A, NEW W, NEW P, NEW z, Loop(E, G, A, W, P, z),
         NEW u \in Closure(E, {z}), NEW y \in Apps, z \in Closure(E, {y}), y \in Closure(G, {u})
  PROVE  y \in Closure(E, {z})
<1>1. /\ E \in Graph /\ G \in Graph /\ A \in Graph /\ z \in Apps
      /\ \A a \in Apps : E[a] \subseteq A[a] /\ G[a] \subseteq A[a] /\ G[a] \subseteq E[a] \cup W[a] \cup P[a]
      /\ \A q \in Closure(A, {z}) : \A r \in W[q] \cup P[q] : z \notin Closure(A, {r})
  BY DEF Loop
<1>2. \A a \in Apps : Closure(E, {a}) \subseteq Closure(A, {a})
  BY <1>1, MoreEdges
<1>3. PICK Q \in SUBSET Apps : Q = {q \in Apps : q \in Closure(E, {z}) \/ z \notin Closure(A, {q})}
  OBVIOUS
<1>4. ASSUME NEW q \in Q, NEW r \in G[q]
      PROVE  r \in Q
  <2>1. r \in A[q] /\ r \in Apps /\ q \in Apps
    BY <1>1, <1>3 DEF Graph
  <2>2. CASE z \notin Closure(A, {q})
    <3>1. z \notin Closure(A, {r})
      BY <1>1, <2>1, <2>2, Through
    <3> QED
      BY <1>3, <2>1, <3>1
  <2>3. CASE q \in Closure(E, {z})
    <3>1. CASE r \in E[q]
      BY <1>1, <1>3, <2>1, <2>3, <3>1, Through
    <3>2. CASE r \in W[q] \cup P[q]
      <4>1. q \in Closure(A, {z})
        BY <1>1, <1>2, <2>3
      <4> QED
        BY <1>1, <1>3, <2>1, <3>2, <4>1
    <3> QED
      BY <1>1, <2>1, <3>1, <3>2
  <2> QED
    BY <1>3, <2>2, <2>3
<1>5. u \in Q
  BY <1>1, <1>3, Through
<1>6. Closure(G, {u}) \subseteq Q
  BY <1>1, <1>4, <1>5, Within
<1>7. z \in Closure(A, {y})
  BY <1>2
<1> QED
  BY <1>3, <1>6, <1>7

OnLoop(E, z) == {w \in Apps : w \in Closure(E, {z}) /\ z \in Closure(E, {w})}

\* An edge of the loop is one that was taken, and not by with:.
LoopTaken(E, T, W, z) == \A w \in OnLoop(E, z) : \A v \in OnLoop(E, z) : v \in E[w] => v \in T[w] \ W[w]

\* S holds with R, what leads to y, all that took v, and does not lead elsewhere.
Above(G, T, W, S, R, v, y) ==
  /\ R = {x \in Apps : y \in Closure(G, {x})}
  /\ \A u \in S : T[u] \subseteq S \cup R
  /\ \A w \in Apps : v \in T[w] \ W[w] => w \in S \cup R

\* The par of someone on the loop is on it.
LEMMA ParOnLoop ==
  ASSUME NEW E, NEW G, NEW A, NEW W, NEW P, NEW z, Loop(E, G, A, W, P, z),
         NEW T, LoopTaken(E, T, W, z), NEW m \in OnLoop(E, z),
         NEW v \in OnLoop(E, z), NEW y \in Apps, v \in E[y],
         NEW S, m \notin S, NEW R, Above(G, T, W, S, R, v, y)
  PROVE  y \in OnLoop(E, z)
<1>1. E \in Graph /\ G \in Graph /\ z \in Apps /\ z \in Below(E, z)
  BY DEF Loop
<1>0. /\ \A x \in Apps : x \in R <=> y \in Closure(G, {x})
      /\ \A u \in S : T[u] \subseteq S \cup R
      /\ \A w \in Apps : v \in T[w] \ W[w] => w \in S \cup R
  BY DEF Above
<1>2. PICK K \in SUBSET Apps : K = OnLoop(E, z)
  BY DEF OnLoop
<1>3. /\ \A w \in Apps : w \in K <=> w \in Closure(E, {z}) /\ z \in Closure(E, {w})
      /\ v \in K /\ m \in K /\ \A w \in K, x \in K : x \in E[w] => x \in T[w] \ W[w]
  BY <1>2 DEF OnLoop, LoopTaken
<1>4. z \in Closure(E, {y})
  BY <1>1, <1>3, Through
<1>5. ASSUME NEW u \in K, u \in R
      PROVE  y \in Closure(E, {z})
  <2>1. u \in Closure(E, {z}) /\ y \in Closure(G, {u})
    BY <1>0, <1>3, <1>5
  <2> QED
    BY <1>4, <2>1, StaysOnLoop
<1>6. CASE \A u \in K : u \notin R
  <2>1. PICK w \in K : v \in E[w]
    <3>1. v \in Below(E, z)
      BY <1>1, <1>3, Through
    <3>2. PICK w \in Closure(E, {z}) : v \in E[w]
      BY <1>1, <3>1, LastEdge
    <3>3. w \in Apps
      BY <1>1, <3>2, Through
    <3>4. z \in Closure(E, {w})
      BY <1>1, <1>3, <3>2, <3>3, Through
    <3> QED
      BY <1>3, <3>2, <3>3, <3>4
  <2>2. w \in S
    BY <1>0, <1>3, <1>6, <2>1
  <2>3. PICK Q \in SUBSET Apps : Q = {q \in Apps : q \in S \cap K \/ m \notin Closure(E, {q})}
    OBVIOUS
  <2>4. ASSUME NEW q \in Q, NEW r \in E[q]
        PROVE  r \in Q
    <3>1. r \in Apps /\ q \in Apps
      BY <1>1, <2>3, Through
    <3>2. CASE m \notin Closure(E, {q})
      <4>1. m \notin Closure(E, {r})
        BY <1>1, <1>3, <3>1, <3>2, Through
      <4> QED
        BY <2>3, <3>1, <4>1
    <3>3. CASE q \in S \cap K /\ m \in Closure(E, {r})
      <4>1. r \in Closure(E, {z}) /\ z \in Closure(E, {r})
        BY <1>1, <1>3, <3>1, <3>3, Through
      <4>2. r \in K
        BY <1>3, <3>1, <4>1
      <4>3. r \in T[q]
        BY <1>3, <3>3, <4>2
      <4>4. r \in S
        BY <1>0, <1>6, <3>3, <4>2, <4>3
      <4> QED
        BY <2>3, <3>1, <4>2, <4>4
    <3> QED
      BY <2>3, <3>1, <3>2, <3>3
  <2>5. w \in Q
    BY <2>1, <2>2, <2>3
  <2>6. Closure(E, {w}) \subseteq Q
    BY <1>1, <2>4, <2>5, Within
  <2>7. m \in Closure(E, {w}) /\ m \in Closure(E, {m})
    BY <1>1, <1>3, <2>1, Through
  <2> QED
    BY <2>3, <2>6, <2>7
<1>7. CASE \E u \in K : u \in R
  BY <1>4, <1>5, <1>7 DEF OnLoop
<1> QED
  BY <1>6, <1>7

\* On a loop, everyone has a parent for whom he is listed, and everyone who has a
\* parent has one who knows what he reaches without the apps of B.
LoopPars(E, G, A, W, P, z, T, m, f, B) ==
  /\ Loop(E, G, A, W, P, z) /\ LoopTaken(E, T, W, z) /\ m \in OnLoop(E, z) /\ m \notin B
  /\ f \in [Apps -> Apps \cup {NoApp}]
  /\ \A v \in Apps : f[v] # NoApp => v \in E[f[v]]
  /\ \A w \in Apps : \A v \in T[w] \ W[w] : f[v] # NoApp
  /\ \A v \in Apps : f[v] # NoApp => \E S \in SUBSET B : \E R : Above(G, T, W, S, R, v, f[v])

\* The chain of someone on the loop does not leave it, and so has no end.
LEMMA ParsLoop ==
  ASSUME NEW E, NEW G, NEW A, NEW W, NEW P, NEW z, NEW T, NEW m, NEW f, NEW B,
         LoopPars(E, G, A, W, P, z, T, m, f, B)
  PROVE  Endless(f, m)
<1> USE DEF LoopPars
<1>1. E \in Graph /\ z \in Apps /\ z \in Below(E, z)
  BY DEF Loop
<1>2. PICK K \in SUBSET Apps : K = OnLoop(E, z)
  BY DEF OnLoop
<1>3. ASSUME NEW v \in K
      PROVE  f[v] # NoApp /\ f[v] \in K
  <2>1. v \in Apps /\ v \in Closure(E, {z}) /\ z \in Closure(E, {v})
    BY <1>2 DEF OnLoop
  <2>2. v \in Below(E, z)
    BY <1>1, <2>1, Through
  <2>3. PICK w \in Closure(E, {z}) : v \in E[w]
    BY <1>1, <2>2, LastEdge
  <2>4. w \in Apps
    BY <1>1, <2>3, Through
  <2>5. z \in Closure(E, {w})
    BY <1>1, <2>1, <2>3, <2>4, Through
  <2>6. v \in T[w] \ W[w]
    BY <1>2, <2>1, <2>3, <2>4, <2>5 DEF LoopTaken, OnLoop
  <2>7. f[v] # NoApp
    BY <2>4, <2>6
  <2>8. PICK y \in Apps : y = f[v]
    BY <2>1, <2>7
  <2>9. PICK S \in SUBSET B : \E R : Above(G, T, W, S, R, v, y)
    BY <2>1, <2>7, <2>8
  <2>10. PICK R : Above(G, T, W, S, R, v, y)
    BY <2>9
  <2>11. m \notin S /\ v \in E[y] /\ v \in OnLoop(E, z)
    BY <1>2, <2>1, <2>7, <2>8
  <2>12. y \in OnLoop(E, z)
    BY <2>10, <2>11, ParOnLoop
  <2> QED
    BY <1>2, <2>7, <2>8, <2>12
<1>4. m \in K /\ m \in Apps
  BY <1>2
<1>5. Chain(f, m) \subseteq K
  BY <1>3, <1>4, ChainFacts
<1> QED
  BY <1>3, <1>5 DEF Endless

\* More edges put more below.
LEMMA BelowMore ==
  ASSUME NEW E \in Graph, NEW F \in Graph, \A a \in Apps : E[a] \subseteq F[a], NEW a \in Apps
  PROVE  Below(E, a) \subseteq Below(F, a) /\ Closure(E, {a}) \subseteq Closure(F, {a})
<1>1. E[a] \in SUBSET Apps /\ F[a] \in SUBSET Apps /\ E[a] \subseteq F[a]
  BY Leads
<1>2. PICK B \in SUBSET Apps : B = Below(F, a) /\ F[a] \subseteq B /\ \A b \in B : F[b] \subseteq B
  BY <1>1, ClosureFacts DEF Closed, Below
<1>3. E[a] \subseteq B /\ Closed(E, B)
  BY <1>1, <1>2 DEF Closed
<1>4. Closure(E, E[a]) \subseteq B
  BY <1>1, <1>3, ClosureFacts
<1> QED
  BY <1>2, <1>4, MoreEdges DEF Below

\* Whoever is the last of a loop to come to cyclicCheck finds that his chain has
\* no end.
LEMMA Seen ==
  ASSUME Typed, Edges, Links, ~SuperLoops, At("self"), top.i \notin DOMAIN Selves,
         NEW z \in There, z \in Below(Plus, z), ~WithLoop(z), me \in OnLoop(Plus, z),
         \A f \in ToSet(Tail(stack)) : f.at = "self" => f.app \notin OnLoop(Plus, z)
  PROVE  Endless(par, me)
<1>1. PICK E, G, A, W, P, T, C : E = Plus /\ G = Star /\ A = All /\ W = Withs /\ P = Supers /\ T = Taken /\ C = Coming
  OBVIOUS
<1>2. PICK m \in Apps : m = me /\ m \in OnStack /\ m \in OnLoop(E, z)
  BY <1>1, Running, OnStackFacts
<1>3. yaml \in Yamls /\ z \in Apps /\ There \in SUBSET Apps /\ Withs \in Graph /\ Supers \in Graph
  BY YamlGraphs DEF Typed
<1>4. /\ E \in Graph /\ G \in Graph /\ A \in Graph
      /\ \A a \in Apps : /\ E[a] = Needed[a] \cup C[a] /\ Needed[a] = T[a] \cap Needs[a]
                         /\ G[a] = T[a] \cup C[a] \cup P[a] /\ T[a] = ToSet(deps[a])
                         /\ E[a] \subseteq A[a] /\ G[a] \subseteq A[a] /\ T[a] \subseteq Needs[a] \cup W[a]
                         /\ W[a] \subseteq Apps /\ P[a] \subseteq Apps
  BY <1>1, <1>3, PlusFacts DEF Graph
<1>5. Closure(E, {z}) \subseteq Closure(A, {z}) /\ z \in Below(A, z) /\ \A a \in Apps : Closure(E, {a}) \subseteq Closure(A, {a})
  BY <1>1, <1>3, <1>4, BelowMore
<1>6. Closure(A, {z}) \subseteq There
  <2>1. \A a \in There : A[a] \subseteq There
    BY <1>1, <1>3, YamlGraphs
  <2> QED
    BY <1>3, <1>4, <2>1, Within
<1>7. ASSUME NEW q \in Closure(A, {z}), NEW r \in W[q] \cup P[q], z \in Closure(A, {r})
      PROVE  FALSE
  <2>1. q \in Apps /\ q \in There /\ q \in Below(A, z) /\ r \in Apps
    BY <1>3, <1>4, <1>5, <1>6, <1>7, Through
  <2>2. CASE r \in W[q]
    BY <1>1, <1>7, <2>1, <2>2 DEF WithLoop
  <2>3. CASE r \in P[q]
    <3>1. HasSuper(q) /\ r = SuperOf(q)
      BY <1>1, <1>3, <2>1, <2>3, YamlGraphs
    <3>2. q \in Closure(A, {r})
      BY <1>3, <1>4, <1>7, <2>1, Through
    <3> QED
      BY <1>1, <2>1, <3>1, <3>2 DEF SuperLoops
  <2> QED
    BY <2>2, <2>3
<1>8. Loop(E, G, A, W, P, z)
  <2>1. \A a \in Apps : G[a] \subseteq E[a] \cup W[a] \cup P[a]
    BY <1>4
  <2> QED
    BY <1>1, <1>3, <1>4, <1>7, <2>1 DEF Loop
<1>9. ASSUME NEW w \in OnLoop(E, z)
      PROVE  C[w] = {}
  <2> SUFFICES ASSUME NEW b \in C[w]
               PROVE  FALSE
    OBVIOUS
  <2>1. w \in Apps
    BY DEF OnLoop
  <2>2. PICK f \in ToSet(stack) : f.app = w /\ Awaits(f, b)
    BY <1>1, <2>1 DEF Coming
  <2>3. ToSet(stack) = {top} \cup ToSet(Tail(stack)) /\ f.at = "self"
    BY <2>2, Running DEF Awaits
  <2>4. f # top
    BY <2>2, NoMoreSelves
  <2> QED
    BY <1>1, <2>2, <2>3, <2>4
<1>10. LoopTaken(E, T, W, z)
  <2> SUFFICES ASSUME NEW w \in OnLoop(E, z), NEW v \in OnLoop(E, z), v \in E[w]
               PROVE  v \in T[w] \ W[w]
    BY DEF LoopTaken
  <2>1. /\ w \in Apps /\ v \in Apps /\ w \in Closure(E, {z}) /\ z \in Closure(E, {v})
    BY DEF OnLoop
  <2>2. v \in T[w]
    BY <1>4, <1>9, <2>1
  <2>3. w \in Closure(A, {z}) /\ z \in Closure(A, {v})
    BY <1>5, <2>1
  <2> QED
    BY <1>7, <2>2, <2>3
<1>11. PICK f \in [Apps -> Apps \cup {NoApp}] : f = par
  BY DEF Typed
<1>12. \A v \in Apps : f[v] # NoApp => v \in E[f[v]]
  <2> SUFFICES ASSUME NEW v \in Apps, f[v] # NoApp
               PROVE  v \in E[f[v]]
    OBVIOUS
  <2>1. PICK y \in Apps : y = f[v]
    OBVIOUS
  <2>2. v \in ToSet(deps[y]) /\ v \in Needs[y]
    BY <1>11, <2>1 DEF Edges
  <2> QED
    BY <1>4, <2>1, <2>2
<1>13. \A w \in Apps : \A v \in T[w] \ W[w] : f[v] # NoApp
  BY <1>1, <1>11 DEF Links
<1>14. PICK B : B = Fin /\ m \notin B
  <2>1. m \notin Fin
    BY <1>2 DEF Fin
  <2> QED
    BY <2>1
<1>15. \A v \in Apps : f[v] # NoApp => \E S \in SUBSET B : \E R : Above(G, T, W, S, R, v, f[v])
  <2> SUFFICES ASSUME NEW v \in Apps, f[v] # NoApp
               PROVE  \E S \in SUBSET B : \E R : Above(G, T, W, S, R, v, f[v])
    OBVIOUS
  <2>1. PICK y : y = f[v]
    OBVIOUS
  <2>2. PICK S \in SUBSET B : Behind(S, v, y)
    BY <1>11, <1>14, <2>1 DEF Links
  <2>3. PICK R : R = Reaches(y)
    OBVIOUS
  <2>4. Above(G, T, W, S, R, v, y)
    BY <1>1, <2>2, <2>3 DEF Behind, Above, Reaches
  <2> QED
    BY <2>1, <2>2, <2>4
<1>16. LoopPars(E, G, A, W, P, z, T, m, f, B)
  BY <1>2, <1>8, <1>10, <1>12, <1>13, <1>14, <1>15 DEF LoopPars
<1>17. Endless(f, m)
  BY <1>16, ParsLoop
<1> QED
  BY <1>2, <1>11, <1>17

\* A call that looks at its self: entries goes on with that, until it has been
\* checked.
LEMMA SelvesStay ==
  ASSUME Typed, [Next]_vars, NEW g \in ToSet(stack), g.at = "self"
  PROVE  \/ \E h \in ToSet(stack') : h.at = "self" /\ h.app = g.app
         \/ \E f : Checked(f)
<1>1. CASE \/ Idle \/ Finished \/ RootKnown \/ OwnSuper \/ SuperLoop \/ NotValid \/ Stopped
  <2>1. stack' = stack
    BY <1>1 DEF Idle, Finished, RootKnown, OwnSuper, SuperLoop, NotValid, Stopped
  <2> QED
    BY <2>1
<1>2. CASE RootNew
  <2>1. stack = <<>>
    BY <1>2 DEF RootNew
  <2>2. ToSet(stack) = {}
    BY <2>1 DEF ToSet
  <2> QED
    BY <2>2
<1>3. CASE Ends
  <2>1. At("each") /\ ToSet(stack') = ToSet(Tail(stack))
    BY <1>3 DEF Ends, Left
  <2>2. top.at = "each" /\ ToSet(stack) = {top} \cup ToSet(Tail(stack))
    BY <2>1, Running
  <2>3. g \in ToSet(stack')
    BY <2>1, <2>2
  <2> QED
    BY <2>3
<1>4. CASE \E f : \/ SkipSuper(f) \/ SuperThere(f) \/ CallSuper(f) \/ InheritFrom(f) \/ Validated(f)
                  \/ EachSkips(f) \/ NodeDone(f)
                  \/ (\E b \in Apps : EachCalls(f, b))
                  \/ (\E v, new : Takes(f, v, new))
  <2>1. PICK f : \/ SkipSuper(f) \/ SuperThere(f) \/ CallSuper(f) \/ InheritFrom(f) \/ Validated(f)
                 \/ EachSkips(f) \/ NodeDone(f)
                 \/ (\E b \in Apps : EachCalls(f, b))
                 \/ (\E v, new : Takes(f, v, new))
    BY <1>4
  <2>2. (\E where \in {"super", "inherit", "validate", "take", "each"} : At(where)) /\ (Moved(f) \/ \E b : Called(b, f))
    <3>1. CASE \/ SkipSuper(f) \/ SuperThere(f) \/ CallSuper(f) \/ InheritFrom(f) \/ Validated(f)
               \/ EachSkips(f) \/ NodeDone(f)
      <4>1. At("super") \/ At("inherit") \/ At("validate") \/ At("each")
        BY <3>1 DEF SkipSuper, SuperThere, CallSuper, InheritFrom, Validated, EachSkips, NodeDone
      <4>2. Moved(f) \/ \E b : Called(b, f)
        BY <3>1 DEF SkipSuper, SuperThere, CallSuper, InheritFrom, Validated, EachSkips, NodeDone
      <4> QED
        BY <4>1, <4>2
    <3>2. CASE \E b \in Apps : EachCalls(f, b)
      BY <3>2 DEF EachCalls
    <3>3. CASE \E v, new : Takes(f, v, new)
      BY <3>3 DEF Takes
    <3> QED
      BY <2>1, <3>1, <3>2, <3>3
  <2>3. ToSet(stack) = {top} \cup ToSet(Tail(stack)) /\ top.at # "self"
    BY <2>2, Running
  <2>4. ToSet(Tail(stack)) \subseteq ToSet(stack')
    BY <2>2 DEF Moved, Called
  <2>5. g \in ToSet(stack')
    BY <2>3, <2>4
  <2> QED
    BY <2>5
<1>5. CASE \E f, b : SelfTakes(f, b)
  <2>1. PICK f, b : SelfTakes(f, b)
    BY <1>5
  <2>2. /\ f.at = "self" /\ f.app = top.app /\ ToSet(stack') = {f} \cup ToSet(Tail(stack))
        /\ ToSet(stack) = {top} \cup ToSet(Tail(stack))
    BY <2>1, Running DEF SelfTakes, Moved, Like
  <2> QED
    BY <2>2
<1>6. CASE \E b : SelfCalls(b)
  <2>1. PICK b : SelfCalls(b)
    BY <1>6
  <2>2. top \in ToSet(stack') /\ ToSet(Tail(stack)) \subseteq ToSet(stack') /\ ToSet(stack) = {top} \cup ToSet(Tail(stack))
    BY <2>1, Running DEF SelfCalls, Called
  <2> QED
    BY <2>2
<1> QED
  BY <1>1, <1>2, <1>3, <1>4, <1>5, <1>6, StepDoes

\* A loop of dependencies has someone who is still to come to cyclicCheck, unless
\* a with: or a super is part of it.
Noticed ==
  ~SuperLoops => \A z \in There : z \in Below(Plus, z) /\ ~WithLoop(z) =>
                   \E f \in ToSet(stack) : f.at = "self" /\ f.app \in OnLoop(Plus, z)

\* No step leaves a loop that nobody is still to check.
LEMMA NoticedNext ==
  ASSUME Typed, Edges, Links, Noticed, Typed', Edges', [Next]_vars
  PROVE  Noticed'
<1>1. /\ SuperLoops' = SuperLoops /\ There' = There /\ \A z : WithLoop(z)' = WithLoop(z)
      /\ There \in SUBSET Apps
  BY Grows, Static, YamlGraphs DEF Typed
<1> SUFFICES ASSUME ~SuperLoops, NEW z \in There, z \in Below(Plus', z), ~WithLoop(z)
             PROVE  \E f \in ToSet(stack') : f.at = "self" /\ f.app \in OnLoop(Plus', z)
  BY <1>1 DEF Noticed, OnLoop
<1>2. PICK E, F : E = Plus /\ F = Plus'
  OBVIOUS
<1>3. E \in Graph /\ F \in Graph /\ \A a \in Apps : E[a] \subseteq F[a]
  BY <1>2, PlusFacts, GraphsNext, PlusDoes
<1>4. z \in Apps /\ z \in Below(F, z)
  BY <1>1, <1>2
<1>5. CASE F = E
  <2>1. PICK g \in ToSet(stack) : g.at = "self" /\ g.app \in OnLoop(E, z)
    BY <1>2, <1>4, <1>5 DEF Noticed
  <2>2. CASE \E h \in ToSet(stack') : h.at = "self" /\ h.app = g.app
    BY <1>2, <1>5, <2>1, <2>2
  <2>3. CASE \E f : Checked(f)
    <3>1. PICK f : Checked(f)
      BY <2>3
    <3>2. /\ At("self") /\ top.i \notin DOMAIN Selves /\ ~Endless(par, me) /\ me = top.app
          /\ ToSet(stack) = {top} \cup ToSet(Tail(stack)) /\ ToSet(Tail(stack)) \subseteq ToSet(stack')
      BY <3>1, Running DEF Checked, Moved
    <3>3. CASE \E h \in ToSet(Tail(stack)) : h.at = "self" /\ h.app \in OnLoop(E, z)
      BY <1>2, <1>5, <3>2, <3>3
    <3>4. CASE \A h \in ToSet(Tail(stack)) : h.at = "self" => h.app \notin OnLoop(E, z)
      <4>1. me \in OnLoop(E, z)
        BY <2>1, <3>2, <3>4
      <4>2. Endless(par, me)
        BY <1>2, <1>4, <1>5, <3>2, <3>4, <4>1, Seen
      <4> QED
        BY <3>2, <4>2
    <3> QED
      BY <3>3, <3>4
  <2> QED
    BY <2>1, <2>2, <2>3, SelvesStay
<1>6. CASE (\E f, v, new : Takes(f, v, new)) /\ \A a \in Apps : a # me => F[a] = E[a]
  <2>1. PICK f, v, new : Takes(f, v, new)
    BY <1>6
  <2>2. PICK m \in Apps : m = me
    BY <2>1, Running DEF Takes
  <2>3. /\ f \in ToSet(stack') /\ f.at = "self" /\ f.app = m /\ top.at = "take"
        /\ ToSet(stack) = {top} \cup ToSet(Tail(stack)) /\ ToSet(Tail(stack)) \subseteq ToSet(stack')
    BY <2>1, <2>2, Running DEF Takes, Moved, Like, me
  <2>4. CASE m \in OnLoop(F, z)
    BY <1>2, <2>3, <2>4
  <2>5. CASE m \notin OnLoop(F, z)
    <3>1. z \in Below(E, z)
      BY <1>3, <1>4, <1>6, <2>2, <2>5, LoopWithout DEF OnLoop
    <3>2. PICK g \in ToSet(stack) : g.at = "self" /\ g.app \in OnLoop(E, z)
      BY <1>2, <3>1 DEF Noticed
    <3>3. OnLoop(E, z) \subseteq OnLoop(F, z)
      <4>1. \A a \in Apps : Closure(E, {a}) \subseteq Closure(F, {a})
        BY <1>3, BelowMore
      <4> QED
        BY <1>4, <4>1 DEF OnLoop
    <3>4. g \in ToSet(stack')
      BY <2>3, <3>2
    <3> QED
      BY <1>2, <3>2, <3>3, <3>4
  <2> QED
    BY <2>4, <2>5
<1> QED
  BY <1>2, <1>5, <1>6, PlusDoes

\* There is no loop at the start.
LEMMA NoticedInit ==
  ASSUME Init
  PROVE  Noticed
<1>1. Typed /\ Edges /\ stack = <<>> /\ ToSet(stack) = {} /\ deps = [a \in Apps |-> <<>>]
  BY TypedInit, EmptyAtInit DEF Init
<1>2. \A a \in Apps : Plus[a] = {}
  <2> SUFFICES ASSUME NEW a \in Apps
               PROVE  Plus[a] = {}
    OBVIOUS
  <2>1. ToSet(deps[a]) = {} /\ Coming[a] = {}
    BY <1>1 DEF ToSet, Coming
  <2>2. Plus[a] = Needed[a] \cup Coming[a] /\ Needed[a] = ToSet(deps[a]) \cap Needs[a]
    BY <1>1, PlusFacts
  <2> QED
    BY <2>1, <2>2
<1>3. ASSUME NEW z \in Apps
      PROVE  z \notin Below(Plus, z)
  <2>1. PICK E : E = Plus /\ E \in Graph
    BY <1>1, PlusFacts
  <2>2. E[z] = {} /\ {} \in SUBSET Apps /\ Closed(E, {})
    BY <1>2, <2>1 DEF Closed
  <2>3. Closure(E, {}) \subseteq {}
    BY <2>1, <2>2, ClosureFacts
  <2> QED
    BY <2>1, <2>2, <2>3 DEF Below
<1>4. There \in SUBSET Apps
  BY <1>1, YamlGraphs DEF Typed
<1> QED
  BY <1>3, <1>4 DEF Noticed

\* At the end nobody is left to check, so there is no loop.
LEMMA CyclesAtEnd ==
  ASSUME Typed, Edges, AtEnd, Noticed
  PROVE  CyclesStop
<1> SUFFICES ASSUME status = "done", ~SuperLoops, NEW z \in There, z \in Below(Needed, z)
             PROVE  WithLoop(z)
  BY DEF CyclesStop
<1>1. stack = <<>> /\ ToSet(stack) = {}
  BY DEF AtEnd, ToSet
<1>2. z \in Apps
  BY YamlGraphs DEF Typed
<1>3. PICK E, F : E = Needed /\ F = Plus
  OBVIOUS
<1>4. F \in Graph /\ \A a \in Apps : F[a] = E[a] \cup Coming[a]
  BY <1>3, PlusFacts
<1>5. E \in Graph /\ \A a \in Apps : E[a] \subseteq F[a]
  <2>1. \A a \in Apps : E[a] \subseteq F[a]
    BY <1>4
  <2> QED
    BY <1>3, <1>4, <2>1 DEF Needed, Graph
<1>6. z \in Below(F, z)
  BY <1>2, <1>3, <1>4, <1>5, BelowMore
<1> QED
  BY <1>1, <1>3, <1>6 DEF Noticed

-----------------------------------------------------------------------------
(* The theorems.                                                           *)

\* The inductive invariant.
IInv ==
  /\ Typed /\ Edges
  /\ Alarm /\ AtEnd
  /\ Inherits
  /\ Placed /\ Remembered /\ Once /\ Mains
  /\ Passed /\ Incs
  /\ Kept /\ Links /\ Noticed

\* It holds at the start,
LEMMA IInvInit ==
  ASSUME Init
  PROVE  IInv
BY TypedInit, EmptyAtInit, IncsInit, LinksInit, NoticedInit DEF IInv

\* and every step keeps it.
LEMMA IInvNext ==
  ASSUME IInv, [Next]_vars
  PROVE  IInv'
<1>1. /\ Typed /\ Edges /\ Alarm /\ AtEnd /\ Inherits /\ Placed /\ Remembered /\ Once /\ Mains
      /\ Passed /\ Incs /\ Kept /\ Links /\ Noticed
  BY DEF IInv
<1>2. Typed' /\ Edges'
  BY <1>1, TypedNext, EdgesNext
<1>3. Alarm' /\ AtEnd' /\ Inherits'
  BY <1>1, AlarmNext, AtEndNext, InheritsNext
<1>4. Placed' /\ Remembered' /\ Once' /\ Mains'
  BY <1>1, PlacedNext, RememberedNext, OnceNext, MainsNext
<1>5. Passed' /\ Incs'
  BY <1>1, <1>2, PassedNext, IncsNext
<1>6. Kept' /\ Links' /\ Noticed'
  BY <1>1, <1>2, KeptNext, LinksNext, NoticedNext
<1> QED
  BY <1>2, <1>3, <1>4, <1>5, <1>6 DEF IInv

\* So it always holds.
LEMMA Invariance == Spec => []IInv
<1>1. Init => IInv
  BY IInvInit
<1>2. IInv /\ [Next]_vars => IInv'
  BY IInvNext
<1> QED
  BY <1>1, <1>2, PTL DEF Spec

\* The type invariant: what is created, set up or listed as a dependency is an
\* application of the projects, and only what was created is set up or listed,
\* through all of the recursion of Application::setup.
THEOREM TypeCorrect == Spec => []TypeOK
<1>1. IInv => TypeOK
  BY TypedTypeOK DEF IInv
<1> QED
  BY <1>1, Invariance, PTL

\* Where nothing loops no check against loops (PARENT_CYCLE, the chain of supers
\* in setSuper, cyclicCheck) ends the run, nor does cyclicCheck run without end:
\* for any yaml files, in any order and with any sharing.
THEOREM NoFalseCycle == Spec => []NoFalseAlarm
<1>1. IInv => NoFalseAlarm
  BY DEF IInv, Alarm, NoFalseAlarm
<1> QED
  BY <1>1, Invariance, PTL

\* When set-up comes to its end, everything that was set up has the properties
\* of every project up its chain of supers, but for what setSuper took from a
\* super that had been created and not set up.
THEOREM SupersInherited == Spec => []InheritsAll
<1>1. IInv => InheritsAll
  BY InheritsAtEnd DEF IInv
<1> QED
  BY <1>1, Invariance, PTL

\* Nothing is set up twice, however many list it, unless a super leads back to
\* what it is the super of; and a root that nobody needs keeps its main file.
THEOREM OneSetUp == Spec => []SetUpOnce
<1>1. IInv => SetUpOnce
  BY SetUpOnceAtEnd DEF IInv
<1> QED
  BY <1>1, Invariance, PTL

\* Where nothing loops, each application ends up with the public include
\* directories of itself and of everything below it
\* (populateMapsFromDependencies), and with no others.
THEOREM IncludesWhole == Spec => []IncludesComplete
<1>1. IInv => IncludesComplete
  BY IncludesAtEnd DEF IInv
<1> QED
  BY <1>1, Invariance, PTL

\* A loop of dep: and self: dependencies is never set up to the end: whichever of
\* its applications calls cyclicCheck last has a chain of par links that does not
\* leave the loop, whatever links the recursion wrote over in between; but for
\* loops that a with: or a super is part of.
THEOREM LoopsStop == Spec => []CyclesStop
<1>1. IInv => CyclesStop
  BY CyclesAtEnd DEF IInv
<1> QED
  BY <1>1, Invariance, PTL
=============================================================================
