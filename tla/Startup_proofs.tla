--------------------------- MODULE Startup_proofs ---------------------------
(***************************************************************************)
(* Proofs about Startup: the types of its variables (TypeCorrect), why it  *)
(* runs out of stack or reports a cycle of supers (CausesFound), and what  *)
(* a property means in the end (ScopeKept).                                *)
(*                                                                         *)
(* Control says where the calls of CREATE are, which constructors of       *)
(* Settings wait for which super, and what AppVars answers; Layered, that  *)
(* the settings loaded so far are a chain of files, each resolved on top   *)
(* of the next.  At the end the application stands on the instance and its *)
(* supers (Tower), and from the lowest file up, each property is resolved  *)
(* to what Meaning says of it.                                             *)
(***************************************************************************)
EXTENDS Startup, Induction, SequenceTheorems

Holders  == Files \cup {App}
Literals == {Lit(f) : f \in Files \cup {App, "HOME", "MKN_REPO", "-P", "yaml"}}
Tables   == UNION {[K -> Literals] : K \in SUBSET Keys}
Sources  == Some
Frames   == [file : Files, at : {"local", "super", "merge", "mask"}]
Causes   == {"run", "done", "refused", "answered", "settings", "cycle", "undefined", "overflow",
             "exists", "nothing", "several", "nodes"}

USE DEF call

\* A yaml file, or a directory.
Places == Yamls \cup [dir : Dirs, name : {None}]

\* TypeOK and the types it leaves open: the properties that are kept are literals,
\* and from the default line on there is a yaml file.
Typed ==
  /\ input \in Worlds
  /\ status \in Causes
  /\ followed \in SUBSET Yamls /\ at \in 1..Len(Phases) /\ args \in SUBSET STRING
  /\ to \in Targets /\ yml \in Places /\ (status = "run" /\ at > 5 => yml \in Yamls)
  /\ pks \in Sources
  /\ files \in SUBSET Files /\ instance \in Files \cup {None}
  /\ loading \in Seq(Frames)
  /\ ps \in [Holders -> Tables]
  /\ env \in Seq(Literals)

-----------------------------------------------------------------------------
(* Literals, tables and the size of a settings.                            *)

LEMMA Sizes == Cardinality(Keys) \in Nat /\ Cardinality(Files) \in Nat
BY NamesAssumption, FS_CardinalityType

\* A literal is a value without a reference, and neither of the two that stand
\* for a failure.
LEMMA LiteralFacts ==
  /\ Literals \subseteq Values
  /\ \A v \in Values : v.ref = None <=> v \in Literals
  /\ \A v \in Values : v.ref # None => v.ref \in Keys /\ v = Ref(v.ref)
  /\ \A v \in Literals : v.ref = None /\ v.text \notin {"undefined", "overflow"}
  /\ Lit("undefined").ref = None /\ Lit("overflow").ref = None
  /\ Lit("undefined").text = "undefined" /\ Lit("overflow").text = "overflow"
<1>1. \A f : Lit(f).text = f /\ Lit(f).ref = None
  BY DEF Lit
<1>2. \A k : Ref(k).ref = k
  BY DEF Ref
<1>3. Literals \subseteq Values
  BY DEF Literals, Values
<1>4. ASSUME NEW v \in Values
      PROVE  v \in Literals \/ \E k \in Keys : v = Ref(k)
  BY <1>4 DEF Literals, Values
<1>5. ASSUME NEW v \in Literals
      PROVE  v.ref = None /\ v.text \notin {"undefined", "overflow"}
  <2>1. PICK f \in Files \cup {App, "HOME", "MKN_REPO", "-P", "yaml"} : v = Lit(f)
    BY DEF Literals
  <2>2. f \notin {"undefined", "overflow"}
    BY NamesAssumption DEF App
  <2> QED
    BY <1>1, <2>1, <2>2
<1>6. \A k \in Keys : Ref(k).ref # None
  BY <1>2, NamesAssumption
<1> QED
  BY <1>1, <1>2, <1>3, <1>4, <1>5, <1>6

LEMMA OverFacts ==
  ASSUME NEW f \in Tables, NEW g \in Tables
  PROVE  /\ Over(f, g) \in Tables
         /\ DOMAIN f \subseteq Keys
         /\ DOMAIN Over(f, g) = DOMAIN f \cup DOMAIN g
         /\ \A k \in DOMAIN f : f[k] \in Literals /\ Over(f, g)[k] = f[k]
         /\ \A k \in DOMAIN g : k \notin DOMAIN f => Over(f, g)[k] = g[k]
<1>1. PICK K \in SUBSET Keys : f \in [K -> Literals]
  BY DEF Tables
<1>2. PICK L \in SUBSET Keys : g \in [L -> Literals]
  BY DEF Tables
<1>3. Over(f, g) \in [K \cup L -> Literals]
  BY <1>1, <1>2 DEF Over
<1>4. K \cup L \in SUBSET Keys
  OBVIOUS
<1>5. Over(f, g) \in Tables
  BY <1>3, <1>4 DEF Tables
<1> QED
  BY <1>1, <1>2, <1>5 DEF Over

LEMMA EmptyTable == <<>> \in Tables /\ DOMAIN <<>> = {}
<1>1. <<>> \in [{} -> Literals]
  OBVIOUS
<1> QED
  BY <1>1 DEF Tables

-----------------------------------------------------------------------------
(* Resolution, with what AppVars says as a parameter: P.                   *)

Last == Cardinality(Keys) + 1

Replace(P, table, v) ==
  IF v.ref = None THEN v
  ELSE IF v.ref \in DOMAIN P THEN P[v.ref]
  ELSE IF v.ref \in DOMAIN table THEN table[v.ref] ELSE Lit("undefined")

Walk(P, table, v) ==
  CHOOSE R : R = [n \in 0..Last |-> IF n = 0 THEN v ELSE Replace(P, table, R[n - 1])]

ResolveIn(P, table, v) ==
  IF Walk(P, table, v)[Last].ref = None THEN Walk(P, table, v)[Last] ELSE Lit("overflow")

LEMMA ResolveIs ==
  ASSUME NEW table, NEW v
  PROVE  Resolve(table, v) = ResolveIn(pks, table, v)
BY Zenon DEF Resolve, Lookup, ResolveIn, Walk, Replace, Last

LEMMA WalkFacts ==
  ASSUME NEW P \in Sources, NEW table \in Sources, NEW v \in Values
  PROVE  LET R == Walk(P, table, v) IN
         /\ Last \in Nat /\ Last >= 1
         /\ R[0] = v
         /\ \A n \in 0..Last - 1 : R[n + 1] = Replace(P, table, R[n])
         /\ \A n \in 0..Last : R[n] \in Values \cup {Lit("undefined")}
<1> DEFINE Vals == Values \cup {Lit("undefined")}
           S == 0..Last
           Id == [n \in S |-> n]
           H == [n \in S |-> [g \in [S -> Vals] |-> IF n = 0 THEN v ELSE Replace(P, table, g[n - 1])]]
           R == Walk(P, table, v)
<1>1. Last \in Nat /\ Last >= 1
  BY Sizes DEF Last
<1>2. ASSUME NEW w \in Vals
      PROVE  Replace(P, table, w) \in Vals
  <2>1. PICK K \in SUBSET Keys : P \in [K -> Values]
    BY DEF Sources, Some
  <2>2. PICK L \in SUBSET Keys : table \in [L -> Values]
    BY DEF Sources, Some
  <2> QED
    BY <2>1, <2>2, LiteralFacts DEF Replace
<1>3. \E f \in [S -> Vals] : f = [n \in S |-> IF n = 0 THEN v ELSE Replace(P, table, f[n - 1])]
  <2>1. Id \in [S -> S]
    OBVIOUS
  <2>2. ASSUME NEW n \in S, NEW g \in [S -> Vals]
        PROVE  (IF n = 0 THEN v ELSE Replace(P, table, g[n - 1])) \in Vals
    <3>1. n # 0 => n - 1 \in S
      BY <1>1
    <3> HIDE DEF S, Vals
    <3>2. n # 0 => g[n - 1] \in Vals
      BY <3>1
    <3>3. v \in Vals
      BY DEF Vals
    <3> QED
      BY <1>2, <3>2, <3>3
  <2>3. H \in [S -> [[S -> Vals] -> Vals]]
    <3> HIDE DEF S, Vals
    <3> QED
      BY <2>2
  <2>4. ASSUME NEW n \in S, NEW g \in [S -> Vals], NEW h \in [S -> Vals],
               \A m \in S : Id[m] < Id[n] => g[m] = h[m]
        PROVE  H[n][g] = H[n][h]
    <3>1. n # 0 => n - 1 \in S /\ Id[n - 1] < Id[n]
      BY <1>1
    <3> HIDE DEF S, Vals, Id
    <3> QED
      BY <2>4, <3>1
  <2>5. Ranked(S, Vals, Last, Id, H)
    <3>1. Vals # {}
      OBVIOUS
    <3> HIDE DEF H, Id, Vals
    <3> QED
      BY <1>1, <2>1, <2>3, <2>4, <3>1 DEF Ranked
  <2>6. \E f \in [S -> Vals] : f = [n \in S |-> H[n][f]]
    <3> HIDE DEF S, Vals, H, Id
    <3> QED
      BY <2>5, RankedRecursion
  <2> HIDE DEF Vals
  <2> QED
    BY <2>6
<1>4. R = [n \in S |-> IF n = 0 THEN v ELSE Replace(P, table, R[n - 1])]
  <2> HIDE DEF Vals
  <2> QED
    BY <1>3, ZenonT(30) DEF Walk
<1> HIDE DEF R
<1>5. R[0] = v
  BY <1>1, <1>4
<1>6. \A n \in 0..Last - 1 : R[n + 1] = Replace(P, table, R[n])
  <2> SUFFICES ASSUME NEW n \in 0..Last - 1
               PROVE  R[n + 1] = Replace(P, table, R[n])
    OBVIOUS
  <2>1. n + 1 \in S /\ n + 1 # 0 /\ (n + 1) - 1 = n
    BY <1>1
  <2> QED
    BY <1>4, <2>1
<1> DEFINE T == {n \in Nat : n <= Last => R[n] \in Vals}
<1>7. Nat \subseteq T
  <2> HIDE DEF Vals
  <2>1. 0 \in T
    BY <1>5 DEF Vals
  <2>2. ASSUME NEW n \in Nat, n \in T
        PROVE  n + 1 \in T
    <3> SUFFICES ASSUME n + 1 <= Last
                 PROVE  R[n + 1] \in Vals
      OBVIOUS
    <3>1. n \in 0..Last - 1 /\ n <= Last
      BY <1>1
    <3> QED
      BY <1>2, <1>6, <2>2, <3>1
  <2> HIDE DEF T
  <2> QED
    BY <2>1, <2>2, SetInduction
<1>8. \A n \in 0..Last : R[n] \in Vals
  BY <1>1, <1>7
<1> QED
  BY <1>1, <1>5, <1>6, <1>8 DEF R

\* What one table over another gives.
LEMMA OverValues ==
  ASSUME NEW own \in Sources, NEW S \in Sources
  PROVE  /\ Over(own, S) \in Sources
         /\ DOMAIN own \subseteq Keys
         /\ DOMAIN Over(own, S) = DOMAIN own \cup DOMAIN S
         /\ \A k \in DOMAIN own : own[k] \in Values /\ Over(own, S)[k] = own[k]
         /\ \A k \in DOMAIN S : S[k] \in Values /\ (k \notin DOMAIN own => Over(own, S)[k] = S[k])
<1>1. PICK K \in SUBSET Keys : own \in [K -> Values]
  BY DEF Sources, Some
<1>2. PICK L \in SUBSET Keys : S \in [L -> Values]
  BY DEF Sources, Some
<1>3. Over(own, S) \in [K \cup L -> Values]
  BY <1>1, <1>2 DEF Over
<1>4. K \cup L \in SUBSET Keys
  OBVIOUS
<1>5. Over(own, S) \in Sources
  BY <1>3, <1>4 DEF Sources, Some
<1> QED
  BY <1>1, <1>2, <1>5 DEF Over

LEMMA TablesAreSources == Tables \subseteq Sources
<1> SUFFICES ASSUME NEW T \in Tables
             PROVE  T \in Sources
  OBVIOUS
<1>1. PICK K \in SUBSET Keys : T \in [K -> Literals]
  BY DEF Tables
<1>2. T \in [K -> Values]
  BY <1>1, LiteralFacts
<1> QED
  BY <1>2 DEF Sources, Some

LEMMA OverSources ==
  ASSUME NEW own \in Sources, NEW S \in Tables
  PROVE  /\ Over(own, S) \in Sources
         /\ DOMAIN own \subseteq Keys
         /\ DOMAIN Over(own, S) = DOMAIN own \cup DOMAIN S
         /\ \A k \in DOMAIN own : own[k] \in Values /\ Over(own, S)[k] = own[k]
         /\ \A k \in DOMAIN S : k \notin DOMAIN own => Over(own, S)[k] = S[k] /\ S[k] \in Literals
<1>1. S \in Sources
  BY TablesAreSources
<1>2. \A k \in DOMAIN S : S[k] \in Literals
  BY DEF Tables
<1>3. /\ Over(own, S) \in Sources
      /\ DOMAIN own \subseteq Keys
      /\ DOMAIN Over(own, S) = DOMAIN own \cup DOMAIN S
      /\ \A k \in DOMAIN own : own[k] \in Values /\ Over(own, S)[k] = own[k]
      /\ \A k \in DOMAIN S : S[k] \in Values /\ (k \notin DOMAIN own => Over(own, S)[k] = S[k])
  BY <1>1, OverValues, Zenon
<1> QED
  BY <1>2, <1>3, Zenon

\* A reference in it is one of own.
LEMMA OverRefs ==
  ASSUME NEW own \in Sources, NEW S \in Tables
  PROVE  /\ Over(own, S) \in Sources
         /\ DOMAIN Over(own, S) = DOMAIN own \cup DOMAIN S
         /\ \A k \in DOMAIN own : own[k] \in Values /\ Over(own, S)[k] = own[k]
         /\ \A k \in DOMAIN S : k \notin DOMAIN own => Over(own, S)[k].ref = None
<1>1. \A w \in Literals : w.ref = None
  BY LiteralFacts
<1> DEFINE T == Over(own, S)
<1>2. /\ T \in Sources /\ DOMAIN T = DOMAIN own \cup DOMAIN S
      /\ \A k \in DOMAIN own : own[k] \in Values /\ T[k] = own[k]
      /\ \A k \in DOMAIN S : k \notin DOMAIN own => T[k] = S[k] /\ S[k] \in Literals
  BY OverSources
<1> HIDE DEF T
<1>3. \A k \in DOMAIN S : k \notin DOMAIN own => T[k].ref = None
  BY <1>1, <1>2
<1> QED
  BY <1>2, <1>3 DEF T

LEMMA TableFacts ==
  ASSUME NEW T \in Tables
  PROVE  DOMAIN T \subseteq Keys /\ \A k \in DOMAIN T : T[k] \in Literals
BY DEF Tables

\* A literal is not replaced.
LEMMA Sticks ==
  ASSUME NEW P \in Sources, NEW table \in Sources, NEW v \in Values, NEW n \in 0..Last,
         Walk(P, table, v)[n].ref = None
  PROVE  \A m \in n..Last : Walk(P, table, v)[m] = Walk(P, table, v)[n]
<1> DEFINE R == Walk(P, table, v)
           T == {m \in Nat : n + m <= Last => R[n + m] = R[n]}
<1> HIDE DEF R
<1>1. /\ Last \in Nat /\ Last >= 1
      /\ \A m \in 0..Last - 1 : R[m + 1] = Replace(P, table, R[m])
  BY WalkFacts DEF R
<1>2. R[n].ref = None
  BY DEF R
<1>3. 0 \in T
  BY <1>1
<1>4. ASSUME NEW m \in Nat, m \in T
      PROVE  m + 1 \in T
  <2> SUFFICES ASSUME n + (m + 1) <= Last
               PROVE  R[n + (m + 1)] = R[n]
    OBVIOUS
  <2>1. n + m \in 0..Last - 1 /\ n + m <= Last /\ (n + m) + 1 = n + (m + 1)
    BY <1>1
  <2>2. R[n + m] = R[n]
    BY <1>4, <2>1
  <2> QED
    BY <1>1, <1>2, <2>1, <2>2 DEF Replace
<1>5. Nat \subseteq T
  <2> HIDE DEF T
  <2> QED
    BY <1>3, <1>4, SetInduction
<1>6. ASSUME NEW m \in n..Last
      PROVE  R[m] = R[n]
  <2>1. m - n \in Nat /\ n + (m - n) = m /\ m <= Last
    BY <1>1
  <2> QED
    BY <1>5, <2>1
<1> QED
  BY <1>6 DEF R

LEMMA ResolveFacts ==
  ASSUME NEW P \in Sources, NEW table \in Sources, NEW v \in Values
  PROVE  LET w == ResolveIn(P, table, v) IN
         /\ w.ref = None
         /\ w.text \notin {"undefined", "overflow"} => w \in Literals
         /\ w \in Literals => w = Walk(P, table, v)[Last]
         /\ w.text = "overflow" => Walk(P, table, v)[Last].ref # None
         /\ w.text \in {"undefined", "overflow"} \/ w \in Literals
<1> DEFINE R == Walk(P, table, v)
<1> HIDE DEF R
<1>1. R[Last] \in Values \cup {Lit("undefined")}
  BY WalkFacts DEF R
<1>2. ResolveIn(P, table, v) = IF R[Last].ref = None THEN R[Last] ELSE Lit("overflow")
  BY DEF ResolveIn, R
<1>3. /\ \A x \in Values : x.ref = None <=> x \in Literals
      /\ \A x \in Literals : x.text \notin {"undefined", "overflow"}
      /\ Lit("undefined").ref = None /\ Lit("overflow").ref = None
      /\ Lit("undefined").text = "undefined" /\ Lit("overflow").text = "overflow"
  BY LiteralFacts
<1>4. CASE R[Last].ref = None
  BY <1>1, <1>2, <1>3, <1>4 DEF R
<1>5. CASE R[Last].ref # None
  BY <1>1, <1>2, <1>3, <1>5 DEF R
<1> QED
  BY <1>4, <1>5

\* Only references that lead from one to the next, all of them in own, never end.
LEMMA OverflowLoops ==
  ASSUME NEW P \in Sources, NEW table \in Sources, NEW own \in Sources, NEW v \in Values,
         \A k \in Keys : Replace(P, table, Ref(k)).ref # None =>
                           k \in DOMAIN own /\ own[k] = Replace(P, table, Ref(k)),
         ResolveIn(P, table, v).text = "overflow"
  PROVE  Looping(own)
<1> DEFINE R == Walk(P, table, v)
           s == [i \in 1..Cardinality(Keys) + 1 |-> R[i - 1].ref]
<1> HIDE DEF R
<1>2. /\ Last \in Nat /\ Last >= 1
      /\ \A m \in 0..Last - 1 : R[m + 1] = Replace(P, table, R[m])
      /\ \A m \in 0..Last : R[m] \in Values \cup {Lit("undefined")}
  BY WalkFacts DEF R
<1>3. R[Last].ref # None
  BY ResolveFacts DEF R
<1>4. ASSUME NEW n \in 0..Last
      PROVE  R[n].ref # None /\ R[n].ref \in Keys /\ R[n] = Ref(R[n].ref)
  <2>1. R[n].ref # None
    <3> SUFFICES ASSUME R[n].ref = None
                 PROVE  FALSE
      OBVIOUS
    <3>1. \A m \in n..Last : R[m] = R[n]
      BY Sticks DEF R
    <3>2. Last \in n..Last
      BY <1>2
    <3> QED
      BY <1>3, <3>1, <3>2
  <2> QED
    BY <1>2, <2>1, LiteralFacts
<1>5. ASSUME NEW n \in 0..Last - 1
      PROVE  R[n].ref \in DOMAIN own /\ own[R[n].ref] = Ref(R[n + 1].ref)
  <2>1. n \in 0..Last /\ n + 1 \in 0..Last
    BY <1>2
  <2>2. R[n + 1].ref # None /\ R[n + 1] = Ref(R[n + 1].ref) /\ R[n].ref \in Keys /\ R[n] = Ref(R[n].ref)
    BY <1>4, <2>1
  <2>3. R[n + 1] = Replace(P, table, Ref(R[n].ref))
    BY <1>2, <2>2
  <2> QED
    BY <2>2, <2>3
<1>6. ASSUME NEW i \in 1..Cardinality(Keys) + 1
      PROVE  i - 1 \in 0..Last - 1
  BY Sizes DEF Last
<1>7. s \in [1..Cardinality(Keys) + 1 -> DOMAIN own]
  BY <1>5, <1>6
<1>8. ASSUME NEW i \in 1..Cardinality(Keys)
      PROVE  own[s[i]] = Ref(s[i + 1])
  <2>1. i \in 1..Cardinality(Keys) + 1 /\ i + 1 \in 1..Cardinality(Keys) + 1 /\ (i + 1) - 1 = (i - 1) + 1
    BY Sizes
  <2>2. s[i] = R[i - 1].ref /\ s[i + 1] = R[(i - 1) + 1].ref
    BY <2>1
  <2> QED
    BY <1>5, <1>6, <2>1, <2>2
<1> HIDE DEF s
<1> QED
  BY <1>7, <1>8 DEF Looping

\* With literals only, everything ends.
LEMMA LiteralsEnd ==
  ASSUME NEW P \in Tables, NEW S \in Tables, NEW v \in Values
  PROVE  ResolveIn(P, S, v).text # "overflow"
<1> DEFINE R == Walk(P, S, v)
<1> HIDE DEF R
<1>1. P \in Sources /\ S \in Sources
  BY TablesAreSources
<1>2. /\ Last \in Nat /\ Last >= 1
      /\ R[0] = v
      /\ \A m \in 0..Last - 1 : R[m + 1] = Replace(P, S, R[m])
  BY <1>1, WalkFacts DEF R
<1>3. 0 \in 0..Last - 1 /\ 0 + 1 = 1 /\ 1 \in 0..Last /\ Last \in 1..Last
  BY <1>2
<1>4. R[1] = Replace(P, S, v)
  BY <1>2, <1>3
<1>5. R[1].ref = None
  BY <1>4, LiteralFacts, TableFacts DEF Replace
<1>6. R[Last].ref = None
  <2>1. R[Last] = R[1]
    BY <1>1, <1>3, <1>5, Sticks DEF R
  <2> QED
    BY <1>5, <2>1
<1> QED
  BY <1>1, <1>6, ResolveFacts DEF R
-----------------------------------------------------------------------------
(* The inductive invariant.                                                *)

\* Where CREATE is: what loads, and what is loaded.
Flow ==
  /\ loading # <<>> => at = 3
  /\ (at > 2 /\ loading = <<>>) \/ followed # {} => instance # None
  /\ followed # {} /\ loading # <<>> => "-x" \in args
  /\ followed = {} /\ at <= 2 => files = {}

\* The constructors that are running: each but the innermost waits for its super,
\* which is the next one inwards; but the outermost, all are noted in files, and
\* none is there twice, unless the innermost is the outermost again and about to
\* find its super noted.
Stacked == loading # <<>> =>
  LET n == Len(loading) IN
  /\ n <= Cardinality(files) + 1
  /\ \A i \in 2..n : loading[i].at = "merge" /\ input.super[loading[i].file] = loading[i - 1].file
  /\ \A i \in 1..n - 1 : loading[i].file \in files
  /\ \A i, j \in 1..n - 1 : loading[i].file = loading[j].file => i = j
  /\ \A i \in 2..n - 1 : loading[i].file # loading[n].file
  /\ n > 1 /\ here.file = loading[n].file => here.at \in {"local", "super"}
  /\ here.at \in {"merge", "mask"} => super \in files
  /\ here.at = "merge" => \A i \in 1..n : super # loading[i].file
  /\ followed = {} /\ here.at \in {"local", "super"} => files = {loading[i].file : i \in 1..n - 1}

\* What AppVars answers for.
Early    == [k \in {"HOME"} \cap Keys |-> Lit("HOME")]
WithRepo == Over([k \in {"MKN_REPO"} \cap Keys |-> Lit("MKN_REPO")], Early)
Answers ==
  pks = IF followed = {} /\ at <= 3 THEN Early
        ELSE IF at <= 9 \/ "-P" \notin args THEN WithRepo
        ELSE Over(input.override, WithRepo)

\* The properties own, resolved on top of S; and with B beneath, to resolve them only.
Res(P, own, S)      == Over([k \in DOMAIN own |-> ResolveIn(P, Over(own, S), own[k])], S)
ResOn(P, own, S, B) == Over([k \in DOMAIN own |-> ResolveIn(P, Over(Over(own, S), B), own[k])], S)

\* A chain of settings files that are complete: each is resolved on top of the next.
Paths    == Seq(Files)
First(c) == IF c = <<>> THEN None ELSE c[1]
Base(c)  == IF c = <<>> THEN <<>> ELSE ps[c[1]]
Links(c) == /\ \A i, j \in 1..Len(c) : c[i] = c[j] => i = j
            /\ \A i \in 1..Len(c) : input.super[c[i]] = IF i = Len(c) THEN None ELSE c[i + 1]
Complete(c, P) ==
  \A i \in 1..Len(c) : ps[c[i]] = Res(P, Own(c[i]), IF i = Len(c) THEN <<>> ELSE ps[c[i + 1]])
Apart(f, c) == \A i \in 1..Len(c) : c[i] # f

\* Whether the instance is loaded by a default command.
Late  == followed # {} /\ "-x" \in args
LoadP == IF Late THEN WithRepo ELSE Early

\* The chain while it is built, from its end; loading is at its front.
Building(c) ==
  /\ \A i \in 1..Len(loading) : Apart(loading[i].file, c)
  /\ \A i \in 2..Len(loading) : ps[loading[i].file] = <<>>
  /\ here.at \in {"local", "super"} => c = <<>> /\ ps[here.file] = <<>>
  /\ here.at = "merge" => /\ ps[here.file] = <<>> /\ Apart(super, c)
                          /\ ps[super] = Base(c) /\ input.super[super] = First(c)
  /\ here.at = "mask" => c # <<>> /\ c[1] = super /\ ps[here.file] = Base(c)

\* The instance on top of it, resolved or not yet.
Built(c) ==
  /\ Apart(instance, c) /\ input.super[instance] = First(c)
  /\ ps[instance] = IF at > 4 \/ (followed # {} /\ ~ Late) THEN Res(WithRepo, Own(instance), Base(c)) ELSE Base(c)

On(c) == /\ Links(c) /\ Complete(c, LoadP)
         /\ loading # <<>> => Building(c)
         /\ loading = <<>> /\ instance # None => Built(c)

Layered == at > 2 \/ ~ Late => \E c \in Paths : On(c)

AppOnTop == ps[App] = IF at <= 11 THEN <<>> ELSE ResOn(pks, Own(App), ps[instance], input.scalar)

-----------------------------------------------------------------------------
(* The stack of constructors.                                              *)

\* Replacing the running one.
LEMMA Replaced ==
  ASSUME NEW S, NEW s \in Seq(S), s # <<>>, NEW f \in S
  PROVE  LET t == <<f>> \o Tail(s) IN
         /\ t \in Seq(S) /\ t # <<>> /\ Len(t) = Len(s)
         /\ t[1] = f /\ Head(t) = f /\ \A j \in 2..Len(s) : t[j] = s[j]
<1> DEFINE t == <<f>> \o Tail(s)
<1>1. /\ Tail(s) \in Seq(S) /\ Len(Tail(s)) = Len(s) - 1 /\ Len(s) \in Nat /\ Len(s) >= 1
      /\ \A j \in 1..Len(Tail(s)) : Tail(s)[j] = s[j + 1]
  BY HeadTailProperties, EmptySeq
<1>2. <<f>> \in Seq(S) /\ Len(<<f>>) = 1 /\ <<f>>[1] = f
  OBVIOUS
<1>3. /\ t \in Seq(S) /\ Len(t) = Len(s)
      /\ \A j \in 1..Len(t) : t[j] = IF j <= 1 THEN <<f>>[j] ELSE Tail(s)[j - 1]
  BY <1>1, <1>2, ConcatProperties
<1>4. t[1] = f /\ t # <<>>
  BY <1>1, <1>2, <1>3
<1>5. ASSUME NEW j \in 2..Len(s)
      PROVE  t[j] = s[j]
  <2>1. j - 1 \in 1..Len(Tail(s)) /\ (j - 1) + 1 = j /\ ~(j <= 1) /\ j \in 1..Len(t)
    BY <1>1, <1>3
  <2> QED
    BY <1>1, <1>3, <2>1
<1>6. Head(t) = t[1]
  BY DEF Head
<1> QED
  BY <1>3, <1>4, <1>5, <1>6

\* Calling, from the running one.
LEMMA Called ==
  ASSUME NEW S, NEW s \in Seq(S), s # <<>>, NEW f \in S, NEW g \in S
  PROVE  LET t == <<f>> \o <<g>> \o Tail(s) IN
         /\ t \in Seq(S) /\ t # <<>> /\ Len(t) = Len(s) + 1
         /\ t[1] = f /\ Head(t) = f /\ t[2] = g /\ \A j \in 3..Len(s) + 1 : t[j] = s[j - 1]
<1> DEFINE t == <<f>> \o <<g>> \o Tail(s)
<1>1. /\ Tail(s) \in Seq(S) /\ Len(Tail(s)) = Len(s) - 1 /\ Len(s) \in Nat /\ Len(s) >= 1
      /\ \A j \in 1..Len(Tail(s)) : Tail(s)[j] = s[j + 1]
  BY HeadTailProperties, EmptySeq
<1>2. /\ <<f>> \o <<g>> \in Seq(S) /\ Len(<<f>> \o <<g>>) = 2
      /\ (<<f>> \o <<g>>)[1] = f /\ (<<f>> \o <<g>>)[2] = g
  OBVIOUS
<1>3. /\ t \in Seq(S) /\ Len(t) = Len(s) + 1
      /\ \A j \in 1..Len(t) : t[j] = IF j <= 2 THEN (<<f>> \o <<g>>)[j] ELSE Tail(s)[j - 2]
  <2> HIDE DEF t
  <2> QED
    BY <1>1, <1>2, ConcatProperties DEF t
<1>4. t[1] = f /\ t[2] = g /\ t # <<>>
  BY <1>1, <1>2, <1>3
<1>5. ASSUME NEW j \in 3..Len(s) + 1
      PROVE  t[j] = s[j - 1]
  <2>1. j - 2 \in 1..Len(Tail(s)) /\ (j - 2) + 1 = j - 1 /\ ~(j <= 2) /\ j \in 1..Len(t)
    BY <1>1, <1>3
  <2> QED
    BY <1>1, <1>3, <2>1
<1>6. Head(t) = t[1]
  BY DEF Head
<1> QED
  BY <1>3, <1>4, <1>5, <1>6

\* Returning.
LEMMA Returned ==
  ASSUME NEW S, NEW s \in Seq(S), s # <<>>
  PROVE  /\ Tail(s) \in Seq(S) /\ Len(s) \in Nat /\ Len(Tail(s)) = Len(s) - 1
         /\ \A j \in 1..Len(s) - 1 : Tail(s)[j] = s[j + 1]
BY HeadTailProperties, EmptySeq

\* The running one goes on.
LEMMA Moved ==
  ASSUME NEW h \in Frames, NEW p \in {"local", "super", "merge", "mask"}
  PROVE  /\ [h EXCEPT !.at = p] \in Frames
         /\ [h EXCEPT !.at = p].file = h.file /\ [h EXCEPT !.at = p].at = p
BY DEF Frames

-----------------------------------------------------------------------------
(* Types.                                                                  *)

LEMMA WorldFacts ==
  ASSUME Typed
  PROVE  /\ \A f \in Holders : Own(f) \in Sources
         /\ \A f \in Files : input.env[f] \in Seq(Values)
         /\ input.override \in Sources /\ input.scalar \in Sources
         /\ input.scm \subseteq Values /\ input.uses \subseteq Values
         /\ input.line \in [Yamls -> Seq(Commands)]
         /\ \A f \in Files : input.super[f] \in Files \cup {None, "absent"}
         /\ \A f \in Holders : ps[f] \in Tables
         /\ Files \subseteq Holders /\ App \in Holders
<1>1. /\ input.property \in [Holders -> Sources]
      /\ input.env \in [Files -> Seq(Values)]
      /\ input.override \in Sources /\ input.scalar \in Sources
      /\ input.scm \subseteq Values /\ input.uses \subseteq Values
      /\ input.line \in [Yamls -> Seq(Commands)]
      /\ input.super \in [Files -> Files \cup {None, "absent"}]
  BY DEF Typed, Worlds, Sources, Holders
<1>2. ps \in [Holders -> Tables] /\ Files \subseteq Holders /\ App \in Holders
  BY DEF Typed, Holders
<1> QED
  BY <1>1, <1>2 DEF Own

LEMMA ResTyped ==
  ASSUME NEW P \in Sources, NEW own \in Sources, NEW S \in Tables,
         \A k \in DOMAIN own : ResolveIn(P, Over(own, S), own[k]) \in Literals
  PROVE  Res(P, own, S) \in Tables
<1>1. [k \in DOMAIN own |-> ResolveIn(P, Over(own, S), own[k])] \in [DOMAIN own -> Literals]
  OBVIOUS
<1>2. DOMAIN own \in SUBSET Keys
  BY OverSources
<1>3. [k \in DOMAIN own |-> ResolveIn(P, Over(own, S), own[k])] \in Tables
  BY <1>1, <1>2 DEF Tables
<1> QED
  BY <1>3, OverFacts DEF Res

\* resolveProperties, when nothing fails.
LEMMA Resolved ==
  ASSUME Typed, NEW f \in Holders, Failing(f) = {}
  PROVE  /\ ResolveProperties(f) = Res(pks, Own(f), ps[f])
         /\ ResolveProperties(f) \in Tables
<1>1. Own(f) \in Sources /\ ps[f] \in Tables /\ pks \in Sources
  BY WorldFacts DEF Typed
<1>2. /\ Over(Own(f), ps[f]) \in Sources
      /\ \A k \in DOMAIN Own(f) : Own(f)[k] \in Values
  BY <1>1, OverSources
<1>3. \A v : Resolve(Given(f), v) = ResolveIn(pks, Over(Own(f), ps[f]), v)
  BY ResolveIs DEF Given
<1>4. ResolveProperties(f) = Res(pks, Own(f), ps[f])
  BY <1>3 DEF ResolveProperties, Res
<1>5. ASSUME NEW k \in DOMAIN Own(f)
      PROVE  ResolveIn(pks, Over(Own(f), ps[f]), Own(f)[k]) \in Literals
  <2>1. ResolveIn(pks, Over(Own(f), ps[f]), Own(f)[k]).text \notin {"undefined", "overflow"}
    BY <1>3 DEF Failing, Bad
  <2> QED
    BY <1>1, <1>2, <2>1, ResolveFacts
<1> QED
  BY <1>1, <1>4, <1>5, ResTyped

LEMMA EnvResolved ==
  ASSUME Typed, NEW f \in Files, EnvFailing(f) = {}
  PROVE  EnvOf(f) \in Seq(Literals)
<1>1. ps[f] \in Tables /\ ps[f] \in Sources /\ pks \in Sources /\ input.env[f] \in Seq(Values)
  BY WorldFacts, TablesAreSources DEF Typed
<1>2. DOMAIN input.env[f] = 1..Len(input.env[f]) /\ Len(input.env[f]) \in Nat
      /\ \A i \in DOMAIN input.env[f] : input.env[f][i] \in Values
  BY <1>1
<1>3. ASSUME NEW i \in DOMAIN input.env[f]
      PROVE  EnvOf(f)[i] \in Literals
  <2>1. EnvOf(f)[i] = ResolveIn(pks, ps[f], input.env[f][i])
    BY ResolveIs DEF EnvOf
  <2>2. EnvOf(f)[i].text \notin {"undefined", "overflow"}
    BY DEF EnvFailing, Bad
  <2> QED
    BY <1>1, <1>2, <2>1, <2>2, ResolveFacts
<1>4. EnvOf(f) \in [1..Len(input.env[f]) -> Literals]
  BY <1>2, <1>3 DEF EnvOf
<1> QED
  BY <1>2, <1>4

LEMMA HereFacts ==
  ASSUME Typed, loading # <<>>
  PROVE  /\ here \in Frames /\ here.file \in Files /\ here = loading[1]
         /\ Len(loading) \in Nat /\ Len(loading) >= 1
         /\ super \in Files \cup {None, "absent"}
         /\ \A i \in 1..Len(loading) : loading[i] \in Frames /\ loading[i].file \in Files
<1>1. loading \in Seq(Frames) /\ Len(loading) \in Nat /\ Len(loading) >= 1
  BY EmptySeq DEF Typed
<1>2. ASSUME NEW i \in 1..Len(loading)
      PROVE  loading[i] \in Frames /\ loading[i].file \in Files
  <2>1. loading[i] \in Frames
    BY <1>1
  <2> QED
    BY <2>1 DEF Frames
<1>3. here = loading[1]
  BY DEF here, Head
<1>4. here.file \in Files
  BY <1>1, <1>2, <1>3
<1> QED
  BY <1>1, <1>2, <1>3, <1>4, WorldFacts DEF super

LEMMA Fifteen == Len(Phases) = 15 /\ 1 \in 1..Len(Phases)
BY DEF Phases

\* Where CREATE is, by number.
LEMMA PhaseAt ==
  ASSUME Typed
  PROVE  /\ Len(Phases) = 15 /\ at \in 1..15
         /\ phase = "settings" <=> at = 2
         /\ phase = "appvars" <=> at = 3
         /\ phase = "post" <=> at = 4
         /\ phase = "yaml" <=> at = 5
         /\ phase = "line" <=> at = 6
         /\ phase = "overrides" <=> at = 9
         /\ phase = "roots" <=> at = 11
         /\ phase = "nodes" <=> at = 15
         /\ phase \in {"verbose", "profiles", "flags", "overrides", "commands", "queries", "threads", "printing"}
              <=> at \in {1, 7, 8, 9, 10, 12, 13, 14}
<1> DEFINE Facts == /\ Len(Phases) = 15 /\ at \in 1..15
                    /\ phase = "settings" <=> at = 2
                    /\ phase = "appvars" <=> at = 3
                    /\ phase = "post" <=> at = 4
                    /\ phase = "yaml" <=> at = 5
                    /\ phase = "line" <=> at = 6
                    /\ phase = "overrides" <=> at = 9
                    /\ phase = "roots" <=> at = 11
                    /\ phase = "nodes" <=> at = 15
                    /\ phase \in {"verbose", "profiles", "flags", "overrides", "commands", "queries", "threads", "printing"}
                         <=> at \in {1, 7, 8, 9, 10, 12, 13, 14}
<1> SUFFICES Facts
  OBVIOUS
<1>1. Len(Phases) = 15
  BY DEF Phases
<1>2. at \in 1..15
  BY <1>1 DEF Typed
<1>3. /\ Phases[1] = "verbose"
      /\ Phases[2] = "settings"
      /\ Phases[3] = "appvars"
      /\ Phases[4] = "post"
      /\ Phases[5] = "yaml"
      /\ Phases[6] = "line"
      /\ Phases[7] = "profiles"
      /\ Phases[8] = "flags"
      /\ Phases[9] = "overrides"
      /\ Phases[10] = "commands"
      /\ Phases[11] = "roots"
      /\ Phases[12] = "queries"
      /\ Phases[13] = "threads"
      /\ Phases[14] = "printing"
      /\ Phases[15] = "nodes"
  BY DEF Phases
<1>4. \/ at = 1 \/ at = 2 \/ at = 3 \/ at = 4 \/ at = 5 \/ at = 6 \/ at = 7 \/ at = 8 \/ at = 9 \/ at = 10
      \/ at = 11 \/ at = 12 \/ at = 13 \/ at = 14 \/ at = 15
  BY <1>2
<1>5. phase = Phases[at]
  BY DEF phase
<1>6. CASE at = 1
  <2>1. phase = "verbose"
    BY <1>3, <1>5, <1>6
  <2> QED
    BY <1>1, <1>2, <1>6, <2>1
<1>7. CASE at = 2
  <2>1. phase = "settings"
    BY <1>3, <1>5, <1>7
  <2> QED
    BY <1>1, <1>2, <1>7, <2>1
<1>8. CASE at = 3
  <2>1. phase = "appvars"
    BY <1>3, <1>5, <1>8
  <2> QED
    BY <1>1, <1>2, <1>8, <2>1
<1>9. CASE at = 4
  <2>1. phase = "post"
    BY <1>3, <1>5, <1>9
  <2> QED
    BY <1>1, <1>2, <1>9, <2>1
<1>10. CASE at = 5
  <2>1. phase = "yaml"
    BY <1>3, <1>5, <1>10
  <2> QED
    BY <1>1, <1>2, <1>10, <2>1
<1>11. CASE at = 6
  <2>1. phase = "line"
    BY <1>3, <1>5, <1>11
  <2> QED
    BY <1>1, <1>2, <1>11, <2>1
<1>12. CASE at = 7
  <2>1. phase = "profiles"
    BY <1>3, <1>5, <1>12
  <2> QED
    BY <1>1, <1>2, <1>12, <2>1
<1>13. CASE at = 8
  <2>1. phase = "flags"
    BY <1>3, <1>5, <1>13
  <2> QED
    BY <1>1, <1>2, <1>13, <2>1
<1>14. CASE at = 9
  <2>1. phase = "overrides"
    BY <1>3, <1>5, <1>14
  <2> QED
    BY <1>1, <1>2, <1>14, <2>1
<1>15. CASE at = 10
  <2>1. phase = "commands"
    BY <1>3, <1>5, <1>15
  <2> QED
    BY <1>1, <1>2, <1>15, <2>1
<1>16. CASE at = 11
  <2>1. phase = "roots"
    BY <1>3, <1>5, <1>16
  <2> QED
    BY <1>1, <1>2, <1>16, <2>1
<1>17. CASE at = 12
  <2>1. phase = "queries"
    BY <1>3, <1>5, <1>17
  <2> QED
    BY <1>1, <1>2, <1>17, <2>1
<1>18. CASE at = 13
  <2>1. phase = "threads"
    BY <1>3, <1>5, <1>18
  <2> QED
    BY <1>1, <1>2, <1>18, <2>1
<1>19. CASE at = 14
  <2>1. phase = "printing"
    BY <1>3, <1>5, <1>19
  <2> QED
    BY <1>1, <1>2, <1>19, <2>1
<1>20. CASE at = 15
  <2>1. phase = "nodes"
    BY <1>3, <1>5, <1>20
  <2> QED
    BY <1>1, <1>2, <1>20, <2>1
<1> HIDE DEF Facts
<1> QED
  BY <1>4, <1>6, <1>7, <1>8, <1>9, <1>10, <1>11, <1>12, <1>13, <1>14, <1>15, <1>16, <1>17, <1>18, <1>19, <1>20

LEMMA OnwardTyped ==
  ASSUME Typed, Onward, phase # "nodes"
  PROVE  at' \in 1..Len(Phases) /\ (phase # "yaml" /\ at' > 5 => at > 5)
<1>1. Len(Phases) = 15 /\ at \in 1..15 /\ (phase = "nodes" <=> at = 15) /\ (phase = "yaml" <=> at = 5)
  BY PhaseAt, Zenon
<1> QED
  BY <1>1 DEF Onward

\* Ending changes nothing but the status.
LEMMA EndsTyped ==
  ASSUME Typed, NEW why \in Causes \ {"run"}, Ends(why)
  PROVE  Typed'
BY DEF Typed, Ends, statics

LEMMA PostFailsCause ==
  ASSUME NEW f, PostFails(f)
  PROVE  \E why \in {"undefined", "overflow"} : Ends(why)
BY DEF PostFails, EnvFailing, Failing, Bad

LEMMA TypedLocalRepo == Typed /\ LocalRepo => Typed'
<1> SUFFICES ASSUME Typed, LocalRepo
             PROVE  Typed'
  OBVIOUS
<1>1. loading # <<>>
  BY DEF LocalRepo, Loading
<1>2. CASE here.file \notin input.unwritable /\ Then("super") /\ quiet /\ UNCHANGED statics
  <2>1. [here EXCEPT !.at = "super"] \in Frames
    BY <1>1, HereFacts, Moved
  <2>2. loading' \in Seq(Frames)
    BY <1>1, <1>2, <2>1, Replaced DEF Then, Typed
  <2> QED
    BY <1>2, <2>2 DEF Typed, quiet, statics
<1>3. CASE here.file \in input.unwritable /\ Ends("settings")
  BY <1>3, EndsTyped DEF Causes
<1> QED
  BY <1>2, <1>3 DEF LocalRepo

LEMMA TypedLoadSuper == Typed /\ LoadSuper => Typed'
<1> SUFFICES ASSUME Typed, LoadSuper
             PROVE  Typed'
  OBVIOUS
<1>1. loading # <<>>
  BY DEF LoadSuper, Loading
<1>2. super \in Files
  BY <1>1, HereFacts DEF LoadSuper
<1>3. files' \in SUBSET Files
  BY <1>2 DEF LoadSuper, Typed
<1>4. loading' \in Seq(Frames) /\ ps' \in [Holders -> Tables] /\ status' \in Causes
  <2>1. CASE /\ loading' = <<Open(super)>> \o <<[here EXCEPT !.at = "merge"]>> \o Tail(loading)
             /\ ps' = [ps EXCEPT ![super] = <<>>]
             /\ UNCHANGED status
    <3>1. [here EXCEPT !.at = "merge"] \in Frames
      BY <1>1, HereFacts, Moved
    <3>2. Open(super) \in Frames
      BY <1>2 DEF Open, Frames
    <3>3. loading' \in Seq(Frames)
      BY <1>1, <2>1, <3>1, <3>2, Called DEF Typed
    <3> QED
      BY <1>2, <2>1, <3>3, EmptyTable, WorldFacts DEF Typed
  <2>2. CASE status' = "overflow" /\ UNCHANGED <<loading, ps>>
    BY <2>2 DEF Typed, Causes
  <2> QED
    BY <2>1, <2>2 DEF LoadSuper
<1> QED
  BY <1>3, <1>4 DEF Typed, LoadSuper

LEMMA TypedBadSuper == Typed /\ BadSuper => Typed'
BY EndsTyped DEF BadSuper, Causes

LEMMA TypedMergeSuper == Typed /\ super \in Files /\ MergeSuper => Typed'
<1> SUFFICES ASSUME Typed, super \in Files, MergeSuper
             PROVE  Typed'
  OBVIOUS
<1>1. loading # <<>>
  BY DEF MergeSuper, Loading
<1>2. CASE /\ PostConstructs(super)
           /\ env' = env \o EnvOf(super)
           /\ ps' = [ps EXCEPT ![super] = ResolveProperties(super), ![here.file] = Merge(here.file, super)]
           /\ Then("mask")
           /\ quiet /\ UNCHANGED <<noted, pks, files, instance>>
  <2>1. [here EXCEPT !.at = "mask"] \in Frames /\ here.file \in Holders /\ super \in Holders
    BY <1>1, HereFacts, Moved, WorldFacts
  <2>2. loading' \in Seq(Frames)
    BY <1>1, <1>2, <2>1, Replaced DEF Then, Typed
  <2>3. ResolveProperties(super) \in Tables
    BY <1>2, <2>1, Resolved DEF PostConstructs
  <2>4. Merge(here.file, super) \in Tables
    BY <2>1, <2>3, OverFacts, WorldFacts DEF Merge
  <2>5. ps' \in [Holders -> Tables]
    BY <1>2, <2>3, <2>4 DEF Typed
  <2>6. env' \in Seq(Literals)
    BY <1>2, EnvResolved DEF Typed, PostConstructs
  <2> QED
    BY <1>2, <2>2, <2>5, <2>6 DEF Typed, quiet
<1>3. CASE PostFails(super)
  BY <1>3, PostFailsCause, EndsTyped DEF Causes
<1> QED
  BY <1>2, <1>3 DEF MergeSuper

LEMMA TypedConstructed == Typed /\ Constructed => Typed'
<1> SUFFICES ASSUME Typed, Constructed
             PROVE  Typed'
  OBVIOUS
<1>1. loading # <<>>
  BY DEF Constructed, Loading
<1>2. loading' \in Seq(Frames) /\ here.file \in Files
  BY <1>1, Returned, HereFacts DEF Constructed, Typed
<1> QED
  BY <1>2 DEF Typed, Constructed, quiet

LEMMA TypedRefuse == Typed /\ (Refuse \/ Answer) => Typed'
BY EndsTyped DEF Refuse, Answer, Causes

LEMMA TypedLoadSettings == Typed /\ LoadSettings => Typed'
<1> SUFFICES ASSUME Typed, LoadSettings
             PROVE  Typed'
  OBVIOUS
<1>1. at' \in 1..Len(Phases) /\ (at' > 5 => at > 5)
  BY OnwardTyped DEF LoadSettings, In
<1> DEFINE f == IF "-x" \in args THEN "x" ELSE User
<1>2. f \in Files
  BY NamesAssumption
<1>3. loading' \in Seq(Frames) /\ ps' \in [Holders -> Tables]
  <2>1. CASE loading' = <<Open(f)>> /\ ps' = [ps EXCEPT ![f] = <<>>]
    <3>1. Open(f) \in Frames
      BY <1>2 DEF Open, Frames
    <3> HIDE DEF f
    <3> QED
      BY <1>2, <2>1, <3>1, EmptyTable, WorldFacts DEF Typed
  <2>2. CASE UNCHANGED <<loading, ps>>
    BY <2>2 DEF Typed
  <2> QED
    BY <2>1, <2>2 DEF LoadSettings
<1> QED
  BY <1>1, <1>3 DEF Typed, LoadSettings

LEMMA AnswerTables ==
  /\ [k \in {"HOME"} \cap Keys |-> Lit("HOME")] \in Tables
  /\ [k \in {"MKN_REPO"} \cap Keys |-> Lit("MKN_REPO")] \in Tables
<1>1. ASSUME NEW K \in SUBSET Keys, NEW v \in Literals
      PROVE  [k \in K |-> v] \in Tables
  <2>1. [k \in K |-> v] \in [K -> Literals]
    OBVIOUS
  <2> QED
    BY <2>1 DEF Tables
<1>2. Lit("HOME") \in Literals /\ Lit("MKN_REPO") \in Literals
  BY DEF Literals
<1>3. {"HOME"} \cap Keys \in SUBSET Keys /\ {"MKN_REPO"} \cap Keys \in SUBSET Keys
  OBVIOUS
<1> QED
  BY <1>1, <1>2, <1>3

LEMMA TypedPostAppVars == Typed /\ PostAppVars => Typed'
<1> SUFFICES ASSUME Typed, PostAppVars
             PROVE  Typed'
  OBVIOUS
<1>1. at' \in 1..Len(Phases) /\ (at' > 5 => at > 5)
  BY OnwardTyped DEF PostAppVars, In
<1>2. pks' \in Sources
  BY AnswerTables, TablesAreSources, OverValues DEF PostAppVars, Typed
<1> QED
  BY <1>1, <1>2 DEF Typed, PostAppVars

LEMMA TypedPostSettings == Typed /\ instance \in Files /\ PostSettings => Typed'
<1> SUFFICES ASSUME Typed, instance \in Files, PostSettings
             PROVE  Typed'
  OBVIOUS
<1>1. CASE /\ PostConstructs(instance)
           /\ env' = env \o EnvOf(instance)
           /\ ps' = [ps EXCEPT ![instance] = ResolveProperties(instance)]
           /\ Onward
           /\ UNCHANGED <<input, status, call, loading, noted, pks, files, instance>>
  <2>1. at' \in 1..Len(Phases) /\ (at' > 5 => at > 5)
    BY <1>1, OnwardTyped DEF PostSettings, In
  <2>2. ResolveProperties(instance) \in Tables
    BY <1>1, Resolved, WorldFacts DEF PostConstructs
  <2>3. env' \in Seq(Literals)
    <3>1. EnvOf(instance) \in Seq(Literals) /\ env \in Seq(Literals)
      BY <1>1, EnvResolved DEF Typed, PostConstructs
    <3> QED
      BY <1>1, <3>1
  <2> QED
    BY <1>1, <2>1, <2>2, <2>3 DEF Typed
<1>2. CASE PostFails(instance)
  BY <1>2, PostFailsCause, EndsTyped DEF Causes
<1> QED
  BY <1>1, <1>2 DEF PostSettings

\* init writes the project file, and nothing else about the files on disk changes.
LEMMA FindYamlInput ==
  ASSUME Typed, FindYaml
  PROVE  /\ input' \in Worlds
         /\ input'.super = input.super /\ input'.property = input.property /\ input'.line = input.line
         /\ input'.override = input.override /\ input'.env = input.env
         /\ input'.scalar = input.scalar /\ input'.scm = input.scm /\ input'.uses = input.uses
         /\ "init" \notin args => input' = input
<1>1. CASE UNCHANGED input
  BY <1>1 DEF Typed
<1>2. CASE ~ UNCHANGED input
  <2> DEFINE new == [dir |-> yml.dir, name |-> "mkn.yaml"]
             ymls == input.ymls \cup {y \in {new} : "init" \in args}
  <2>1. input' = [input EXCEPT !.ymls = ymls]
    BY <1>2, Zenon DEF FindYaml, Ends
  <2>2. new \in Yamls
    <3>1. yml.dir \in Dirs
      BY DEF Typed, Places, Yamls
    <3> QED
      BY <3>1 DEF Yamls, Names
  <2>3. ymls \in SUBSET Yamls
    BY <2>2 DEF Typed, Worlds
  <2>4. "init" \notin args => ymls = input.ymls
    OBVIOUS
  <2> HIDE DEF ymls
  <2> QED
    BY <2>1, <2>3, <2>4 DEF Typed, Worlds
<1> QED
  BY <1>1, <1>2

\* A project file is found, or the process ends.
LEMMA FindYamlFacts ==
  ASSUME Typed, FindYaml
  PROVE  \/ Ends("exists")
         \/ /\ status' \in {"run", "nothing", "several", "refused"} /\ Onward
            /\ UNCHANGED <<followed, args, to, loading, statics>>
            /\ \/ /\ status' = "run" /\ yml' \in input'.ymls
                  /\ Found(input'.ymls, yml.dir, args, to) = {yml'}
               \/ status' # "run" /\ UNCHANGED yml
<1>1. CASE ~ Ends("exists")
  <2> DEFINE new == [dir |-> yml.dir, name |-> "mkn.yaml"]
             ymls == input.ymls \cup {y \in {new} : "init" \in args}
             found == Found(ymls, yml.dir, args, to)
  <2>1. /\ input' = [input EXCEPT !.ymls = ymls]
        /\ \/ \E y \in found : found = {y} /\ yml' = y /\ UNCHANGED status
           \/ /\ found = {} /\ UNCHANGED yml
              /\ status' = IF "-C" \in args /\ (to.dir = "absent" \/ to.name # None) THEN "refused" ELSE "nothing"
           \/ (\E y, z \in found : y # z) /\ status' = "several" /\ UNCHANGED yml
        /\ Onward
        /\ UNCHANGED <<followed, args, to, loading, statics>>
    BY <1>1, Zenon DEF FindYaml
  <2>2. status = "run"
    BY DEF FindYaml, In
  <2>3. input'.ymls = ymls
    <3> HIDE DEF ymls
    <3> QED
      BY <2>1 DEF Typed, Worlds
  <2>4. found \subseteq ymls
    <3> HIDE DEF ymls
    <3> QED
      BY DEF Found
  <2>5. CASE \E y \in found : found = {y} /\ yml' = y /\ UNCHANGED status
    <3> HIDE DEF ymls
    <3>1. found = {yml'} /\ yml' \in ymls /\ status' = "run"
      BY <2>2, <2>4, <2>5
    <3> HIDE DEF found
    <3> QED
      BY <2>1, <2>3, <3>1 DEF found
  <2>6. CASE found = {} /\ UNCHANGED yml /\ status' \in {"refused", "nothing"}
    <3> HIDE DEF found
    <3> QED
      BY <2>1, <2>6
  <2>7. CASE status' = "several" /\ UNCHANGED yml
    <3> HIDE DEF found
    <3> QED
      BY <2>1, <2>7
  <2> HIDE DEF found
  <2> QED
    BY <2>1, <2>5, <2>6, <2>7
<1> QED
  BY <1>1

LEMMA TypedFindYaml == Typed /\ FindYaml => Typed'
<1> SUFFICES ASSUME Typed, FindYaml
             PROVE  Typed'
  OBVIOUS
<1>1. CASE Ends("exists")
  BY <1>1, EndsTyped DEF Causes
<1>2. CASE ~ Ends("exists")
  <2>0. /\ status' \in {"run", "nothing", "several", "refused"} /\ Onward
        /\ UNCHANGED <<followed, args, to, loading, statics>>
        /\ (status' = "run" /\ yml' \in input'.ymls) \/ (status' # "run" /\ UNCHANGED yml)
    BY <1>2, FindYamlFacts
  <2>1. at' \in 1..Len(Phases)
    BY <2>0, OnwardTyped DEF FindYaml, In
  <2>2. input' \in Worlds
    BY FindYamlInput
  <2>3. yml' \in Places /\ (status' = "run" /\ at' > 5 => yml' \in Yamls)
    BY <2>0, <2>2 DEF Typed, Places, Worlds
  <2>4. status' \in Causes
    BY <2>0 DEF Causes
  <2> QED
    BY <2>0, <2>1, <2>2, <2>3, <2>4 DEF Typed, statics
<1> QED
  BY <1>1, <1>2

\* The next call, the end of the stack, or what follows the line.
LEMMA DefaultLineFacts ==
  ASSUME Typed, DefaultLine
  PROVE  /\ loading = <<>> /\ at = 6 /\ status = "run" /\ yml \in Yamls
         /\ UNCHANGED <<input, yml, loading, statics>>
         /\ \/ /\ Alone(args) /\ yml \notin followed /\ followed' = followed \cup {yml} /\ status' = status
               /\ input.line[yml] # <<>> /\ input.line[yml][1] \in Commands
               /\ args' = input.line[yml][1].options /\ to' = input.line[yml][1].to /\ at' = 1
            \/ /\ Alone(args) /\ yml \in followed /\ input.line[yml] # <<>>
               /\ status' = "overflow" /\ UNCHANGED <<followed, args, to, at>>
            \/ (~ Alone(args) \/ input.line[yml] = <<>>) /\ Onward /\ UNCHANGED <<status, followed, args, to>>
<1>1. loading = <<>> /\ phase = "line" /\ status = "run" /\ UNCHANGED <<input, yml, loading, statics>>
  BY DEF DefaultLine, In
<1>2. at = 6
  BY <1>1, PhaseAt, Zenon
<1>3. yml \in Yamls
  BY <1>1, <1>2 DEF Typed
<1>4. input.line[yml] # <<>> => input.line[yml][1] \in Commands
  <2>1. input.line[yml] \in Seq(Commands)
    BY <1>3, WorldFacts
  <2> QED
    BY <2>1, EmptySeq
<1>5. \/ /\ Alone(args) /\ input.line[yml] # <<>> /\ yml \notin followed
         /\ followed' = followed \cup {yml}
         /\ args' = input.line[yml][1].options /\ to' = input.line[yml][1].to /\ at' = 1
         /\ UNCHANGED status
      \/ /\ Alone(args) /\ input.line[yml] # <<>> /\ yml \in followed
         /\ status' = "overflow" /\ UNCHANGED <<followed, args, to, at>>
      \/ /\ ~ Alone(args) \/ input.line[yml] = <<>>
         /\ Onward /\ UNCHANGED <<status, followed, args, to>>
  BY Zenon DEF DefaultLine
<1> QED
  BY <1>1, <1>2, <1>3, <1>4, <1>5

LEMMA TypedDefaultLine == Typed /\ DefaultLine => Typed'
<1> SUFFICES ASSUME Typed, DefaultLine
             PROVE  Typed'
  OBVIOUS
<1>0. yml \in Yamls /\ UNCHANGED <<input, yml, loading, statics>>
  BY DefaultLineFacts
<1>1. CASE /\ followed' = followed \cup {yml} /\ status' = status /\ input.line[yml][1] \in Commands
           /\ args' = input.line[yml][1].options /\ to' = input.line[yml][1].to /\ at' = 1
  <2>1. args' \in SUBSET STRING /\ to' \in Targets
    BY <1>1 DEF Commands
  <2>2. at' \in 1..Len(Phases) /\ ~ (at' > 5)
    BY <1>1, Fifteen
  <2>3. followed' \in SUBSET Yamls
    BY <1>0, <1>1 DEF Typed
  <2> QED
    BY <1>0, <1>1, <2>1, <2>2, <2>3 DEF Typed, statics
<1>2. CASE status' = "overflow" /\ UNCHANGED <<followed, args, to, at>>
  BY <1>0, <1>2 DEF Typed, statics, Causes
<1>3. CASE Onward /\ UNCHANGED <<status, followed, args, to>>
  <2>1. at' \in 1..Len(Phases)
    BY <1>3, OnwardTyped DEF DefaultLine, In
  <2> QED
    BY <1>0, <1>3, <2>1 DEF Typed, statics
<1> QED
  BY <1>1, <1>2, <1>3, DefaultLineFacts

LEMMA TypedPlain == Typed /\ Plain => Typed'
<1> SUFFICES ASSUME Typed, Plain
             PROVE  Typed'
  OBVIOUS
<1>0. /\ phase \in {"verbose", "profiles", "flags", "overrides", "commands", "queries", "threads", "printing"}
      /\ UNCHANGED <<input, call, loading, files, instance, ps, env>>
  BY DEF Plain, In
<1>1. CASE phase = "flags" /\ {"-S", "-K"} \subseteq args
  <2>1. status' = "refused" /\ UNCHANGED <<at, noted, pks>>
    BY <1>1 DEF Plain
  <2> QED
    BY <1>0, <2>1 DEF Typed, Causes
<1>2. CASE ~ (phase = "flags" /\ {"-S", "-K"} \subseteq args)
  <2>1. /\ Onward /\ UNCHANGED status
        /\ pks' = IF phase = "overrides" /\ "-P" \in args
                  THEN Over(input.override, pks) ELSE pks
    BY <1>2 DEF Plain
  <2>2. at' \in 1..Len(Phases) /\ (at' > 5 => at > 5)
    <3>1. at \in {1, 7, 8, 9, 10, 12, 13, 14} /\ Len(Phases) = 15
      BY <1>0, PhaseAt
    <3> QED
      BY <2>1, <3>1 DEF Onward
  <2>3. pks' \in Sources
    BY <2>1, OverValues, WorldFacts DEF Typed
  <2> QED
    BY <1>0, <2>1, <2>2, <2>3 DEF Typed
<1> QED
  BY <1>1, <1>2

\* What getOrCreateRoot leaves, when nothing fails, and what it fails for.
RootsOf == ResOn(pks, Own(App), Over(ps[App], ps[instance]), input.scalar)

LEMMA RootsFacts ==
  ASSUME Typed, instance \in Files, Roots
  PROVE  LET S == Over(ps[App], ps[instance])
             table == Scalars(Over(Own(App), S))
         IN
         \/ /\ \E why \in {"undefined", "overflow"} : Ends(why)
            /\ status' = "overflow" =>
                 \/ \E v \in input.scm : Resolve(Scalars(ps[App]), v).text = "overflow"
                 \/ \E k \in DOMAIN Own(App) : Resolve(table, Own(App)[k]).text = "overflow"
                 \/ \E v \in input.uses : RootsOf \in Tables /\ Resolve(Scalars(RootsOf), v).text = "overflow"
         \/ /\ ps' = [ps EXCEPT ![App] = RootsOf]
            /\ RootsOf \in Tables
            /\ Onward /\ UNCHANGED <<input, status, call, loading, pks, files, instance, env>>
<1> DEFINE S == Over(ps[App], ps[instance])
           table == Scalars(Over(Own(App), S))
           own == [k \in DOMAIN Own(App) |-> Resolve(table, Own(App)[k])]
           early == Bad({Resolve(Scalars(ps[App]), v) : v \in input.scm})
           bad == Bad({own[k] : k \in DOMAIN own})
           late == Bad({Resolve(Scalars(Over(own, S)), v) : v \in input.uses})
<1>1. /\ Own(App) \in Sources /\ ps[App] \in Tables /\ ps[instance] \in Tables /\ pks \in Sources
      /\ App \in Holders /\ ps \in [Holders -> Tables] /\ input.scalar \in Sources
  BY WorldFacts DEF Typed
<1>2. S \in Tables
  BY <1>1, OverFacts
<1>3. table = Over(Over(Own(App), S), input.scalar) /\ table \in Sources
  <2> HIDE DEF S
  <2> QED
    BY <1>1, <1>2, OverSources, OverValues DEF Scalars
<1>4. own = [k \in DOMAIN Own(App) |-> ResolveIn(pks, Over(Over(Own(App), S), input.scalar), Own(App)[k])]
  <2>1. \A v : Resolve(table, v) = ResolveIn(pks, Over(Over(Own(App), S), input.scalar), v)
    <3> HIDE DEF S, table
    <3> QED
      BY <1>3, ResolveIs, Zenon
  <2> HIDE DEF table, S
  <2> QED
    BY <2>1
<1>5. Over(own, S) = RootsOf
  <2> HIDE DEF own, S
  <2> QED
    BY <1>4 DEF RootsOf, ResOn, S
<1>6. bad = {} => RootsOf \in Tables
  <2> SUFFICES ASSUME bad = {}
               PROVE  RootsOf \in Tables
    OBVIOUS
  <2>1. ASSUME NEW k \in DOMAIN Own(App)
        PROVE  own[k] \in Literals
    <3>1. own[k] = ResolveIn(pks, table, Own(App)[k]) /\ Own(App)[k] \in Values /\ own[k] \notin bad
      <4>1. own[k] = ResolveIn(pks, table, Own(App)[k])
        <5> HIDE DEF table
        <5> QED
          BY ResolveIs
      <4>2. Own(App)[k] \in Values
        BY <1>1, <1>2, OverSources
      <4> QED
        BY <4>1, <4>2
    <3>2. own[k].text \notin {"undefined", "overflow"}
      <4>1. own[k] \in {own[j] : j \in DOMAIN own}
        OBVIOUS
      <4> HIDE DEF own
      <4> QED
        BY <3>1, <4>1 DEF Bad
    <3> HIDE DEF own, table, bad
    <3> QED
      BY <1>1, <1>3, <3>1, <3>2, ResolveFacts
  <2>2. DOMAIN Own(App) \in SUBSET Keys
    BY <1>1, <1>2, OverSources
  <2>3. own \in [DOMAIN Own(App) -> Literals]
    <3>1. own = [k \in DOMAIN Own(App) |-> own[k]]
      OBVIOUS
    <3> HIDE DEF own
    <3> QED
      BY <2>1, <3>1
  <2>4. own \in Tables
    <3> HIDE DEF own
    <3> QED
      BY <2>2, <2>3 DEF Tables
  <2> HIDE DEF own, S
  <2> QED
    BY <1>2, <1>5, <2>4, OverFacts
<1>7. \/ /\ early = {} /\ bad = {} /\ late = {}
         /\ ps' = [ps EXCEPT ![App] = Over(own, S)]
         /\ Onward /\ UNCHANGED <<input, status, call, loading, pks, files, instance, env>>
      \/ \E v \in IF early # {} THEN early ELSE IF bad # {} THEN bad ELSE late : Ends(v.text)
  BY Zenon DEF Roots
<1>8. CASE /\ bad = {} /\ ps' = [ps EXCEPT ![App] = Over(own, S)]
           /\ Onward /\ UNCHANGED <<input, status, call, loading, pks, files, instance, env>>
  <2> HIDE DEF own, S, bad
  <2> QED
    BY <1>5, <1>6, <1>8, Zenon DEF S
<1>9. CASE \E v \in IF early # {} THEN early ELSE IF bad # {} THEN bad ELSE late : Ends(v.text)
  <2>1. PICK v : /\ v \in IF early # {} THEN early ELSE IF bad # {} THEN bad ELSE late
                 /\ Ends(v.text)
    <3> HIDE DEF early, bad, late
    <3> QED
      BY <1>9
  <2>2. v \in early \/ v \in bad \/ (bad = {} /\ v \in late)
    <3> HIDE DEF early, bad, late
    <3> QED
      BY <2>1
  <2>3. v.text \in {"undefined", "overflow"}
    <3>1. \A X, u : u \in Bad(X) => u.text \in {"undefined", "overflow"}
      BY DEF Bad
    <3> QED
      BY <2>2, <3>1, Zenon
  <2>4. status' = v.text
    BY <2>1 DEF Ends
  <2>5. CASE v \in early
    BY <2>1, <2>3, <2>4, <2>5 DEF Bad
  <2>6. CASE v \in bad
    <3>1. \E k \in DOMAIN Own(App) : v = Resolve(table, Own(App)[k])
      <4>1. PICK k \in DOMAIN own : v = own[k]
        <5> HIDE DEF own
        <5> QED
          BY <2>6 DEF Bad
      <4>2. k \in DOMAIN Own(App) /\ own[k] = Resolve(table, Own(App)[k])
        <5> HIDE DEF table
        <5> QED
          BY <4>1
      <4> QED
        BY <4>1, <4>2
    <3> HIDE DEF table, S
    <3> QED
      BY <2>1, <2>3, <2>4, <3>1 DEF table, S
  <2>7. CASE bad = {} /\ v \in late
    <3>1. \E u \in input.uses : v = Resolve(Scalars(RootsOf), u)
      <4> HIDE DEF own, S
      <4> QED
        BY <1>5, <2>7 DEF Bad
    <3>2. RootsOf \in Tables
      BY <1>6, <2>7
    <3> HIDE DEF table, S, bad, late
    <3> QED
      BY <2>1, <2>3, <2>4, <3>1, <3>2
  <2> QED
    BY <2>2, <2>5, <2>6, <2>7
<1> HIDE DEF own, S, table, early, bad, late
<1> QED
  BY <1>7, <1>8, <1>9

LEMMA RootsOnward ==
  ASSUME Typed, instance \in Files, Roots
  PROVE  \/ \E why \in {"undefined", "overflow"} : Ends(why)
         \/ /\ ps' = [ps EXCEPT ![App] = RootsOf] /\ RootsOf \in Tables
            /\ Onward /\ UNCHANGED <<input, status, call, loading, pks, files, instance, env>>
BY RootsFacts, Zenon

LEMMA TypedRoots == Typed /\ instance \in Files /\ Roots => Typed'
<1> SUFFICES ASSUME Typed, instance \in Files, Roots
             PROVE  Typed'
  OBVIOUS
<1>1. CASE \E why \in {"undefined", "overflow"} : Ends(why)
  BY <1>1, EndsTyped DEF Causes
<1>2. CASE ~ \E why \in {"undefined", "overflow"} : Ends(why)
  <2>1. /\ \E T \in Tables : ps' = [ps EXCEPT ![App] = T]
        /\ Onward /\ UNCHANGED <<input, status, call, loading, pks, files, instance, env>>
    BY <1>2, RootsOnward
  <2>2. at' \in 1..Len(Phases) /\ (at' > 5 => at > 5)
    BY <2>1, OnwardTyped DEF Roots, In
  <2> QED
    BY <2>1, <2>2 DEF Typed
<1> QED
  BY <1>1, <1>2

LEMMA TypedNodes == Typed /\ Nodes => Typed'
BY DEF Nodes, Typed, statics, Causes

LEMMA Opened ==
  ASSUME NEW f \in Files
  PROVE  Open(f) \in Frames /\ Open(f).file = f /\ Open(f).at = "local"
<1>1. Open(f) = [file |-> f, at |-> "local"]
  BY DEF Open
<1> QED
  BY <1>1 DEF Frames

-----------------------------------------------------------------------------
(* Where CREATE is and what loads.                                         *)

Control == Flow /\ Stacked /\ Answers

\* What does not touch these variables keeps them.
LEMMA ControlSame ==
  ASSUME Control, UNCHANGED <<input, followed, args, at, loading, pks, files, instance>>
  PROVE  Control'
<1>1. Flow'
  BY DEF Control, Flow
<1>2. here' = here /\ super' = super
  BY DEF here, super
<1>3. Stacked'
  BY <1>2 DEF Control, Stacked
<1>4. Answers'
  BY DEF Control, Answers, Early, WithRepo
<1> QED
  BY <1>1, <1>3, <1>4 DEF Control

\* A step of CREATE itself, with nothing loading before or after it.
LEMMA ControlOnward ==
  ASSUME Typed, Control, loading = <<>>, Onward, at \notin {2, 3, 9},
         UNCHANGED <<followed, args, loading, pks, files, instance>>,
         input'.override = input.override
  PROVE  Control'
<1>1. at \in 1..15
  BY PhaseAt, Zenon
<1>2. at # 1 => at' > 2
  BY <1>1 DEF Onward
<1>3. Flow'
  BY <1>1 DEF Control, Flow, Onward
<1>4. Stacked'
  BY DEF Stacked
<1>5. Answers'
  <2>1. (at' <= 3 <=> at <= 3) /\ (at' <= 9 <=> at <= 9)
    BY <1>1 DEF Onward
  <2> QED
    BY <2>1 DEF Control, Answers
<1> QED
  BY <1>3, <1>4, <1>5 DEF Control

\* A file that is new to files is one more of Files.
LEMMA RoomFor ==
  ASSUME Typed, NEW f \in Files, f \notin files
  PROVE  /\ Cardinality(files \cup {f}) = Cardinality(files) + 1
         /\ Cardinality(files) \in Nat /\ Cardinality(files) + 1 <= Cardinality(Files)
<1>1. IsFiniteSet(Files) /\ files \subseteq Files /\ files \cup {f} \subseteq Files
  BY NamesAssumption DEF Typed
<1>2. IsFiniteSet(files) /\ IsFiniteSet(files \cup {f})
  BY <1>1, FS_Subset
<1>3. Cardinality(files \cup {f}) = Cardinality(files) + 1
  BY <1>2, FS_AddElement
<1>4. Cardinality(files \cup {f}) <= Cardinality(Files)
  BY <1>1, FS_Subset
<1> QED
  BY <1>2, <1>3, <1>4, FS_CardinalityType

\* Constructors of Settings do not run out of stack: only as many run as files
\* are noted, and none is noted twice.
LEMMA NotTooDeep ==
  ASSUME Typed, Stacked, LoadSuper
  PROVE  /\ Len(loading) <= Cardinality(Files)
         /\ super \in Files /\ super \notin files /\ super # here.file
<1>1. loading # <<>> /\ super \in Files /\ super \notin files /\ super # here.file
  BY HereFacts DEF LoadSuper, Loading, Seen
<1>2. Len(loading) <= Cardinality(files) + 1 /\ Len(loading) \in Nat
  BY <1>1, HereFacts DEF Stacked
<1>3. Cardinality(files) \in Nat /\ Cardinality(files) + 1 <= Cardinality(Files)
  BY <1>1, RoomFor
<1> QED
  BY <1>1, <1>2, <1>3, Sizes

LEMMA ControlLocalRepo == Typed /\ Control /\ LocalRepo => Control'
<1> SUFFICES ASSUME Typed, Control, LocalRepo
             PROVE  Control'
  OBVIOUS
<1>1. loading # <<>> /\ here.at = "local"
  BY DEF LocalRepo, Loading
<1>2. CASE Ends("settings")
  BY <1>2, ControlSame DEF Ends, statics
<1>3. CASE Then("super") /\ quiet /\ UNCHANGED statics
  <2>1. /\ here \in Frames /\ here.file \in Files /\ here = loading[1]
        /\ Len(loading) \in Nat /\ Len(loading) >= 1
    BY <1>1, HereFacts
  <2>2. PICK h \in Frames : h = [here EXCEPT !.at = "super"] /\ h.file = here.file /\ h.at = "super"
    BY <2>1, Moved
  <2>3. /\ loading' # <<>> /\ Len(loading') = Len(loading) /\ here' = h /\ loading'[1] = h
        /\ \A j \in 2..Len(loading) : loading'[j] = loading[j]
    BY <1>1, <1>3, <2>2, Replaced DEF Then, Typed, here
  <2>4. ASSUME NEW j \in 1..Len(loading)
        PROVE  loading'[j].file = loading[j].file
    <3>1. j = 1 \/ j \in 2..Len(loading)
      OBVIOUS
    <3> QED
      BY <2>1, <2>2, <2>3, <3>1
  <2>5. UNCHANGED <<input, call, at, pks, files, instance>>
    BY <1>3 DEF quiet, statics
  <2>6. Flow' /\ Answers'
    BY <1>1, <2>3, <2>5 DEF Control, Flow, Answers
  <2>7. Stacked'
    <3> DEFINE n == Len(loading)
    <3>1. /\ n <= Cardinality(files) + 1
          /\ \A i \in 2..n : loading[i].at = "merge" /\ input.super[loading[i].file] = loading[i - 1].file
          /\ \A i \in 1..n - 1 : loading[i].file \in files
          /\ \A i, j \in 1..n - 1 : loading[i].file = loading[j].file => i = j
          /\ \A i \in 2..n - 1 : loading[i].file # loading[n].file
          /\ followed = {} => files = {loading[i].file : i \in 1..n - 1}
      BY <1>1 DEF Control, Stacked
    <3>2. \A i \in 2..n : i \in 1..n /\ i - 1 \in 1..n
      BY <2>1
    <3>3. \A i \in 2..n : loading'[i].at = "merge" /\ input.super[loading'[i].file] = loading'[i - 1].file
      BY <2>3, <2>4, <3>1, <3>2
    <3>4. \A i \in 1..n - 1 : i \in 1..n
      BY <2>1
    <3>5. {loading'[i].file : i \in 1..n - 1} = {loading[i].file : i \in 1..n - 1}
      BY <2>4, <3>4
    <3>6. n \in 1..n
      BY <2>1
    <3>7. \A i \in 2..n - 1 : loading'[i].file # loading'[n].file
      <4>1. \A i \in 2..n - 1 : i \in 1..n
        OBVIOUS
      <4> QED
        BY <2>4, <3>1, <3>6, <4>1
    <3>8. \A i, j \in 1..n - 1 : loading'[i].file = loading'[j].file => i = j
      BY <2>4, <3>1, <3>4
    <3>9. \A i \in 1..n - 1 : loading'[i].file \in files
      BY <2>4, <3>1, <3>4
    <3> QED
      BY <2>2, <2>3, <2>5, <3>1, <3>3, <3>5, <3>7, <3>8, <3>9 DEF Stacked
  <2> QED
    BY <2>6, <2>7 DEF Control
<1> QED
  BY <1>2, <1>3 DEF LocalRepo

LEMMA ControlLoadSuper == Typed /\ Control /\ LoadSuper => Control' /\ status' = status
<1> SUFFICES ASSUME Typed, Control, LoadSuper
             PROVE  Control' /\ status' = status
  OBVIOUS
<1>1. loading # <<>> /\ here.at = "super"
  BY DEF LoadSuper, Loading
<1>2. /\ here \in Frames /\ here.file \in Files /\ here = loading[1]
      /\ Len(loading) \in Nat /\ Len(loading) >= 1
  BY <1>1, HereFacts
<1>3. Len(loading) <= Cardinality(Files) /\ super \in Files /\ super \notin files /\ super # here.file
  BY NotTooDeep DEF Control
<1>4. /\ files' = files \cup {super} /\ UNCHANGED <<input, call, at, pks, instance>>
      /\ loading' = <<Open(super)>> \o <<[here EXCEPT !.at = "merge"]>> \o Tail(loading)
      /\ UNCHANGED status
  <2>1. ~ (Len(loading) > Cardinality(Files))
    BY <1>2, <1>3, Sizes
  <2> QED
    BY <2>1 DEF LoadSuper
<1>5. PICK h \in Frames : h = [here EXCEPT !.at = "merge"] /\ h.file = here.file /\ h.at = "merge"
  <2>1. here \in Frames
    BY <1>2
  <2>2. /\ [here EXCEPT !.at = "merge"] \in Frames
        /\ [here EXCEPT !.at = "merge"].file = here.file /\ [here EXCEPT !.at = "merge"].at = "merge"
    BY <2>1, Moved
  <2> QED
    BY <2>2
<1>6. PICK g \in Frames : g = Open(super) /\ g.file = super /\ g.at = "local"
  BY <1>3, Opened
<1> DEFINE n == Len(loading)
<1>7. /\ loading' # <<>> /\ Len(loading') = n + 1 /\ here' = g
      /\ loading'[1] = g /\ loading'[2] = h /\ \A j \in 3..n + 1 : loading'[j] = loading[j - 1]
  <2>1. loading' = <<g>> \o <<h>> \o Tail(loading) /\ loading \in Seq(Frames)
    BY <1>4, <1>5, <1>6 DEF Typed
  <2>2. /\ loading' # <<>> /\ Len(loading') = n + 1 /\ Head(loading') = g
        /\ loading'[1] = g /\ loading'[2] = h /\ \A j \in 3..n + 1 : loading'[j] = loading[j - 1]
    BY <1>1, <2>1, Called
  <2> QED
    BY <2>2 DEF here
<1>8. ASSUME NEW j \in 2..n + 1
      PROVE  loading'[j].file = loading[j - 1].file
  <2>1. (j = 2 /\ j - 1 = 1) \/ j \in 3..n + 1
    BY <1>2
  <2> QED
    BY <1>2, <1>5, <1>7, <2>1
<1>9. Flow' /\ Answers'
  BY <1>1, <1>4, <1>7 DEF Control, Flow, Answers
<1>10. Stacked'
  <2>1. /\ n <= Cardinality(files) + 1
        /\ \A i \in 2..n : loading[i].at = "merge" /\ input.super[loading[i].file] = loading[i - 1].file
        /\ \A i \in 1..n - 1 : loading[i].file \in files
        /\ \A i, j \in 1..n - 1 : loading[i].file = loading[j].file => i = j
        /\ \A i \in 2..n - 1 : loading[i].file # loading[n].file
        /\ followed = {} => files = {loading[i].file : i \in 1..n - 1}
    BY <1>1 DEF Control, Stacked
  <2>2. Cardinality(files \cup {super}) = Cardinality(files) + 1 /\ Cardinality(files) \in Nat
    BY <1>3, RoomFor
  <2>3. n + 1 <= Cardinality(files') + 1
    BY <1>2, <1>4, <2>1, <2>2
  <2>4. ASSUME NEW i \in 2..n + 1
        PROVE  loading'[i].at = "merge" /\ input.super[loading'[i].file] = loading'[i - 1].file
    <3>1. CASE i = 2
      <4>1. loading'[i] = h /\ i - 1 = 1 /\ loading'[i - 1] = g
        BY <1>7, <3>1
      <4>2. input.super[h.file] = g.file
        BY <1>5, <1>6 DEF super
      <4> QED
        BY <1>5, <4>1, <4>2
    <3>2. CASE i # 2
      <4>1. i \in 3..n + 1 /\ i - 1 \in 2..n /\ i - 1 \in 2..n + 1
        BY <1>2, <3>2
      <4>2. loading'[i] = loading[i - 1] /\ loading'[i - 1].file = loading[(i - 1) - 1].file
        BY <1>7, <1>8, <4>1
      <4> QED
        BY <2>1, <4>1, <4>2
    <3> QED
      BY <3>1, <3>2
  <2>5. ASSUME NEW i \in 1..n
        PROVE  i = 1 \/ (i \in 2..n + 1 /\ i - 1 \in 1..n - 1)
    BY <1>2
  <2>6. ASSUME NEW i \in 1..n
        PROVE  loading'[i].file \in files'
    BY <1>4, <1>6, <1>7, <1>8, <2>1, <2>5
  <2>7. ASSUME NEW i \in 1..n, NEW j \in 1..n, loading'[i].file = loading'[j].file
        PROVE  i = j
    <3>1. CASE i = 1 /\ j = 1
      BY <3>1
    <3>2. CASE i # 1 /\ j # 1
      <4>1. i \in 2..n + 1 /\ i - 1 \in 1..n - 1 /\ j \in 2..n + 1 /\ j - 1 \in 1..n - 1
        BY <2>5, <3>2
      <4>2. loading[i - 1].file = loading[j - 1].file
        BY <1>8, <2>7, <4>1
      <4>3. i - 1 = j - 1
        BY <2>1, <4>1, <4>2
      <4> QED
        BY <4>3
    <3>5. loading'[1].file = super
      BY <1>6, <1>7
    <3>6. ASSUME NEW x \in 1..n, x # 1
          PROVE  loading'[x].file # super
      <4>1. x \in 2..n + 1 /\ x - 1 \in 1..n - 1
        BY <2>5, <3>6
      <4>2. loading'[x].file \in files
        BY <1>8, <2>1, <4>1
      <4> QED
        BY <1>3, <4>2
    <3>3. CASE i = 1 /\ j # 1
      BY <2>7, <3>3, <3>5, <3>6
    <3>4. CASE i # 1 /\ j = 1
      BY <2>7, <3>4, <3>5, <3>6
    <3> QED
      BY <3>1, <3>2, <3>3, <3>4
  <2>8. ASSUME NEW i \in 2..n
        PROVE  loading'[i].file # loading'[n + 1].file
    <3>1. n + 1 \in 2..n + 1 /\ (n + 1) - 1 = n /\ i \in 2..n + 1 /\ i - 1 \in 1..n - 1
      BY <1>2
    <3>2. loading'[i].file = loading[i - 1].file /\ loading'[n + 1].file = loading[n].file
      BY <1>8, <3>1
    <3>3. CASE i # 2
      <4>1. i - 1 \in 2..n - 1
        BY <1>2, <3>3
      <4> QED
        BY <2>1, <3>2, <4>1
    <3>4. CASE i = 2
      <4>1. n \in 2..n /\ n - 1 \in 1..n - 1
        BY <1>2, <3>1, <3>4
      <4>2. input.super[loading[n].file] \in files
        BY <2>1, <4>1
      <4>3. loading[1].file # loading[n].file
        BY <1>2, <1>3, <4>2 DEF super
      <4> QED
        BY <3>2, <3>4, <4>3
    <3> QED
      BY <3>3, <3>4
  <2>9. followed = {} => files' = {loading'[i].file : i \in 1..n}
    <3> SUFFICES ASSUME followed = {}
                 PROVE  files' = {loading'[i].file : i \in 1..n}
      OBVIOUS
    <3>1. files' \subseteq {loading'[i].file : i \in 1..n}
      <4>1. super = loading'[1].file /\ 1 \in 1..n
        BY <1>2, <1>6, <1>7
      <4>2. ASSUME NEW i \in 1..n - 1
            PROVE  i + 1 \in 1..n /\ loading[i].file = loading'[i + 1].file
        <5>1. i + 1 \in 2..n + 1 /\ i + 1 \in 1..n /\ (i + 1) - 1 = i
          BY <1>2
        <5> QED
          BY <1>8, <5>1
      <4>3. files = {loading[i].file : i \in 1..n - 1} /\ files' = files \cup {super}
        BY <1>4, <2>1
      <4>4. ASSUME NEW f \in files
            PROVE  f \in {loading'[i].file : i \in 1..n}
        BY <4>2, <4>3
      <4> QED
        BY <4>1, <4>3, <4>4
    <3> QED
      BY <2>6, <3>1
  <2>10. (n + 1) - 1 = n
    BY <1>2
  <2>11. Len(loading') = n + 1 /\ here'.at = "local" /\ UNCHANGED <<input, followed>>
    BY <1>4, <1>6, <1>7
  <2>12. /\ Len(loading') <= Cardinality(files') + 1
         /\ \A i \in 2..Len(loading') : /\ loading'[i].at = "merge"
                                        /\ input'.super[loading'[i].file] = loading'[i - 1].file
         /\ \A i \in 1..Len(loading') - 1 : loading'[i].file \in files'
         /\ \A i, j \in 1..Len(loading') - 1 : loading'[i].file = loading'[j].file => i = j
         /\ \A i \in 2..Len(loading') - 1 : loading'[i].file # loading'[Len(loading')].file
         /\ followed' = {} => files' = {loading'[i].file : i \in 1..Len(loading') - 1}
    BY <2>3, <2>4, <2>6, <2>7, <2>8, <2>9, <2>10, <2>11
  <2> QED
    BY <2>11, <2>12 DEF Stacked
<1> QED
  BY <1>4, <1>9, <1>10 DEF Control

LEMMA ThenFacts ==
  ASSUME Typed, loading # <<>>, NEW p \in {"local", "super", "merge", "mask"}, Then(p)
  PROVE  /\ loading' # <<>> /\ Len(loading') = Len(loading)
         /\ here'.at = p /\ here'.file = here.file
         /\ \A j \in 1..Len(loading) : loading'[j].file = loading[j].file
         /\ \A j \in 2..Len(loading) : loading'[j] = loading[j]
<1>1. /\ here \in Frames /\ here.file \in Files /\ here = loading[1]
      /\ Len(loading) \in Nat /\ Len(loading) >= 1
  BY HereFacts
<1>2. PICK h \in Frames : h = [here EXCEPT !.at = p] /\ h.file = here.file /\ h.at = p
  <2>1. /\ [here EXCEPT !.at = p] \in Frames
        /\ [here EXCEPT !.at = p].file = here.file /\ [here EXCEPT !.at = p].at = p
    <3>1. \A h \in Frames : /\ [h EXCEPT !.at = p] \in Frames
                            /\ [h EXCEPT !.at = p].file = h.file /\ [h EXCEPT !.at = p].at = p
      BY Moved
    <3> QED
      BY <1>1, <3>1, Zenon
  <2> QED
    BY <2>1, Zenon
<1>3. loading' = <<h>> \o Tail(loading)
  BY <1>2, Zenon DEF Then
<1>4. /\ loading' # <<>> /\ Len(loading') = Len(loading) /\ Head(loading') = h /\ loading'[1] = h
      /\ \A j \in 2..Len(loading) : loading'[j] = loading[j]
  <2>1. loading \in Seq(Frames)
    BY DEF Typed
  <2> QED
    BY <1>3, <2>1, Replaced
<1>5. here' = h
  BY <1>4 DEF here
<1>6. ASSUME NEW j \in 1..Len(loading)
      PROVE  loading'[j].file = loading[j].file
  <2>1. j = 1 \/ j \in 2..Len(loading)
    OBVIOUS
  <2> QED
    BY <1>1, <1>2, <1>4, <2>1
<1> QED
  BY <1>2, <1>4, <1>5, <1>6

LEMMA ControlMergeSuper == Typed /\ Control /\ MergeSuper => Control'
<1> SUFFICES ASSUME Typed, Control, MergeSuper
             PROVE  Control'
  OBVIOUS
<1>1. loading # <<>> /\ here.at = "merge"
  BY DEF MergeSuper, Loading
<1>2. CASE PostFails(super)
  BY <1>2, PostFailsCause, ControlSame DEF Ends, statics
<1>3. CASE Then("mask") /\ quiet /\ UNCHANGED <<noted, pks, files, instance>>
  <2> DEFINE n == Len(loading)
  <2>1. /\ here = loading[1] /\ n \in Nat /\ n >= 1
    BY <1>1, HereFacts
  <2>2. /\ loading' # <<>> /\ Len(loading') = n
        /\ here'.at = "mask" /\ here'.file = here.file
        /\ \A j \in 1..n : loading'[j].file = loading[j].file
        /\ \A j \in 2..n : loading'[j] = loading[j]
    BY <1>1, <1>3, ThenFacts
  <2>3. UNCHANGED <<input, call, at, pks, files, instance>>
    BY <1>3 DEF quiet
  <2>4. Flow' /\ Answers'
    BY <1>1, <2>2, <2>3 DEF Control, Flow, Answers
  <2>5. Stacked'
    <3>1. /\ n <= Cardinality(files) + 1
          /\ \A i \in 2..n : loading[i].at = "merge" /\ input.super[loading[i].file] = loading[i - 1].file
          /\ \A i \in 1..n - 1 : loading[i].file \in files
          /\ \A i, j \in 1..n - 1 : loading[i].file = loading[j].file => i = j
          /\ \A i \in 2..n - 1 : loading[i].file # loading[n].file
          /\ n > 1 => here.file # loading[n].file
          /\ super \in files
      BY <1>1 DEF Control, Stacked
    <3>2. /\ \A i \in 2..n : i \in 1..n /\ i - 1 \in 1..n
          /\ \A i \in 1..n - 1 : i \in 1..n
          /\ \A i \in 2..n - 1 : i \in 1..n
          /\ n \in 1..n
      BY <2>1
    <3>3. /\ \A i \in 2..n : loading'[i].at = "merge" /\ input.super[loading'[i].file] = loading'[i - 1].file
          /\ \A i \in 1..n - 1 : loading'[i].file \in files
      BY <2>2, <3>1, <3>2
    <3>4. \A i, j \in 1..n - 1 : loading'[i].file = loading'[j].file => i = j
      BY <2>2, <3>1, <3>2
    <3>5. \A i \in 2..n - 1 : loading'[i].file # loading'[n].file
      BY <2>2, <3>1, <3>2
    <3>6. n > 1 => here'.file # loading'[n].file
      BY <2>2, <3>1, <3>2
    <3>7. super' = super
      BY <2>2, <2>3 DEF super
    <3> QED
      BY <2>2, <2>3, <3>1, <3>3, <3>4, <3>5, <3>6, <3>7 DEF Stacked
  <2> QED
    BY <2>4, <2>5 DEF Control
<1> QED
  BY <1>2, <1>3 DEF MergeSuper

LEMMA ControlConstructed == Typed /\ Control /\ Constructed => Control'
<1> SUFFICES ASSUME Typed, Control, Constructed
             PROVE  Control'
  OBVIOUS
<1> DEFINE n == Len(loading)
<1>1. /\ loading # <<>> /\ (here.at = "mask" \/ (here.at = "super" /\ super = None))
      /\ loading' = Tail(loading)
      /\ instance' = IF n = 1 THEN here.file ELSE instance
      /\ UNCHANGED <<input, call, at, pks, files>>
  BY DEF Constructed, Loading, quiet
<1>2. /\ here = loading[1] /\ here.file \in Files /\ n \in Nat /\ n >= 1
  BY <1>1, HereFacts
<1>3. /\ Len(loading') = n - 1 /\ \A j \in 1..n - 1 : loading'[j] = loading[j + 1]
      /\ loading' \in Seq(Frames)
  BY <1>1, Returned DEF Typed
<1>4. CASE n = 1
  <2>1. loading' = <<>>
    BY <1>3, <1>4, EmptySeq
  <2>2. instance' # None
    BY <1>1, <1>2, <1>4, NamesAssumption
  <2>3. Flow' /\ Answers'
    BY <1>1, <2>1, <2>2 DEF Control, Flow, Answers
  <2> QED
    BY <2>1, <2>3 DEF Control, Stacked
<1>5. CASE n # 1
  <2>1. n >= 2 /\ 1 \in 1..n - 1 /\ 1 + 1 = 2 /\ loading' # <<>>
    BY <1>2, <1>3, <1>5, EmptySeq
  <2>2. here' = loading[2]
    <3>1. here' = loading'[1]
      BY <2>1 DEF here, Head
    <3> QED
      BY <1>3, <2>1, <3>1
  <2>3. Flow' /\ Answers'
    <3>1. instance' = instance
      BY <1>1, <1>5
    <3> QED
      BY <1>1, <2>1, <3>1 DEF Control, Flow, Answers
  <2>4. /\ n <= Cardinality(files) + 1
        /\ \A i \in 2..n : loading[i].at = "merge" /\ input.super[loading[i].file] = loading[i - 1].file
        /\ \A i \in 1..n - 1 : loading[i].file \in files
        /\ \A i, j \in 1..n - 1 : loading[i].file = loading[j].file => i = j
        /\ \A i \in 2..n - 1 : loading[i].file # loading[n].file
        /\ n > 1 /\ here.file = loading[n].file => here.at \in {"local", "super"}
    BY <1>1 DEF Control, Stacked
  <2>5. \A i \in 1..n - 1 : i + 1 \in 2..n /\ (i + 1) - 1 = i
    BY <1>2
  <2>6. here'.at = "merge" /\ super' = loading[1].file
    <3>1. 2 \in 2..n /\ 2 - 1 = 1
      BY <2>1
    <3>2. loading[2].at = "merge" /\ input.super[loading[2].file] = loading[1].file
      BY <2>4, <3>1
    <3> QED
      BY <1>1, <2>2, <3>2 DEF super
  <2>7. loading[1].file # loading[n].file
    <3> SUFFICES ASSUME loading[1].file = loading[n].file
                 PROVE  FALSE
      OBVIOUS
    <3>1. n \in 2..n /\ n - 1 \in 1..n - 1 /\ n > 1
      BY <1>2, <2>1
    <3>2. here.at \in {"local", "super"}
      BY <1>2, <2>4, <3>1
    <3>3. super = None
      BY <1>1, <3>2
    <3>4. input.super[loading[n].file] \in files
      BY <2>4, <3>1
    <3>5. super \in Files
      BY <1>2, <3>4 DEF super, Typed
    <3> QED
      BY <3>3, <3>5, NamesAssumption
  <2>8. Len(loading') <= Cardinality(files) + 1
    <3>1. Cardinality(files) \in Nat
      BY NamesAssumption, FS_Subset, FS_CardinalityType DEF Typed
    <3> QED
      BY <1>2, <1>3, <2>4, <3>1
  <2>9. ASSUME NEW i \in 2..n - 1
        PROVE  loading'[i].at = "merge" /\ input.super[loading'[i].file] = loading'[i - 1].file
    <3>1. i \in 1..n - 1 /\ i - 1 \in 1..n - 1 /\ i + 1 \in 2..n /\ (i + 1) - 1 = i /\ (i - 1) + 1 = i
      BY <1>2
    <3>2. loading'[i] = loading[i + 1] /\ loading'[i - 1] = loading[i]
      BY <1>3, <3>1
    <3> QED
      BY <2>4, <3>1, <3>2
  <2>10. ASSUME NEW i \in 1..n - 2
         PROVE  loading'[i] = loading[i + 1] /\ i + 1 \in 1..n - 1 /\ loading'[i].file \in files
    <3>1. i \in 1..n - 1 /\ i + 1 \in 1..n - 1
      BY <1>2
    <3> QED
      BY <1>3, <2>4, <3>1
  <2>11. ASSUME NEW i \in 1..n - 2, NEW j \in 1..n - 2, loading'[i].file = loading'[j].file
         PROVE  i = j
    <3>1. i + 1 = j + 1
      BY <2>4, <2>10, <2>11
    <3> QED
      BY <3>1
  <2>12. ASSUME NEW i \in 1..n - 2
         PROVE  loading'[i].file # loading'[n - 1].file
    <3>1. i + 1 \in 2..n - 1 /\ n - 1 \in 1..n - 1 /\ (n - 1) + 1 = n
      BY <1>2, <2>1
    <3>2. loading'[n - 1] = loading[n]
      BY <1>3, <3>1
    <3> QED
      BY <2>4, <2>10, <3>1, <3>2
  <2>13. n - 1 > 1 => here'.file # loading'[n - 1].file
    <3> SUFFICES ASSUME n - 1 > 1
                 PROVE  here'.file # loading'[n - 1].file
      OBVIOUS
    <3>1. 1 \in 1..n - 2
      BY <1>2
    <3>2. here' = loading'[1]
      BY <1>3, <2>1, <2>2
    <3> QED
      BY <2>12, <3>1, <3>2
  <2>14. super' \in files
    BY <2>1, <2>4, <2>6
  <2>15. ASSUME NEW i \in 1..n - 1
         PROVE  super' # loading'[i].file
    <3>1. loading'[i] = loading[i + 1] /\ i + 1 \in 2..n
      BY <1>3, <2>5
    <3>2. CASE i = n - 1
      <4>1. i + 1 = n
        BY <1>2, <3>2
      <4> QED
        BY <2>6, <2>7, <3>1, <4>1
    <3>3. CASE i # n - 1
      <4>1. i + 1 \in 1..n - 1 /\ i + 1 # 1 /\ 1 \in 1..n - 1
        BY <1>2, <2>1, <3>3
      <4> QED
        BY <2>4, <2>6, <3>1, <4>1
    <3> QED
      BY <3>2, <3>3
  <2>16. (n - 1) - 1 = n - 2 /\ \A i \in 2..n - 2 : i \in 1..n - 2
    BY <1>2
  <2>17. Len(loading') = n - 1 /\ UNCHANGED <<input, followed, files>>
    BY <1>1, <1>3
  <2>18. Stacked'
    <3>1. /\ Len(loading') <= Cardinality(files') + 1
          /\ \A i \in 2..Len(loading') : /\ loading'[i].at = "merge"
                                         /\ input'.super[loading'[i].file] = loading'[i - 1].file
          /\ \A i \in 1..Len(loading') - 1 : loading'[i].file \in files'
          /\ \A i, j \in 1..Len(loading') - 1 : loading'[i].file = loading'[j].file => i = j
          /\ \A i \in 2..Len(loading') - 1 : loading'[i].file # loading'[Len(loading')].file
      BY <2>8, <2>9, <2>10, <2>11, <2>12, <2>16, <2>17
    <3>2. Len(loading') > 1 => here'.file # loading'[Len(loading')].file
      BY <2>13, <2>17
    <3>3. super' \in files' /\ \A i \in 1..Len(loading') : super' # loading'[i].file
      BY <2>14, <2>15, <2>17
    <3> QED
      BY <2>6, <3>1, <3>2, <3>3 DEF Stacked
  <2> QED
    BY <2>3, <2>18 DEF Control
<1> QED
  BY <1>4, <1>5

\* The repository is answered for once.
LEMMA RepoTwice ==
  Over([k \in {"MKN_REPO"} \cap Keys |-> Lit("MKN_REPO")], WithRepo) = WithRepo
<1> DEFINE R == [k \in {"MKN_REPO"} \cap Keys |-> Lit("MKN_REPO")]
<1>1. DOMAIN WithRepo = DOMAIN R \cup DOMAIN Early
      /\ \A k \in DOMAIN WithRepo : WithRepo[k] = IF k \in DOMAIN R THEN R[k] ELSE Early[k]
  <2> HIDE DEF R
  <2> QED
    BY DEF WithRepo, Over, R
<1>2. DOMAIN R \cup DOMAIN WithRepo = DOMAIN WithRepo
  BY <1>1
<1>3. Over(R, WithRepo) = [k \in DOMAIN WithRepo |-> IF k \in DOMAIN R THEN R[k] ELSE WithRepo[k]]
  <2> HIDE DEF R
  <2> QED
    BY <1>2 DEF Over
<1>4. WithRepo = [k \in DOMAIN WithRepo |-> WithRepo[k]]
  BY DEF WithRepo, Over
<1> HIDE DEF R
<1>5. Over(R, WithRepo) = WithRepo
  BY <1>1, <1>3, <1>4
<1> QED
  BY <1>5 DEF R

LEMMA ControlLoadSettings == Typed /\ Control /\ LoadSettings => Control'
<1> SUFFICES ASSUME Typed, Control, LoadSettings
             PROVE  Control'
  OBVIOUS
<1> DEFINE f == IF "-x" \in args THEN "x" ELSE User
<1>1. /\ loading = <<>> /\ at' = at + 1 /\ UNCHANGED <<input, call, pks, files, instance>>
      /\ IF "-x" \in args \/ instance = None
         THEN loading' = <<Open(f)>> ELSE UNCHANGED <<loading, ps>>
  BY Zenon DEF LoadSettings, In, Onward
<1>2. at = 2
  <2>1. phase = "settings"
    BY DEF LoadSettings, In
  <2> QED
    BY <2>1, PhaseAt, Zenon
<1>3. at' = 3
  BY <1>1, <1>2 DEF Typed
<1>4. Answers'
  BY <1>1, <1>2, <1>3 DEF Control, Answers
<1>5. CASE "-x" \in args \/ instance = None
  <2>1. f \in Files
    BY NamesAssumption
  <2>2. PICK g \in Frames : g = Open(f) /\ g.file = f /\ g.at = "local"
    <3> HIDE DEF f
    <3> QED
      BY <2>1, Opened
  <2>3. loading' = <<g>>
    <3> HIDE DEF f
    <3> QED
      BY <1>1, <1>5, <2>2
  <2>4. loading' # <<>> /\ Len(loading') = 1 /\ loading'[1] = g /\ here' = g
    BY <2>3 DEF here
  <2>5. Flow'
    BY <1>1, <1>2, <1>3, <1>5, <2>4 DEF Control, Flow
  <2>6. Stacked'
    <3>1. Cardinality(files) \in Nat
      BY NamesAssumption, FS_Subset, FS_CardinalityType DEF Typed
    <3>2. followed = {} => files = {}
      BY <1>2 DEF Control, Flow
    <3>3. /\ Len(loading') <= Cardinality(files') + 1
          /\ \A i \in 2..Len(loading') : FALSE
          /\ \A i \in 1..Len(loading') - 1 : FALSE
          /\ ~ (Len(loading') > 1)
      BY <1>1, <2>4, <3>1
    <3>4. followed' = {} => files' = {loading'[i].file : i \in 1..Len(loading') - 1}
      BY <1>1, <3>2, <3>3
    <3>5. here'.at = "local"
      BY <2>2, <2>4
    <3>6. \A i \in 2..Len(loading') - 1 : FALSE
      BY <2>4
    <3> QED
      BY <3>3, <3>4, <3>5, <3>6 DEF Stacked
  <2> QED
    BY <1>4, <2>5, <2>6 DEF Control
<1>6. CASE ~ ("-x" \in args \/ instance = None)
  <2>1. loading' = <<>> /\ instance' # None
    BY <1>1, <1>6
  <2>2. Flow' /\ Stacked'
    BY <1>1, <1>2, <1>3, <2>1 DEF Control, Flow, Stacked
  <2> QED
    BY <1>4, <2>2 DEF Control
<1> QED
  BY <1>5, <1>6

LEMMA ControlPostAppVars == Typed /\ Control /\ PostAppVars => Control'
<1> SUFFICES ASSUME Typed, Control, PostAppVars
             PROVE  Control'
  OBVIOUS
<1>1. /\ loading = <<>> /\ at' = at + 1
      /\ UNCHANGED <<input, call, loading, files, instance>>
      /\ pks' = Over([k \in {"MKN_REPO"} \cap Keys |-> Lit("MKN_REPO")], pks)
  BY DEF PostAppVars, In, Onward
<1>2. at = 3
  <2>1. phase = "appvars"
    BY DEF PostAppVars, In
  <2> QED
    BY <2>1, PhaseAt, Zenon
<1>3. at' = 4
  BY <1>1, <1>2 DEF Typed
<1>4. Flow' /\ Stacked'
  BY <1>1, <1>2, <1>3 DEF Control, Flow, Stacked
<1>5. pks' = WithRepo
  <2>1. CASE followed = {}
    <3>1. pks = Early
      BY <1>2, <2>1 DEF Control, Answers
    <3> QED
      BY <1>1, <3>1, Zenon DEF WithRepo
  <2>2. CASE followed # {}
    <3>1. pks = WithRepo
      BY <1>2, <2>2 DEF Control, Answers
    <3> QED
      BY <1>1, <3>1, RepoTwice, Zenon
  <2> QED
    BY <2>1, <2>2
<1>6. Answers'
  BY <1>3, <1>5 DEF Answers
<1> QED
  BY <1>4, <1>6 DEF Control

LEMMA ControlPostSettings == Typed /\ Control /\ PostSettings => Control'
<1> SUFFICES ASSUME Typed, Control, PostSettings
             PROVE  Control'
  OBVIOUS
<1>1. CASE PostFails(instance)
  BY <1>1, PostFailsCause, ControlSame DEF Ends, statics
<1>2. CASE /\ Onward
           /\ UNCHANGED <<input, status, call, loading, noted, pks, files, instance>>
  <2>1. loading = <<>> /\ phase = "post"
    BY DEF PostSettings, In
  <2>2. at = 4
    BY <2>1, PhaseAt, Zenon
  <2>3. input'.line = input.line /\ input'.override = input.override
    BY <1>2
  <2> QED
    BY <1>2, <2>1, <2>2, <2>3, ControlOnward
<1> QED
  BY <1>1, <1>2 DEF PostSettings

LEMMA ControlFindYaml == Typed /\ Control /\ FindYaml => Control'
<1> SUFFICES ASSUME Typed, Control, FindYaml
             PROVE  Control'
  OBVIOUS
<1>1. CASE Ends("exists")
  BY <1>1, ControlSame DEF Ends, statics
<1>2. CASE ~ Ends("exists")
  <2>1. loading = <<>> /\ phase = "yaml" /\ Onward /\ UNCHANGED <<followed, args, to, loading, statics>>
    BY <1>2, FindYamlFacts DEF FindYaml, In
  <2>2. at = 5
    BY <2>1, PhaseAt, Zenon
  <2>3. input'.override = input.override
    BY FindYamlInput
  <2> QED
    BY <2>1, <2>2, <2>3, ControlOnward DEF statics
<1> QED
  BY <1>1, <1>2

LEMMA ControlDefaultLine == Typed /\ Control /\ DefaultLine => Control'
<1> SUFFICES ASSUME Typed, Control, DefaultLine
             PROVE  Control'
  OBVIOUS
<1>0. loading = <<>> /\ at = 6 /\ UNCHANGED <<input, loading, statics>>
  BY DefaultLineFacts
<1>1. CASE followed' = followed \cup {yml} /\ at' = 1
  <2>1. instance # None /\ followed' # {}
    BY <1>0, <1>1 DEF Control, Flow
  <2>2. Flow' /\ Stacked'
    BY <1>0, <1>1, <2>1 DEF Flow, Stacked, statics
  <2>3. pks = WithRepo
    BY <1>0 DEF Control, Answers
  <2>4. Answers'
    BY <1>0, <1>1, <2>1, <2>3 DEF Answers, statics
  <2> QED
    BY <2>2, <2>4 DEF Control
<1>2. CASE UNCHANGED <<followed, args, to, at>>
  BY <1>0, <1>2, ControlSame DEF statics
<1>3. CASE Onward /\ UNCHANGED <<followed, args, to>>
  <2>1. input'.override = input.override
    BY <1>0
  <2> QED
    BY <1>0, <1>3, <2>1, ControlOnward DEF statics
<1> QED
  BY <1>1, <1>2, <1>3, DefaultLineFacts

LEMMA ControlPlain == Typed /\ Control /\ Plain => Control'
<1> SUFFICES ASSUME Typed, Control, Plain
             PROVE  Control'
  OBVIOUS
<1>0. /\ loading = <<>>
      /\ phase \in {"verbose", "profiles", "flags", "overrides", "commands", "queries", "threads", "printing"}
      /\ UNCHANGED <<input, call, loading, files, instance, ps, env>>
  BY DEF Plain, In
<1>1. at \in {1, 7, 8, 9, 10, 12, 13, 14} /\ (phase = "overrides" <=> at = 9)
  BY <1>0, PhaseAt, Zenon
<1>2. CASE phase = "flags" /\ {"-S", "-K"} \subseteq args
  <2>1. UNCHANGED <<at, noted, pks>>
    BY <1>2 DEF Plain
  <2> QED
    BY <1>0, <2>1, ControlSame
<1>3. CASE ~ (phase = "flags" /\ {"-S", "-K"} \subseteq args)
  <2>1. /\ Onward
        /\ pks' = IF phase = "overrides" /\ "-P" \in args
                  THEN Over(input.override, pks) ELSE pks
    BY <1>3 DEF Plain
  <2>2. CASE at # 9
    <3>1. pks' = pks
      BY <1>1, <2>1, <2>2
    <3>2. at \notin {2, 3, 9} /\ input'.line = input.line /\ input'.override = input.override
      BY <1>0, <1>1, <2>2
    <3> QED
      BY <1>0, <2>1, <3>1, <3>2, ControlOnward
  <2>3. CASE at = 9
    <3>1. pks = WithRepo
      BY <2>3 DEF Control, Answers
    <3>2. at' = 10
      BY <2>1, <2>3 DEF Onward
    <3>3. Flow' /\ Stacked'
      BY <1>0, <2>3, <3>2 DEF Control, Flow, Stacked
    <3>4. phase = "overrides"
      BY <1>1, <2>3
    <3>5. pks' = IF "-P" \in args THEN Over(input.override, WithRepo) ELSE WithRepo
      BY <2>1, <3>1, <3>4, Zenon
    <3>6. Answers'
      BY <1>0, <3>2, <3>5 DEF Answers
    <3> QED
      BY <3>3, <3>6 DEF Control
  <2> QED
    BY <2>2, <2>3
<1> QED
  BY <1>2, <1>3

LEMMA ControlRoots == Typed /\ Control /\ instance \in Files /\ Roots => Control'
<1> SUFFICES ASSUME Typed, Control, instance \in Files, Roots
             PROVE  Control'
  OBVIOUS
<1>1. CASE \E why \in {"undefined", "overflow"} : Ends(why)
  BY <1>1, ControlSame DEF Ends, statics
<1>2. CASE ~ \E why \in {"undefined", "overflow"} : Ends(why)
  <2>1. Onward /\ UNCHANGED <<input, status, call, loading, pks, files, instance, env>>
    BY <1>2, RootsOnward
  <2>2. loading = <<>> /\ phase = "roots"
    BY DEF Roots, In
  <2>3. at = 11
    BY <2>2, PhaseAt, Zenon
  <2>4. input'.line = input.line /\ input'.override = input.override
    BY <2>1
  <2> QED
    BY <2>1, <2>2, <2>3, <2>4, ControlOnward
<1> QED
  BY <1>1, <1>2

LEMMA ControlFacts ==
  ASSUME Typed, Control
  PROVE  /\ loading # <<>> /\ here.at \in {"merge", "mask"} => super \in Files
         /\ loading = <<>> /\ at > 2 => instance \in Files
<1>1. files \subseteq Files /\ instance \in Files \cup {None}
  BY DEF Typed
<1> QED
  BY <1>1 DEF Control, Flow, Stacked

LEMMA TypedControlStep == Typed /\ Control /\ [Next]_vars => Typed' /\ Control'
<1> SUFFICES ASSUME Typed, Control, [Next]_vars
             PROVE  Typed' /\ Control'
  OBVIOUS
<1>1. CASE LocalRepo
  BY <1>1, TypedLocalRepo, ControlLocalRepo
<1>2. CASE LoadSuper
  BY <1>2, TypedLoadSuper, ControlLoadSuper
<1>3. CASE BadSuper
  BY <1>3, TypedBadSuper, ControlSame DEF BadSuper, Ends, statics
<1>4. CASE MergeSuper
  <2>1. super \in Files
    BY <1>4, ControlFacts DEF MergeSuper, Loading
  <2> QED
    BY <1>4, <2>1, TypedMergeSuper, ControlMergeSuper
<1>5. CASE Constructed
  BY <1>5, TypedConstructed, ControlConstructed
<1>6. CASE Refuse \/ Answer
  BY <1>6, TypedRefuse, ControlSame DEF Refuse, Answer, Ends, statics
<1>7. CASE LoadSettings
  BY <1>7, TypedLoadSettings, ControlLoadSettings
<1>8. CASE PostAppVars
  BY <1>8, TypedPostAppVars, ControlPostAppVars
<1>9. CASE PostSettings
  <2>1. loading = <<>> /\ phase = "post"
    BY <1>9 DEF PostSettings, In
  <2>2. at = 4
    BY <2>1, PhaseAt, Zenon
  <2>3. instance \in Files
    BY <2>1, <2>2, ControlFacts
  <2> QED
    BY <1>9, <2>3, TypedPostSettings, ControlPostSettings
<1>10. CASE FindYaml
  BY <1>10, TypedFindYaml, ControlFindYaml
<1>11. CASE DefaultLine
  BY <1>11, TypedDefaultLine, ControlDefaultLine
<1>12. CASE Plain
  BY <1>12, TypedPlain, ControlPlain
<1>13. CASE Roots
  <2>1. loading = <<>> /\ phase = "roots"
    BY <1>13 DEF Roots, In
  <2>2. at = 11
    BY <2>1, PhaseAt, Zenon
  <2>3. instance \in Files
    BY <2>1, <2>2, ControlFacts
  <2> QED
    BY <1>13, <2>3, TypedRoots, ControlRoots
<1>14. CASE Nodes
  BY <1>14, TypedNodes, ControlSame DEF Nodes, statics
<1>15. CASE UNCHANGED vars
  <2>1. Typed'
    BY <1>15 DEF Typed, vars, statics
  <2> QED
    BY <1>15, <2>1, ControlSame DEF vars, statics
<1> QED
  BY <1>1, <1>2, <1>3, <1>4, <1>5, <1>6, <1>7, <1>8, <1>9, <1>10, <1>11, <1>12, <1>13, <1>14, <1>15
     DEF Next, Step, Ended

LEMMA TypedControlInit == Init => Typed /\ Control
<1> SUFFICES ASSUME Init
             PROVE  Typed /\ Control
  OBVIOUS
<1>1. input \in Worlds
  BY InputsAssumption DEF Init
<1>2. args \in SUBSET STRING
  BY <1>1 DEF Init, Worlds
<1>3. pks = Early /\ pks \in Sources
  BY AnswerTables, TablesAreSources DEF Init, Early
<1>4. ps \in [Holders -> Tables]
  BY EmptyTable DEF Init, Holders
<1>5. loading \in Seq(Frames) /\ env \in Seq(Literals)
  BY DEF Init
<1>6. to \in Targets /\ yml \in Places
  BY <1>1 DEF Init, Worlds, Places
<1>8. followed \in SUBSET Yamls /\ at \in 1..Len(Phases) /\ ~ (at > 5)
  BY Fifteen DEF Init
<1>9. Typed
  BY <1>1, <1>2, <1>3, <1>4, <1>5, <1>6, <1>8 DEF Init, Typed, Causes
<1>7. Control
  BY <1>3 DEF Init, Control, Flow, Stacked, Answers
<1> QED
  BY <1>7, <1>9

\* Only the last phase ends well.
AtEnd == status = "done" => loading = <<>> /\ at = 15

LEMMA AtEndStep == Typed /\ AtEnd /\ [Next]_vars => AtEnd'
<1> SUFFICES ASSUME Typed, AtEnd, [Next]_vars
             PROVE  AtEnd'
  OBVIOUS
<1>1. CASE LocalRepo
  BY <1>1 DEF LocalRepo, Loading, quiet, Ends, AtEnd
<1>2. CASE LoadSuper
  BY <1>2 DEF LoadSuper, Loading, AtEnd
<1>3. CASE BadSuper
  BY <1>3 DEF BadSuper, Ends, AtEnd
<1>4. CASE MergeSuper
  BY <1>4, PostFailsCause DEF MergeSuper, Loading, quiet, Ends, AtEnd
<1>5. CASE Constructed
  BY <1>5 DEF Constructed, Loading, quiet, AtEnd
<1>6. CASE Refuse \/ Answer
  BY <1>6 DEF Refuse, Answer, Ends, AtEnd
<1>7. CASE LoadSettings \/ PostAppVars
  BY <1>7 DEF LoadSettings, PostAppVars, In, AtEnd
<1>8. CASE PostSettings
  BY <1>8, PostFailsCause DEF PostSettings, In, Ends, AtEnd
<1>9. CASE FindYaml
  BY <1>9, FindYamlFacts DEF Ends, AtEnd
<1>10. CASE DefaultLine
  <2>1. status' \in {"run", "overflow"}
    BY <1>10, DefaultLineFacts
  <2> QED
    BY <2>1 DEF AtEnd
<1>11. CASE Plain
  <2>1. status' \in {"run", "refused"}
    BY <1>11, Zenon DEF Plain, In
  <2> QED
    BY <2>1 DEF AtEnd
<1>12. CASE Roots
  <2>1. status' = status \/ \E why \in {"undefined", "overflow", "done"} : why # "done" /\ Ends(why)
    BY <1>12 DEF Roots, Bad
  <2> QED
    BY <1>12, <2>1 DEF Roots, In, Ends, AtEnd
<1>13. CASE Nodes
  <2>1. loading = <<>> /\ phase = "nodes" /\ UNCHANGED <<at, loading>>
    BY <1>13 DEF Nodes, In
  <2>2. at = 15
    BY <2>1, PhaseAt, Zenon
  <2> QED
    BY <2>1, <2>2 DEF AtEnd
<1>14. CASE UNCHANGED vars
  BY <1>14 DEF vars, AtEnd
<1> QED
  BY <1>1, <1>2, <1>3, <1>4, <1>5, <1>6, <1>7, <1>8, <1>9, <1>10, <1>11, <1>12, <1>13, <1>14
     DEF Next, Step, Ended

LEMMA TypedInvariant == Spec => [](Typed /\ Control /\ AtEnd)
<1>1. Init => AtEnd
  BY DEF Init, AtEnd
<1> QED
  BY <1>1, AtEndStep, TypedControlInit, TypedControlStep, PTL DEF Spec

\* Every variable keeps its type, and start-up hands on no reference
\* (Properties::RESOLVE, Settings::resolveProperties, getOrCreateRoot).
THEOREM TypeCorrect == Spec => []TypeOK
<1>1. Typed /\ Control /\ AtEnd => TypeOK
  <2> SUFFICES ASSUME Typed, Control, AtEnd
               PROVE  TypeOK
    OBVIOUS
  <2>1. DOMAIN pks \subseteq Keys
    BY DEF Typed, Sources, Some
  <2>2. ASSUME NEW f \in Holders, NEW k \in DOMAIN ps[f]
        PROVE  k \in Keys /\ ps[f][k] \in Values /\ ps[f][k].ref = None
    <3>1. ps[f] \in Tables
      BY WorldFacts
    <3> QED
      BY <2>2, <3>1, TableFacts, LiteralFacts
  <2>3. status = "done" => instance \in Holders /\ App \in Holders
    BY ControlFacts, WorldFacts DEF AtEnd
  <2>4. \A i \in DOMAIN env : env[i] \in Values /\ env[i].ref = None
    <3>1. \A i \in DOMAIN env : env[i] \in Literals
      BY DEF Typed
    <3> QED
      BY <3>1, LiteralFacts
  <2>5. \A i \in DOMAIN loading : loading[i].file \in Files
    <3>1. ASSUME NEW i \in DOMAIN loading
          PROVE  loading[i].file \in Files
      <4>1. loading[i] \in Frames
        BY DEF Typed
      <4> QED
        BY <4>1 DEF Frames
    <3> QED
      BY <3>1
  <2>6. \A f \in Files \cup {App} : \A k \in DOMAIN ps[f] : k \in Keys /\ ps[f][k] \in Values
    BY <2>2 DEF Holders
  <2>7. status = "done" => \A f \in {instance, App} : \A k \in DOMAIN ps[f] : ps[f][k].ref = None
    BY <2>2, <2>3
  <2> QED
    BY <2>1, <2>4, <2>5, <2>6, <2>7 DEF TypeOK, Typed, Causes
<1> QED
  BY <1>1, TypedInvariant, PTL

-----------------------------------------------------------------------------
(* Chains of settings files.                                               *)

Up(g) == IF g = App THEN instance ELSE input.super[g]

Goes(s) == Up(s[Len(s)]) \in Files /\ Len(s) <= Cardinality(Files)

Climb == CHOOSE C : C = [s \in Seq(Holders) |-> IF Goes(s) THEN C[Append(s, Up(s[Len(s)]))] ELSE s]

LEMMA ChainIs == \A f : Chain(f) = Climb[<<f>>]
BY Zenon DEF Chain, Climb, Goes, Up, Holders

LEMMA ClimbDef ==
  /\ Climb \in [Seq(Holders) -> Seq(Holders)]
  /\ \A s \in Seq(Holders) : Climb[s] = IF Goes(s) THEN Climb[Append(s, Up(s[Len(s)]))] ELSE s
<1> DEFINE S == Seq(Holders)
           N == Cardinality(Files) + 1
           rank == [s \in S |-> IF Len(s) <= Cardinality(Files) THEN N - Len(s) ELSE 0]
           H == [s \in S |-> [g \in [S -> S] |-> IF Goes(s) THEN g[Append(s, Up(s[Len(s)]))] ELSE s]]
<1>1. rank \in [S -> 0..N]
  <2>1. \A s \in S : Len(s) \in Nat
    OBVIOUS
  <2> QED
    BY <2>1, Sizes
<1>2. ASSUME NEW s \in S, Goes(s)
      PROVE  /\ Append(s, Up(s[Len(s)])) \in S
             /\ rank[Append(s, Up(s[Len(s)]))] < rank[s]
  <2>1. Up(s[Len(s)]) \in Holders /\ Len(s) \in Nat /\ Len(s) <= Cardinality(Files)
    BY <1>2 DEF Goes, Holders
  <2>2. Append(s, Up(s[Len(s)])) \in S /\ Len(Append(s, Up(s[Len(s)]))) = Len(s) + 1
    BY <2>1, AppendProperties
  <2> DEFINE t == Append(s, Up(s[Len(s)]))
  <2> HIDE DEF t
  <2>3. t \in S /\ Len(t) = Len(s) + 1
    BY <2>2 DEF t
  <2>4. rank[t] < rank[s]
    BY <2>1, <2>3, Sizes
  <2> QED
    BY <2>3, <2>4 DEF t
<1>3. H \in [S -> [[S -> S] -> S]]
  <2> HIDE DEF S
  <2> QED
    BY <1>2
<1>4. ASSUME NEW s \in S, NEW g \in [S -> S], NEW h \in [S -> S],
             \A t \in S : rank[t] < rank[s] => g[t] = h[t]
      PROVE  H[s][g] = H[s][h]
  <2>1. Goes(s) => g[Append(s, Up(s[Len(s)]))] = h[Append(s, Up(s[Len(s)]))]
    <3> HIDE DEF S, rank
    <3> QED
      BY <1>2, <1>4
  <2> HIDE DEF S, rank
  <2> QED
    BY <2>1
<1>5. Ranked(S, S, N, rank, H)
  <2>1. S # {}
    <3>1. <<>> \in S
      OBVIOUS
    <3> QED
      BY <3>1
  <2>2. N \in Nat
    BY Sizes
  <2> HIDE DEF S, N, rank, H
  <2> QED
    BY <1>1, <1>3, <1>4, <2>1, <2>2 DEF Ranked
<1>6. \E f \in [S -> S] : f = [s \in S |-> H[s][f]]
  <2> HIDE DEF S, N, rank, H
  <2> QED
    BY <1>5, RankedRecursion
<1>7. \E f \in [S -> S] : f = [s \in S |-> IF Goes(s) THEN f[Append(s, Up(s[Len(s)]))] ELSE s]
  <2>1. PICK f \in [S -> S] : f = [s \in S |-> H[s][f]]
    BY <1>6
  <2>2. \A s \in S : H[s][f] = IF Goes(s) THEN f[Append(s, Up(s[Len(s)]))] ELSE s
    <3> HIDE DEF S
    <3> QED
      OBVIOUS
  <2> HIDE DEF H, S
  <2> QED
    BY <2>1, <2>2
<1>8. Climb = [s \in S |-> IF Goes(s) THEN Climb[Append(s, Up(s[Len(s)]))] ELSE s]
  BY <1>7, ZenonT(30) DEF Climb
<1>9. \A s \in S : Climb[s] = IF Goes(s) THEN Climb[Append(s, Up(s[Len(s)]))] ELSE s
  <2> HIDE DEF S
  <2> QED
    BY <1>8
<1> DEFINE T == {s \in S : Climb[s] \in S}
<1>10. S \subseteq T
  <2>1. ASSUME NEW s \in S, \A t \in S : rank[t] < rank[s] => t \in T
        PROVE  s \in T
    <3> HIDE DEF S, rank
    <3> QED
      BY <1>2, <1>9, <2>1
  <2>2. \A s \in S : rank[s] \in Nat
    BY <1>1
  <2> HIDE DEF S, rank, T
  <2> QED
    BY <2>1, <2>2, RankInduction
<1>11. Climb \in [S -> S]
  <2> HIDE DEF S
  <2> QED
    BY <1>8, <1>10
<1> QED
  BY <1>9, <1>11

\* What the chain of s is, from where s ends.
Climbed(s, c) ==
  /\ c \in Seq(Holders) /\ Len(s) <= Len(c)
  /\ \A i \in 1..Len(s) : c[i] = s[i]
  /\ \A i \in Len(s)..Len(c) - 1 : c[i + 1] = Up(c[i]) /\ c[i + 1] \in Files
  /\ Len(c) > Cardinality(Files) \/ Up(c[Len(c)]) \notin Files

LEMMA ClimbFacts ==
  ASSUME NEW s \in Seq(Holders), s # <<>>
  PROVE  Climbed(s, Climb[s])
<1> DEFINE S == Seq(Holders)
           rank == [t \in S |-> IF Len(t) <= Cardinality(Files) THEN Cardinality(Files) + 1 - Len(t) ELSE 0]
           T == {t \in S : t # <<>> => Climbed(t, Climb[t])}
<1>1. \A t \in S : rank[t] \in Nat
  <2>1. \A t \in S : Len(t) \in Nat
    OBVIOUS
  <2> QED
    BY <2>1, Sizes
<1>2. ASSUME NEW t \in S, \A u \in S : rank[u] < rank[t] => u \in T
      PROVE  t \in T
  <2> SUFFICES ASSUME t # <<>>
               PROVE  Climbed(t, Climb[t])
    OBVIOUS
  <2>1. Len(t) \in Nat /\ Len(t) >= 1 /\ \A i \in 1..Len(t) : t[i] \in Holders
    BY EmptySeq
  <2>2. Climb[t] \in S /\ Climb[t] = IF Goes(t) THEN Climb[Append(t, Up(t[Len(t)]))] ELSE t
    BY ClimbDef
  <2>3. CASE ~ Goes(t)
    <3>1. Climb[t] = t
      BY <2>2, <2>3
    <3>2. Len(t) > Cardinality(Files) \/ Up(t[Len(t)]) \notin Files
      BY <2>1, <2>3, Sizes DEF Goes
    <3>3. Climbed(t, t)
      BY <2>1, <3>2 DEF Climbed
    <3> QED
      BY <3>1, <3>3
  <2>4. CASE Goes(t)
    <3> DEFINE u == Append(t, Up(t[Len(t)]))
               c == Climb[u]
    <3>1. Up(t[Len(t)]) \in Holders /\ Up(t[Len(t)]) \in Files /\ Len(t) <= Cardinality(Files)
      BY <2>4 DEF Goes, Holders
    <3>2. /\ u \in S /\ Len(u) = Len(t) + 1
          /\ \A i \in 1..Len(t) : u[i] = t[i]
          /\ u[Len(t) + 1] = Up(t[Len(t)])
      BY <3>1, AppendProperties
    <3>3. Climb[t] = c
      BY <2>2, <2>4
    <3> HIDE DEF u
    <3>4. rank[u] < rank[t]
      BY <2>1, <3>1, <3>2, Sizes
    <3>5. u \in T
      <4> HIDE DEF S, T, rank
      <4> QED
        BY <1>2, <3>2, <3>4
    <3>6. u # <<>>
      BY <2>1, <3>2
    <3>7. Climbed(u, c)
      BY <3>5, <3>6
    <3> HIDE DEF c
    <3>8. /\ c \in Seq(Holders) /\ Len(t) + 1 <= Len(c)
          /\ \A i \in 1..Len(t) + 1 : c[i] = u[i]
          /\ \A i \in Len(t) + 1..Len(c) - 1 : c[i + 1] = Up(c[i]) /\ c[i + 1] \in Files
          /\ Len(c) > Cardinality(Files) \/ Up(c[Len(c)]) \notin Files
      BY <3>2, <3>7 DEF Climbed
    <3>9. ASSUME NEW i \in Len(t)..Len(c) - 1
          PROVE  c[i + 1] = Up(c[i]) /\ c[i + 1] \in Files
      <4>1. CASE i = Len(t)
        <5>1. Len(t) \in 1..Len(t) /\ Len(t) \in 1..Len(t) + 1 /\ Len(t) + 1 \in 1..Len(t) + 1
          BY <2>1
        <5>2. c[Len(t)] = t[Len(t)] /\ c[Len(t) + 1] = Up(t[Len(t)])
          BY <3>2, <3>8, <5>1
        <5> QED
          BY <3>1, <4>1, <5>2
      <4>2. CASE i # Len(t)
        <5>1. i \in Len(t) + 1..Len(c) - 1
          BY <2>1, <4>2
        <5> QED
          BY <3>8, <5>1
      <4> QED
        BY <4>1, <4>2
    <3>10. \A i \in 1..Len(t) : c[i] = t[i]
      <4>1. \A i \in 1..Len(t) : i \in 1..Len(t) + 1
        BY <2>1
      <4> QED
        BY <3>2, <3>8, <4>1
    <3>11. Len(c) \in Nat /\ Len(t) <= Len(c)
      BY <2>1, <3>8
    <3>12. Climbed(t, c)
      BY <3>8, <3>9, <3>10, <3>11 DEF Climbed
    <3> QED
      BY <3>3, <3>12
  <2> QED
    BY <2>3, <2>4
<1>3. S \subseteq T
  <2> HIDE DEF S, T, rank
  <2> QED
    BY <1>1, <1>2, RankInduction
<1> QED
  BY <1>3

LEMMA ChainFacts ==
  ASSUME NEW f \in Holders
  PROVE  LET c == Chain(f) IN
         /\ c \in Seq(Holders) /\ Len(c) \in Nat /\ Len(c) >= 1 /\ c[1] = f
         /\ \A i \in 1..Len(c) - 1 : c[i + 1] = Up(c[i]) /\ c[i + 1] \in Files
         /\ Len(c) > Cardinality(Files) \/ Up(c[Len(c)]) \notin Files
<1> DEFINE c == Chain(f)
           s == <<f>>
<1>1. s \in Seq(Holders) /\ s # <<>> /\ Len(s) = 1 /\ s[1] = f
  OBVIOUS
<1>2. c = Climb[s]
  BY ChainIs
<1> HIDE DEF c, s
<1>3. Climbed(s, c)
  BY <1>1, <1>2, ClimbFacts
<1>4. c \in Seq(Holders) /\ Len(c) \in Nat /\ Len(c) >= 1 /\ c[1] = f
  BY <1>1, <1>3 DEF Climbed
<1> QED
  BY <1>1, <1>3, <1>4 DEF Climbed, c

\* A path of references to supers, if it is no longer than a chain may be, is how
\* the chain of its first file begins.
LEMMA ChainBegins ==
  ASSUME NEW t \in Seq(Holders), t # <<>>, Len(t) <= Cardinality(Files) + 1,
         \A i \in 1..Len(t) - 1 : t[i + 1] = Up(t[i]) /\ t[i + 1] \in Files
  PROVE  Len(t) <= Len(Chain(t[1])) /\ \A i \in 1..Len(t) : Chain(t[1])[i] = t[i]
<1>1. Len(t) \in Nat /\ Len(t) >= 1 /\ t[1] \in Holders
  BY EmptySeq
<1> DEFINE c == Chain(t[1])
<1>2. /\ Len(c) \in Nat /\ Len(c) >= 1 /\ c[1] = t[1]
      /\ \A i \in 1..Len(c) - 1 : c[i + 1] = Up(c[i]) /\ c[i + 1] \in Files
      /\ Len(c) > Cardinality(Files) \/ Up(c[Len(c)]) \notin Files
  BY <1>1, ChainFacts
<1> HIDE DEF c
<1> DEFINE T == {n \in Nat : n + 1 <= Len(t) => n + 1 <= Len(c) /\ c[n + 1] = t[n + 1]}
<1>3. 0 \in T
  BY <1>2
<1>4. ASSUME NEW n \in Nat, n \in T
      PROVE  n + 1 \in T
  <2> SUFFICES ASSUME n + 2 <= Len(t)
               PROVE  n + 2 <= Len(c) /\ c[n + 2] = t[n + 2]
    BY (n + 1) + 1 = n + 2
  <2>1. n + 1 <= Len(c) /\ c[n + 1] = t[n + 1]
    BY <1>1, <1>4
  <2>2. n + 1 \in 1..Len(t) - 1 /\ (n + 1) + 1 = n + 2
    BY <1>1
  <2>3. t[n + 2] = Up(t[n + 1]) /\ t[n + 2] \in Files
    BY <2>2
  <2>4. n + 1 # Len(c)
    <3> SUFFICES ASSUME n + 1 = Len(c)
                 PROVE  FALSE
      OBVIOUS
    <3>1. ~ (Len(c) > Cardinality(Files))
      BY <1>1, Sizes
    <3> QED
      BY <1>2, <2>1, <2>3, <3>1
  <2>5. n + 1 \in 1..Len(c) - 1 /\ n + 2 <= Len(c)
    BY <1>2, <2>1, <2>4
  <2> QED
    BY <1>2, <2>1, <2>2, <2>3, <2>5
<1>5. Nat \subseteq T
  <2> HIDE DEF T
  <2> QED
    BY <1>3, <1>4, SetInduction
<1>6. ASSUME NEW i \in 1..Len(t)
      PROVE  i <= Len(c) /\ c[i] = t[i]
  <2>1. i - 1 \in Nat /\ (i - 1) + 1 = i /\ i <= Len(t)
    BY <1>1
  <2>2. i - 1 \in T
    <3> HIDE DEF T
    <3> QED
      BY <1>5, <2>1
  <2> QED
    BY <2>1, <2>2
<1>7. Len(t) \in 1..Len(t)
  BY <1>1
<1> QED
  BY <1>6, <1>7 DEF c

-----------------------------------------------------------------------------
(* Endings have a cause.                                                   *)

\* A way from f back to f, no longer than a chain may be.
Circle(sup, f) ==
  \E c \in Seq(Files) :
    /\ Len(c) > 1 /\ Len(c) <= Cardinality(Files) + 1 /\ c[1] = f /\ c[Len(c)] = f
    /\ \A i \in 1..Len(c) - 1 : c[i + 1] = sup[c[i]]

\* References that go round somewhere.
LoopHere == \/ \E f \in Files : Looping(Own(f))
            \/ Looping(Over(Said, input.scalar))
            \/ Looping(Over(Said, Over(Own(App), input.scalar)))

\* EndsForCause, in the same words for every state.
Cause ==
  /\ status = "overflow" => LoopHere \/ Endless
  /\ status = "cycle" => \/ \E f \in Files : Circle(input.super, f)
                         \/ followed # {} /\ "-x" \in args

\* The default commands that were followed lead one to the next, and the last to the
\* yaml file that is found, once it is.
Trail ==
  status = "run" /\ Alone(args) /\ followed # {} =>
    /\ at > 5 => \A y \in followed : \E z \in followed \cup {yml} : Leads(y, z)
    /\ ~ (at > 5) => /\ yml \in followed /\ input.line[yml] # <<>>
                     /\ args = input.line[yml][1].options /\ to = input.line[yml][1].to
                     /\ \A y \in followed \ {yml} : \E z \in followed : Leads(y, z)

LEMMA LeadsSame == ASSUME UNCHANGED input PROVE \A y, z : Leads(y, z)' <=> Leads(y, z)
BY DEF Leads, Found, Alone

LEMMA TrailKeeps ==
  ASSUME Trail, UNCHANGED <<input, call>>, at' > 5 <=> at > 5, status' = "run" => status = "run"
  PROVE  Trail'
<1>1. \A y, z : Leads(y, z)' <=> Leads(y, z)
  BY LeadsSame
<1> QED
  BY <1>1 DEF Trail, Alone

LEMMA TrailFindYaml == Typed /\ Trail /\ FindYaml => Trail'
<1> SUFFICES ASSUME Typed, Trail, FindYaml, (status = "run" /\ Alone(args) /\ followed # {})'
             PROVE  /\ (at > 5)'
                    /\ (\A y \in followed : \E z \in followed \cup {yml} : Leads(y, z))'
  BY DEF Trail
<1>1. loading = <<>> /\ phase = "yaml" /\ status = "run"
  BY DEF FindYaml, In
<1>2. at = 5
  BY <1>1, PhaseAt, Zenon
<1>3. ~ Ends("exists")
  BY DEF Ends
<1>4. /\ Onward /\ UNCHANGED <<followed, args, to>> /\ Found(input'.ymls, yml.dir, args, to) = {yml'}
  BY <1>3, FindYamlFacts
<1>5. Alone(args) /\ followed # {} /\ "init" \notin args
  BY <1>4 DEF Alone
<1>6. input' = input
  BY <1>5, FindYamlInput
<1>7. /\ yml \in followed /\ input.line[yml] # <<>>
      /\ args = input.line[yml][1].options /\ to = input.line[yml][1].to
      /\ \A y \in followed \ {yml} : \E z \in followed : Leads(y, z)
  BY <1>1, <1>2, <1>5 DEF Trail
<1>8. Leads(yml, yml')
  BY <1>4, <1>5, <1>6, <1>7 DEF Leads
<1>9. \A y \in followed : \E z \in followed \cup {yml'} : Leads(y, z)
  BY <1>7, <1>8
<1>10. at' > 5
  BY <1>2, <1>4 DEF Onward
<1>11. \A y, z : Leads(y, z)' <=> Leads(y, z)
  BY <1>6, LeadsSame
<1> QED
  BY <1>4, <1>9, <1>10, <1>11

LEMMA TrailDefaultLine == Typed /\ Trail /\ DefaultLine => Trail'
<1> SUFFICES ASSUME Typed, Trail, DefaultLine
             PROVE  Trail'
  OBVIOUS
<1>0. at = 6 /\ status = "run" /\ UNCHANGED <<input, yml>> /\ \A y, z : Leads(y, z)' <=> Leads(y, z)
  BY DefaultLineFacts, LeadsSame
<1>1. CASE /\ Alone(args) /\ followed' = followed \cup {yml} /\ input.line[yml] # <<>>
           /\ args' = input.line[yml][1].options /\ to' = input.line[yml][1].to /\ at' = 1
  <2>1. \A y \in followed : \E z \in followed \cup {yml} : Leads(y, z)
    BY <1>0, <1>1 DEF Trail
  <2>2. \A y \in followed' \ {yml'} : \E z \in followed' : Leads(y, z)'
    BY <1>0, <1>1, <2>1
  <2>3. yml' \in followed' /\ ~ (at' > 5) /\ input'.line[yml'] # <<>>
        /\ args' = input'.line[yml'][1].options /\ to' = input'.line[yml'][1].to
    BY <1>0, <1>1
  <2> QED
    BY <2>2, <2>3 DEF Trail
<1>2. CASE status' = "overflow"
  BY <1>2 DEF Trail
<1>3. CASE Onward /\ UNCHANGED <<status, followed, args, to>>
  <2>1. at' > 5 /\ at > 5
    BY <1>0, <1>3 DEF Onward
  <2> QED
    BY <1>0, <1>3, <2>1, TrailKeeps
<1> QED
  BY <1>1, <1>2, <1>3, DefaultLineFacts

LEMMA TrailOnward ==
  ASSUME Typed, Trail, In(phase), phase \notin {"nodes", "yaml"}, Onward, UNCHANGED <<input, call>>
  PROVE  Trail'
<1>1. status = "run" /\ (phase = "yaml" <=> at = 5) /\ at \in 1..15
  BY PhaseAt, Zenon DEF In
<1>2. at' > 5 <=> at > 5
  BY <1>1 DEF Onward
<1> QED
  BY <1>1, <1>2, TrailKeeps

LEMMA TrailEnds ==
  ASSUME Trail, NEW why \in Causes, Ends(why), status = "run"
  PROVE  Trail'
BY TrailKeeps DEF Ends

LEMMA TrailStep == Typed /\ Control /\ Trail /\ [Next]_vars => Trail'
<1> SUFFICES ASSUME Typed, Control, Trail, [Next]_vars
             PROVE  Trail'
  OBVIOUS
<1>1. CASE LocalRepo \/ BadSuper \/ Constructed \/ Refuse \/ Answer \/ Nodes \/ UNCHANGED vars
  <2>1. UNCHANGED <<input, call, at>> /\ (status' = "run" => status = "run")
    BY <1>1 DEF LocalRepo, BadSuper, Constructed, Refuse, Answer, Nodes, Loading, In, Ends, quiet, vars
  <2> QED
    BY <2>1, TrailKeeps
<1>2. CASE LoadSuper
  <2>1. UNCHANGED <<input, call, at>> /\ status = "run"
    BY <1>2 DEF LoadSuper, Loading
  <2> QED
    BY <2>1, TrailKeeps
<1>3. CASE MergeSuper
  <2>1. status = "run"
    BY <1>3 DEF MergeSuper, Loading
  <2>2. UNCHANGED <<input, call, at>>
    BY <1>3, PostFailsCause DEF MergeSuper, Ends, quiet
  <2> QED
    BY <2>1, <2>2, TrailKeeps
<1>4. CASE LoadSettings
  <2>1. In(phase) /\ phase = "settings" /\ Onward /\ UNCHANGED <<input, call>>
    BY <1>4 DEF LoadSettings, In
  <2> QED
    BY <2>1, TrailOnward
<1>5. CASE PostAppVars
  <2>1. In(phase) /\ phase = "appvars" /\ Onward /\ UNCHANGED <<input, call>>
    BY <1>5 DEF PostAppVars, In
  <2> QED
    BY <2>1, TrailOnward
<1>6. CASE PostSettings
  <2>1. In(phase) /\ phase = "post" /\ status = "run"
    BY <1>6 DEF PostSettings, In
  <2>2. CASE PostFails(instance)
    BY <2>1, <2>2, PostFailsCause, TrailEnds DEF Causes
  <2>3. CASE Onward /\ UNCHANGED <<input, status, call, loading, noted, pks, files, instance>>
    BY <2>1, <2>3, TrailOnward
  <2> QED
    BY <1>6, <2>2, <2>3 DEF PostSettings
<1>7. CASE FindYaml
  BY <1>7, TrailFindYaml
<1>8. CASE DefaultLine
  BY <1>8, TrailDefaultLine
<1>9. CASE Plain
  <2>1. /\ In(phase) /\ status = "run" /\ UNCHANGED <<input, call>>
        /\ phase \in {"verbose", "profiles", "flags", "overrides", "commands", "queries", "threads", "printing"}
    BY <1>9 DEF Plain, In
  <2>2. CASE phase = "flags" /\ {"-S", "-K"} \subseteq args
    <3>1. UNCHANGED at
      BY <1>9, <2>2 DEF Plain
    <3> QED
      BY <2>1, <3>1, TrailKeeps
  <2>3. CASE ~ (phase = "flags" /\ {"-S", "-K"} \subseteq args)
    <3>1. Onward
      BY <1>9, <2>3 DEF Plain
    <3> QED
      BY <2>1, <3>1, TrailOnward
  <2> QED
    BY <2>2, <2>3
<1>10. CASE Roots
  <2>1. In(phase) /\ phase = "roots" /\ loading = <<>> /\ status = "run"
    BY <1>10 DEF Roots, In
  <2>2. at = 11
    BY <2>1, PhaseAt, Zenon
  <2>3. instance \in Files
    BY <2>1, <2>2, ControlFacts
  <2>4. CASE \E why \in {"undefined", "overflow"} : Ends(why)
    BY <2>1, <2>4, TrailEnds DEF Causes
  <2>5. CASE Onward /\ UNCHANGED <<input, status, call, loading, pks, files, instance, env>>
    BY <2>1, <2>5, TrailOnward
  <2> QED
    BY <1>10, <2>3, <2>4, <2>5, RootsOnward
<1> QED
  BY <1>1, <1>2, <1>3, <1>4, <1>5, <1>6, <1>7, <1>8, <1>9, <1>10 DEF Next, Step, Ended

LEMMA CauseEnds ==
  ASSUME Typed, Cause
  PROVE  EndsForCause
<1>2. ASSUME NEW f \in Files, Circle(input.super, f)
      PROVE  Reaches(f, f)
  <2>1. PICK c \in Seq(Files) :
          /\ Len(c) > 1 /\ Len(c) <= Cardinality(Files) + 1 /\ c[1] = f /\ c[Len(c)] = f
          /\ \A i \in 1..Len(c) - 1 : c[i + 1] = input.super[c[i]]
    BY <1>2 DEF Circle
  <2>2. Len(c) \in Nat /\ \A i \in 1..Len(c) : c[i] \in Files
    OBVIOUS
  <2>3. c \in Seq(Holders) /\ c # <<>>
    <3>1. \A i \in 1..Len(c) : c[i] \in Holders
      BY <2>2 DEF Holders
    <3> QED
      BY <2>1, <2>2, <3>1
  <2>4. \A i \in 1..Len(c) - 1 : c[i + 1] = Up(c[i]) /\ c[i + 1] \in Files
    <3>1. ASSUME NEW i \in 1..Len(c) - 1
          PROVE  c[i + 1] = Up(c[i]) /\ c[i + 1] \in Files
      <4>1. i \in 1..Len(c) /\ i + 1 \in 1..Len(c)
        BY <2>2
      <4>2. c[i] # App
        BY <2>2, <4>1, NamesAssumption
      <4> QED
        BY <2>1, <2>2, <4>1, <4>2 DEF Up
    <3> QED
      BY <3>1
  <2>5. Len(c) <= Len(Chain(f)) /\ \A i \in 1..Len(c) : Chain(f)[i] = c[i]
    BY <2>1, <2>3, <2>4, ChainBegins
  <2>6. Chain(f) \in Seq(Holders) /\ Len(Chain(f)) \in Nat
    BY ChainFacts DEF Holders
  <2>7. Len(c) \in DOMAIN Chain(f) /\ Len(c) \in 1..Len(c)
    BY <2>1, <2>2, <2>5, <2>6
  <2> QED
    BY <2>1, <2>5, <2>7 DEF Reaches
<1> QED
  BY <1>2 DEF Cause, EndsForCause, LoopHere

\* What ends start-up when a property fails.
Fails ==
  \E why \in {"undefined", "overflow"} : Ends(why) /\ (why = "overflow" => LoopHere)

\* Before -P, what AppVars says are literals.
LEMMA AnswerLiterals == ASSUME Control, at <= 9 PROVE pks \in Tables
<1>1. Early \in Tables /\ WithRepo \in Tables
  BY AnswerTables, OverFacts DEF Early, WithRepo
<1> QED
  BY <1>1 DEF Control, Answers

\* A failing property either is not defined, or is in a loop.
LEMMA FailsForCause == ASSUME Typed, Control, at <= 9, NEW f \in Files, PostFails(f) PROVE Fails
<1>1. /\ Own(f) \in Sources /\ ps[f] \in Tables /\ pks \in Tables /\ pks \in Sources /\ input.env[f] \in Seq(Values)
      /\ \A k \in DOMAIN Own(f) : Own(f)[k] \in Values
  BY WorldFacts, OverSources, AnswerLiterals DEF Typed
<1>2. \A i \in DOMAIN input.env[f] : input.env[f][i] \in Values
  BY <1>1
<1>3. ASSUME NEW v \in EnvFailing(f)
      PROVE  v.text = "undefined"
  <2>1. PICK i \in DOMAIN input.env[f] : v = Resolve(ps[f], input.env[f][i])
    BY DEF EnvFailing, Bad, EnvOf
  <2>2. v = ResolveIn(pks, ps[f], input.env[f][i])
    BY <2>1, ResolveIs
  <2>3. v.text # "overflow"
    BY <1>1, <1>2, <2>2, LiteralsEnd
  <2> QED
    BY <2>3 DEF EnvFailing, Bad
<1>4. ASSUME NEW v \in Failing(f)
      PROVE  v.text \in {"undefined", "overflow"} /\ (v.text = "overflow" => Looping(Own(f)))
  <2>1. PICK k \in DOMAIN Own(f) : v = Resolve(Given(f), Own(f)[k])
    BY DEF Failing, Bad
  <2> DEFINE table == Over(Own(f), ps[f])
  <2>2. v = ResolveIn(pks, table, Own(f)[k])
    BY <2>1, ResolveIs DEF Given
  <2>3. /\ table \in Sources
        /\ DOMAIN table = DOMAIN Own(f) \cup DOMAIN ps[f]
        /\ \A h \in DOMAIN Own(f) : table[h] = Own(f)[h]
        /\ \A h \in DOMAIN ps[f] : h \notin DOMAIN Own(f) => table[h].ref = None
    BY <1>1, OverRefs
  <2> HIDE DEF table
  <2>4. ASSUME NEW h \in Keys, Replace(pks, table, Ref(h)).ref # None
        PROVE  h \in DOMAIN Own(f) /\ Own(f)[h] = Replace(pks, table, Ref(h))
    <3>1. Ref(h).ref = h /\ h # None
      BY NamesAssumption DEF Ref
    <3>2. \A w \in Literals : w.ref = None
      BY LiteralFacts
    <3>3. Lit("undefined").ref = None
      BY LiteralFacts
    <3>4. h \notin DOMAIN pks
      BY <1>1, <2>4, <3>1, <3>2, TableFacts DEF Replace
    <3> QED
      BY <2>3, <2>4, <3>1, <3>2, <3>3, <3>4 DEF Replace
  <2>5. v.text = "overflow" => Looping(Own(f))
    BY <1>1, <2>2, <2>3, <2>4, OverflowLoops
  <2> QED
    BY <2>5 DEF Failing, Bad
<1>5. PICK v \in EnvFailing(f) \cup Failing(f) : Ends(v.text)
  BY DEF PostFails
<1> QED
  BY <1>3, <1>4, <1>5 DEF Fails, LoopHere

LEMMA FailsCause == ASSUME Fails, Cause PROVE Cause'
<1>1. PICK why \in {"undefined", "overflow"} : Ends(why) /\ (why = "overflow" => LoopHere)
  BY DEF Fails
<1>2. status' = why /\ UNCHANGED <<input, args>>
  BY <1>1, Zenon DEF Ends
<1>3. LoopHere' <=> LoopHere
  BY <1>2 DEF LoopHere, Own, Said
<1> QED
  BY <1>1, <1>2, <1>3 DEF Cause

\* In an application too, what never ends is in -P, in what it says itself, or in its
\* yaml.
LEMMA RootsLoop ==
  ASSUME Typed, Control, at = 11, NEW table \in Sources, NEW own \in Sources, NEW v \in Values,
         \A k \in DOMAIN table : table[k].ref # None => k \in DOMAIN own /\ own[k] = table[k],
         Resolve(table, v).text = "overflow"
  PROVE  Looping(Over(Said, own))
<1>1. pks \in Sources /\ input.override \in Sources /\ <<>> \in Sources
  BY WorldFacts, EmptyTable, TablesAreSources DEF Typed
<1>2. WithRepo \in Tables
  BY AnswerTables, OverFacts DEF Early, WithRepo
<1>3. Said \in Sources
  BY <1>1 DEF Said
<1>4. pks = IF "-P" \in args THEN Over(input.override, WithRepo) ELSE WithRepo
  BY DEF Control, Answers
<1>5. /\ DOMAIN Said \subseteq DOMAIN pks
      /\ \A k \in DOMAIN Said : Said[k] = pks[k]
      /\ \A k \in DOMAIN pks : k \notin DOMAIN Said => pks[k].ref = None
  <2>1. CASE "-P" \in args
    <3>1. Said = input.override /\ pks = Over(input.override, WithRepo)
      BY <1>4, <2>1 DEF Said
    <3>2. /\ DOMAIN Over(input.override, WithRepo) = DOMAIN input.override \cup DOMAIN WithRepo
          /\ \A k \in DOMAIN input.override : Over(input.override, WithRepo)[k] = input.override[k]
          /\ \A k \in DOMAIN WithRepo : k \notin DOMAIN input.override => Over(input.override, WithRepo)[k].ref = None
      BY <1>1, <1>2, OverRefs
    <3> QED
      BY <3>1, <3>2
  <2>2. CASE "-P" \notin args
    BY <1>2, <1>4, <2>2, EmptyTable, TableFacts, LiteralFacts DEF Said
  <2> QED
    BY <2>1, <2>2
<1> DEFINE all == Over(Said, own)
<1>6. /\ all \in Sources /\ DOMAIN all = DOMAIN Said \cup DOMAIN own
      /\ \A k \in DOMAIN Said : all[k] = Said[k]
      /\ \A k \in DOMAIN own : k \notin DOMAIN Said => all[k] = own[k]
  BY <1>3, OverValues
<1> HIDE DEF all
<1>7. ASSUME NEW k \in Keys, Replace(pks, table, Ref(k)).ref # None
      PROVE  k \in DOMAIN all /\ all[k] = Replace(pks, table, Ref(k))
  <2>1. Ref(k).ref = k /\ k # None /\ Lit("undefined").ref = None
    BY NamesAssumption, LiteralFacts DEF Ref
  <2>2. CASE k \in DOMAIN pks
    BY <1>5, <1>6, <1>7, <2>1, <2>2 DEF Replace
  <2>3. CASE k \notin DOMAIN pks
    BY <1>5, <1>6, <1>7, <2>1, <2>3 DEF Replace
  <2> QED
    BY <2>2, <2>3
<1>8. ResolveIn(pks, table, v).text = "overflow"
  BY ResolveIs
<1>9. Looping(all)
  BY <1>1, <1>6, <1>7, <1>8, OverflowLoops
<1> QED
  BY <1>9 DEF all

\* What a yaml's scalars are beneath: literals.
LEMMA ScalarsLoop ==
  ASSUME Typed, Control, at = 11, NEW T \in Tables, NEW v \in Values,
         Resolve(Scalars(T), v).text = "overflow"
  PROVE  Looping(Over(Said, input.scalar))
<1>1. T \in Sources /\ input.scalar \in Sources
  BY WorldFacts, TablesAreSources
<1> DEFINE table == Scalars(T)
<1>2. /\ table \in Sources /\ DOMAIN table = DOMAIN T \cup DOMAIN input.scalar
      /\ \A k \in DOMAIN T : table[k] = T[k]
      /\ \A k \in DOMAIN input.scalar : k \notin DOMAIN T => table[k] = input.scalar[k]
  BY <1>1, OverValues DEF Scalars
<1>3. \A k \in DOMAIN T : T[k].ref = None
  BY TableFacts, LiteralFacts
<1> HIDE DEF table
<1>4. \A k \in DOMAIN table : table[k].ref # None => k \in DOMAIN input.scalar /\ input.scalar[k] = table[k]
  BY <1>2, <1>3
<1>5. Resolve(table, v).text = "overflow"
  BY DEF table
<1> QED
  BY <1>1, <1>2, <1>4, <1>5, RootsLoop

LEMMA RootsForCause ==
  ASSUME Typed, Control, at = 11, instance \in Files, Roots
  PROVE  status' = status \/ Fails
<1> DEFINE S == Over(ps[App], ps[instance])
           table == Scalars(Over(Own(App), S))
<1>1. /\ Own(App) \in Sources /\ ps[App] \in Tables /\ ps[instance] \in Tables /\ input.scalar \in Sources
      /\ input.scm \subseteq Values /\ input.uses \subseteq Values
  BY WorldFacts
<1>2. S \in Tables
  BY <1>1, OverFacts
<1>3. /\ Over(Own(App), S) \in Sources
      /\ DOMAIN Over(Own(App), S) = DOMAIN Own(App) \cup DOMAIN S
      /\ \A k \in DOMAIN Own(App) : Own(App)[k] \in Values /\ Over(Own(App), S)[k] = Own(App)[k]
      /\ \A k \in DOMAIN S : k \notin DOMAIN Own(App) => Over(Own(App), S)[k].ref = None
  <2> HIDE DEF S
  <2> QED
    BY <1>1, <1>2, OverRefs
<1>4. ASSUME NEW k \in DOMAIN Own(App), Resolve(table, Own(App)[k]).text = "overflow"
      PROVE  LoopHere
  <2> DEFINE mine == Over(Own(App), S)
             own == Over(Own(App), input.scalar)
  <2>1. /\ table \in Sources /\ DOMAIN table = DOMAIN mine \cup DOMAIN input.scalar
        /\ \A h \in DOMAIN mine : table[h] = mine[h]
        /\ \A h \in DOMAIN input.scalar : h \notin DOMAIN mine => table[h] = input.scalar[h]
    <3>1. mine \in Sources /\ table = Over(mine, input.scalar)
      BY <1>3 DEF Scalars
    <3> HIDE DEF mine, table
    <3> QED
      BY <1>1, <3>1, OverValues
  <2>2. /\ own \in Sources /\ DOMAIN own = DOMAIN Own(App) \cup DOMAIN input.scalar
        /\ \A h \in DOMAIN Own(App) : own[h] = Own(App)[h]
        /\ \A h \in DOMAIN input.scalar : h \notin DOMAIN Own(App) => own[h] = input.scalar[h]
    BY <1>1, OverValues
  <2> HIDE DEF table, own
  <2>3. \A h \in DOMAIN table : table[h].ref # None => h \in DOMAIN own /\ own[h] = table[h]
    <3> HIDE DEF S
    <3> QED
      BY <1>3, <2>1, <2>2
  <2>4. Looping(Over(Said, own))
    <3> HIDE DEF S
    <3> QED
      BY <1>3, <1>4, <2>1, <2>2, <2>3, RootsLoop
  <2> QED
    BY <2>4 DEF LoopHere, own
<1>5. CASE /\ \E why \in {"undefined", "overflow"} : Ends(why)
           /\ status' = "overflow" =>
                \/ \E v \in input.scm : Resolve(Scalars(ps[App]), v).text = "overflow"
                \/ \E k \in DOMAIN Own(App) : Resolve(table, Own(App)[k]).text = "overflow"
                \/ \E v \in input.uses : RootsOf \in Tables /\ Resolve(Scalars(RootsOf), v).text = "overflow"
  <2>1. status' = "overflow" => LoopHere
    <3> HIDE DEF table
    <3>1. ASSUME NEW T \in Tables, NEW v \in Values, Resolve(Scalars(T), v).text = "overflow"
          PROVE  LoopHere
      BY <3>1, ScalarsLoop DEF LoopHere
    <3> QED
      BY <1>1, <1>4, <1>5, <3>1
  <2>2. PICK why \in {"undefined", "overflow"} : Ends(why)
    BY <1>5
  <2>3. status' = why
    BY <2>2 DEF Ends
  <2> QED
    BY <2>1, <2>2, <2>3 DEF Fails
<1>6. CASE UNCHANGED status
  BY <1>6
<1> QED
  BY <1>5, <1>6, RootsFacts, Zenon

\* A super that was seen before is on the stack, unless a default command loads.
LEMMA CycleForCause ==
  ASSUME Typed, Control, Loading("super"), super \in Files \ {here.file}, super \in files, followed = {}
  PROVE  Circle(input.super, here.file)
<1> DEFINE n == Len(loading)
<1>1. /\ loading # <<>> /\ here.at = "super"
  BY DEF Loading
<1>2. /\ here = loading[1] /\ n \in Nat /\ n >= 1
      /\ \A i \in 1..n : loading[i].file \in Files
  BY <1>1, HereFacts
<1>3. /\ n <= Cardinality(files) + 1
      /\ \A i \in 2..n : input.super[loading[i].file] = loading[i - 1].file
      /\ files = {loading[i].file : i \in 1..n - 1}
  BY <1>1 DEF Control, Stacked
<1>4. n <= Cardinality(Files) + 1
  <2>1. Cardinality(files) <= Cardinality(Files) /\ Cardinality(files) \in Nat
    BY NamesAssumption, FS_Subset, FS_CardinalityType DEF Typed
  <2> QED
    BY <1>2, <1>3, <2>1, Sizes
<1>5. PICK j \in 1..n - 1 : super = loading[j].file
  BY <1>3
<1> DEFINE c == [i \in 1..j + 1 |-> IF i = 1 THEN here.file ELSE loading[j + 2 - i].file]
<1>6. \A i \in 1..j + 1 : i = 1 \/ j + 2 - i \in 1..n
  BY <1>2
<1>7. c \in [1..j + 1 -> Files]
  BY <1>1, <1>2, <1>6, HereFacts
<1>8. c \in Seq(Files) /\ Len(c) = j + 1
  <2>1. j + 1 \in Nat
    BY <1>2
  <2> HIDE DEF c
  <2> QED
    BY <1>7, <2>1
<1>9. c[1] = here.file /\ c[j + 1] = here.file
  <2>1. 1 \in 1..j + 1 /\ j + 1 \in 1..j + 1 /\ j + 1 # 1 /\ j + 2 - (j + 1) = 1
    BY <1>2
  <2> QED
    BY <1>2, <2>1
<1>10. ASSUME NEW i \in 1..j
       PROVE  c[i + 1] = input.super[c[i]]
  <2>1. i \in 1..j + 1 /\ i + 1 \in 1..j + 1 /\ i + 1 # 1 /\ j + 2 - (i + 1) = j + 1 - i
    BY <1>2
  <2>2. c[i + 1] = loading[j + 1 - i].file
    BY <2>1
  <2>3. CASE i = 1
    <3>1. c[i] = here.file /\ j + 1 - i = j
      BY <1>9, <2>3
    <3> QED
      BY <1>5, <2>2, <3>1 DEF super
  <2>4. CASE i # 1
    <3>1. c[i] = loading[j + 2 - i].file
      BY <2>1, <2>4
    <3>2. j + 2 - i \in 2..n /\ (j + 2 - i) - 1 = j + 1 - i
      BY <1>2, <2>4
    <3> HIDE DEF c
    <3>3. input.super[loading[j + 2 - i].file] = loading[(j + 2 - i) - 1].file
      BY <1>3, <3>2
    <3> QED
      BY <2>2, <3>1, <3>2, <3>3
  <2> QED
    BY <2>3, <2>4
<1>11. Len(c) > 1 /\ Len(c) <= Cardinality(Files) + 1 /\ Len(c) - 1 = j
  <2> HIDE DEF c
  <2>1. Cardinality(Files) \in Nat
    BY Sizes
  <2> QED
    BY <1>2, <1>4, <1>8, <2>1
<1> HIDE DEF c
<1>12. \A i \in 1..Len(c) - 1 : c[i + 1] = input.super[c[i]]
  BY <1>10, <1>11
<1> QED
  BY <1>8, <1>9, <1>11, <1>12 DEF Circle

LEMMA CauseStep == Typed /\ Control /\ Trail /\ Cause /\ [Next]_vars => Cause'
<1> SUFFICES ASSUME Typed, Control, Trail, Cause, [Next]_vars
             PROVE  Cause'
  OBVIOUS
<1> DEFINE Quiet == status' \notin {"overflow", "cycle"}
<1>0. Quiet => Cause'
  BY DEF Cause
<1>1. CASE LocalRepo
  BY <1>0, <1>1 DEF LocalRepo, Loading, quiet, Ends
<1>2. CASE LoadSuper
  <2>1. status' = status /\ status = "run"
    BY <1>2, ControlLoadSuper DEF LoadSuper, Loading
  <2> QED
    BY <1>0, <2>1
<1>3. CASE BadSuper
  <2>1. CASE super \in Files \ {here.file} /\ Seen(super) /\ Ends("cycle")
    <3>1. Loading("super") /\ super \in files /\ UNCHANGED <<input, followed, args>> /\ status' = "cycle"
      BY <1>3, <2>1 DEF BadSuper, Seen, Ends
    <3>2. CASE followed = {}
      <4>1. Circle(input.super, here.file) /\ here.file \in Files
        BY <2>1, <3>1, <3>2, CycleForCause, HereFacts DEF Loading
      <4>2. \E f \in Files : Circle(input.super, f)
        BY <4>1
      <4> QED
        BY <3>1, <4>2 DEF Cause
    <3>3. CASE followed # {}
      <4>1. "-x" \in args
        BY <3>1, <3>3 DEF Control, Flow, Loading
      <4> QED
        BY <3>1, <3>3, <4>1 DEF Cause
    <3> QED
      BY <3>2, <3>3
  <2>2. CASE Ends("settings")
    BY <1>0, <2>2 DEF Ends
  <2> QED
    BY <1>3, <2>1, <2>2 DEF BadSuper
<1>4. CASE MergeSuper
  <2>1. CASE PostFails(super)
    <3>1. super \in Files
      BY <1>4, ControlFacts DEF MergeSuper, Loading
    <3>2. at <= 9
      BY <1>4 DEF MergeSuper, Loading, Control, Flow
    <3> QED
      BY <2>1, <3>1, <3>2, FailsForCause, FailsCause
  <2>2. CASE quiet
    BY <1>0, <1>4, <2>2 DEF MergeSuper, Loading, quiet
  <2> QED
    BY <1>4, <2>1, <2>2 DEF MergeSuper
<1>5. CASE Constructed
  BY <1>0, <1>5 DEF Constructed, Loading, quiet
<1>6. CASE Refuse \/ Answer
  BY <1>0, <1>6 DEF Refuse, Answer, Ends
<1>7. CASE LoadSettings \/ PostAppVars
  BY <1>0, <1>7 DEF LoadSettings, PostAppVars, In
<1>8. CASE PostSettings
  <2>1. CASE PostFails(instance)
    <3>1. loading = <<>> /\ phase = "post"
      BY <1>8 DEF PostSettings, In
    <3>2. at = 4
      BY <3>1, PhaseAt, Zenon
    <3>3. instance \in Files
      BY <3>1, <3>2, ControlFacts
    <3> QED
      BY <2>1, <3>2, <3>3, FailsForCause, FailsCause
  <2>2. CASE status' = status
    BY <1>0, <1>8, <2>2 DEF PostSettings, In
  <2> QED
    BY <1>8, <2>1, <2>2 DEF PostSettings
<1>9. CASE FindYaml
  <2>1. status' \in {"exists", "nothing", "several", "run", "refused"}
    BY <1>9, FindYamlFacts DEF Ends
  <2> QED
    BY <1>0, <2>1
<1>10. CASE DefaultLine
  <2>1. CASE Alone(args) /\ yml \in followed /\ status' = "overflow"
    <3>1. UNCHANGED input /\ at > 5 /\ status = "run" /\ followed \in SUBSET Yamls
      BY <1>10, DefaultLineFacts DEF Typed
    <3>2. \A y \in followed : \E z \in followed : Leads(y, z)
      BY <2>1, <3>1 DEF Trail
    <3>3. \A y, z : Leads(y, z)' <=> Leads(y, z)
      BY <3>1, LeadsSame
    <3>4. Endless'
      BY <2>1, <3>1, <3>2, <3>3 DEF Endless
    <3> QED
      BY <2>1, <3>4 DEF Cause
  <2>2. CASE status' = status
    BY <1>0, <1>10, <2>2, DefaultLineFacts
  <2> QED
    BY <1>10, <2>1, <2>2, DefaultLineFacts
<1>11. CASE Plain
  <2>1. status' \in {"run", "refused"}
    BY <1>11, Zenon DEF Plain, In
  <2> QED
    BY <1>0, <2>1
<1>12. CASE Roots
  <2>1. at = 11 /\ instance \in Files
    <3>1. loading = <<>> /\ phase = "roots"
      BY <1>12 DEF Roots, In
    <3>2. at = 11
      BY <3>1, PhaseAt, Zenon
    <3> QED
      BY <3>1, <3>2, ControlFacts
  <2>2. CASE status' = status
    BY <1>0, <1>12, <2>2 DEF Roots, In
  <2>3. CASE Fails
    BY <2>3, FailsCause
  <2> QED
    BY <1>12, <2>1, <2>2, <2>3, RootsForCause
<1>13. CASE Nodes
  BY <1>0, <1>13 DEF Nodes
<1>14. CASE UNCHANGED vars
  <2>1. UNCHANGED <<input, status, args, followed>>
    BY <1>14 DEF vars
  <2>2. LoopHere' <=> LoopHere
    BY <2>1 DEF LoopHere, Own, Said
  <2>3. Endless' <=> Endless
    BY <2>1, LeadsSame DEF Endless
  <2> QED
    BY <2>1, <2>2, <2>3 DEF Cause
<1> QED
  BY <1>1, <1>2, <1>3, <1>4, <1>5, <1>6, <1>7, <1>8, <1>9, <1>10, <1>11, <1>12, <1>13, <1>14
     DEF Next, Step, Ended

\* A process that runs out of stack has references that go round, in one settings
\* file, in what -P says, or in the project's properties and its yaml, or default
\* commands that do; a cycle of supers is reported when there is one, or when a
\* default command has -x (Properties::RESOLVE, SuperSettings::cycleCheck,
\* Application::CREATE).
THEOREM CausesFound == Spec => []EndsForCause
<1>1. Init => Cause /\ Trail
  BY DEF Init, Cause, Trail
<1>2. Spec => [](Cause /\ Trail)
  BY <1>1, CauseStep, TrailStep, TypedInvariant, PTL DEF Spec
<1>3. Typed /\ Cause => EndsForCause
  BY CauseEnds
<1> QED
  BY <1>2, <1>3, TypedInvariant, PTL

-----------------------------------------------------------------------------
(* What a file has is what it says, resolved on top of its super.         *)

LEMMA OverEmpty == ASSUME NEW T \in Tables PROVE Over(<<>>, T) = T
<1>1. PICK K \in SUBSET Keys : T \in [K -> Literals]
  BY DEF Tables
<1>2. DOMAIN <<>> = {}
  BY EmptyTable
<1>3. Over(<<>>, T) = [k \in K |-> T[k]]
  BY <1>1, <1>2 DEF Over
<1> QED
  BY <1>1, <1>3

\* Resolving once more changes nothing.
LEMMA ResAgain ==
  ASSUME NEW P, NEW own, NEW S
  PROVE  Res(P, own, Res(P, own, S)) = Res(P, own, S)
<1> DEFINE here0 == [k \in DOMAIN own |-> ResolveIn(P, Over(own, S), own[k])]
           T == Over(here0, S)
<1>1. Res(P, own, S) = T
  BY DEF Res
<1>2. DOMAIN here0 = DOMAIN own
  OBVIOUS
<1> HIDE DEF here0
<1>3. /\ DOMAIN T = DOMAIN own \cup DOMAIN S
      /\ \A k \in DOMAIN own : T[k] = here0[k]
      /\ \A k \in DOMAIN S \ DOMAIN own : T[k] = S[k]
  BY <1>2 DEF Over
<1>4. Over(here0, T) = T
  <2>1. Over(here0, T) = [k \in DOMAIN own \cup DOMAIN S |-> IF k \in DOMAIN own THEN here0[k] ELSE T[k]]
    <3> HIDE DEF T
    <3>1. DOMAIN here0 \cup DOMAIN T = DOMAIN own \cup DOMAIN S
      BY <1>2, <1>3
    <3> QED
      BY <1>2, <3>1 DEF Over
  <2>2. T = [k \in DOMAIN own \cup DOMAIN S |-> IF k \in DOMAIN own THEN here0[k] ELSE S[k]]
    BY <1>2 DEF Over
  <2> HIDE DEF T
  <2> QED
    BY <1>3, <2>1, <2>2
<1> HIDE DEF T
<1>5. Over(own, T) = Over(own, S)
  <2>1. DOMAIN own \cup DOMAIN T = DOMAIN own \cup DOMAIN S
    BY <1>3
  <2> QED
    BY <1>3, <2>1 DEF Over
<1>6. Res(P, own, T) = Over(here0, T)
  BY <1>5 DEF Res, here0
<1> QED
  BY <1>1, <1>4, <1>6

LEMMA LayeredKeeps ==
  ASSUME Layered, UNCHANGED <<followed, args, loading, instance, ps>>,
         input'.super = input.super, input'.property = input.property,
         at' > 2 => at > 2, at' > 4 <=> at > 4
  PROVE  Layered'
<1> SUFFICES ASSUME at' > 2 \/ ~ Late'
             PROVE  \E c \in Paths : On(c)'
  BY DEF Layered, On
<1>1. Late' <=> Late
  BY DEF Late
<1>2. PICK c \in Paths : On(c)
  BY <1>1 DEF Layered
<1>3. LoadP' = LoadP
  BY <1>1 DEF LoadP, WithRepo, Early
<1>4. Links(c)' /\ Complete(c, LoadP)'
  <2>1. Links(c)'
    BY <1>2 DEF On, Links
  <2>2. Complete(c, LoadP)'
    BY <1>2, <1>3 DEF On, Complete, Own
  <2> QED
    BY <2>1, <2>2
<1>5. loading' # <<>> => Building(c)'
  BY <1>2 DEF On, Building, Base, here, super, Apart
<1>6. loading' = <<>> /\ instance' # None => Built(c)'
  BY <1>1, <1>2 DEF On, Built, Base, Apart, Own, WithRepo, Early
<1> QED
  BY <1>4, <1>5, <1>6 DEF On

\* A constructor that has just begun has no chain yet.
LEMMA LayeredOpens ==
  ASSUME loading' # <<>>, here'.at = "local",
         Len(loading') \in Nat, Len(loading') >= 1, here' = loading'[1],
         \A i \in 1..Len(loading') : ps'[loading'[i].file] = <<>>
  PROVE  Layered'
<1> DEFINE c == <<>>
<1>1. c \in Paths /\ Len(c) = 0 /\ \A i \in 1..Len(c) : FALSE
  BY DEF Paths
<1> HIDE DEF c
<1>2. Links(c)' /\ Complete(c, LoadP)'
  BY <1>1 DEF Links, Complete
<1>3. Building(c)'
  <2>1. ps'[here'.file] = <<>>
    <3>1. 1 \in 1..Len(loading')
      OBVIOUS
    <3> QED
      BY <3>1
  <2>2. \A i \in 2..Len(loading') : ps'[loading'[i].file] = <<>>
    <3>1. \A i \in 2..Len(loading') : i \in 1..Len(loading')
      OBVIOUS
    <3> QED
      BY <3>1
  <2>3. c = <<>>
    BY DEF c
  <2> QED
    BY <1>1, <2>1, <2>2, <2>3 DEF Building, Apart
<1>4. On(c)'
  BY <1>2, <1>3 DEF On
<1> QED
  BY <1>1, <1>4 DEF On, Layered

LEMMA LayeredLocalRepo == Typed /\ Layered /\ LocalRepo => Layered'
<1> SUFFICES ASSUME Typed, Layered, LocalRepo
             PROVE  Layered'
  OBVIOUS
<1>1. loading # <<>> /\ here.at = "local"
  BY DEF LocalRepo, Loading
<1>2. CASE Ends("settings")
  BY <1>2, LayeredKeeps DEF Ends, statics
<1>3. CASE Then("super") /\ quiet /\ UNCHANGED statics
  <2>1. /\ loading' # <<>> /\ Len(loading') = Len(loading)
        /\ here'.at = "super" /\ here'.file = here.file
        /\ \A j \in 1..Len(loading) : loading'[j].file = loading[j].file
        /\ \A j \in 2..Len(loading) : loading'[j] = loading[j]
    BY <1>1, <1>3, ThenFacts
  <2>2. UNCHANGED <<input, call, at, pks, files, instance, ps>>
    BY <1>3 DEF quiet, statics
  <2> SUFFICES ASSUME at' > 2 \/ ~ Late'
               PROVE  \E c \in Paths : On(c)'
    BY DEF Layered, On
  <2>3. PICK c \in Paths : On(c)
    BY <2>2 DEF Layered, Late
  <2>4. Links(c)' /\ Complete(c, LoadP)'
    BY <2>2, <2>3 DEF On, Links, Complete, Own, LoadP, WithRepo, Early, Late
  <2>5. /\ \A i \in 1..Len(loading) : Apart(loading[i].file, c)
        /\ \A i \in 2..Len(loading) : ps[loading[i].file] = <<>>
        /\ c = <<>> /\ ps[here.file] = <<>>
    BY <1>1, <2>3 DEF On, Building
  <2>6. Building(c)'
    <3>1. /\ \A i \in 1..Len(loading') : Apart(loading'[i].file, c)
          /\ \A i \in 2..Len(loading') : ps'[loading'[i].file] = <<>>
          /\ c = <<>> /\ ps'[here'.file] = <<>>
      BY <2>1, <2>2, <2>5
    <3> QED
      BY <2>1, <3>1, Zenon DEF Building, Apart
  <2> QED
    BY <2>1, <2>4, <2>6 DEF On
<1> QED
  BY <1>2, <1>3 DEF LocalRepo

LEMMA LayeredLoadSuper == Typed /\ Control /\ Layered /\ LoadSuper => Layered'
<1> SUFFICES ASSUME Typed, Control, Layered, LoadSuper
             PROVE  Layered'
  OBVIOUS
<1> DEFINE h == [here EXCEPT !.at = "merge"]
           n == Len(loading)
<1>1. /\ loading # <<>> /\ here.at = "super"
      /\ n <= Cardinality(Files) /\ super \in Files /\ super # here.file
  BY NotTooDeep DEF LoadSuper, Loading, Control
<1>2. /\ loading' = <<Open(super)>> \o <<h>> \o Tail(loading)
      /\ ps' = [ps EXCEPT ![super] = <<>>]
      /\ UNCHANGED <<input, call, at, pks, instance>>
  <2>1. ~ (Len(loading) > Cardinality(Files))
    BY <1>1, HereFacts, Sizes
  <2> QED
    BY <2>1, Zenon DEF LoadSuper
<1>3. at > 2
  BY <1>1 DEF Control, Flow
<1>4. PICK c \in Paths : On(c)
  BY <1>3 DEF Layered
<1>5. /\ ps[here.file] = <<>>
      /\ \A i \in 2..n : ps[loading[i].file] = <<>>
  BY <1>1, <1>4 DEF On, Building
<1>6. /\ here \in Frames /\ here = loading[1] /\ n \in Nat /\ n >= 1
      /\ \A i \in 1..n : loading[i] \in Frames /\ loading[i].file \in Files
  BY <1>1, HereFacts
<1>7. h \in Frames /\ h.file = here.file
  <2>1. \A g \in Frames : /\ [g EXCEPT !.at = "merge"] \in Frames
                          /\ [g EXCEPT !.at = "merge"].file = g.file
    BY Moved
  <2> QED
    BY <1>6, <2>1, Zenon
<1>8. Open(super) \in Frames /\ Open(super).file = super /\ Open(super).at = "local"
  BY <1>1, Opened
<1> HIDE DEF h
<1>9. /\ loading' # <<>> /\ Len(loading') = n + 1
      /\ loading'[1] = Open(super) /\ Head(loading') = Open(super) /\ loading'[2] = h
      /\ \A j \in 3..n + 1 : loading'[j] = loading[j - 1]
  <2>1. loading \in Seq(Frames)
    BY DEF Typed
  <2> QED
    BY <1>1, <1>2, <1>7, <1>8, <2>1, Called
<1>10. here' = loading'[1] /\ here'.at = "local"
  BY <1>8, <1>9 DEF here
<1>11. ps \in [Holders -> Tables] /\ Files \subseteq Holders
  BY DEF Typed, Holders
<1>12. ASSUME NEW i \in 1..n + 1
       PROVE  ps'[loading'[i].file] = <<>>
  <2>1. CASE i = 1
    BY <1>1, <1>2, <1>8, <1>9, <1>11, <2>1
  <2>2. CASE i = 2
    <3>1. loading'[i].file = here.file /\ here.file \in Holders
      BY <1>6, <1>7, <1>9, <1>11, <2>2
    <3> QED
      BY <1>1, <1>2, <1>5, <1>11, <3>1
  <2>3. CASE i > 2
    <3>1. i \in 3..n + 1 /\ i - 1 \in 2..n /\ i - 1 \in 1..n
      BY <1>6, <2>3
    <3>2. loading'[i] = loading[i - 1] /\ ps[loading[i - 1].file] = <<>> /\ loading[i - 1].file \in Holders
      BY <1>5, <1>6, <1>9, <1>11, <3>1
    <3> QED
      BY <1>1, <1>2, <1>11, <3>2
  <2> QED
    BY <1>6, <2>1, <2>2, <2>3
<1> QED
  BY <1>6, <1>9, <1>10, <1>12, LayeredOpens

\* While a constructor runs, AppVars answers as it does for every super of its.
LEMMA LoadingP ==
  ASSUME Typed, Control, loading # <<>>
  PROVE  pks = LoadP /\ at = 3
<1>1. at = 3 /\ (followed # {} => Late)
  BY DEF Control, Flow, Late
<1>2. pks = IF followed = {} THEN Early ELSE WithRepo
  BY <1>1 DEF Control, Answers
<1>3. followed = {} => ~ Late
  BY DEF Late
<1> QED
  BY <1>1, <1>2, <1>3 DEF LoadP

\* One more file in front of a chain.
LEMMA Longer ==
  ASSUME NEW c \in Paths, NEW f \in Files
  PROVE  /\ <<f>> \o c \in Paths /\ <<f>> \o c # <<>> /\ Len(c) \in Nat
         /\ Len(<<f>> \o c) = Len(c) + 1 /\ (<<f>> \o c)[1] = f
         /\ \A i \in 1..Len(c) : (<<f>> \o c)[i + 1] = c[i]
         /\ \A i \in 2..Len(c) + 1 : (<<f>> \o c)[i] = c[i - 1]
<1> DEFINE d == <<f>> \o c
<1>1. /\ <<f>> \in Seq(Files) /\ Len(<<f>>) = 1 /\ <<f>>[1] = f
      /\ c \in Seq(Files) /\ Len(c) \in Nat
  BY DEF Paths
<1>2. /\ d \in Seq(Files) /\ Len(d) = Len(c) + 1
      /\ \A j \in 1..Len(d) : d[j] = IF j <= 1 THEN <<f>>[j] ELSE c[j - 1]
  BY <1>1, ConcatProperties
<1> HIDE DEF d
<1>3. d[1] = f /\ d # <<>>
  BY <1>1, <1>2
<1>4. \A i \in 1..Len(c) : d[i + 1] = c[i]
  BY <1>1, <1>2
<1>5. \A i \in 2..Len(c) + 1 : d[i] = c[i - 1]
  BY <1>1, <1>2
<1> QED
  BY <1>1, <1>2, <1>3, <1>4, <1>5 DEF d, Paths

LEMMA LayeredMergeSuper == Typed /\ Control /\ Layered /\ MergeSuper => Layered'
<1> SUFFICES ASSUME Typed, Control, Layered, MergeSuper
             PROVE  Layered'
  OBVIOUS
<1>1. loading # <<>> /\ here.at = "merge"
  BY DEF MergeSuper, Loading
<1>2. CASE PostFails(super)
  BY <1>2, PostFailsCause, LayeredKeeps DEF Ends, statics
<1>3. CASE /\ PostConstructs(super)
           /\ env' = env \o EnvOf(super)
           /\ ps' = [ps EXCEPT ![super] = ResolveProperties(super), ![here.file] = Merge(here.file, super)]
           /\ Then("mask")
           /\ quiet /\ UNCHANGED <<noted, pks, files, instance>>
  <2> DEFINE n == Len(loading)
  <2>1. /\ loading' # <<>> /\ Len(loading') = Len(loading)
        /\ here'.at = "mask" /\ here'.file = here.file
        /\ \A j \in 1..Len(loading) : loading'[j].file = loading[j].file
    BY <1>1, <1>3, ThenFacts
  <2>2. UNCHANGED <<input, call, at, pks, files, instance>>
    BY <1>3 DEF quiet
  <2>3. pks = LoadP /\ at = 3
    BY <1>1, LoadingP
  <2>4. /\ here \in Frames /\ here.file \in Files /\ here = loading[1] /\ n \in Nat /\ n >= 1
        /\ \A i \in 1..n : loading[i].file \in Files
    BY <1>1, HereFacts
  <2>5. super \in Files
    BY <1>1, ControlFacts
  <2>6. /\ \A i \in 1..n : super # loading[i].file
        /\ \A i \in 2..n : loading[i].file # here.file
    <3>1. /\ \A i, j \in 1..n - 1 : loading[i].file = loading[j].file => i = j
          /\ n > 1 => here.file # loading[n].file
          /\ \A i \in 1..n : super # loading[i].file
      BY <1>1 DEF Control, Stacked
    <3>2. ASSUME NEW i \in 2..n
          PROVE  loading[i].file # here.file
      <4>1. i = n \/ i \in 1..n - 1
        BY <2>4
      <4>2. n > 1 /\ 1 \in 1..n - 1 /\ i # 1
        BY <2>4
      <4> QED
        BY <2>4, <3>1, <4>1, <4>2
    <3> QED
      BY <3>1, <3>2
  <2>7. super # here.file
    <3>1. 1 \in 1..n
      BY <2>4
    <3> QED
      BY <2>4, <2>6, <3>1
  <2>8. PICK c \in Paths : On(c)
    BY <2>3 DEF Layered
  <2>9. /\ \A i \in 1..n : Apart(loading[i].file, c)
        /\ \A i \in 2..n : ps[loading[i].file] = <<>>
        /\ ps[here.file] = <<>> /\ Apart(super, c)
        /\ ps[super] = Base(c) /\ input.super[super] = First(c)
        /\ Apart(here.file, c)
    <3>1. Building(c) /\ 1 \in 1..n
      BY <1>1, <2>4, <2>8 DEF On
    <3> QED
      BY <1>1, <2>4, <3>1 DEF Building
  <2> DEFINE T == Res(LoadP, Own(super), Base(c))
  <2>10. ResolveProperties(super) = T /\ T \in Tables
    <3>1. Failing(super) = {} /\ super \in Holders
      BY <1>3, <2>5, WorldFacts DEF PostConstructs
    <3> QED
      BY <2>3, <2>9, <3>1, Resolved
  <2> HIDE DEF T
  <2>11. Merge(here.file, super) = T
    BY <2>9, <2>10, OverEmpty DEF Merge
  <2>12. ps \in [Holders -> Tables] /\ Files \subseteq Holders
    BY DEF Typed, Holders
  <2>13. /\ ps'[super] = T /\ ps'[here.file] = T
         /\ \A f \in Files : f # super /\ f # here.file => ps'[f] = ps[f]
    <3>1. ps' = [ps EXCEPT ![super] = T, ![here.file] = T]
      BY <1>3, <2>10, <2>11, Zenon
    <3> QED
      BY <2>4, <2>5, <2>7, <2>12, <3>1
  <2> DEFINE m == Len(c)
  <2>14. PICK d \in Paths :
           /\ d # <<>> /\ m \in Nat
           /\ Len(d) = m + 1 /\ d[1] = super
           /\ \A i \in 1..m : d[i + 1] = c[i]
           /\ \A i \in 2..m + 1 : d[i] = c[i - 1]
    <3>1. /\ <<super>> \o c \in Paths /\ <<super>> \o c # <<>> /\ m \in Nat
          /\ Len(<<super>> \o c) = m + 1 /\ (<<super>> \o c)[1] = super
          /\ \A i \in 1..m : (<<super>> \o c)[i + 1] = c[i]
          /\ \A i \in 2..m + 1 : (<<super>> \o c)[i] = c[i - 1]
      BY <2>5, Longer
    <3> HIDE DEF m
    <3> QED
      BY <3>1, Zenon
  <2>15. /\ \A i, j \in 1..m : c[i] = c[j] => i = j
         /\ \A i \in 1..m : input.super[c[i]] = IF i = m THEN None ELSE c[i + 1]
         /\ \A i \in 1..m : ps[c[i]] = Res(LoadP, Own(c[i]), IF i = m THEN <<>> ELSE ps[c[i + 1]])
         /\ \A i \in 1..m : c[i] # super /\ c[i] # here.file /\ c[i] \in Files
    <3>1. \A i \in 1..m : c[i] \in Files
      BY DEF Paths
    <3> QED
      BY <2>8, <2>9, <3>1 DEF On, Links, Complete, Apart
  <2>16. /\ First(c) = IF m = 0 THEN None ELSE d[2]
         /\ Base(c) = IF m = 0 THEN <<>> ELSE ps'[d[2]]
    <3>1. CASE m = 0
      <4>1. c = <<>>
        BY <3>1, EmptySeq DEF Paths
      <4> QED
        BY <3>1, <4>1 DEF First, Base
    <3>2. CASE m # 0
      <4>1. c # <<>> /\ 1 \in 1..m /\ 2 \in 2..m + 1 /\ 2 - 1 = 1
        BY <2>14, <3>2
      <4>2. d[2] = c[1] /\ ps'[c[1]] = ps[c[1]]
        BY <2>13, <2>14, <2>15, <4>1
      <4> QED
        BY <3>2, <4>1, <4>2 DEF First, Base
    <3> QED
      BY <3>1, <3>2
  <2>17. Links(d)'
    <3>1. ASSUME NEW i \in 1..m + 1, NEW j \in 1..m + 1, d[i] = d[j]
          PROVE  i = j
      <4>1. CASE i = 1 /\ j = 1
        BY <4>1
      <4>2. CASE i = 1 /\ j # 1
        <5>1. j - 1 \in 1..m /\ j \in 2..m + 1
          BY <2>14, <4>2
        <5> QED
          BY <2>14, <2>15, <3>1, <4>2, <5>1
      <4>3. CASE i # 1 /\ j = 1
        <5>1. i - 1 \in 1..m /\ i \in 2..m + 1
          BY <2>14, <4>3
        <5> QED
          BY <2>14, <2>15, <3>1, <4>3, <5>1
      <4>4. CASE i # 1 /\ j # 1
        <5>1. /\ i - 1 \in 1..m /\ i \in 2..m + 1
              /\ j - 1 \in 1..m /\ j \in 2..m + 1
          BY <2>14, <4>4
        <5>2. i - 1 = j - 1
          BY <2>14, <2>15, <3>1, <5>1
        <5> QED
          BY <5>2
      <4> QED
        BY <4>1, <4>2, <4>3, <4>4
    <3>2. ASSUME NEW i \in 1..m + 1
          PROVE  input.super[d[i]] = IF i = m + 1 THEN None ELSE d[i + 1]
      <4>1. CASE i = 1
        <5>1. input.super[super] = IF m = 0 THEN None ELSE d[2]
          BY <2>9, <2>16
        <5> QED
          BY <2>14, <4>1, <5>1
      <4>2. CASE i # 1
        <5>1. /\ i - 1 \in 1..m /\ i \in 2..m + 1 /\ (i - 1) + 1 = i
              /\ i # m + 1 => i \in 1..m
              /\ i = m + 1 <=> i - 1 = m
          BY <2>14, <4>2
        <5> QED
          BY <2>14, <2>15, <5>1
      <4> QED
        BY <4>1, <4>2
    <3> QED
      BY <2>2, <2>14, <3>1, <3>2 DEF Links
  <2>18. Complete(d, LoadP)'
    <3>1. ASSUME NEW i \in 1..m + 1
          PROVE  ps'[d[i]] = Res(LoadP, Own(d[i]), IF i = m + 1 THEN <<>> ELSE ps'[d[i + 1]])
      <4>1. CASE i = 1
        BY <2>13, <2>14, <2>16, <4>1 DEF T
      <4>2. CASE i # 1
        <5>1. /\ i - 1 \in 1..m /\ i \in 2..m + 1 /\ (i - 1) + 1 = i
              /\ i # m + 1 => i \in 1..m
              /\ i = m + 1 <=> i - 1 = m
          BY <2>14, <4>2
        <5>2. d[i] = c[i - 1] /\ ps'[d[i]] = ps[c[i - 1]]
          BY <2>13, <2>14, <2>15, <5>1
        <5>3. i # m + 1 => d[i + 1] = c[i] /\ ps'[d[i + 1]] = ps[c[i]]
          BY <2>13, <2>14, <2>15, <5>1
        <5>4. ps[c[i - 1]] = Res(LoadP, Own(c[i - 1]), IF i - 1 = m THEN <<>> ELSE ps[c[i]])
          BY <2>15, <5>1
        <5>5. CASE i = m + 1
          BY <5>1, <5>2, <5>4, <5>5
        <5>6. CASE i # m + 1
          BY <5>1, <5>2, <5>3, <5>4, <5>6
        <5> QED
          BY <5>5, <5>6
      <4> QED
        BY <4>1, <4>2
    <3>2. LoadP' = LoadP /\ \A f : Own(f)' = Own(f)
      BY <2>2 DEF LoadP, Late, WithRepo, Early, Own
    <3> QED
      BY <2>14, <3>1, <3>2 DEF Complete
  <2>19. Building(d)'
    <3>1. \A i \in 1..Len(loading') : Apart(loading'[i].file, d)
      <4> SUFFICES ASSUME NEW i \in 1..n, NEW j \in 1..m + 1
                   PROVE  d[j] # loading[i].file
        BY <2>1, <2>14 DEF Apart
      <4>1. CASE j = 1
        BY <2>6, <2>14, <4>1
      <4>2. CASE j # 1
        <5>1. j - 1 \in 1..m /\ j \in 2..m + 1
          BY <2>14, <4>2
        <5>2. c[j - 1] # loading[i].file
          BY <2>9, <5>1 DEF Apart
        <5> QED
          BY <2>14, <5>1, <5>2
      <4> QED
        BY <4>1, <4>2
    <3>2. \A i \in 2..Len(loading') : ps'[loading'[i].file] = <<>>
      <4> SUFFICES ASSUME NEW i \in 2..n
                   PROVE  ps'[loading'[i].file] = <<>>
        BY <2>1
      <4>1. i \in 1..n
        BY <2>4
      <4>2. loading[i].file # super /\ loading[i].file # here.file /\ loading[i].file \in Files
        BY <2>4, <2>6, <4>1
      <4> QED
        BY <2>1, <2>9, <2>13, <4>1, <4>2
    <3>3. super' = super /\ Base(d)' = T
      BY <2>1, <2>2, <2>13, <2>14 DEF super, Base
    <3> QED
      BY <2>1, <2>13, <2>14, <3>1, <3>2, <3>3 DEF Building
  <2>20. On(d)'
    BY <2>1, <2>17, <2>18, <2>19 DEF On
  <2> QED
    BY <2>14, <2>20 DEF On, Layered
<1> QED
  BY <1>2, <1>3 DEF MergeSuper

LEMMA LayeredConstructed == Typed /\ Control /\ Layered /\ Constructed => Layered'
<1> SUFFICES ASSUME Typed, Control, Layered, Constructed
             PROVE  Layered'
  OBVIOUS
<1> DEFINE n == Len(loading)
<1>1. /\ loading # <<>> /\ (here.at = "mask" \/ (here.at = "super" /\ super = None))
      /\ loading' = Tail(loading)
      /\ instance' = IF n = 1 THEN here.file ELSE instance
      /\ UNCHANGED <<input, call, at, pks, files, ps>>
  BY DEF Constructed, Loading, quiet
<1>2. /\ here = loading[1] /\ here.file \in Files /\ n \in Nat /\ n >= 1 /\ 1 \in 1..n
  BY <1>1, HereFacts
<1>3. /\ Len(loading') = n - 1 /\ \A j \in 1..n - 1 : loading'[j] = loading[j + 1]
      /\ loading' \in Seq(Frames)
  BY <1>1, Returned DEF Typed
<1>4. at = 3 /\ (followed # {} => Late)
  BY <1>1, LoadingP DEF Control, Flow, Late
<1>5. PICK c \in Paths : On(c)
  BY <1>4 DEF Layered
<1>6. /\ \A i \in 1..n : Apart(loading[i].file, c)
      /\ \A i \in 2..n : ps[loading[i].file] = <<>>
      /\ here.at = "super" => c = <<>> /\ ps[here.file] = <<>>
      /\ here.at = "mask" => c # <<>> /\ c[1] = super /\ ps[here.file] = Base(c)
  BY <1>1, <1>5 DEF On, Building
<1>7. input.super[here.file] = First(c) /\ ps[here.file] = Base(c) /\ Apart(here.file, c)
  BY <1>1, <1>2, <1>6 DEF First, Base, super
<1>8. Links(c)' /\ Complete(c, LoadP)'
  <2>1. LoadP' = LoadP
    BY <1>1 DEF LoadP, WithRepo, Early, Late
  <2>2. Links(c)'
    BY <1>1, <1>5 DEF On, Links
  <2>3. Complete(c, LoadP)'
    BY <1>1, <1>5, <2>1 DEF On, Complete, Own
  <2> QED
    BY <2>2, <2>3
<1>9. CASE n = 1
  <2>1. loading' = <<>> /\ instance' = here.file
    BY <1>1, <1>3, <1>9, EmptySeq
  <2>2. ~ (at' > 4 \/ (followed' # {} /\ ~ Late'))
    BY <1>1, <1>4 DEF Late
  <2>3. Base(c)' = Base(c)
    BY <1>1 DEF Base
  <2>4. Built(c)'
    <3>1. ps'[instance'] = Base(c)' /\ input'.super[instance'] = First(c) /\ Apart(instance', c)
      BY <1>1, <1>7, <2>1, <2>3
    <3> QED
      BY <2>2, <3>1, Zenon DEF Built, Apart
  <2> QED
    BY <1>8, <2>1, <2>4 DEF On, Layered
<1>10. CASE n # 1
  <2>1. n >= 2 /\ 1 \in 1..n - 1 /\ 1 + 1 = 2 /\ loading' # <<>> /\ 2 \in 2..n
    BY <1>2, <1>3, <1>10, EmptySeq
  <2>2. here' = loading[2]
    <3>1. here' = loading'[1]
      BY <2>1 DEF here, Head
    <3> QED
      BY <1>3, <2>1, <3>1
  <2>3. loading[2].at = "merge" /\ input.super[loading[2].file] = here.file
    <3>1. \A i \in 2..n : loading[i].at = "merge" /\ input.super[loading[i].file] = loading[i - 1].file
      BY <1>1 DEF Control, Stacked
    <3>2. loading[2 - 1] = loading[1]
      OBVIOUS
    <3> QED
      BY <1>2, <2>1, <3>1, <3>2
  <2>4. super' = here.file
    BY <1>1, <2>2, <2>3 DEF super
  <2>5. \A i \in 1..n - 1 : i + 1 \in 1..n
    BY <1>2
  <2>6. \A i \in 2..n - 1 : i + 1 \in 2..n /\ i \in 1..n - 1
    BY <1>2
  <2>7. \A i \in 1..n - 1 : Apart(loading'[i].file, c)
    BY <1>3, <1>6, <2>5
  <2>8. \A i \in 2..n - 1 : ps'[loading'[i].file] = <<>>
    BY <1>1, <1>3, <1>6, <2>6
  <2>9. ps'[here'.file] = <<>>
    BY <1>1, <1>6, <2>1, <2>2
  <2>10. Base(c)' = Base(c)
    BY <1>1 DEF Base
  <2>11. Building(c)'
    <3>1. \A i \in 1..Len(loading') : Apart(loading'[i].file, c)
      BY <1>3, <2>7
    <3>2. \A i \in 2..Len(loading') : ps'[loading'[i].file] = <<>>
      BY <1>3, <2>8
    <3>3. here'.at = "merge" /\ Apart(super', c) /\ ps'[super'] = Base(c)' /\ input'.super[super'] = First(c)
      BY <1>1, <1>7, <2>2, <2>3, <2>4, <2>10
    <3> QED
      BY <2>9, <3>1, <3>2, <3>3 DEF Building, Apart
  <2> QED
    BY <1>8, <2>1, <2>11 DEF On, Layered
<1> QED
  BY <1>9, <1>10

LEMMA LayeredLoadSettings == Typed /\ Control /\ Layered /\ LoadSettings => Layered'
<1> SUFFICES ASSUME Typed, Control, Layered, LoadSettings
             PROVE  Layered'
  OBVIOUS
<1> DEFINE f == IF "-x" \in args THEN "x" ELSE User
<1>1. /\ loading = <<>> /\ at' = at + 1 /\ UNCHANGED <<input, call, pks, files, instance>>
      /\ IF "-x" \in args \/ instance = None
         THEN loading' = <<Open(f)>> /\ ps' = [ps EXCEPT ![f] = <<>>] ELSE UNCHANGED <<loading, ps>>
  BY Zenon DEF LoadSettings, In, Onward
<1>2. at = 2
  <2>1. phase = "settings"
    BY DEF LoadSettings, In
  <2> QED
    BY <2>1, PhaseAt, Zenon
<1>3. CASE "-x" \in args \/ instance = None
  <2>1. f \in Files
    BY NamesAssumption
  <2>2. loading' = <<Open(f)>> /\ ps' = [ps EXCEPT ![f] = <<>>]
    BY <1>1, <1>3
  <2> HIDE DEF f
  <2>3. Open(f) \in Frames /\ Open(f).file = f /\ Open(f).at = "local"
    BY <2>1, Opened
  <2>4. loading' # <<>> /\ Len(loading') = 1 /\ loading'[1] = Open(f) /\ Head(loading') = Open(f)
    BY <2>2, <2>3
  <2>5. here' = loading'[1]
    BY <2>4 DEF here
  <2>6. ps \in [Holders -> Tables] /\ f \in Holders
    BY <2>1 DEF Typed, Holders
  <2>7. ps'[f] = <<>>
    BY <2>2, <2>6
  <2>8. \A i \in 1..Len(loading') : ps'[loading'[i].file] = <<>>
    BY <2>3, <2>4, <2>7
  <2> QED
    BY <2>3, <2>4, <2>5, <2>8, LayeredOpens
<1>4. CASE ~ ("-x" \in args \/ instance = None)
  <2>1. UNCHANGED <<loading, ps>>
    BY <1>1, <1>4
  <2>2. ~ Late
    BY <1>4 DEF Late
  <2> SUFFICES \E c \in Paths : On(c)'
    BY DEF On, Layered
  <2>3. PICK c \in Paths : On(c)
    BY <2>2 DEF Layered
  <2>4. /\ Late' <=> Late
        /\ ~ (at' > 4) /\ ~ (at > 4) /\ loading' = <<>>
    BY <1>1, <1>2, <2>1 DEF Late
  <2>5. LoadP' = LoadP
    BY <2>4 DEF LoadP, WithRepo, Early
  <2>6. Links(c)' /\ Complete(c, LoadP)'
    BY <1>1, <2>1, <2>3, <2>5 DEF On, Links, Complete, Own
  <2>7. instance' # None => Built(c)'
    BY <1>1, <2>1, <2>3, <2>4 DEF On, Built, Base, Apart, Own, WithRepo, Early
  <2> QED
    BY <2>4, <2>6, <2>7 DEF On
<1> QED
  BY <1>3, <1>4

LEMMA LayeredPostSettings == Typed /\ Control /\ Layered /\ PostSettings => Layered'
<1> SUFFICES ASSUME Typed, Control, Layered, PostSettings
             PROVE  Layered'
  OBVIOUS
<1>1. loading = <<>> /\ phase = "post"
  BY DEF PostSettings, In
<1>2. at = 4
  BY <1>1, PhaseAt, Zenon
<1>3. instance \in Files
  BY <1>1, <1>2, ControlFacts
<1>4. CASE PostFails(instance)
  BY <1>4, PostFailsCause, LayeredKeeps DEF Ends, statics
<1>5. CASE /\ PostConstructs(instance)
           /\ env' = env \o EnvOf(instance)
           /\ ps' = [ps EXCEPT ![instance] = ResolveProperties(instance)]
           /\ Onward
           /\ UNCHANGED <<input, status, call, loading, noted, pks, files, instance>>
  <2>1. PICK c \in Paths : On(c)
    BY <1>2 DEF Layered
  <2>2. Built(c)
    BY <1>1, <1>3, <2>1, NamesAssumption DEF On
  <2>3. pks = WithRepo
    BY <1>2 DEF Control, Answers
  <2>4. ResolveProperties(instance) = Res(WithRepo, Own(instance), ps[instance])
    BY <1>3, <1>5, <2>3, Resolved, WorldFacts DEF PostConstructs
  <2>5. ResolveProperties(instance) = Res(WithRepo, Own(instance), Base(c))
    <3>1. CASE followed # {} /\ ~ Late
      BY <2>2, <2>4, <3>1, ResAgain DEF Built
    <3>2. CASE ~ (followed # {} /\ ~ Late)
      BY <1>2, <2>2, <2>4, <3>2 DEF Built
    <3> QED
      BY <3>1, <3>2
  <2>6. ps \in [Holders -> Tables] /\ instance \in Holders /\ Files \subseteq Holders
    BY <1>3 DEF Typed, Holders
  <2>7. /\ ps'[instance] = Res(WithRepo, Own(instance), Base(c))
        /\ \A f \in Files : f # instance => ps'[f] = ps[f]
    BY <1>5, <2>5, <2>6
  <2>8. \A i \in 1..Len(c) : c[i] \in Files /\ ps'[c[i]] = ps[c[i]]
    <3>1. \A i \in 1..Len(c) : c[i] \in Files /\ c[i] # instance
      BY <2>2 DEF Built, Apart, Paths
    <3> QED
      BY <2>7, <3>1
  <2>9. Base(c)' = Base(c)
    <3>1. c # <<>> => 1 \in 1..Len(c)
      BY EmptySeq DEF Paths
    <3> QED
      BY <2>8, <3>1 DEF Base
  <2>10. /\ at' = 5 /\ (Late' <=> Late) /\ LoadP' = LoadP /\ WithRepo' = WithRepo
         /\ \A f : Own(f)' = Own(f)
    BY <1>2, <1>5 DEF Onward, Late, LoadP, WithRepo, Early, Own
  <2>11. Links(c)'
    BY <1>5, <2>1 DEF On, Links
  <2>12. Complete(c, LoadP)'
    <3>1. \A i \in 1..Len(c) : i # Len(c) => i + 1 \in 1..Len(c)
      BY DEF Paths
    <3> QED
      BY <2>1, <2>8, <2>10, <3>1 DEF On, Complete
  <2>13. Built(c)'
    <3>1. ps'[instance'] = Res(WithRepo, Own(instance), Base(c))' /\ at' > 4
      BY <1>5, <2>7, <2>9, <2>10 DEF Res, Own
    <3>2. Apart(instance', c) /\ input'.super[instance'] = First(c)
      BY <1>5, <2>2 DEF Built
    <3> QED
      BY <3>1, <3>2, Zenon DEF Built, Apart
  <2>14. loading' = <<>>
    BY <1>1, <1>5
  <2> QED
    BY <2>11, <2>12, <2>13, <2>14 DEF On, Layered
<1> QED
  BY <1>4, <1>5 DEF PostSettings

LEMMA LayeredRoots == Typed /\ Control /\ Layered /\ AppOnTop /\ Roots => Layered' /\ AppOnTop'
<1> SUFFICES ASSUME Typed, Control, Layered, AppOnTop, Roots
             PROVE  Layered' /\ AppOnTop'
  OBVIOUS
<1>1. loading = <<>> /\ phase = "roots"
  BY DEF Roots, In
<1>2. at = 11
  BY <1>1, PhaseAt, Zenon
<1>3. instance \in Files
  BY <1>1, <1>2, ControlFacts
<1>4. CASE \E why \in {"undefined", "overflow"} : Ends(why)
  <2>1. Layered'
    BY <1>4, LayeredKeeps DEF Ends, statics
  <2>2. AppOnTop'
    BY <1>2, <1>4 DEF Ends, statics, AppOnTop
  <2> QED
    BY <2>1, <2>2
<1>5. CASE ~ \E why \in {"undefined", "overflow"} : Ends(why)
  <2>1. /\ ps' = [ps EXCEPT ![App] = RootsOf]
        /\ Onward /\ UNCHANGED <<input, status, call, loading, pks, files, instance, env>>
    BY <1>3, <1>5, RootsOnward
  <2>2. ps \in [Holders -> Tables] /\ App \in Holders /\ Files \subseteq Holders /\ App \notin Files
    BY NamesAssumption DEF Typed, Holders
  <2>3. ps[App] = <<>> /\ Over(ps[App], ps[instance]) = ps[instance]
    BY <1>2, <1>3, <2>2, OverEmpty DEF AppOnTop
  <2>4. /\ ps'[App] = ResOn(pks, Own(App), ps[instance], input.scalar)
        /\ \A f \in Files : ps'[f] = ps[f]
    <3>1. RootsOf = ResOn(pks, Own(App), ps[instance], input.scalar)
      BY <2>3 DEF RootsOf
    <3> QED
      BY <2>1, <2>2, <3>1
  <2>5. at' = 12
    BY <1>2, <2>1 DEF Onward
  <2>6. AppOnTop'
    <3>1. ps'[instance'] = ps[instance] /\ pks' = pks /\ Own(App)' = Own(App) /\ input' = input
      BY <1>3, <2>1, <2>4 DEF Own
    <3>2. ps'[App] = ResOn(pks, Own(App), ps[instance], input.scalar)'
      BY <2>4, <3>1 DEF ResOn
    <3> QED
      BY <2>5, <3>2 DEF AppOnTop
  <2>7. PICK c \in Paths : On(c)
    BY <1>2 DEF Layered
  <2>8. Built(c)
    BY <1>1, <1>3, <2>7, NamesAssumption DEF On
  <2>9. \A i \in 1..Len(c) : c[i] \in Files /\ ps'[c[i]] = ps[c[i]]
    <3>1. \A i \in 1..Len(c) : c[i] \in Files
      BY DEF Paths
    <3> QED
      BY <2>4, <3>1
  <2>10. Base(c)' = Base(c)
    <3>1. c # <<>> => 1 \in 1..Len(c)
      BY EmptySeq DEF Paths
    <3> QED
      BY <2>9, <3>1 DEF Base
  <2>11. /\ (Late' <=> Late) /\ LoadP' = LoadP /\ WithRepo' = WithRepo
         /\ \A f : Own(f)' = Own(f)
    BY <2>1 DEF Late, LoadP, WithRepo, Early, Own
  <2>12. Links(c)'
    BY <2>1, <2>7 DEF On, Links
  <2>13. Complete(c, LoadP)'
    <3>1. \A i \in 1..Len(c) : i # Len(c) => i + 1 \in 1..Len(c)
      BY DEF Paths
    <3> QED
      BY <2>7, <2>9, <2>11, <3>1 DEF On, Complete
  <2>14. Built(c)'
    <3>1. ps[instance] = Res(WithRepo, Own(instance), Base(c))
      BY <1>2, <2>8 DEF Built
    <3>2. ps'[instance'] = Res(WithRepo, Own(instance), Base(c))' /\ at' > 4
      BY <1>3, <2>1, <2>4, <2>5, <2>10, <2>11, <3>1 DEF Res, Own
    <3>3. Apart(instance', c) /\ input'.super[instance'] = First(c)
      BY <2>1, <2>8 DEF Built
    <3> QED
      BY <3>2, <3>3, Zenon DEF Built, Apart
  <2>15. Layered'
    BY <1>1, <2>1, <2>12, <2>13, <2>14 DEF On, Layered
  <2> QED
    BY <2>6, <2>15
<1> QED
  BY <1>4, <1>5

LEMMA LayeredDefaultLine ==
  Typed /\ Control /\ Layered /\ AppOnTop /\ DefaultLine => Layered' /\ AppOnTop'
<1> SUFFICES ASSUME Typed, Control, Layered, AppOnTop, DefaultLine
             PROVE  Layered' /\ AppOnTop'
  OBVIOUS
<1>1. loading = <<>> /\ at = 6 /\ UNCHANGED <<input, yml, loading, statics>>
  BY DefaultLineFacts
<1>2. CASE /\ Alone(args) /\ followed' = followed \cup {yml} /\ at' = 1
  <2>1. AppOnTop'
    BY <1>1, <1>2 DEF AppOnTop, statics
  <2>2. PICK c \in Paths : On(c)
    BY <1>1 DEF Layered
  <2>3. Layered'
    <3> SUFFICES ASSUME ~ Late'
                 PROVE  On(c)'
      BY <1>2 DEF Layered, On
    <3>1. ~ Late /\ followed' # {} /\ LoadP' = LoadP
      <4>1. "-x" \notin args
        BY <1>2 DEF Alone
      <4> QED
        BY <1>2, <4>1 DEF Late, LoadP, Early
    <3>2. Links(c)' /\ Complete(c, LoadP)'
      BY <1>1, <2>2, <3>1 DEF On, Links, Complete, Own, statics
    <3>3. instance' # None => Built(c)'
      <4> SUFFICES ASSUME instance # None
                   PROVE  Built(c)'
        BY <1>1 DEF statics
      <4>1. /\ Apart(instance, c) /\ input.super[instance] = First(c)
            /\ ps[instance] = Res(WithRepo, Own(instance), Base(c))
        BY <1>1, <2>2 DEF On, Built
      <4>2. ps'[instance'] = Res(WithRepo, Own(instance), Base(c))'
        BY <1>1, <4>1 DEF statics, WithRepo, Early, Own, Base, Res
      <4> QED
        BY <1>1, <3>1, <4>1, <4>2 DEF statics, Built, Apart
    <3> QED
      BY <1>1, <3>2, <3>3 DEF On
  <2> QED
    BY <2>1, <2>3
<1>3. CASE UNCHANGED <<followed, args>> /\ at' \in {at, at + 1}
  <2>1. (at' > 2 => at > 2) /\ (at' > 4 <=> at > 4) /\ (at <= 11) /\ at' <= 11
    BY <1>1, <1>3
  <2>2. Layered'
    BY <1>1, <1>3, <2>1, LayeredKeeps DEF statics
  <2>3. AppOnTop'
    BY <1>1, <2>1 DEF AppOnTop, statics
  <2> QED
    BY <2>2, <2>3
<1> QED
  BY <1>2, <1>3, DefaultLineFacts DEF Onward

\* What does not touch the properties of the application, nor what it stands on.
LEMMA AppKeeps ==
  ASSUME AppOnTop, input'.property = input.property, input'.scalar = input.scalar,
         ps'[App] = ps[App],
         \/ at <= 11 /\ at' <= 11
         \/ ~ (at <= 11) /\ ~ (at' <= 11) /\ UNCHANGED <<pks, instance, ps>>
  PROVE  AppOnTop'
<1>1. CASE at <= 11 /\ at' <= 11
  BY <1>1 DEF AppOnTop
<1>2. CASE ~ (at <= 11) /\ ~ (at' <= 11) /\ UNCHANGED <<pks, instance, ps>>
  <2>1. ~ (at <= 11) /\ ~ (at' <= 11) => ps'[App] = ResOn(pks, Own(App), ps[instance], input.scalar)'
    BY <1>2 DEF AppOnTop, ResOn, Own
  <2> QED
    BY <1>2, <2>1 DEF AppOnTop
<1> QED
  BY <1>1, <1>2


LEMMA LayeredStep == Typed /\ Control /\ Layered /\ AppOnTop /\ [Next]_vars => Layered' /\ AppOnTop'
<1> SUFFICES ASSUME Typed, Control, Layered, AppOnTop, [Next]_vars
             PROVE  Layered' /\ AppOnTop'
  OBVIOUS
<1>0. /\ ps \in [Holders -> Tables] /\ App \in Holders /\ Files \subseteq Holders /\ App \notin Files
      /\ at \in 1..15
  <2>1. at \in 1..15
    BY PhaseAt, Zenon
  <2> QED
    BY <2>1, NamesAssumption DEF Typed, Holders
<1> DEFINE Still == UNCHANGED <<call, loading, instance, ps, at, input, pks>>
<1>1. Still => Layered' /\ AppOnTop'
  <2> SUFFICES ASSUME Still
               PROVE  Layered' /\ AppOnTop'
    OBVIOUS
  <2>1. AppOnTop'
    <3>1. ~ (at <= 11) => ps'[App] = ResOn(pks, Own(App), ps[instance], input.scalar)'
      BY DEF AppOnTop, ResOn, Own
    <3> QED
      BY <3>1 DEF AppOnTop
  <2> QED
    BY <2>1, LayeredKeeps DEF call
<1>2. CASE loading # <<>> /\ (LocalRepo \/ LoadSuper \/ MergeSuper \/ Constructed)
  <2>1. at = 3 /\ here.file \in Files
    BY <1>2, LoadingP, HereFacts
  <2>2. UNCHANGED <<input, at>>
    BY <1>2 DEF LocalRepo, LoadSuper, MergeSuper, Constructed, quiet, Ends, PostFails
  <2>3. ps'[App] = ps[App]
    <3>1. CASE LocalRepo \/ Constructed
      BY <3>1 DEF LocalRepo, Constructed, Ends, statics
    <3>2. CASE LoadSuper
      <4>1. super \in Files
        BY <3>2, NotTooDeep DEF Control
      <4>2. ps' = ps \/ ps' = [ps EXCEPT ![super] = <<>>]
        BY <3>2 DEF LoadSuper
      <4> QED
        BY <1>0, <4>1, <4>2
    <3>3. CASE MergeSuper
      <4>1. super \in Files
        BY <3>3, ControlFacts DEF MergeSuper, Loading
      <4>2. ps' = ps \/ ps' = [ps EXCEPT ![super] = ResolveProperties(super), ![here.file] = Merge(here.file, super)]
        BY <3>3 DEF MergeSuper, PostFails, Ends, statics
      <4> QED
        BY <1>0, <2>1, <4>1, <4>2
    <3> QED
      BY <1>2, <3>1, <3>2, <3>3
  <2>4. AppOnTop'
    <3>1. at <= 11 /\ at' <= 11 /\ input'.property = input.property /\ input'.scalar = input.scalar
      BY <2>1, <2>2
    <3> QED
      BY <2>3, <3>1, AppKeeps
  <2> QED
    BY <1>2, <2>4, LayeredLocalRepo, LayeredLoadSuper, LayeredMergeSuper, LayeredConstructed
<1>3. CASE BadSuper \/ Refuse \/ Answer \/ Nodes \/ UNCHANGED vars
  <2>1. Still
    BY <1>3 DEF BadSuper, Refuse, Answer, Nodes, Ends, statics, vars
  <2> HIDE DEF Still
  <2> QED
    BY <1>1, <2>1
<1>4. CASE LoadSettings
  <2>1. phase = "settings" /\ at' = at + 1 /\ UNCHANGED input
    BY <1>4 DEF LoadSettings, In, Onward
  <2>2. at = 2
    BY <2>1, PhaseAt, Zenon
  <2>3. ps' = ps \/ ps' = [ps EXCEPT ![IF "-x" \in args THEN "x" ELSE User] = <<>>]
    BY <1>4, Zenon DEF LoadSettings
  <2>4. ps'[App] = ps[App]
    <3>1. (IF "-x" \in args THEN "x" ELSE User) \in Files
      BY NamesAssumption
    <3> QED
      BY <1>0, <2>3, <3>1
  <2>5. at <= 11 /\ at' <= 11 /\ input'.property = input.property /\ input'.scalar = input.scalar
    BY <2>1, <2>2
  <2> QED
    BY <1>4, <2>4, <2>5, AppKeeps, LayeredLoadSettings
<1>5. CASE PostAppVars
  <2>1. phase = "appvars" /\ at' = at + 1 /\ UNCHANGED <<input, call, loading, instance, ps>>
    BY <1>5 DEF PostAppVars, In, Onward
  <2>2. at = 3
    BY <2>1, PhaseAt, Zenon
  <2>3. /\ at <= 11 /\ at' <= 11 /\ input'.property = input.property /\ input'.super = input.super
        /\ input'.scalar = input.scalar
        /\ (at' > 2 => at > 2) /\ (at' > 4 <=> at > 4) /\ ps'[App] = ps[App]
    BY <2>1, <2>2
  <2> QED
    BY <2>1, <2>3, AppKeeps, LayeredKeeps
<1>6. CASE PostSettings
  <2>1. loading = <<>> /\ phase = "post" /\ at' \in {at, at + 1} /\ UNCHANGED input
    BY <1>6 DEF PostSettings, In, Onward, PostFails, Ends
  <2>2. at = 4
    BY <2>1, PhaseAt, Zenon
  <2>3. instance \in Files
    BY <2>1, <2>2, ControlFacts
  <2>4. ps' = ps \/ ps' = [ps EXCEPT ![instance] = ResolveProperties(instance)]
    BY <1>6 DEF PostSettings, PostFails, Ends, statics
  <2>5. ps'[App] = ps[App]
    BY <1>0, <2>3, <2>4
  <2>6. at <= 11 /\ at' <= 11 /\ input'.property = input.property /\ input'.scalar = input.scalar
    BY <2>1, <2>2
  <2> QED
    BY <1>6, <2>5, <2>6, AppKeeps, LayeredPostSettings
<1>7. CASE FindYaml
  <2>1. /\ phase = "yaml" /\ at' \in {at, at + 1}
        /\ UNCHANGED <<followed, args, loading, instance, ps>>
    <3>1. phase = "yaml"
      BY <1>7 DEF FindYaml, In
    <3> QED
      BY <1>7, <3>1, FindYamlFacts DEF Onward, Ends, statics, call
  <2>2. at = 5
    BY <2>1, PhaseAt, Zenon
  <2>3. input'.super = input.super /\ input'.property = input.property /\ input'.scalar = input.scalar
    BY <1>7, FindYamlInput
  <2>4. /\ at <= 11 /\ at' <= 11
        /\ (at' > 2 => at > 2) /\ (at' > 4 <=> at > 4) /\ ps'[App] = ps[App]
    BY <2>1, <2>2
  <2> QED
    BY <2>1, <2>3, <2>4, AppKeeps, LayeredKeeps
<1>8. CASE DefaultLine
  BY <1>8, LayeredDefaultLine
<1>9. CASE Plain
  <2>1. /\ phase \in {"verbose", "profiles", "flags", "overrides", "commands", "queries", "threads", "printing"}
        /\ UNCHANGED <<input, call, loading, files, instance, ps, env>>
    BY <1>9 DEF Plain, In
  <2>2. at \in {1, 7, 8, 9, 10, 12, 13, 14} /\ (phase = "overrides" <=> at = 9)
    BY <2>1, PhaseAt, Zenon
  <2>3. at' \in {at, at + 1} /\ (phase # "overrides" => pks' = pks)
    BY <1>9 DEF Plain, Onward
  <2>4. (at' > 2 => at > 2) /\ (at' > 4 <=> at > 4)
    BY <2>2, <2>3
  <2>5. /\ ps'[App] = ps[App]
        /\ input'.property = input.property /\ input'.super = input.super
        /\ input'.scalar = input.scalar
    BY <2>1
  <2>6. \/ at <= 11 /\ at' <= 11
        \/ ~ (at <= 11) /\ ~ (at' <= 11) /\ at # 9
    BY <2>2, <2>3
  <2> QED
    BY <2>1, <2>2, <2>3, <2>4, <2>5, <2>6, AppKeeps, LayeredKeeps
<1>10. CASE Roots
  BY <1>10, LayeredRoots
<1>11. LocalRepo \/ LoadSuper \/ MergeSuper \/ Constructed => loading # <<>>
  BY DEF LocalRepo, LoadSuper, MergeSuper, Constructed, Loading
<1> QED
  BY <1>2, <1>3, <1>4, <1>5, <1>6, <1>7, <1>8, <1>9, <1>10, <1>11 DEF Next, Step, Ended

LEMMA LayeredInit == Init => Layered /\ AppOnTop
<1> SUFFICES ASSUME Init
             PROVE  Layered /\ AppOnTop
  OBVIOUS
<1>1. AppOnTop
  BY DEF Init, AppOnTop
<1>2. <<>> \in Paths /\ Links(<<>>) /\ Complete(<<>>, LoadP)
  BY DEF Paths, Links, Complete
<1>3. loading = <<>> /\ instance = None
  BY DEF Init
<1>4. Layered
  BY <1>2, <1>3 DEF Layered, On
<1> QED
  BY <1>1, <1>4

-----------------------------------------------------------------------------
(* What start-up hands on: the application on the instance on its supers.  *)

\* What AppVars answers where a holder is resolved.
Answering(f) == IF f = App THEN pks ELSE IF f = instance THEN WithRepo ELSE LoadP

LEMMA AnsweringFacts ==
  ASSUME Typed, Control, at = 15, NEW f \in Holders, NEW k \in Keys
  PROVE  /\ Answering(f) \in Sources
         /\ k \in DOMAIN Answering(f) <=> Overridden(f, k) \/ Fixed(f, k)
         /\ k \in DOMAIN Answering(f) =>
              Answering(f)[k] = IF Overridden(f, k) THEN input.override[k] ELSE Lit(k)
<1>1. /\ DOMAIN Early = {"HOME"} \cap Keys
      /\ \A j \in DOMAIN Early : Early[j] = Lit(j)
  BY DEF Early
<1>2. /\ DOMAIN WithRepo = {"HOME", "MKN_REPO"} \cap Keys
      /\ \A j \in DOMAIN WithRepo : WithRepo[j] = Lit(j)
  <2> DEFINE R == [j \in {"MKN_REPO"} \cap Keys |-> Lit("MKN_REPO")]
  <2>1. DOMAIN R = {"MKN_REPO"} \cap Keys /\ \A j \in DOMAIN R : R[j] = Lit(j)
    OBVIOUS
  <2> HIDE DEF R
  <2>2. WithRepo = Over(R, Early)
    BY DEF WithRepo, R
  <2>3. /\ DOMAIN WithRepo = DOMAIN R \cup DOMAIN Early
        /\ \A j \in DOMAIN WithRepo : WithRepo[j] = IF j \in DOMAIN R THEN R[j] ELSE Early[j]
    <3> HIDE DEF WithRepo
    <3> QED
      BY <2>2 DEF Over
  <2> QED
    BY <1>1, <2>1, <2>3
<1>4. Early \in Sources /\ WithRepo \in Sources /\ pks \in Sources
  <2>1. Early \in Tables
    BY AnswerTables DEF Early
  <2>2. WithRepo \in Tables
    BY <2>1, AnswerTables, OverFacts DEF WithRepo
  <2> QED
    BY <2>1, <2>2, TablesAreSources DEF Typed
<1>5. CASE f = App
  <2>1. Answering(f) = pks
    BY <1>5 DEF Answering
  <2>2. CASE "-P" \notin args
    <3>1. pks = WithRepo
      BY <2>2 DEF Control, Answers
    <3>2. ~ Overridden(f, k)
      BY <2>2 DEF Overridden
    <3>3. k \in DOMAIN WithRepo <=> Fixed(f, k)
      BY <1>2, <1>5, <3>2 DEF Fixed
    <3> QED
      BY <1>2, <1>4, <2>1, <3>1, <3>2, <3>3
  <2>3. CASE "-P" \in args
    <3>1. pks = Over(input.override, WithRepo)
      BY <2>3 DEF Control, Answers
    <3>2. /\ DOMAIN pks = DOMAIN input.override \cup DOMAIN WithRepo
          /\ \A j \in DOMAIN pks : pks[j] = IF j \in DOMAIN input.override THEN input.override[j] ELSE WithRepo[j]
      BY <3>1 DEF Over
    <3>3. Overridden(f, k) <=> k \in DOMAIN input.override
      BY <1>5, <2>3 DEF Overridden
    <3>4. k \in DOMAIN WithRepo <=> Fixed(f, k)
      BY <1>2, <1>5 DEF Fixed
    <3> QED
      BY <1>2, <1>4, <2>1, <3>2, <3>3, <3>4
  <2> QED
    BY <2>2, <2>3
<1>6. CASE f # App
  <2>1. ~ Overridden(f, k)
    BY <1>6 DEF Overridden
  <2>2. CASE f = instance
    <3>1. Answering(f) = WithRepo
      BY <1>6, <2>2 DEF Answering
    <3>2. k \in DOMAIN WithRepo <=> Fixed(f, k)
      BY <1>2, <2>1, <2>2 DEF Fixed
    <3> QED
      BY <1>2, <1>4, <2>1, <3>1, <3>2
  <2>3. CASE f # instance
    <3>1. Answering(f) = LoadP
      BY <1>6, <2>3 DEF Answering
    <3>2. CASE Late
      <4>1. LoadP = WithRepo
        BY <3>2 DEF LoadP
      <4>2. k \in DOMAIN WithRepo <=> Fixed(f, k)
        BY <1>2, <1>6, <2>1, <2>3, <3>2 DEF Fixed, Late
      <4> QED
        BY <1>2, <1>4, <2>1, <3>1, <4>1, <4>2
    <3>3. CASE ~ Late
      <4>1. LoadP = Early
        BY <3>3 DEF LoadP
      <4>2. k \in DOMAIN Early <=> Fixed(f, k)
        BY <1>1, <1>6, <2>1, <2>3, <3>3 DEF Fixed, Late
      <4> QED
        BY <1>1, <1>4, <2>1, <3>1, <4>1, <4>2
    <3> QED
      BY <3>2, <3>3
  <2> QED
    BY <2>2, <2>3
<1> QED
  BY <1>5, <1>6

\* Where it is looked for last.
Beyond(f) == IF f = App THEN input.scalar ELSE <<>>

\* Nothing beneath is as before.
LEMMA ResAlone ==
  ASSUME NEW P, NEW own \in Sources, NEW S \in Tables
  PROVE  Res(P, own, S) = ResOn(P, own, S, <<>>)
<1> DEFINE T == Over(own, S)
<1>1. DOMAIN T = DOMAIN own \cup DOMAIN S /\ T = [k \in DOMAIN T |-> T[k]]
  BY DEF Over
<1> HIDE DEF T
<1>2. Over(T, <<>>) = T
  BY <1>1, EmptyTable DEF Over
<1> QED
  BY <1>2 DEF Res, ResOn, T

Beneath(t, i) == IF i = Len(t) THEN <<>> ELSE ps[t[i + 1]]

Tower(t) ==
  /\ t \in Seq(Holders) /\ Len(t) >= 2 /\ Len(t) <= Cardinality(Files) + 1
  /\ t[1] = App /\ t[2] = instance
  /\ \A i \in 1..Len(t) - 1 : t[i + 1] = Up(t[i]) /\ t[i + 1] \in Files
  /\ Up(t[Len(t)]) \notin Files
  /\ \A i \in 1..Len(t) : ps[t[i]] = ResOn(Answering(t[i]), Own(t[i]), Beneath(t, i), Beyond(t[i]))

LEMMA TowerStands ==
  ASSUME Typed, Control, Layered, AppOnTop, loading = <<>>, at = 15
  PROVE  \E t \in Seq(Holders) : Tower(t)
<1>1. instance \in Files /\ instance # None /\ App \notin Files /\ None \notin Files
  BY ControlFacts, NamesAssumption
<1>2. PICK c \in Paths : On(c)
  BY DEF Layered
<1> DEFINE m == Len(c)
<1>3. /\ m \in Nat /\ \A i \in 1..m : c[i] \in Files
  BY DEF Paths
<1>4. /\ \A i, j \in 1..m : c[i] = c[j] => i = j
      /\ \A i \in 1..m : input.super[c[i]] = IF i = m THEN None ELSE c[i + 1]
      /\ \A i \in 1..m : ps[c[i]] = Res(LoadP, Own(c[i]), IF i = m THEN <<>> ELSE ps[c[i + 1]])
  BY <1>2 DEF On, Links, Complete
<1>20. \A f \in Files : /\ \A P : Res(P, Own(f), <<>>) = ResOn(P, Own(f), <<>>, Beyond(f))
                        /\ \A P, g : g \in Files => Res(P, Own(f), ps[g]) = ResOn(P, Own(f), ps[g], Beyond(f))
  <2>1. \A f \in Files : Beyond(f) = <<>> /\ Own(f) \in Sources /\ ps[f] \in Tables
    BY <1>1, WorldFacts DEF Beyond, Holders
  <2> QED
    BY <2>1, EmptyTable, ResAlone
<1>5. /\ \A i \in 1..m : c[i] # instance
      /\ input.super[instance] = First(c)
      /\ ps[instance] = Res(WithRepo, Own(instance), Base(c))
  BY <1>1, <1>2 DEF On, Built, Apart
<1>6. ps[App] = ResOn(pks, Own(App), ps[instance], Beyond(App))
  BY DEF AppOnTop, Beyond
<1> DEFINE u == [i \in 1..m + 1 |-> IF i = 1 THEN instance ELSE c[i - 1]]
<1>7. ASSUME NEW i \in 1..m + 1, i # 1
      PROVE  i - 1 \in 1..m
  BY <1>3, <1>7
<1>8. u \in [1..m + 1 -> Files]
  BY <1>1, <1>3, <1>7
<1>9. ASSUME NEW i \in 1..m + 1, NEW j \in 1..m + 1, u[i] = u[j]
      PROVE  i = j
  <2>1. CASE i = 1 \/ j = 1
    BY <1>5, <1>7, <1>9, <2>1
  <2>2. CASE i # 1 /\ j # 1
    <3>1. c[i - 1] = c[j - 1] /\ i - 1 \in 1..m /\ j - 1 \in 1..m
      BY <1>7, <1>9, <2>2
    <3>2. i - 1 = j - 1
      BY <1>4, <3>1
    <3> QED
      BY <3>2
  <2> QED
    BY <2>1, <2>2
<1>10. m + 1 <= Cardinality(Files)
  <2>1. u \in Injection(1..m + 1, Files)
    <3> HIDE DEF u
    <3> QED
      BY <1>8, <1>9 DEF Injection, IsInjective
  <2>2. Cardinality(1..m + 1) <= Cardinality(Files)
    BY <2>1, NamesAssumption, FS_Injection
  <2>3. 1 \in Int /\ m + 1 \in Int /\ ~ (1 > m + 1) /\ (m + 1) - 1 + 1 = m + 1
    BY <1>3
  <2>4. Cardinality(1..m + 1) = m + 1
    BY <2>3, FS_Interval
  <2> QED
    BY <2>2, <2>4
<1> DEFINE t == [i \in 1..m + 2 |-> IF i = 1 THEN App ELSE IF i = 2 THEN instance ELSE c[i - 2]]
<1>11. ASSUME NEW i \in 1..m + 2, i # 1, i # 2
       PROVE  i - 2 \in 1..m
  BY <1>3, <1>11
<1>12. t \in [1..m + 2 -> Holders]
  BY <1>1, <1>3, <1>11 DEF Holders
<1>13. /\ 1 \in 1..m + 2 /\ 2 \in 1..m + 2 /\ t[1] = App /\ t[2] = instance
       /\ \A i \in 1..m + 2 : i # 1 /\ i # 2 => t[i] = c[i - 2]
  BY <1>3
<1> HIDE DEF t
<1>14. t \in Seq(Holders) /\ Len(t) = m + 2
  <2>1. m + 2 \in Nat
    BY <1>3
  <2> QED
    BY <1>12, <2>1
<1>15. /\ First(c) = IF m = 0 THEN None ELSE c[1]
       /\ Base(c) = IF m = 0 THEN <<>> ELSE ps[c[1]]
  <2>1. m = 0 <=> c = <<>>
    BY EmptySeq DEF Paths
  <2> QED
    BY <2>1 DEF First, Base
<1>16. \A i \in 1..m : c[i] # App /\ c[i] # instance
  BY <1>1, <1>3, <1>5
<1>17. ASSUME NEW i \in 1..m + 2
       PROVE  /\ i # m + 2 => Up(t[i]) = t[i + 1] /\ t[i + 1] \in Files
              /\ i = m + 2 => Up(t[i]) \notin Files
              /\ ps[t[i]] = ResOn(Answering(t[i]), Own(t[i]), IF i = m + 2 THEN <<>> ELSE ps[t[i + 1]], Beyond(t[i]))
  <2>1. CASE i = 1
    <3>1. i # m + 2
      BY <1>3, <2>1
    <3>2. Up(App) = instance /\ Answering(App) = pks
      BY DEF Up, Answering
    <3> QED
      BY <1>1, <1>6, <1>13, <2>1, <3>1, <3>2
  <2>2. CASE i = 2
    <3>1. Up(instance) = First(c) /\ Answering(instance) = WithRepo
      BY <1>1, <1>5 DEF Up, Answering
    <3>2. CASE m = 0
      <4>1. i = m + 2
        BY <2>2, <3>2
      <4>2. ps[instance] = ResOn(WithRepo, Own(instance), <<>>, Beyond(instance))
        BY <1>1, <1>5, <1>15, <1>20, <3>2
      <4> QED
        BY <1>1, <1>5, <1>13, <1>15, <2>2, <3>1, <3>2, <4>1, <4>2
    <3>3. CASE m # 0
      <4>1. i # m + 2 /\ 3 \in 1..m + 2 /\ 3 - 2 = 1 /\ 1 \in 1..m
        BY <1>3, <2>2, <3>3
      <4>2. t[3] = c[1] /\ c[1] \in Files
        BY <1>3, <1>13, <4>1
      <4>3. ps[instance] = ResOn(WithRepo, Own(instance), ps[c[1]], Beyond(instance))
        BY <1>1, <1>5, <1>15, <1>20, <3>3, <4>2
      <4> QED
        BY <1>1, <1>5, <1>13, <1>15, <2>2, <3>1, <3>3, <4>1, <4>2, <4>3
    <3> QED
      BY <3>2, <3>3
  <2>3. CASE i # 1 /\ i # 2
    <3> DEFINE j == i - 2
    <3>1. j \in 1..m /\ t[i] = c[j]
      BY <1>11, <1>13, <2>3
    <3>2. Up(c[j]) = input.super[c[j]] /\ Answering(c[j]) = LoadP
      BY <1>16, <3>1 DEF Up, Answering
    <3>3. CASE i = m + 2
      <4>1. j = m
        BY <1>3, <3>3
      <4>2. m + 2 \in Nat
        BY <1>3
      <4> HIDE DEF j
      <4>3. input.super[c[j]] = None /\ ps[c[j]] = Res(LoadP, Own(c[j]), <<>>)
        BY <1>4, <3>1, <4>1
      <4>4. ps[c[j]] = ResOn(LoadP, Own(c[j]), <<>>, Beyond(c[j])) /\ c[j] \in Files
        BY <1>3, <1>20, <3>1, <4>3
      <4> QED
        BY <1>1, <3>1, <3>2, <3>3, <4>3, <4>4
    <3>4. CASE i # m + 2
      <4>1. /\ j # m /\ j + 1 \in 1..m /\ i + 1 \in 1..m + 2
            /\ i + 1 # 1 /\ i + 1 # 2 /\ (i + 1) - 2 = j + 1
        BY <1>3, <2>3, <3>4
      <4>2. t[i + 1] = c[j + 1] /\ c[j + 1] \in Files
        BY <1>3, <1>13, <4>1
      <4> HIDE DEF j
      <4>3. ps[c[j]] = Res(LoadP, Own(c[j]), ps[c[j + 1]]) /\ input.super[c[j]] = c[j + 1] /\ c[j] \in Files
        BY <1>3, <1>4, <3>1, <4>1
      <4>4. ps[c[j]] = ResOn(LoadP, Own(c[j]), ps[c[j + 1]], Beyond(c[j]))
        BY <1>20, <4>2, <4>3
      <4> QED
        BY <3>1, <3>2, <3>4, <4>2, <4>3, <4>4
    <3> QED
      BY <3>3, <3>4
  <2> QED
    BY <2>1, <2>2, <2>3
<1>18. /\ Len(t) >= 2 /\ Len(t) <= Cardinality(Files) + 1
       /\ \A i \in 1..Len(t) - 1 : i \in 1..m + 2 /\ i # m + 2
       /\ Len(t) \in 1..m + 2
  <2>1. Cardinality(Files) \in Nat
    BY Sizes
  <2> QED
    BY <1>3, <1>10, <1>14, <2>1
<1>19. Tower(t)
  BY <1>13, <1>14, <1>17, <1>18 DEF Tower, Beneath
<1> QED
  BY <1>14, <1>19

-----------------------------------------------------------------------------
(* The nearest file that has a property.                                   *)

\* The chain of a file in a tower is what stands below it.
LEMMA TowerChain ==
  ASSUME NEW t \in Seq(Holders), Tower(t), NEW i \in 1..Len(t)
  PROVE  /\ DOMAIN Chain(t[i]) = 1..Len(t) - i + 1
         /\ \A j \in 1..Len(t) - i + 1 : Chain(t[i])[j] = t[i + j - 1]
<1> DEFINE L == Len(t) - i + 1
           s == [j \in 1..L |-> t[i + j - 1]]
           c == Chain(t[i])
<1>1. /\ Len(t) \in Nat /\ Len(t) <= Cardinality(Files) + 1
      /\ \A j \in 1..Len(t) : t[j] \in Holders
      /\ \A j \in 1..Len(t) - 1 : t[j + 1] = Up(t[j]) /\ t[j + 1] \in Files
      /\ Up(t[Len(t)]) \notin Files
  BY DEF Tower
<1>2. L \in Nat /\ L >= 1 /\ L <= Cardinality(Files) + 1
  BY <1>1, Sizes
<1>3. \A j \in 1..L : i + j - 1 \in 1..Len(t)
  BY <1>1
<1>4. s \in [1..L -> Holders]
  BY <1>1, <1>3
<1>5. s[1] = t[i] /\ s[L] = t[Len(t)] /\ \A j \in 1..L : s[j] = t[i + j - 1]
  BY <1>1, <1>2
<1>6. \A j \in 1..L - 1 : s[j + 1] = Up(s[j]) /\ s[j + 1] \in Files
  <2> SUFFICES ASSUME NEW j \in 1..L - 1
               PROVE  s[j + 1] = Up(s[j]) /\ s[j + 1] \in Files
    OBVIOUS
  <2>1. j \in 1..L /\ j + 1 \in 1..L /\ i + j - 1 \in 1..Len(t) - 1 /\ i + (j + 1) - 1 = (i + j - 1) + 1
    BY <1>1, <1>2
  <2> QED
    BY <1>1, <1>5, <2>1
<1> HIDE DEF s
<1>7. s \in Seq(Holders) /\ Len(s) = L /\ s # <<>>
  <2> HIDE DEF L
  <2>1. s \in Seq(Holders) /\ Len(s) = L
    BY <1>2, <1>4
  <2> QED
    BY <1>2, <2>1
<1>8. L <= Len(c) /\ \A j \in 1..L : c[j] = s[j]
  <2> HIDE DEF L
  <2>1. Len(s) <= Len(Chain(s[1])) /\ \A j \in 1..Len(s) : Chain(s[1])[j] = s[j]
    BY <1>2, <1>6, <1>7, ChainBegins
  <2> QED
    BY <1>5, <1>7, <2>1
<1>9. /\ c \in Seq(Holders) /\ Len(c) \in Nat
      /\ \A j \in 1..Len(c) - 1 : c[j + 1] = Up(c[j]) /\ c[j + 1] \in Files
  BY <1>1, ChainFacts
<1> HIDE DEF c
<1>10. Len(c) = L
  <2> SUFFICES ASSUME Len(c) # L
               PROVE  FALSE
    OBVIOUS
  <2>1. L \in 1..L /\ L \in 1..Len(c) - 1
    <3> HIDE DEF L
    <3> QED
      BY <1>2, <1>8, <1>9
  <2>2. c[L] = t[Len(t)]
    BY <1>5, <1>8, <2>1
  <2> QED
    BY <1>1, <1>9, <2>1, <2>2
<1> QED
  BY <1>5, <1>8, <1>9, <1>10 DEF c

LEMMA NearestFacts ==
  ASSUME NEW g \in Holders, NEW k, Definers(g, k) # {}
  PROVE  \E i \in Definers(g, k) : /\ \A j \in Definers(g, k) : i <= j
                                   /\ Nearest(g, k) = Chain(g)[i]
                                   /\ Nearest(g, k) \in Holders /\ k \in DOMAIN Own(Nearest(g, k))
<1> DEFINE D == Definers(g, k)
<1>1. Chain(g) \in Seq(Holders) /\ Len(Chain(g)) \in Nat
  BY ChainFacts
<1>2. /\ D \subseteq 1..Len(Chain(g)) /\ D \subseteq Nat
      /\ \A i \in D : Chain(g)[i] \in Holders /\ k \in DOMAIN Own(Chain(g)[i])
  BY <1>1 DEF Definers
<1> HIDE DEF D
<1>3. \E i \in D : \A j \in D : i <= j
  BY <1>2, Least DEF D
<1> DEFINE i == CHOOSE i \in D : \A j \in D : i <= j
<1>4. i \in D /\ \A j \in D : i <= j
  BY <1>3
<1>5. Nearest(g, k) = Chain(g)[i]
  BY Zenon DEF Nearest, D
<1> HIDE DEF i
<1> QED
  BY <1>2, <1>4, <1>5 DEF D

\* A file in a tower is the nearest to have what it has itself; for the rest, it
\* is as the one below it.
LEMMA NearestInTower ==
  ASSUME NEW t \in Seq(Holders), Tower(t), NEW i \in 1..Len(t), NEW k
  PROVE  /\ k \in DOMAIN Own(t[i]) => Definers(t[i], k) # {} /\ Nearest(t[i], k) = t[i]
         /\ k \notin DOMAIN Own(t[i]) /\ i # Len(t) =>
              /\ Definers(t[i], k) = {} <=> Definers(t[i + 1], k) = {}
              /\ Definers(t[i], k) # {} => Nearest(t[i], k) = Nearest(t[i + 1], k)
         /\ k \notin DOMAIN Own(t[i]) /\ i = Len(t) => Definers(t[i], k) = {}
<1>1. Len(t) \in Nat /\ \A j \in 1..Len(t) : t[j] \in Holders
  OBVIOUS
<1>2. ASSUME NEW j \in 1..Len(t)
      PROVE  /\ \A d : d \in Definers(t[j], k) <=> d \in 1..Len(t) - j + 1 /\ k \in DOMAIN Own(t[j + d - 1])
             /\ \A d \in 1..Len(t) - j + 1 : Chain(t[j])[d] = t[j + d - 1]
             /\ t[j] \in Holders
  BY <1>1, TowerChain DEF Definers
<1>3. ASSUME k \in DOMAIN Own(t[i])
      PROVE  Definers(t[i], k) # {} /\ Nearest(t[i], k) = t[i]
  <2>1. 1 \in 1..Len(t) - i + 1 /\ i + 1 - 1 = i
    BY <1>1
  <2>2. 1 \in Definers(t[i], k)
    BY <1>2, <1>3, <2>1
  <2>3. PICK d \in Definers(t[i], k) :
          (\A j \in Definers(t[i], k) : d <= j) /\ Nearest(t[i], k) = Chain(t[i])[d]
    BY <1>1, <2>2, NearestFacts
  <2>4. d \in 1..Len(t) - i + 1 /\ d <= 1
    BY <1>2, <2>2, <2>3
  <2>5. d = 1
    BY <2>4
  <2> QED
    BY <1>2, <2>1, <2>2, <2>3, <2>5
<1>4. ASSUME k \notin DOMAIN Own(t[i]), i # Len(t)
      PROVE  /\ Definers(t[i], k) = {} <=> Definers(t[i + 1], k) = {}
             /\ Definers(t[i], k) # {} => Nearest(t[i], k) = Nearest(t[i + 1], k)
  <2>1. i + 1 \in 1..Len(t)
    BY <1>1, <1>4
  <2>2. ASSUME NEW d \in Definers(t[i], k)
        PROVE  d \in Nat /\ d - 1 \in Definers(t[i + 1], k)
    <3>1. d \in 1..Len(t) - i + 1 /\ k \in DOMAIN Own(t[i + d - 1])
      BY <1>2
    <3>2. d # 1
      <4> SUFFICES ASSUME d = 1
                   PROVE  FALSE
        OBVIOUS
      <4>1. i + d - 1 = i
        BY <1>1
      <4> QED
        BY <1>4, <3>1, <4>1
    <3>3. d - 1 \in 1..Len(t) - (i + 1) + 1 /\ (i + 1) + (d - 1) - 1 = i + d - 1 /\ d \in Nat
      BY <1>1, <3>1, <3>2
    <3> QED
      BY <1>2, <2>1, <3>1, <3>3
  <2>3. ASSUME NEW d \in Definers(t[i + 1], k)
        PROVE  d \in Nat /\ d + 1 \in Definers(t[i], k)
    <3>1. d \in 1..Len(t) - (i + 1) + 1 /\ k \in DOMAIN Own(t[(i + 1) + d - 1])
      BY <1>2, <2>1
    <3>2. d + 1 \in 1..Len(t) - i + 1 /\ i + (d + 1) - 1 = (i + 1) + d - 1 /\ d \in Nat
      BY <1>1, <3>1
    <3> QED
      BY <1>2, <3>1, <3>2
  <2>4. Definers(t[i], k) = {} <=> Definers(t[i + 1], k) = {}
    BY <2>2, <2>3
  <2>5. ASSUME Definers(t[i], k) # {}
        PROVE  Nearest(t[i], k) = Nearest(t[i + 1], k)
    <3>1. PICK d \in Definers(t[i], k) :
            (\A j \in Definers(t[i], k) : d <= j) /\ Nearest(t[i], k) = Chain(t[i])[d]
      BY <1>1, <2>5, NearestFacts
    <3>2. PICK e \in Definers(t[i + 1], k) :
            (\A j \in Definers(t[i + 1], k) : e <= j) /\ Nearest(t[i + 1], k) = Chain(t[i + 1])[e]
      BY <1>1, <2>1, <2>4, <2>5, NearestFacts
    <3>3. d \in Nat /\ e \in Nat /\ e <= d - 1 /\ d <= e + 1
      BY <2>2, <2>3, <3>1, <3>2
    <3>4. d = e + 1 /\ i + d - 1 = (i + 1) + e - 1
      BY <1>1, <3>3
    <3>5. d \in 1..Len(t) - i + 1 /\ e \in 1..Len(t) - (i + 1) + 1
      BY <1>2, <2>1, <3>1, <3>2
    <3>6. Chain(t[i])[d] = t[i + d - 1] /\ Chain(t[i + 1])[e] = t[(i + 1) + e - 1]
      BY <1>2, <2>1, <3>5
    <3> QED
      BY <3>1, <3>2, <3>4, <3>6
  <2> QED
    BY <2>4, <2>5
<1>5. ASSUME k \notin DOMAIN Own(t[i]), i = Len(t), NEW d \in Definers(t[i], k)
      PROVE  FALSE
  <2>1. d \in 1..Len(t) - i + 1 /\ k \in DOMAIN Own(t[i + d - 1])
    BY <1>2, <1>5
  <2>2. i + d - 1 = i
    BY <1>1, <1>5, <2>1
  <2> QED
    BY <1>5, <2>1, <2>2
<1> QED
  BY <1>3, <1>4, <1>5

-----------------------------------------------------------------------------
(* Meaning, level by level.                                                *)

Depth == (Cardinality(Keys) + 2) * (Cardinality(Files) + 2)
Words == Values \cup {Lit("undefined")}
Texts == {v.text : v \in Words}

\* What v says in g if L is what is said where its reference leads.
Says(L, g, v) == IF v.ref = None THEN v.text ELSE L[Source(g, v.ref).in][Source(g, v.ref).value]

Meanings ==
  CHOOSE M : M = [n \in 0..Depth |->
                   [g \in Holders |-> [v \in Words |-> IF n = 0 THEN v.text ELSE Says(M[n - 1], g, v)]]]

LEMMA MeaningIs == \A f, v : Meaning(f, v) = Meanings[Depth][f][v]
<1> DEFINE Inner(M, n, g, w) ==
             IF n = 0 \/ w.ref = None THEN w.text
             ELSE M[n - 1][Source(g, w.ref).in][Source(g, w.ref).value]
           Outer(M, n, g, w) == IF n = 0 THEN w.text ELSE Says(M[n - 1], g, w)
           Deep(M) == [n \in 0..Depth |-> [g \in Holders |-> [w \in Words |-> Inner(M, n, g, w)]]]
           Flat(M) == [n \in 0..Depth |-> [g \in Holders |-> [w \in Words |-> Outer(M, n, g, w)]]]
<1>1. ASSUME NEW f, NEW v
      PROVE  Meaning(f, v) = (CHOOSE M : M = Deep(M))[Depth][f][v]
  BY Zenon DEF Meaning, Depth, Holders, Words
<1>2. ASSUME NEW M, NEW n, NEW g, NEW w
      PROVE  Inner(M, n, g, w) = Outer(M, n, g, w)
  BY Zenon DEF Says
<1>3. Meanings = (CHOOSE M : M = Flat(M))
  BY Zenon DEF Meanings
<1> HIDE DEF Inner, Outer
<1>4. \A M : Deep(M) = Flat(M)
  BY <1>2
<1> HIDE DEF Deep, Flat
<1>5. (CHOOSE M : M = Deep(M)) = (CHOOSE M : M = Flat(M))
  BY <1>4, Zenon
<1> QED
  BY <1>1, <1>3, <1>5

\* Where a reference leads there is a value.
LEMMA SourceTyped ==
  ASSUME Typed, NEW g \in Holders, NEW k \in Keys
  PROVE  Source(g, k).in \in Holders /\ Source(g, k).value \in Words
<1>1. /\ \A f \in Holders : Own(f) \in Sources
      /\ input.override \in Sources /\ input.scalar \in Sources
  BY WorldFacts
<1>2. \A T \in Sources : \A j \in DOMAIN T : T[j] \in Words
  BY DEF Sources, Some, Words
<1>3. CASE Overridden(g, k)
  <2>1. Source(g, k) = [in |-> g, value |-> input.override[k]]
    BY <1>3, Zenon DEF Source
  <2>2. k \in DOMAIN input.override
    BY <1>3 DEF Overridden
  <2> QED
    BY <1>1, <1>2, <2>1, <2>2
<1>4. CASE ~ Overridden(g, k) /\ Fixed(g, k)
  <2>1. Source(g, k) = [in |-> g, value |-> Lit(k)]
    BY <1>4, Zenon DEF Source
  <2>2. k \in {"HOME", "MKN_REPO"}
    BY <1>4 DEF Fixed
  <2>3. Lit(k) \in Words
    BY <2>2 DEF Words, Values
  <2> QED
    BY <2>1, <2>3
<1>5. CASE ~ Overridden(g, k) /\ ~ Fixed(g, k) /\ Definers(g, k) # {}
  <2>1. Source(g, k) = [in |-> Nearest(g, k), value |-> Own(Nearest(g, k))[k]]
    BY <1>5, Zenon DEF Source
  <2>2. Nearest(g, k) \in Holders /\ k \in DOMAIN Own(Nearest(g, k))
    BY <1>5, NearestFacts
  <2> QED
    BY <1>1, <1>2, <2>1, <2>2
<1>6. CASE ~ Overridden(g, k) /\ ~ Fixed(g, k) /\ ~ (Definers(g, k) # {})
  <2>1. Source(g, k) = [in |-> g, value |-> IF g = App /\ k \in DOMAIN input.scalar THEN input.scalar[k]
                                            ELSE Lit("undefined")]
    BY <1>6, Zenon DEF Source
  <2>2. Lit("undefined") \in Words
    BY DEF Words
  <2> QED
    BY <1>1, <1>2, <2>1, <2>2
<1> QED
  BY <1>3, <1>4, <1>5, <1>6

LEMMA MeaningsDef ==
  ASSUME Typed
  PROVE  /\ Depth \in Nat
         /\ \A n \in 1..Depth, g \in Holders, v \in Words : Meanings[n][g][v] = Says(Meanings[n - 1], g, v)
         /\ \A n \in 0..Depth, g \in Holders, v \in Words : v.ref = None => Meanings[n][g][v] = v.text
<1> DEFINE S == 0..Depth
           Level == [Holders -> [Words -> Texts]]
           rank == [n \in S |-> n]
           H == [n \in S |-> [h \in [S -> Level] |->
                  [g \in Holders |-> [v \in Words |-> IF n = 0 THEN v.text ELSE Says(h[n - 1], g, v)]]]]
<1>1. Depth \in Nat
  BY Sizes DEF Depth
<1>2. ASSUME NEW L \in Level, NEW g \in Holders, NEW v \in Words
      PROVE  Says(L, g, v) \in Texts
  <2>1. CASE v.ref = None
    BY <2>1 DEF Says, Texts
  <2>2. CASE v.ref # None
    <3>1. v.ref \in Keys
      BY <2>2, LiteralFacts DEF Words
    <3>2. Source(g, v.ref).in \in Holders /\ Source(g, v.ref).value \in Words
      BY <3>1, SourceTyped
    <3> DEFINE h == Source(g, v.ref).in
               w == Source(g, v.ref).value
    <3>3. Says(L, g, v) = L[h][w]
      BY <2>2 DEF Says
    <3>4. h \in Holders /\ w \in Words
      BY <3>2
    <3> HIDE DEF h, w
    <3> QED
      BY <3>3, <3>4
  <2> QED
    BY <2>1, <2>2
<1>3. \A v \in Words : v.text \in Texts
  BY DEF Texts
<1>4. ASSUME NEW n \in S, NEW h \in [S -> Level], n # 0
      PROVE  n - 1 \in S /\ h[n - 1] \in Level
  <2>1. n - 1 \in S
    BY <1>1, <1>4
  <2> HIDE DEF S, Level
  <2> QED
    BY <2>1
<1>5. H \in [S -> [[S -> Level] -> Level]]
  <2>1. ASSUME NEW n \in S, NEW h \in [S -> Level]
        PROVE  [g \in Holders |-> [v \in Words |-> IF n = 0 THEN v.text ELSE Says(h[n - 1], g, v)]] \in Level
    <3>1. ASSUME NEW g \in Holders, NEW v \in Words
          PROVE  (IF n = 0 THEN v.text ELSE Says(h[n - 1], g, v)) \in Texts
      <4> HIDE DEF S, Level
      <4> QED
        BY <1>2, <1>3, <1>4
    <3> HIDE DEF S
    <3> QED
      BY <3>1
  <2> HIDE DEF S, Level
  <2> QED
    BY <2>1
<1>6. rank \in [S -> 0..Depth]
  OBVIOUS
<1>7. ASSUME NEW n \in S, NEW h \in [S -> Level], NEW i \in [S -> Level],
             \A m \in S : rank[m] < rank[n] => h[m] = i[m]
      PROVE  H[n][h] = H[n][i]
  <2>1. n # 0 => n - 1 \in S /\ rank[n - 1] < rank[n]
    BY <1>1
  <2>2. n # 0 => h[n - 1] = i[n - 1]
    <3> HIDE DEF S, rank
    <3> QED
      BY <1>7, <2>1
  <2>3. [g \in Holders |-> [v \in Words |-> IF n = 0 THEN v.text ELSE Says(h[n - 1], g, v)]]
         = [g \in Holders |-> [v \in Words |-> IF n = 0 THEN v.text ELSE Says(i[n - 1], g, v)]]
    BY <2>2
  <2> HIDE DEF S, Level
  <2> QED
    BY <2>3
<1>8. Ranked(S, Level, Depth, rank, H)
  <2>1. Level # {}
    <3>1. [g \in Holders |-> [v \in Words |-> v.text]] \in Level
      BY <1>3
    <3> QED
      BY <3>1
  <2> HIDE DEF S, Level, rank, H
  <2> QED
    BY <1>1, <1>5, <1>6, <1>7, <2>1 DEF Ranked
<1>9. \E M \in [S -> Level] : M = [n \in S |-> H[n][M]]
  <2> HIDE DEF S, Level, rank, H
  <2> QED
    BY <1>8, RankedRecursion
<1>10. \E M : M = [n \in S |->
                   [g \in Holders |-> [v \in Words |-> IF n = 0 THEN v.text ELSE Says(M[n - 1], g, v)]]]
  <2>1. PICK M \in [S -> Level] : M = [n \in S |-> H[n][M]]
    BY <1>9
  <2>2. \A n \in S : H[n][M] = [g \in Holders |-> [v \in Words |-> IF n = 0 THEN v.text ELSE Says(M[n - 1], g, v)]]
    <3> HIDE DEF S, Level
    <3> QED
      OBVIOUS
  <2> HIDE DEF H, S, Level
  <2>3. M = [n \in S |->
              [g \in Holders |-> [v \in Words |-> IF n = 0 THEN v.text ELSE Says(M[n - 1], g, v)]]]
    BY <2>1, <2>2
  <2> QED
    BY <2>3
<1>11. Meanings = [n \in S |->
         [g \in Holders |-> [v \in Words |-> IF n = 0 THEN v.text ELSE Says(Meanings[n - 1], g, v)]]]
  BY <1>10, ZenonT(30) DEF Meanings
<1>12. \A n \in S, g \in Holders, v \in Words :
         Meanings[n][g][v] = IF n = 0 THEN v.text ELSE Says(Meanings[n - 1], g, v)
  <2> DEFINE Body(n) == [g \in Holders |-> [v \in Words |-> IF n = 0 THEN v.text ELSE Says(Meanings[n - 1], g, v)]]
  <2>1. ASSUME NEW n \in S
        PROVE  Meanings[n] = Body(n)
    <3>1. Meanings = [m \in S |-> Body(m)]
      BY <1>11, Zenon
    <3> HIDE DEF S, Body
    <3> QED
      BY <3>1, Zenon
  <2>2. \A n \in S, g \in Holders, v \in Words : Body(n)[g][v] = IF n = 0 THEN v.text ELSE Says(Meanings[n - 1], g, v)
    OBVIOUS
  <2> HIDE DEF S, Body
  <2> QED
    BY <2>1, <2>2, Zenon
<1>13. \A n \in 1..Depth : n \in S /\ n # 0
  BY <1>1
<1>14. \A L, g, v : v.ref = None => Says(L, g, v) = v.text
  BY DEF Says
<1> HIDE DEF S
<1>15. 0..Depth = S
  BY DEF S
<1> QED
  BY <1>1, <1>12, <1>13, <1>14, <1>15

\* Where a reference of f leads, in terms of what AppVars answers and the files.
LEMMA SourceIs ==
  ASSUME Typed, Control, at = 15, NEW f \in Holders, NEW k \in Keys
  PROVE  /\ k \in DOMAIN Answering(f) => Source(f, k) = [in |-> f, value |-> Answering(f)[k]]
         /\ k \notin DOMAIN Answering(f) /\ Definers(f, k) # {} =>
              Source(f, k) = [in |-> Nearest(f, k), value |-> Own(Nearest(f, k))[k]]
         /\ k \notin DOMAIN Answering(f) /\ Definers(f, k) = {} =>
              Source(f, k) = [in |-> f, value |-> IF k \in DOMAIN Beyond(f) THEN Beyond(f)[k] ELSE Lit("undefined")]
<1>1. /\ k \in DOMAIN Answering(f) <=> Overridden(f, k) \/ Fixed(f, k)
      /\ k \in DOMAIN Answering(f) =>
           Answering(f)[k] = IF Overridden(f, k) THEN input.override[k] ELSE Lit(k)
  BY AnsweringFacts
<1>2. CASE Overridden(f, k)
  <2>1. Source(f, k) = [in |-> f, value |-> input.override[k]]
    BY <1>2, Zenon DEF Source
  <2> QED
    BY <1>1, <1>2, <2>1
<1>3. CASE ~ Overridden(f, k) /\ Fixed(f, k)
  <2>1. Source(f, k) = [in |-> f, value |-> Lit(k)]
    BY <1>3, Zenon DEF Source
  <2> QED
    BY <1>1, <1>3, <2>1
<1>4. CASE ~ Overridden(f, k) /\ ~ Fixed(f, k) /\ Definers(f, k) # {}
  <2>1. Source(f, k) = [in |-> Nearest(f, k), value |-> Own(Nearest(f, k))[k]]
    BY <1>4, Zenon DEF Source
  <2> QED
    BY <1>1, <1>4, <2>1
<1>5. CASE ~ Overridden(f, k) /\ ~ Fixed(f, k) /\ ~ (Definers(f, k) # {})
  <2>1. Source(f, k) = [in |-> f, value |-> IF f = App /\ k \in DOMAIN input.scalar THEN input.scalar[k]
                                            ELSE Lit("undefined")]
    BY <1>5, Zenon DEF Source
  <2>2. (IF f = App /\ k \in DOMAIN input.scalar THEN input.scalar[k] ELSE Lit("undefined"))
          = IF k \in DOMAIN Beyond(f) THEN Beyond(f)[k] ELSE Lit("undefined")
    BY EmptyTable DEF Beyond
  <2> QED
    BY <1>1, <1>5, <2>1, <2>2
<1> QED
  BY <1>2, <1>3, <1>4, <1>5

-----------------------------------------------------------------------------
(* A property means what it is resolved to.                                *)

\* In one file, between the levels B and D: what is replaced means what replaces
\* it, one level down.
Levelled(P, table, D, B, L) ==
  /\ \A n \in B..D, v \in Words : v.ref = None => L[n][v] = v.text
  /\ \A n \in B + 1..D, v \in Words : v.ref # None => L[n][v] = L[n - 1][Replace(P, table, v)]

\* Then each value is resolved to what it means, so many levels up as it takes
\* replacements.
LEMMA WalkMeans ==
  ASSUME NEW P \in Sources, NEW table \in Sources, NEW v \in Values,
         ResolveIn(P, table, v) \in Literals,
         NEW D \in Nat, NEW B \in Nat, NEW L, Levelled(P, table, D, B, L)
  PROVE  \A n \in B + Last + 1..D : L[n][v] = ResolveIn(P, table, v).text
<1> DEFINE R == Walk(P, table, v)
           w == ResolveIn(P, table, v)
           Q(x) == \A n \in B + x..D : L[n][R[Last - x]] = w.text
           T == {x \in Nat : x <= Last => Q(x)}
<1> HIDE DEF R, w
<1>1. /\ Last \in Nat /\ Last >= 1 /\ R[0] = v
      /\ \A n \in 0..Last - 1 : R[n + 1] = Replace(P, table, R[n])
      /\ \A n \in 0..Last : R[n] \in Words
  BY WalkFacts DEF R, Words
<1>2. w \in Literals /\ w = R[Last] /\ w.ref = None
  BY ResolveFacts DEF R, w
<1>3. 0 \in T
  <2>1. Last - 0 = Last /\ Last \in 0..Last /\ B + 0 = B
    BY <1>1
  <2> QED
    BY <1>1, <1>2, <2>1 DEF Levelled
<1>4. ASSUME NEW x \in Nat, x \in T
      PROVE  x + 1 \in T
  <2> SUFFICES ASSUME x + 1 <= Last, NEW n \in B + (x + 1)..D
               PROVE  L[n][R[Last - (x + 1)]] = w.text
    OBVIOUS
  <2> DEFINE j == Last - (x + 1)
             r == R[j]
  <2>1. /\ j \in 0..Last - 1 /\ j \in 0..Last /\ j + 1 = Last - x /\ x <= Last
        /\ n \in B + x..D /\ n - 1 \in B + x..D /\ n \in B + 1..D
    BY <1>1
  <2>2. R[j + 1] = Replace(P, table, r) /\ r \in Words
    BY <1>1, <2>1
  <2>3. L[n][R[j + 1]] = w.text /\ L[n - 1][R[j + 1]] = w.text
    BY <1>4, <2>1
  <2> HIDE DEF j, r, T, Q
  <2> SUFFICES L[n][r] = w.text
    BY DEF j, r
  <2>4. CASE r.ref = None
    BY <2>2, <2>3, <2>4 DEF Replace
  <2>5. CASE r.ref # None
    BY <2>1, <2>2, <2>3, <2>5 DEF Levelled
  <2> QED
    BY <2>4, <2>5
<1>5. Last \in T
  <2> HIDE DEF T
  <2> QED
    BY <1>1, <1>3, <1>4, SetInduction
<1>6. Q(Last) /\ Last - Last = 0
  BY <1>1, <1>5
<1>7. \A n \in B + Last + 1..D : n \in B + Last..D
  BY <1>1
<1> QED
  BY <1>1, <1>6, <1>7 DEF w

\* A holder has what a file from it on defines, and each means what it is, from
\* level b on.
Means(f, b) ==
  /\ \A k \in Keys : k \in DOMAIN ps[f] <=> Definers(f, k) # {}
  /\ \A k \in DOMAIN ps[f], n \in b..Depth :
       Meanings[n][Nearest(f, k)][Own(Nearest(f, k))[k]] = ps[f][k].text

\* So it is for a file in a tower if it is for the one below it.
LEMMA MeansOn ==
  ASSUME Typed, Control, at = 15, NEW t \in Seq(Holders), Tower(t),
         NEW i \in 1..Len(t), NEW b \in Nat, i # Len(t) => Means(t[i + 1], b)
  PROVE  Means(t[i], b + Last + 1)
<1> DEFINE f == t[i]
           P == Answering(f)
           own == Own(f)
           S == Beneath(t, i)
           B == Beyond(f)
           table == Over(Over(own, S), B)
           L == [n \in 0..Depth |-> Meanings[n][f]]
<1>1. Len(t) \in Nat /\ f \in Holders /\ (i # Len(t) => i + 1 \in 1..Len(t) /\ t[i + 1] \in Holders)
  OBVIOUS
<1>2. ps[f] = ResOn(P, own, S, B)
  BY DEF Tower
<1>3. own \in Sources /\ ps[f] \in Tables /\ \A g \in Holders : ps[g] \in Tables
  BY <1>1, WorldFacts
<1>4. P \in Sources
  <2>1. CASE Keys = {}
    <3>1. pks \in Sources /\ Early \in Sources /\ WithRepo \in Sources
      BY AnswerTables, OverFacts, TablesAreSources DEF Typed, Early, WithRepo
    <3> QED
      BY <3>1 DEF Answering, LoadP
  <2>2. CASE Keys # {}
    BY <1>1, <2>2, AnsweringFacts
  <2> QED
    BY <2>1, <2>2
<1>5. S \in Tables /\ (i # Len(t) => S = ps[t[i + 1]]) /\ (i = Len(t) => DOMAIN S = {})
  BY <1>1, <1>3, EmptyTable DEF Beneath
<1>6. B \in Sources
  BY WorldFacts, EmptyTable, TablesAreSources DEF Beyond
<1>7. Depth \in Nat
  BY MeaningsDef
<1> HIDE DEF f, P, own, S, B, table
<1>8. /\ table \in Sources
      /\ \A k \in DOMAIN own : own[k] \in Values /\ k \in Keys /\ k \in DOMAIN table /\ table[k] = own[k]
      /\ \A k \in DOMAIN S : /\ k \in Keys /\ k \in DOMAIN table /\ S[k] \in Literals
                             /\ k \notin DOMAIN own => table[k] = S[k]
      /\ \A k : k \notin DOMAIN own \cup DOMAIN S =>
           (IF k \in DOMAIN table THEN table[k] ELSE Lit("undefined"))
             = IF k \in DOMAIN B THEN B[k] ELSE Lit("undefined")
  <2> DEFINE U == Over(own, S)
  <2>1. /\ U \in Sources /\ DOMAIN own \subseteq Keys /\ DOMAIN U = DOMAIN own \cup DOMAIN S
        /\ \A k \in DOMAIN own : own[k] \in Values /\ U[k] = own[k]
        /\ \A k \in DOMAIN S : k \notin DOMAIN own => U[k] = S[k]
    BY <1>3, <1>5, OverSources
  <2>2. DOMAIN S \subseteq Keys /\ \A k \in DOMAIN S : S[k] \in Literals
    BY <1>5, TableFacts
  <2>3. table = Over(U, B)
    BY DEF table
  <2> HIDE DEF U
  <2>4. /\ table \in Sources /\ DOMAIN table = DOMAIN U \cup DOMAIN B
        /\ \A k \in DOMAIN U : table[k] = U[k]
        /\ \A k \in DOMAIN B : k \notin DOMAIN U => table[k] = B[k]
    <3>1. U \in Sources
      BY <2>1
    <3>2. /\ Over(U, B) \in Sources
          /\ DOMAIN U \subseteq Keys
          /\ DOMAIN Over(U, B) = DOMAIN U \cup DOMAIN B
          /\ \A k \in DOMAIN U : U[k] \in Values /\ Over(U, B)[k] = U[k]
          /\ \A k \in DOMAIN B : B[k] \in Values /\ (k \notin DOMAIN U => Over(U, B)[k] = B[k])
      BY <1>6, <3>1, OverValues, Zenon
    <3> QED
      BY <2>3, <3>2
  <2> QED
    BY <2>1, <2>2, <2>4
<1>9. /\ DOMAIN ps[f] = DOMAIN own \cup DOMAIN S
      /\ \A k \in DOMAIN own : ps[f][k] = ResolveIn(P, table, own[k])
      /\ \A k \in DOMAIN S : k \notin DOMAIN own => ps[f][k] = S[k]
  <2> DEFINE here0 == [k \in DOMAIN own |-> ResolveIn(P, table, own[k])]
  <2>1. ps[f] = Over(here0, S)
    BY <1>2 DEF ResOn, table
  <2>2. DOMAIN here0 = DOMAIN own /\ \A k \in DOMAIN own : here0[k] = ResolveIn(P, table, own[k])
    OBVIOUS
  <2> HIDE DEF here0
  <2> QED
    BY <2>1, <2>2 DEF Over
<1>10. \A k : /\ k \in DOMAIN own => Definers(f, k) # {} /\ Nearest(f, k) = f
              /\ k \notin DOMAIN own /\ i # Len(t) =>
                   /\ Definers(f, k) = {} <=> Definers(t[i + 1], k) = {}
                   /\ Definers(f, k) # {} => Nearest(f, k) = Nearest(t[i + 1], k)
              /\ k \notin DOMAIN own /\ i = Len(t) => Definers(f, k) = {}
  BY NearestInTower DEF f, own
<1>11. \A k \in Keys : k \in DOMAIN ps[f] <=> Definers(f, k) # {}
  BY <1>5, <1>9, <1>10 DEF Means
<1>12. ASSUME NEW k \in DOMAIN S, k \notin DOMAIN own, NEW n \in b..Depth
       PROVE  Meanings[n][Nearest(f, k)][Own(Nearest(f, k))[k]] = S[k].text
  <2>1. i # Len(t)
    BY <1>5
  <2>2. Definers(f, k) # {}
    BY <1>8, <1>9, <1>11
  <2> QED
    BY <1>5, <1>10, <1>12, <2>1, <2>2 DEF Means
<1>13. /\ \A n \in 1..Depth, v \in Words : Meanings[n][f][v] = Says(Meanings[n - 1], f, v)
       /\ \A n \in 0..Depth, v \in Words : v.ref = None => Meanings[n][f][v] = v.text
  BY <1>1, MeaningsDef DEF f
<1>14. \A n \in b..Depth : n \in 0..Depth
  BY <1>7
<1>15. \A n \in b + 1..Depth : n \in 1..Depth /\ n \in 0..Depth /\ n - 1 \in 0..Depth /\ n - 1 \in b..Depth
  BY <1>7
<1>16. \A n \in 0..Depth : L[n] = Meanings[n][f]
  OBVIOUS
<1> HIDE DEF L
<1>17. ASSUME NEW n \in b + 1..Depth, NEW v \in Words, v.ref # None
       PROVE  L[n][v] = L[n - 1][Replace(P, table, v)]
  <2> DEFINE k == v.ref
             w == Replace(P, table, v)
  <2>1. k \in Keys
    BY <1>17, LiteralFacts DEF Words
  <2>2. L[n][v] = Meanings[n - 1][Source(f, k).in][Source(f, k).value]
    BY <1>13, <1>15, <1>16, <1>17, Zenon DEF Says
  <2>3. L[n - 1] = Meanings[n - 1][f]
    BY <1>15, <1>16
  <2>4. w = IF k \in DOMAIN P THEN P[k] ELSE IF k \in DOMAIN table THEN table[k] ELSE Lit("undefined")
    BY <1>17 DEF Replace
  <2>5. /\ k \in DOMAIN P => Source(f, k) = [in |-> f, value |-> P[k]]
        /\ k \notin DOMAIN P /\ Definers(f, k) # {} =>
             Source(f, k) = [in |-> Nearest(f, k), value |-> Own(Nearest(f, k))[k]]
        /\ k \notin DOMAIN P /\ Definers(f, k) = {} =>
             Source(f, k) = [in |-> f, value |-> IF k \in DOMAIN B THEN B[k] ELSE Lit("undefined")]
    BY <1>1, <2>1, SourceIs DEF f, P, B
  <2> HIDE DEF k, w
  <2> SUFFICES L[n][v] = L[n - 1][w]
    BY DEF w
  <2>6. CASE k \in DOMAIN P
    BY <2>2, <2>3, <2>4, <2>5, <2>6
  <2>7. CASE k \notin DOMAIN P /\ k \in DOMAIN own
    <3>1. Source(f, k).in = f /\ Source(f, k).value = own[k]
      BY <1>10, <2>5, <2>7 DEF own
    <3>2. w = own[k]
      BY <1>8, <2>4, <2>7
    <3> QED
      BY <2>2, <2>3, <3>1, <3>2
  <2>8. CASE k \notin DOMAIN P /\ k \notin DOMAIN own /\ k \in DOMAIN S
    <3>1. L[n][v] = S[k].text
      <4>1. Definers(f, k) # {}
        BY <1>9, <1>11, <2>1, <2>8
      <4> QED
        BY <1>12, <1>15, <2>2, <2>5, <2>8, <4>1
    <3>2. w = S[k] /\ w \in Words /\ w.ref = None
      BY <1>8, <2>4, <2>8, LiteralFacts DEF Words
    <3>3. L[n - 1][w] = w.text
      BY <1>13, <1>15, <2>3, <3>2
    <3> QED
      BY <3>1, <3>2, <3>3
  <2>9. CASE k \notin DOMAIN P /\ k \notin DOMAIN own \cup DOMAIN S
    <3>1. Definers(f, k) = {}
      BY <1>9, <1>11, <2>1, <2>9
    <3>2. w = IF k \in DOMAIN B THEN B[k] ELSE Lit("undefined")
      BY <1>8, <2>4, <2>9
    <3> QED
      BY <2>2, <2>3, <2>5, <2>9, <3>1, <3>2
  <2> QED
    BY <2>6, <2>7, <2>8, <2>9
<1>18. \A n \in b..Depth, v \in Words : v.ref = None => L[n][v] = v.text
  BY <1>13, <1>14, <1>16
<1>19. ASSUME NEW k \in DOMAIN ps[f], NEW n \in b + Last + 1..Depth
       PROVE  Meanings[n][Nearest(f, k)][Own(Nearest(f, k))[k]] = ps[f][k].text
  <2>1. Last \in Nat /\ n \in b..Depth /\ n \in 0..Depth
    BY <1>7, Sizes DEF Last
  <2>2. CASE k \notin DOMAIN own
    BY <1>9, <1>12, <2>1, <2>2
  <2>3. CASE k \in DOMAIN own
    <3>1. own[k] \in Values /\ ResolveIn(P, table, own[k]) \in Literals
      BY <1>3, <1>8, <1>9, <2>3, TableFacts
    <3> DEFINE D == Depth
    <3>2. D \in Nat
      BY <1>7
    <3>3. Levelled(P, table, D, b, L)
      BY <1>17, <1>18 DEF Levelled
    <3> HIDE DEF D
    <3>4. \A m \in b + Last + 1..D : L[m][own[k]] = ResolveIn(P, table, own[k]).text
      BY <1>4, <1>8, <3>1, <3>2, <3>3, WalkMeans
    <3>5. L[n][own[k]] = ps[f][k].text
      BY <1>9, <2>3, <3>4 DEF D
    <3>6. Nearest(f, k) = f /\ Own(Nearest(f, k)) = own
      BY <1>10, <2>3 DEF own
    <3> QED
      BY <1>16, <2>1, <3>5, <3>6
  <2> QED
    BY <2>2, <2>3
<1> QED
  BY <1>11, <1>19 DEF Means, f

LEMMA Times ==
  /\ \A w, n \in Nat : w * n \in Nat
  /\ \A w, n \in Nat : w * (n + 1) = w * n + w
  /\ \A w, m, n \in Nat : m <= n => w * m <= w * n
<1>1. \A w, n \in Nat : w * n \in Nat /\ w * (n + 1) = w * n + w
  OBVIOUS
<1>2. ASSUME NEW w \in Nat, NEW m \in Nat, NEW n \in Nat, m <= n
      PROVE  w * m <= w * n
  <2>1. PICK d \in Nat : n = m + d
    <3>1. n - m \in Nat /\ n = m + (n - m)
      BY <1>2
    <3> QED
      BY <3>1
  <2>2. w * d \in Nat
    BY <1>1
  <2>3. w * (m + d) = w * m + w * d
    OBVIOUS
  <2>4. w * m \in Nat
    BY <1>1
  <2> QED
    BY <2>1, <2>2, <2>3, <2>4
<1> QED
  BY <1>1, <1>2

\* A tower means what it is resolved to, from its lowest file up.
LEMMA TowerMeans ==
  ASSUME Typed, Control, at = 15, NEW t \in Seq(Holders), Tower(t), NEW i \in 1..Len(t)
  PROVE  Means(t[i], Depth)
<1> DEFINE N == Len(t)
           W == Last + 1
<1>1. N \in Nat /\ N >= 2 /\ N <= Cardinality(Files) + 1
  BY DEF Tower
<1>2. W \in Nat /\ W = Cardinality(Keys) + 2
  BY Sizes DEF Last
<1> HIDE DEF W
<1> DEFINE T == {x \in Nat : x < N => Means(t[N - x], W * (x + 1))}
<1>3. ASSUME NEW x \in Nat, x < N, x = 0 \/ Means(t[N - (x - 1)], W * x)
      PROVE  Means(t[N - x], W * (x + 1))
  <2>1. N - x \in 1..N /\ (N - x) + 1 = N - (x - 1) /\ (x = 0 <=> N - x = N)
    BY <1>1, <1>3
  <2>2. W * x \in Nat /\ W * x + Last + 1 = W * (x + 1)
    <3>1. W * x \in Nat /\ W * (x + 1) = W * x + W
      BY <1>2, Times
    <3> DEFINE a == W * x
    <3>2. a \in Nat /\ Last \in Nat /\ W = Last + 1
      BY <3>1, Sizes DEF Last, W
    <3> HIDE DEF a
    <3>3. a + Last + 1 = a + W
      BY <3>2
    <3> QED
      BY <3>1, <3>3 DEF a
  <2> DEFINE j == N - x
             b == W * x
  <2>3. j \in 1..Len(t) /\ b \in Nat /\ (j # Len(t) => Means(t[j + 1], b))
    BY <1>3, <2>1, <2>2
  <2> HIDE DEF j, b
  <2>4. Means(t[j], b + Last + 1)
    BY <2>3, MeansOn
  <2> QED
    BY <2>2, <2>4 DEF j, b
<1>4. Nat \subseteq T
  <2>1. 0 \in T
    <3>1. 0 < N
      BY <1>1
    <3> QED
      BY <1>3, <3>1
  <2>2. ASSUME NEW x \in Nat, x \in T
        PROVE  x + 1 \in T
    <3> SUFFICES ASSUME x + 1 < N
                 PROVE  Means(t[N - (x + 1)], W * ((x + 1) + 1))
      OBVIOUS
    <3>1. x < N /\ x + 1 \in Nat /\ (x + 1) - 1 = x
      BY <1>1
    <3>2. Means(t[N - x], W * (x + 1))
      BY <2>2, <3>1
    <3> QED
      BY <1>3, <3>1, <3>2
  <2> HIDE DEF T
  <2> QED
    BY <2>1, <2>2, SetInduction
<1>5. Means(t[i], W * ((N - i) + 1))
  <2>1. N - i \in Nat /\ N - i < N /\ N - (N - i) = i
    BY <1>1
  <2>2. N - i \in T
    <3> HIDE DEF T
    <3> QED
      BY <1>4, <2>1
  <2> QED
    BY <2>1, <2>2
<1>6. W * ((N - i) + 1) <= Depth /\ Depth \in Nat /\ W * ((N - i) + 1) \in Nat
  <2> DEFINE m == (N - i) + 1
             n == Cardinality(Files) + 2
  <2>1. m \in Nat /\ n \in Nat /\ m <= n
    BY <1>1, Sizes
  <2>2. Depth = W * n
    BY <1>2 DEF Depth
  <2> HIDE DEF m, n
  <2>3. W * m <= W * n /\ W * m \in Nat /\ W * n \in Nat
    BY <1>2, <2>1, Times
  <2> QED
    BY <2>2, <2>3 DEF m
<1> DEFINE b == W * ((N - i) + 1)
<1> HIDE DEF b
<1>7. Depth \in b..Depth /\ \A n \in Depth..Depth : n = Depth
  BY <1>6 DEF b
<1>8. Means(t[i], b)
  BY <1>5 DEF b
<1> QED
  BY <1>7, <1>8 DEF Means

LEMMA ScopingHolds ==
  ASSUME Typed, Control, Layered, AppOnTop, AtEnd
  PROVE  Scoping
<1> SUFFICES ASSUME status = "done", NEW f \in {App, instance}, NEW k \in DOMAIN ps[f]
             PROVE  ps[f][k].text = Meaning(Nearest(f, k), Own(Nearest(f, k))[k])
  BY DEF Scoping
<1>1. loading = <<>> /\ at = 15
  BY DEF AtEnd
<1>2. PICK t \in Seq(Holders) : Tower(t)
  BY <1>1, TowerStands
<1>3. \E i \in 1..Len(t) : t[i] = f
  <2>1. Len(t) \in Nat /\ Len(t) >= 2 /\ t[1] = App /\ t[2] = instance
    BY <1>2 DEF Tower
  <2>2. 1 \in 1..Len(t) /\ 2 \in 1..Len(t)
    BY <2>1
  <2> QED
    BY <2>1, <2>2
<1>4. Means(f, Depth)
  BY <1>1, <1>2, <1>3, TowerMeans
<1>5. Depth \in Depth..Depth
  BY MeaningsDef
<1> QED
  BY <1>4, <1>5, MeaningIs DEF Means

\* However settings files override one another, a property means what the nearest
\* file that has it says, its references read in that file and the supers of it,
\* after what AppVars says and before the yaml of the application
\* (Settings::POST_CONSTRUCT, SuperSettings, Application::setSuper and
\* Properties::RESOLVE).
THEOREM ScopeKept == Spec => []Scoping
<1>1. Spec => [](Layered /\ AppOnTop)
  BY LayeredInit, LayeredStep, TypedInvariant, PTL DEF Spec
<1>2. Typed /\ Control /\ AtEnd /\ Layered /\ AppOnTop => Scoping
  BY ScopingHolds
<1> QED
  BY <1>1, <1>2, TypedInvariant, PTL
=============================================================================
