----------------------------- MODULE BuildOrder -----------------------------
(***************************************************************************)
(* One `mkn [clean] build [-p a,b] [-d ...]`: which dependencies it        *)
(* selects (dep.cpp), in which order it puts them (graph.hpp), and what it *)
(* builds of each application (process.cpp, build.cpp).                    *)
(*                                                                         *)
(* An application is a project with a profile; the applications of one     *)
(* invocation are numbered so that dependencies have larger numbers.       *)
(* Compiling and linking one application is one step that succeeds or ends *)
(* the run (CompilePool has the details).                                  *)
(***************************************************************************)
EXTENDS Integers, SequencesExt

CONSTANTS Apps,      \* the applications, numbers
          Projects,  \* dep: and self: lists, an ordered one per application
          RootLists, \* the profiles of the root project given to -p
          DepArgs,   \* the arguments of -d
          SelfDeps   \* TRUE when a root may depend on another one

ASSUME AppsAssumption == Apps \subseteq Nat /\ IsFiniteSet(Apps)
ASSUME ProjectsAssumption ==
         /\ Projects \subseteq [Apps -> Seq(Apps)]
         /\ \A l \in Projects : \A a \in Apps : \A i \in DOMAIN l[a] : l[a][i] > a
ASSUME RootListsAssumption == RootLists \subseteq Seq(Apps) \ {<<>>}
ASSUME DepArgsAssumption ==
         \A d \in DepArgs : /\ d.level \in Nat /\ d.level < 65536
                           /\ d.names \subseteq Apps /\ d.plus \in BOOLEAN

VARIABLES
  \* the command line and the yaml files: never change
  kids, mains, sourced, roots, arg, clean,
  \* per application
  deps,      \* Application::deps, a sequence
  ig,        \* not selected
  main_,     \* still has its main file
  artifact,  \* what is in its buildDir(): "none", "lib" or "exe"
  recorded,  \* BuildRecorder
  \* main_entry and CREATE
  pc,
  k,         \* index in roots
  todo       \* dependencies process() has still to visit

input == <<kids, mains, sourced, roots, arg, clean>>
app   == <<deps, ig, main_, artifact, recorded>>
vars  == <<input, app, pc, k, todo>>

\* Everything below a in the dependency lists d.
Reach(d, a) ==
  LET R[x \in Apps] == UNION {{y} \cup R[y] : y \in ToSet(d[x])} IN R[a]

Independent == \A i, j \in DOMAIN roots : roots[i] \notin Reach(kids, roots[j])

Init == /\ kids \in Projects
        /\ roots \in RootLists
        /\ SelfDeps \/ Independent
        /\ mains \in SUBSET ToSet(roots)
        /\ sourced \in {Apps} \cup {Apps \ {a} : a \in Apps}
        /\ arg \in DepArgs
        /\ clean \in BOOLEAN
        /\ deps = kids
        /\ ig = [a \in Apps |-> TRUE]
        /\ main_ = [a \in Apps |-> a \in mains]
        /\ artifact = [a \in Apps |-> "none"]
        /\ recorded = {}
        /\ pc = "select"
        /\ k = 1
        /\ todo = <<>>

root == roots[k]

-----------------------------------------------------------------------------
(* Application::CREATE, the loop over profiles: buildDepVec per root.      *)

\* Fault: "+" alone does not raise the level.
LevelGiven == arg.level

Level    == IF arg.plus /\ arg.names = {} THEN 32767 ELSE arg.level
Half     == 32768
Int16s   == -Half..(Half - 1)
Int16(n) == ((n + Half) % (2 * Half)) - Half

\* buildDepVecRec: what it selects below a.  ig, an int16_t that wraps, is
\* decremented for every sibling, before the recursion.
Below(a, n) ==
  LET B[x \in Apps] ==
        [m \in Int16s |-> UNION {(IF Int16(m - i + 1) > 0 THEN {deps[x][i]} ELSE {})
                                 \cup B[deps[x][i]][Int16(m - i)] : i \in DOMAIN deps[x]}]
  IN B[a][n]

Direct == ToSet(deps[root])

\* Fault: level 1 taken for none.
SelectedAboveOne == (IF Level > 1 THEN Direct ELSE arg.names \cap Direct)
                    \cup UNION {Below(a, Int16(Level)) : a \in Direct}

Selected == (IF Level # 0 THEN Direct ELSE arg.names \cap Direct)
            \cup UNION {Below(a, Int16(Level)) : a \in Direct}

\* DepGrapher: the rounds in which the applications below a become leafs.
Rounds(S) ==
  LET Leafs(T) == {x \in T : ToSet(deps[x]) \cap T = {}}
      R[T \in SUBSET Apps] == IF T = {} THEN <<>> ELSE <<Leafs(T)>> \o R[T \ Leafs(T)]
  IN R[S]

\* The order of a round is that of an unordered_map.  Reversed at the end:
\* the first round last.
Graphed(a) ==
  LET S        == Reach(deps, a)
      round(x) == CHOOSE n \in DOMAIN Rounds(S) : x \in Rounds(S)[n]
  IN {s \in SetToSeqs(S) : \A i, j \in DOMAIN s : i < j => round(s[i]) >= round(s[j])}

\* dep_libs regraphs the root and everything below it.
Lists(a) == IF a = root \/ a \in Reach(deps, root) THEN Graphed(a) ELSE {deps[a]}

Graphings ==
  LET With(f, a, l) == [x \in {a} \cup DOMAIN f |-> IF x = a THEN l ELSE f[x]]
      P[S \in SUBSET Apps] ==
        IF S = {} THEN {<<>>}
        ELSE LET a == CHOOSE x \in S : TRUE
             IN UNION {{With(f, a, l) : l \in Lists(a)} : f \in P[S \ {a}]}
  IN P[Apps]

Select ==
  /\ pc = "select"
  /\ arg.names \subseteq Direct
  /\ ig' = [a \in Apps |-> IF a = root THEN arg.plus ELSE ig[a] /\ a \notin Selected]
  /\ deps' \in Graphings
  /\ IF k < Len(roots) THEN pc' = pc /\ k' = k + 1 ELSE pc' = "root" /\ k' = 1
  /\ UNCHANGED <<input, main_, artifact, recorded, todo>>

\* "Dependency project specified does not exist"
SelectFails ==
  /\ pc = "select"
  /\ ~(arg.names \subseteq Direct)
  /\ pc' = "exit"
  /\ UNCHANGED <<input, app, k, todo>>

-----------------------------------------------------------------------------
(* main_entry: process() for every root.                                   *)

\* Fault: deps walked from its front.
RootForward == /\ pc = "root"
               /\ todo' = deps[root]
               /\ pc' = "process"
               /\ UNCHANGED <<input, app, k>>

Root == /\ pc = "root"
        /\ todo' = Reverse(deps[root])
        /\ pc' = "process"
        /\ UNCHANGED <<input, app, k>>

\* Which application process() turns to: the next dependency, then the root.
Turn(a) == /\ pc = "process"
           /\ IF todo # <<>> THEN a = Head(todo) ELSE a = root
           /\ ~ig[a]

\* A dependency's main file is forgotten before it is built.
MainOf(a) == main_[a] /\ todo = <<>>

\* Fault: the main file is not work.
WorkSources(a) == a \in sourced

\* proc_a's second argument; tests are left out.
Work(a) == a \in sourced \/ MainOf(a)

Forget(a) == main_' = [main_ EXCEPT ![a] = MainOf(a)]

\* Fault: one root too many.
NextRootPast == IF k <= Len(roots) THEN pc' = "root" /\ k' = k + 1
                                   ELSE pc' = "done" /\ k' = k

NextRoot == IF k < Len(roots) THEN pc' = "root" /\ k' = k + 1
                              ELSE pc' = "done" /\ k' = k

Onward == IF todo # <<>> THEN todo' = Tail(todo) /\ UNCHANGED <<pc, k>>
                         ELSE todo' = todo /\ NextRoot

\* `if ((*app)->ig) continue` and `if (!this->ig)`.
Ignore == /\ pc = "process"
          /\ ig[IF todo # <<>> THEN Head(todo) ELSE root]
          /\ Onward
          /\ UNCHANGED <<input, app>>

\* Built before in this invocation: proc_a returns.
Again(a) == /\ Turn(a)
            /\ Work(a) /\ a \in recorded
            /\ Forget(a)
            /\ Onward
            /\ UNCHANGED <<input, deps, ig, artifact, recorded>>

\* Clean, compile and link.
Build(a) == /\ Turn(a)
            /\ Work(a) /\ a \notin recorded
            /\ recorded' = recorded \cup {a}
            /\ artifact' = [artifact EXCEPT ![a] = IF MainOf(a) THEN "exe" ELSE "lib"]
            /\ Forget(a)
            /\ Onward
            /\ UNCHANGED <<input, deps, ig>>

\* A unit does not compile, or the link fails: the exception ends the run.
BuildFails(a) == /\ Turn(a)
                 /\ Work(a) /\ a \notin recorded
                 /\ recorded' = recorded \cup {a}
                 /\ Forget(a)
                 /\ pc' = "exit"
                 /\ UNCHANGED <<input, deps, ig, artifact, k, todo>>

\* No work: nothing to compile or to link, but clean removes buildDir().
NoWork(a) == /\ Turn(a)
             /\ ~Work(a)
             /\ artifact' = IF clean THEN [artifact EXCEPT ![a] = "none"] ELSE artifact
             /\ Forget(a)
             /\ Onward
             /\ UNCHANGED <<input, deps, ig, recorded>>

Ended == pc \in {"done", "exit"} /\ UNCHANGED vars

Next == \/ Select \/ SelectFails \/ Root \/ Ignore \/ Ended
        \/ \E a \in Apps : Again(a) \/ Build(a) \/ BuildFails(a) \/ NoWork(a)

Spec == Init /\ [][Next]_vars

-----------------------------------------------------------------------------
(* Properties.                                                             *)

TypeOK ==
  /\ deps \in [Apps -> Seq(Apps)]
  /\ ig \in [Apps -> BOOLEAN]
  /\ main_ \in [Apps -> BOOLEAN]
  /\ artifact \in [Apps -> {"none", "lib", "exe"}]
  /\ recorded \subseteq Apps
  /\ pc \in {"select", "root", "process", "done", "exit"}
  /\ k \in DOMAIN roots
  /\ todo \in Seq(Apps)

RootSet == ToSet(roots)

\* An application is linked only when the library of every selected dependency
\* below it, at any depth and under any root, is there.
DepsFirst ==
  [][\A a \in Apps : artifact'[a] # artifact[a] /\ artifact'[a] # "none" =>
       \A d \in Reach(kids, a) \cap sourced : ~ig[d] => artifact[d] = "lib"]_vars

\* A run that ends well leaves what was asked for: of each selected root its
\* executable or its library, of each selected dependency its library.
Wanted(a) == IF a \in RootSet /\ a \in mains THEN "exe"
             ELSE IF a \in sourced THEN "lib" ELSE "none"

AllBuilt == pc = "done" => \A a \in Apps : ~ig[a] => artifact[a] = Wanted(a)

\* No dependency is selected when nothing that depends on it is: up to the
\* level of a bare -d, the selection reaches it from a root.  A higher one is
\* negative in an int16_t, and wraps when it is decremented.
SelectionConnected ==
  arg.level < 32768 => \A a \in Apps \ RootSet : ~ig[a] =>
    \E b \in Apps : a \in ToSet(kids[b]) /\ (b \in RootSet \/ ~ig[b])

\* `-d` without a value, and `-d +`, leave no dependency of any root out.
AllMeansAll ==
  /\ pc \in {"root", "process", "done"}
  /\ arg.level = 32767 \/ (arg.plus /\ arg.names = {})
  => \A r \in RootSet : \A a \in Reach(kids, r) \ RootSet : ~ig[a]

\* "If the project is a dependency, even if a main tag is present, library
\* linking is assumed" (yaml.md): also when it is a root as well.
DependencyIsLibrary ==
  pc = "done" => \A r \in RootSet : \A d \in Reach(kids, r) \cap sourced :
                   ~ig[d] => artifact[d] = "lib"

\* "if 1, project immediate dependencies are built, if two, includes
\* dependencies of dependencies" (dependencies.md).
Within(n) == LET W[m \in Nat] == IF m = 0 THEN {root}
                                 ELSE UNION {ToSet(kids[a]) : a \in W[m - 1]} \cup W[m - 1]
             IN W[n]

LevelIsDepth ==
  pc = "root" /\ Len(roots) = 1 /\ arg.level \in 1..Cardinality(Apps) =>
    \A a \in Apps \ RootSet : ~ig[a] <=> a \in Within(arg.level)
=============================================================================
