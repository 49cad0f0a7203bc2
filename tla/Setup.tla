-------------------------------- MODULE Setup --------------------------------
(***************************************************************************)
(* How one invocation turns the yaml files of a project and its            *)
(* dependencies into Applications: Application::setup (setup.cpp), which   *)
(* calls itself for super projects, self: profiles and dependencies        *)
(* through setSuper (maiken.cpp), Applications::getOrCreate (app.cpp) and  *)
(* popDepOrMod (depmod.cpp).                                               *)
(*                                                                         *)
(* It is one thread with a deep recursion over shared, half made           *)
(* Applications: the model is that recursion, with its stack.  All         *)
(* projects are on disk, the profiles they name exist, and modules are     *)
(* left out.                                                               *)
(***************************************************************************)
EXTENDS Naturals, SequencesExt

CONSTANTS Projects,
          Profiles,  \* 0 is the default one; profile: lists the others in order
          Yamls      \* the yaml files and the -p and -w of one invocation

Apps    == Projects \X Profiles
NoApp   == <<>>
Entries == Projects \X Seq(Profiles)

\* dep, self and with hold, per profile of a project, the entries of its lists;
\* the scalar form of dep: is in with.  What a yaml file does not mention is not
\* in the function's domain.  An entry names a project and its profiles.
Lists(f, S) == \A a \in DOMAIN f : a \in Apps /\ f[a] \in Seq(S)

ASSUME ProjectsAssumption == IsFiniteSet(Projects)

ASSUME ProfilesAssumption == Profiles \subseteq Nat /\ IsFiniteSet(Profiles) /\ 0 \in Profiles

ASSUME YamlsAssumption ==
  \A y \in Yamls :
    /\ Lists(y.dep, Entries) /\ Lists(y.with, Entries)
    /\ Lists(y.self, Profiles \ {0})
    /\ \A a \in DOMAIN y.parent : a \in Apps /\ y.parent[a] \in Profiles \ {0}
    /\ \A q \in DOMAIN y.super : q \in Projects /\ y.super[q] \in Projects
    /\ y.mains \subseteq Apps
    /\ y.roots \in Seq(Apps)
    /\ y.cli \in Seq(Entries)

VARIABLES
  yaml,      \* never changes
  status,    \* "run", "done", the KEXIT that ended the run, or "overflow"
  todo,      \* roots still to create
  stack,     \* the calls of setup(), the running one first
  memo,      \* Applications
  ro,        \* Application::ro
  bd,        \* the applications whose buildDir() is known
  sup, par, deps,
  ps,        \* the projects whose property: an application has
  incs,      \* the applications whose public include directories it has
  filled,    \* how often populateMaps added its arg:, link: and lib:
  main_,
  early      \* history: inherited from a super that was not set up yet

applications == <<memo, ro, bd, sup, par, deps, ps, incs, filled, main_, early>>
vars == <<yaml, status, todo, stack, applications>>

Init == /\ yaml \in Yamls
        /\ status = "run"
        /\ todo = yaml.roots
        /\ stack = <<>>
        /\ memo = {} /\ ro = {} /\ bd = {}
        /\ sup = [a \in Apps |-> NoApp]
        /\ par = [a \in Apps |-> NoApp]
        /\ deps = [a \in Apps |-> <<>>]
        /\ ps = [a \in Apps |-> {}]
        /\ incs = [a \in Apps |-> {}]
        /\ filled = [a \in Apps |-> 0]
        /\ main_ = {}
        /\ early = {}

-----------------------------------------------------------------------------
(* The yaml files.                                                         *)

Listed(f, a) == IF a \in DOMAIN f THEN f[a] ELSE <<>>
HasParent(a) == a \in DOMAIN yaml.parent
ParentOf(a)  == <<a[1], yaml.parent[a]>>
HasSuper(a)  == a[1] \in DOMAIN yaml.super
SuperOf(a)   == <<yaml.super[a[1]], 0>>

\* The profile of a, its parent, and so on, as many as a project may have.
Lineage(a) ==
  LET L[s \in Seq(Apps) \ {<<>>}] ==
        IF HasParent(Last(s)) /\ Len(s) <= Cardinality(Profiles)
        THEN L[Append(s, ParentOf(Last(s)))] ELSE s
  IN L[<<a>>]

\* PARENT_CYCLE asks whether a comes back to itself; in a cycle that a only
\* leads to it calls itself for ever.
Climb(a) == LET up == Tail(Lineage(a)) IN
  IF a \in ToSet(up) THEN "parents" ELSE IF HasParent(Last(Lineage(a))) THEN "overflow" ELSE "ok"

\* Fault: a profile is only kept from being its own parent.
ValidationShort(q) ==
  IF \E p \in Profiles \ {0} : HasParent(<<q, p>>) /\ ParentOf(<<q, p>>) = <<q, p>>
  THEN "parents" ELSE "ok"

\* preSetupValidation of project q: the first profile that is not all right.
Validation(q) ==
  LET bad == {p \in Profiles \ {0} : Climb(<<q, p>>) # "ok"}
  IN IF bad = {} THEN "ok" ELSE Climb(<<q, Min(bad)>>)

\* A and everything it leads to by the edges E.
Closure(E, A) ==
  LET C[S \in SUBSET Apps] ==
        LET T == S \cup UNION {E[b] : b \in S} IN IF T = S THEN S ELSE C[T]
  IN C[A]

-----------------------------------------------------------------------------
(* The calls.                                                              *)

\* at: where in setup() the call is; n: the profile of its lineage whose lists
\* it reads; with: it reads the scalar ones; i: the place in the list; apps:
\* what popDepOrMod passes to cyclicCheck.
Call(a) == [app |-> a, at |-> "super", n |-> 1, with |-> FALSE, i |-> 1, apps |-> {}]

top       == Head(stack)
At(where) == status = "run" /\ stack # <<>> /\ top.at = where
me        == top.app
node      == Lineage(me)[top.n]

Go(frame)          == stack' = <<frame>> \o Tail(stack)
SetUp(b, frame)    == stack' = <<Call(b), frame>> \o Tail(stack)
GoTo(where)        == Go([top EXCEPT !.at = where])

\* Fault: a root that exists already is looked at again and again.
CreateRootAgain ==
  /\ status = "run" /\ stack = <<>> /\ todo # <<>>
  /\ todo' = IF Head(todo) \in memo THEN todo ELSE Tail(todo)
  /\ ro' = ro \cup {Head(todo)}
  /\ memo' = memo \cup {Head(todo)}
  /\ stack' = IF Head(todo) \in memo THEN stack ELSE <<Call(Head(todo))>>
  /\ UNCHANGED <<yaml, status, bd, sup, par, deps, ps, incs, filled, main_, early>>

\* Application::CREATE: getOrCreateRoot for the next profile of -p.
CreateRoot ==
  /\ status = "run" /\ stack = <<>> /\ todo # <<>>
  /\ todo' = Tail(todo)
  /\ ro' = ro \cup {Head(todo)}
  /\ memo' = memo \cup {Head(todo)}
  /\ stack' = IF Head(todo) \in memo THEN stack ELSE <<Call(Head(todo))>>
  /\ UNCHANGED <<yaml, status, bd, sup, par, deps, ps, incs, filled, main_, early>>

Created == /\ status = "run" /\ stack = <<>> /\ todo = <<>>
           /\ status' = "done"
           /\ UNCHANGED <<yaml, todo, stack, applications>>

\* setSuper: nothing to do, a super that is the project itself, or getOrCreate
\* of the super's default profile, which is set up unless it exists.
SetSuper ==
  /\ At("super")
  /\ \/ /\ sup[me] # NoApp \/ ~HasSuper(me)
        /\ GoTo("validate")
        /\ UNCHANGED <<status, memo>>
     \/ /\ sup[me] = NoApp /\ HasSuper(me) /\ SuperOf(me)[1] = me[1]
        /\ status' = "super"
        /\ UNCHANGED <<stack, memo>>
     \/ /\ sup[me] = NoApp /\ HasSuper(me) /\ SuperOf(me)[1] # me[1]
        /\ memo' = memo \cup {SuperOf(me)}
        /\ IF SuperOf(me) \in memo
           THEN GoTo("inherit")
           ELSE SetUp(SuperOf(me), [top EXCEPT !.at = "inherit"])
        /\ UNCHANGED status
  /\ UNCHANGED <<yaml, todo, ro, bd, sup, par, deps, ps, incs, filled, main_, early>>

\* The chain a, f[a], f[f[a]]... and whether it has no end.
Chain(f, a) == Closure([b \in Apps |-> {f[b]} \ {NoApp}], {a})

Endless(f, a) == \A b \in Chain(f, a) : f[b] # NoApp

\* Fault: a super passes on its own properties only.
InheritedOwn(S) == ps[me] \cup {S[1]}

Inherited(S) == ps[me] \cup ps[S] \cup {S[1]}

\* The rest of setSuper: the super's own properties, the walk up the chain of
\* supers, and the properties that are not there yet.
Inherit ==
  /\ At("inherit")
  /\ LET S == SuperOf(me) IN
     /\ sup' = [sup EXCEPT ![me] = S]
     /\ IF \E b \in Chain(sup', S) : b[1] = me[1]
        THEN /\ status' = "super"
             /\ ps' = [ps EXCEPT ![S] = @ \cup {S[1]}]
             /\ UNCHANGED <<stack, early>>
        ELSE /\ ps' = [ps EXCEPT ![S] = @ \cup {S[1]}, ![me] = Inherited(S)]
             /\ early' = IF S \in early \/ (HasSuper(S) /\ sup[S] = NoApp)
                         THEN early \cup {me} ELSE early
             /\ GoTo("validate")
             /\ UNCHANGED status
  /\ UNCHANGED <<yaml, todo, memo, ro, bd, par, deps, incs, filled, main_>>

\* resolveProperties, preSetupValidation, and buildDir().
Validate ==
  /\ At("validate")
  /\ ps' = [ps EXCEPT ![me] = @ \cup {me[1]}]
  /\ IF Validation(me[1]) = "ok"
     THEN /\ bd' = bd \cup {me}
          /\ GoTo("take")
          /\ UNCHANGED status
     ELSE /\ status' = Validation(me[1])
          /\ UNCHANGED <<bd, stack>>
  /\ UNCHANGED <<yaml, todo, memo, ro, sup, par, deps, incs, filled, main_, early>>

-----------------------------------------------------------------------------
(* popDepOrMod, for the lists of one profile or for the scalar ones.       *)

\* The applications of entry e, unless the project is there with the profile
\* that is being set up.
AddEntry(v, e) ==
  IF \E i \in DOMAIN v : v[i] = <<e[1], me[2]>> THEN v
  ELSE v \o [i \in DOMAIN e[2] |-> <<e[1], e[2][i]>>]

\* The scalar ones of the command line, then of the whole lineage.
WithEntries ==
  LET W[n \in 0..Len(Lineage(me))] ==
        IF n = 0 THEN IF me \in ro THEN yaml.cli ELSE <<>>
        ELSE W[n - 1] \o Listed(yaml.with, Lineage(me)[n])
  IN W[Len(Lineage(me))]

\* The list v with the entries es, one after the other.
Popped(v, es) ==
  LET P[n \in 0..Len(es)] == [w \in Seq(Apps) |->
        IF n = 0 THEN w ELSE P[n - 1][AddEntry(w, es[Len(es) - n + 1])]]
  IN P[Len(es)][v]

\* Fault: an application keeps the par it has.
ParKept(new) == [b \in Apps |-> IF b \in new /\ par[b] = NoApp THEN me ELSE par[b]]

ParOf(new) == [b \in Apps |-> IF b \in new THEN me ELSE par[b]]

\* The first loop: create without setting up.
Take ==
  /\ At("take")
  /\ LET v   == Popped(deps[me], IF top.with THEN WithEntries ELSE Listed(yaml.dep, node))
         new == ToSet(SubSeq(v, Len(deps[me]) + 1, Len(v)))
     IN /\ deps' = [deps EXCEPT ![me] = v]
        /\ memo' = memo \cup new
        /\ par' = IF top.with THEN par ELSE ParOf(new)
        /\ Go([top EXCEPT !.at = "self", !.i = 1, !.apps = new])
  /\ UNCHANGED <<yaml, status, todo, ro, bd, sup, ps, incs, filled, main_, early>>

Selves == IF top.with THEN <<>> ELSE Listed(yaml.self, node)

\* The self: loop: getOrCreate sets a new one up before it gets its par.
SelfSetUp ==
  /\ At("self") /\ top.i \in DOMAIN Selves
  /\ LET b == <<me[1], Selves[top.i]>> IN
     /\ b \notin memo
     /\ memo' = memo \cup {b}
     /\ SetUp(b, top)
  /\ UNCHANGED <<yaml, status, todo, ro, bd, sup, par, deps, ps, incs, filled, main_, early>>

SelfTake ==
  /\ At("self") /\ top.i \in DOMAIN Selves
  /\ LET b == <<me[1], Selves[top.i]>> IN
     /\ b \in memo
     /\ par' = [par EXCEPT ![b] = me]
     /\ deps' = [deps EXCEPT ![me] = Append(@, b)]
     /\ Go([top EXCEPT !.i = @ + 1, !.apps = @ \cup {b}])
  /\ UNCHANGED <<yaml, status, todo, memo, ro, bd, sup, ps, incs, filled, main_, early>>

\* Fault: the profile is not compared.
OnChainProject == \E b \in Chain(par, me), c \in top.apps : b[1] = c[1]

OnChain == \E b \in Chain(par, me), c \in top.apps : b = c

\* cyclicCheck calls itself up the par chain first and compares on the way
\* back: a chain without an end is a stack overflow.
CyclicCheck ==
  /\ At("self") /\ top.i \notin DOMAIN Selves
  /\ \/ /\ Endless(par, me)
        /\ status' = "overflow"
        /\ UNCHANGED stack
     \/ /\ ~Endless(par, me) /\ OnChain
        /\ status' = "cycle"
        /\ UNCHANGED stack
     \/ /\ ~Endless(par, me) /\ ~OnChain
        /\ Go([top EXCEPT !.at = "each", !.i = 1])
        /\ UNCHANGED status
  /\ UNCHANGED <<yaml, todo, applications>>

\* Fault: a dependency is set up for everyone that lists it.
NotYetAgain(b) == TRUE

NotYet(b) == b \notin bd

\* The last loop, over all of deps: set up what is not.
Each ==
  /\ At("each") /\ top.i \in DOMAIN deps[me]
  /\ LET next == [top EXCEPT !.i = @ + 1] IN
     IF NotYet(deps[me][top.i]) THEN SetUp(deps[me][top.i], next) ELSE Go(next)
  /\ UNCHANGED <<yaml, status, todo, applications>>

-----------------------------------------------------------------------------
\* populateMaps, and on to the parent profile; after the last to the scalars.
NextNode ==
  /\ At("each") /\ top.i \notin DOMAIN deps[me] /\ ~top.with
  /\ incs' = [incs EXCEPT ![me] = @ \cup {me}]
  /\ filled' = IF top.n = 1 THEN [filled EXCEPT ![me] = @ + 1] ELSE filled
  /\ Go(IF top.n < Len(Lineage(me)) THEN [top EXCEPT !.at = "take", !.n = @ + 1]
                                    ELSE [top EXCEPT !.at = "take", !.with = TRUE])
  /\ UNCHANGED <<yaml, status, todo, memo, ro, bd, sup, par, deps, ps, main_, early>>

\* Fault: what the dependencies got from theirs is not passed on.
PublicOwn == incs[me] \cup {b \in ToSet(deps[me]) : b \in incs[b]}

\* populateMapsFromDependencies.
Public == incs[me] \cup UNION {incs[b] : b \in ToSet(deps[me])}

HasMain == \E n \in DOMAIN Lineage(me) : Lineage(me)[n] \in yaml.mains

\* The rest of setup(): includes of the dependencies, and the main file, which
\* a dependency loses.
End ==
  /\ At("each") /\ top.i \notin DOMAIN deps[me] /\ top.with
  /\ incs' = [incs EXCEPT ![me] = Public]
  /\ main_' = IF par[me] = NoApp /\ (me \in main_ \/ HasMain) THEN main_ \cup {me}
              ELSE main_ \ {me}
  /\ stack' = Tail(stack)
  /\ UNCHANGED <<yaml, status, todo, memo, ro, bd, sup, par, deps, ps, filled, early>>

Ended == status # "run" /\ UNCHANGED vars

Step == \/ CreateRoot \/ Created \/ SetSuper \/ Inherit \/ Validate
        \/ Take \/ SelfSetUp \/ SelfTake \/ CyclicCheck \/ Each \/ NextNode \/ End

Next == Step \/ Ended

Spec == Init /\ [][Next]_vars

\* One thread, which goes on.
FairSpec == Spec /\ WF_vars(Step)

-----------------------------------------------------------------------------
(* Properties.                                                             *)

Frames == [app : Apps, at : {"super", "inherit", "validate", "take", "self", "each"},
           n : 1..Cardinality(Profiles), with : BOOLEAN, i : Nat, apps : SUBSET Apps]

TypeOK ==
  /\ status \in {"run", "done", "cycle", "super", "parents", "overflow"}
  /\ ToSet(todo) \subseteq Apps
  /\ \A i \in DOMAIN stack : stack[i] \in Frames
  /\ memo \subseteq Apps /\ ro \subseteq memo /\ bd \subseteq memo
  /\ sup \in [Apps -> Apps \cup {NoApp}]
  /\ par \in [Apps -> Apps \cup {NoApp}]
  /\ \A a \in Apps : ToSet(deps[a]) \subseteq memo
  /\ ps \in [Apps -> SUBSET Projects]
  /\ incs \in [Apps -> SUBSET Apps]
  /\ filled \in [Apps -> Nat]
  /\ main_ \subseteq memo /\ early \subseteq memo

\* What a's yaml file says it needs: by dep: and self:, by with:, by super:.
Of(es)      == UNION {{<<e[1], p>> : p \in ToSet(e[2])} : e \in ToSet(es)}
Named(f, a) == UNION {Of(Listed(f, b)) : b \in ToSet(Lineage(a))}
Selfs(a)    == {<<a[1], p>> : p \in UNION {ToSet(Listed(yaml.self, b)) : b \in ToSet(Lineage(a))}}

Needs  == [a \in Apps |-> Named(yaml.dep, a) \cup Selfs(a)]
Withs  == [a \in Apps |-> Named(yaml.with, a) \cup
                          (IF a \in ToSet(yaml.roots) THEN Of(yaml.cli) ELSE {})]
Supers == [a \in Apps |-> IF HasSuper(a) THEN {SuperOf(a)} ELSE {}]
All    == [a \in Apps |-> Needs[a] \cup Withs[a] \cup Supers[a]]

\* What it came to depend on, and of that what it needs.
Taken  == [a \in Apps |-> ToSet(deps[a])]
Needed == [a \in Apps |-> Taken[a] \cap Needs[a]]

\* Everything a leads to, and all there is in an invocation.
Below(E, a) == Closure(E, E[a])
There       == Closure(All, ToSet(yaml.roots))

\* A super that leads back, by whatever edges, to what it is the super of.
SuperLoops == \E a \in There : HasSuper(a) /\ a \in Closure(All, {SuperOf(a)})

\* a is on a loop that goes by a with: somewhere.
WithLoop(a) == \E b \in Below(All, a) : \E c \in Withs[b] : a \in Closure(All, {c})

ParentsFine == \A q \in Projects : Validation(q) = "ok"
Sane == ParentsFine /\ \A a \in There : a \notin Below(All, a)

\* Where nothing loops the run is never ended by a check against loops,
\* whatever order, repetition or sharing there is in the lists.
NoFalseAlarm == status \notin {"run", "done"} => ~Sane

\* An application below itself by dependencies taken from dep: or self: never
\* gets past setup, whatever par links the recursion has overwritten: the last
\* of a loop to look up its chain sees all of it; but for loops that a with:
\* or a super is part of.
CyclesStop ==
  status = "done" /\ ~SuperLoops =>
    \A a \in There : a \in Below(Needed, a) => WithLoop(a)

\* An application is set up once, however many list it, and so has its
\* arguments and libraries once, unless a super leads back to what it is the
\* super of.  A root that nobody came to need keeps the main file it may have:
\* "If no main tag is found, library linking is assumed" (yaml.md).
SetUpOnce ==
  /\ (\E a \in Apps : filled[a] > 1) => SuperLoops
  /\ status = "done" =>
       \A r \in ToSet(yaml.roots) :
         /\ ToSet(Lineage(r)) \cap yaml.mains # {}
         /\ \A a \in Apps : r \notin Needed[a]
         => r \in main_

\* When all is set up, each application has the public include directories of
\* everything below it: dependencies are set up before their includes are
\* copied, also those someone else created.
IncludesComplete ==
  status = "done" /\ Sane =>
    \A a \in bd : incs[a] = Closure(Taken, {a})

\* "Inherit properties of project at directory" (yaml.md), from every project
\* up the chain of supers; but for those whose super had been created, by
\* someone's dep:, and not yet set up.
InheritsBut(S) ==
  status = "done" =>
    \A a \in bd \ S : \A b \in Below(Supers, a) : b[1] \in ps[a]
InheritsAll == InheritsBut(early)

\* setup() comes to an end, by itself or with a stack overflow.
Terminates == <>(status # "run")

\* "Dependency on another profile in same project allowed, cycles detected"
\* and, of self:, "cycles detected" (yaml.md).
CyclesDetected == status \in {"done", "overflow"} /\ ParentsFine =>
                    \A a \in There : a \notin Below(Needs, a)
=============================================================================
