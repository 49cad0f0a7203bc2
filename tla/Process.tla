------------------------------- MODULE Process -------------------------------
(***************************************************************************)
(* Application::process for every application CREATE returned: building    *)
(* and loading modules, clean, compile and link of the dependencies and    *)
(* the application, test, pack and run (process.cpp, mod.cpp, build.cpp,   *)
(* bin.cpp, run.cpp, pack.cpp), and the processor MKN_BETA=1 puts in the   *)
(* place of the middle part (processor.cpp).                               *)
(*                                                                         *)
(* process() is called again for modules, by itself and by the search for  *)
(* their libraries: `stack` holds the calls, the running one first.        *)
(***************************************************************************)
EXTENDS Naturals, SequencesExt, FiniteSetsExt

CONSTANTS Apps, Tests, Inputs

\* What is in a buildDir(): "dir" is obj/, "src" and "main" object files.
Objs  == {"dir", "src", "main"} \cup Tests
Kinds == {"lib", "exe"}
Gone  == [there |-> FALSE, objs |-> {}, bin |-> {}, tests |-> {}, pack |-> {}]

ASSUME ProcessAssumption ==
  \A family \in Inputs : \A x \in family :
    /\ x.deps \in [Apps -> Seq(Apps)] /\ x.mods \in [Apps -> Seq(Apps)]
    /\ x.roots \in Seq(Apps) /\ x.roots # <<>>
    /\ x.sourced \cup x.mains \cup x.ignored \subseteq Apps
    /\ x.tests \in [Apps -> SUBSET Tests] /\ x.project \in [Apps -> Apps]
    /\ x.cmds \subseteq {"clean", "build", "compile", "link", "test", "pack", "run"}
    /\ x.beta \in BOOLEAN /\ x.quiet \in BOOLEAN

VARIABLES
  in,        \* yaml files, command line and environment: never change
  disk,      \* per application what its buildDir() holds
  stamp,     \* per project .mkn/build/timestamp: "none", "old" or "new"
  main_,     \* the applications that still have their main file
  main,      \* CommandStateMachine::_main
  recorded,  \* BuildRecorder
  mods,      \* Application::mods: the modules an application has loaders of
  inited,    \* those of them whose init ran
  stack, k,  \* calls of process(), and which root is processed
  status,
  \* history: how often an application was linked by this run, the libraries
  \* that were opened, the tests that ran, the binaries that were started
  made, loaded, ran, started

history == <<made, loaded, ran, started>>
vars    == <<in, disk, stamp, main_, main, recorded, mods, inited, stack, k, status, history>>

Does(commands) == in.cmds \cap commands # {}
Compiles == Does({"build", "compile"})
Links    == Does({"build", "link"})

\* ModuleMinimiser::modules, an unordered_map.
Modules(a) == ToSet(in.mods[a]) \cup UNION {ToSet(in.mods[d]) : d \in ToSet(in.deps[a])}

\* Fault: the modules are loaded before they are looked at.
PhasesLoadFirst == <<"load", "mods", "procs", "beta", "betalink", "test", "pack", "run">>

\* The order of process().
Phases == <<"mods", "load", "procs", "beta", "betalink", "test", "pack", "run">>

Calls(a) == {[app |-> a, order |-> o, at |-> Phases[1], i |-> 1, j |-> 0, tried |-> FALSE, saved |-> TRUE,
              listed |-> <<>>, bad |-> FALSE] : o \in SetToSeqs(Modules(a))}

Init == /\ \E family \in Inputs : in \in family
        /\ disk = in.disk /\ stamp = in.stamp
        /\ main_ = in.mains /\ main = TRUE
        /\ recorded = {} /\ mods = [a \in Apps |-> {}] /\ inited = [a \in Apps |-> {}]
        /\ k = 1 /\ stack \in {<<c>> : c \in Calls(in.roots[1])}
        /\ status = "run"
        /\ made = [a \in Apps |-> 0] /\ loaded = {} /\ ran = {} /\ started = {}

top   == Head(stack)
me    == top.app
At(p) == status = "run" /\ top.at = p

Set(frame) == stack' = <<frame>> \o Tail(stack)
After(p)   == Phases[CHOOSE n \in 2..Len(Phases) : Phases[n - 1] = p]
GoOn       == Set([top EXCEPT !.at = After(@), !.i = 1, !.j = 0, !.tried = FALSE])
Onward     == Set([top EXCEPT !.i = @ + 1, !.j = 0, !.tried = FALSE])

\* process() of a, after which the caller goes on as frame.
Call(a, frame) == \E c \in Calls(a) : stack' = <<c, frame>> \o Tail(stack)

\* An exception or a KEXIT: the run ends.
Fails == /\ status' = "failed"
         /\ UNCHANGED <<in, disk, stamp, main_, main, recorded, mods, inited, stack, k, history>>

-----------------------------------------------------------------------------
(* The modules of the application and of its dependencies are built when   *)
(* they have to be.                                                        *)

\* Application::is_build_required.
Required(m) == stamp[in.project[m]] = "none" \/ "dir" \notin disk[m].objs \/ disk[m].bin = {}

\* is_build_stale, and the question that is put then.
MayBuild(m) == Required(m) \/ (stamp[in.project[m]] = "old" /\ ~in.quiet)

Looks == At("mods") /\ top.j = 0 /\ top.i <= Len(top.order)

Leave == /\ Looks
         /\ ~Required(top.order[top.i])
         /\ Onward
         /\ UNCHANGED <<in, disk, stamp, main_, main, recorded, mods, inited, k, status, history>>

Rebuild == /\ Looks
           /\ MayBuild(top.order[top.i])
           /\ main' = FALSE
           /\ Set([top EXCEPT !.j = 1, !.saved = main])
           /\ UNCHANGED <<in, disk, stamp, main_, recorded, mods, inited, k, status, history>>

\* The answer is no yes or no, or there is no buildDir() to list.
LookFails == /\ Looks
             /\ LET m == top.order[top.i]
                IN IF Required(m) THEN stamp[in.project[m]] # "none" /\ ~disk[m].there ELSE MayBuild(m)
             /\ Fails

\* Every module, not only the one that has to be built.
ProcessModule == /\ At("mods") /\ top.j \in 1..Len(top.order)
                 /\ Call(top.order[top.j], [top EXCEPT !.j = @ + 1])
                 /\ UNCHANGED <<in, disk, stamp, main_, main, recorded, mods, inited, k, status, history>>

\* Fault: the flag stays as it is.
RestoredNot(saved) == FALSE

Restored(saved) == saved

Rebuilt == /\ At("mods") /\ top.j > Len(top.order)
           /\ main' = Restored(top.saved)
           /\ Onward
           /\ UNCHANGED <<in, disk, stamp, main_, recorded, mods, inited, k, status, history>>

ModsEnd == /\ At("mods") /\ top.j = 0 /\ top.i > Len(top.order)
           /\ GoOn
           /\ UNCHANGED <<in, disk, stamp, main_, main, recorded, mods, inited, k, status, history>>

-----------------------------------------------------------------------------
(* loadModules: a loader for every module of every dependency, then of the *)
(* application; the modules that a module needs are opened before it.      *)

\* Fault: only the modules of the application itself.
LoadersSelf(a) == <<a>>

\* Whose modules process() of a loads.
Loaders(a) == Reverse(in.deps[a]) \o <<a>>

\* The order in which libraries are looked for: <<who, module, how>>.
Loads(a) ==
  LET Below[m \in Apps] ==
        FoldSeq(LAMBDA d, s : s \o (IF d \in in.sourced THEN <<d>> ELSE <<>>) \o Below[d],
                <<>>, Reverse(in.mods[m]))
      Of(x) == FoldSeq(LAMBDA m, s : s \o [n \in DOMAIN Below[m] |-> <<x, Below[m][n], "open">>]
                                       \o <<<<x, m, "load">>>>, <<>>, in.mods[x])
               \o <<<<x, x, "init">>>>
  IN FoldSeq(LAMBDA d, s : s \o Of(d), <<>>, Loaders(a))

Loading == At("load") /\ top.i <= Len(Loads(me))
item    == Loads(me)[top.i]

\* ModuleLoader::FIND: whether there is any file where m is looked for.
FilesOf(m) == IF disk[m].there THEN disk[m].bin # {}
              ELSE \E d \in ToSet(in.deps[m]) : disk[d].bin # {}

Found(m) == disk[m].there /\ "lib" \in disk[m].bin

\* Nothing there: the module is processed, whatever `main` is.
FindProcesses == /\ Loading
                 /\ item[3] # "init" /\ ~top.tried
                 /\ ~FilesOf(item[2]) /\ item[2] \in in.sourced
                 /\ Call(item[2], [top EXCEPT !.tried = TRUE])
                 /\ UNCHANGED <<in, disk, stamp, main_, main, recorded, mods, inited, k, status, history>>

Load == /\ Loading
        /\ item[3] # "init" /\ Found(item[2])
        /\ loaded' = loaded \cup {item[2]}
        /\ mods' = IF item[3] = "load" THEN [mods EXCEPT ![item[1]] = @ \cup {item[2]}] ELSE mods
        /\ Onward
        /\ UNCHANGED <<in, disk, stamp, main_, main, recorded, inited, k, status, made, ran, started>>

\* init runs for every loader, also for those of an earlier process().
InitModules == /\ Loading
               /\ item[3] = "init"
               /\ inited' = [inited EXCEPT ![item[1]] = mods[item[1]]]
               /\ Onward
               /\ UNCHANGED <<in, disk, stamp, main_, main, recorded, mods, k, status, history>>

\* "No loadable library found", one that does not open, or a module's throw.
LoadFails == /\ Loading
             /\ IF item[3] = "init" THEN mods[item[1]] # {}
                ELSE top.tried \/ FilesOf(item[2]) \/ item[2] \notin in.sourced
             /\ Fails

LoadEnd == /\ At("load") /\ top.i > Len(Loads(me))
           /\ GoOn
           /\ UNCHANGED <<in, disk, stamp, main_, main, recorded, mods, inited, k, status, history>>

-----------------------------------------------------------------------------
(* proc_a: clean, compile and link of each dependency and the application. *)

Line == Reverse(in.deps[me]) \o <<me>>
turn == Line[top.i]

\* proc_a's second argument.
Work(a) == a \in in.sourced \/ (a = me /\ (in.tests[a] # {} \/ a \in main_))

\* Fault: only what the linker made goes.
CleanedBin(a) == IF "clean" \in in.cmds THEN [disk EXCEPT ![a].bin = {}, ![a].there = FALSE] ELSE disk

Cleaned(a) == IF "clean" \in in.cmds THEN [disk EXCEPT ![a] = Gone] ELSE disk
Made(d, a) == [d EXCEPT ![a].there = TRUE]  \* mk()

\* Fault: nobody looks what was built before.
RecordedNot(a) == FALSE

Recorded(a) == Work(a) /\ a \in recorded

Taking == At("procs") /\ top.i <= Len(Line) /\ top.j = 0

\* Not selected, or built before in this run.
Skip == /\ Taking
        /\ turn \in in.ignored \/ Recorded(turn)
        /\ main_' = IF turn \in in.ignored \/ turn = me THEN main_ ELSE main_ \ {turn}
        /\ Onward
        /\ UNCHANGED <<in, disk, stamp, main, recorded, mods, inited, k, status, history>>

\* The main file of a dependency is forgotten; clean.  MKN_BETA only notes
\* that there is work.
Take == /\ Taking
        /\ turn \notin in.ignored /\ ~Recorded(turn)
        /\ main_' = IF turn = me THEN main_ ELSE main_ \ {turn}
        /\ recorded' = IF Work(turn) THEN recorded \cup {turn} ELSE recorded
        /\ IF in.beta
           THEN /\ disk' = IF Work(turn) THEN Made(disk, turn) ELSE disk
                /\ Set([top EXCEPT !.i = @ + 1, !.listed = IF Work(turn) THEN Append(@, turn) ELSE @])
           ELSE /\ disk' = IF Work(turn) /\ "clean" \notin in.cmds THEN Made(disk, turn) ELSE Cleaned(turn)
                /\ Set([top EXCEPT !.j = 1])
        /\ UNCHANGED <<in, stamp, main, mods, inited, k, status, history>>

Compiled(d, a) ==
  [d EXCEPT ![a].there = TRUE,
            ![a].objs = @ \cup {"dir"} \cup (IF a \in in.sourced THEN {"src"} ELSE {})
                          \cup (IF a \in main_ THEN {"main"} ELSE {}) \cup in.tests[a]]

Compile == /\ At("procs") /\ top.j = 1
           /\ disk' = IF Compiles /\ Work(turn) THEN Compiled(disk, turn) ELSE disk
           /\ Set([top EXCEPT !.j = 2])
           /\ UNCHANGED <<in, stamp, main_, main, recorded, mods, inited, k, status, history>>

\* A unit does not compile, or a module throws.
CompileFails == /\ At("procs") /\ top.j = 1
                /\ Compiles /\ (Work(turn) \/ mods[turn] # {})
                /\ Fails

\* findObjects finds some, so a library or a binary is made.
Objects(a) == a \in in.sourced /\ "src" \in disk[a].objs
KindOf(a)  == IF a \in main_ THEN "exe" ELSE "lib"
Makes(a)   == Objects(a) \/ a \in main_

\* Sources without a directory of objects, no object of the main file, or a
\* library missing.
Unlinkable(a) ==
  \/ a \in in.sourced /\ "dir" \notin disk[a].objs
  \/ a \in main_ /\ "main" \notin disk[a].objs
  \/ a \in main_ /\ \E d \in ToSet(in.deps[a]) \cap in.sourced : "lib" \notin disk[d].bin

\* findObjects and link.  A test that does not link is not mentioned, and one
\* that did before stays.
LinkOf(a) ==
  /\ ~Unlinkable(a)
  /\ stamp' = IF Makes(a) THEN [stamp EXCEPT ![in.project[a]] = "new"] ELSE stamp
  /\ made' = IF Makes(a) THEN [made EXCEPT ![a] = @ + 1] ELSE made
  /\ \E t \in SUBSET IF "test" \in in.cmds THEN in.tests[a] \cap disk[a].objs ELSE {} :
       disk' = [disk EXCEPT ![a].there = @ \/ Makes(a) \/ ("test" \in in.cmds /\ in.tests[a] # {}),
                            ![a].bin = @ \cup IF Makes(a) THEN {KindOf(a)} ELSE {},
                            ![a].tests = @ \cup t]

Link == /\ At("procs") /\ top.j = 2
        /\ IF Links THEN LinkOf(turn) ELSE UNCHANGED <<disk, stamp, made>>
        /\ Onward
        /\ UNCHANGED <<in, main_, main, recorded, mods, inited, k, status, loaded, ran, started>>

LinkFails == /\ At("procs") /\ top.j = 2
             /\ Links /\ (Makes(turn) \/ Unlinkable(turn) \/ (Work(turn) /\ mods[turn] # {}))
             /\ Fails

ProcsEnd == /\ At("procs") /\ top.i > Len(Line)
            /\ GoOn
            /\ UNCHANGED <<in, disk, stamp, main_, main, recorded, mods, inited, k, status, history>>

-----------------------------------------------------------------------------
(* Processor::process: the units of all applications on one pool, then all *)
(* the links.  Where a unit runs depends on threads that share a working   *)
(* directory; here it may always fail.                                     *)

listed == top.listed[top.i]
InBeta(p) == At(p) /\ top.i <= Len(top.listed)

BetaCompile == /\ InBeta("beta")
               /\ disk' = IF Compiles THEN Compiled(Cleaned(listed), listed) ELSE disk
               /\ \E bad \in IF Compiles THEN BOOLEAN ELSE {FALSE} :
                    Set([top EXCEPT !.i = @ + 1, !.bad = @ \/ bad])
               /\ UNCHANGED <<in, stamp, main_, main, recorded, mods, inited, k, status, history>>

\* What main would do with an exception there: nothing is linked then.  Nor
\* without a compilation, app_info has no entries.
BetaFails == /\ At("beta")
             /\ IF top.i <= Len(top.listed) THEN Compiles /\ mods[listed] # {}
                ELSE top.bad \/ (Links /\ ~Compiles /\ top.listed # <<>>)
             /\ Fails

BetaJoin == /\ At("beta") /\ top.i > Len(top.listed)
            /\ ~top.bad /\ (Links => Compiles \/ top.listed = <<>>)
            /\ GoOn
            /\ UNCHANGED <<in, disk, stamp, main_, main, recorded, mods, inited, k, status, history>>

BetaLink == /\ InBeta("betalink")
            /\ IF Links THEN LinkOf(listed) ELSE UNCHANGED <<disk, stamp, made>>
            /\ Onward
            /\ UNCHANGED <<in, main_, main, recorded, mods, inited, k, status, loaded, ran, started>>

BetaLinkFails == /\ InBeta("betalink")
                 /\ Links /\ (Makes(listed) \/ Unlinkable(listed) \/ mods[listed] # {})
                 /\ Fails

BetaEnd == /\ At("betalink") /\ top.i > Len(top.listed)
           /\ GoOn
           /\ UNCHANGED <<in, disk, stamp, main_, main, recorded, mods, inited, k, status, history>>

-----------------------------------------------------------------------------
(* test(), pack() and run().                                               *)

\* Every file in test/, also of tests that were not linked by this run.
Test == /\ At("test")
        /\ ran' = IF "test" \in in.cmds THEN ran \cup {<<me, t>> : t \in disk[me].tests} ELSE ran
        /\ GoOn
        /\ UNCHANGED <<in, disk, stamp, main_, main, recorded, mods, inited, k, status, made, loaded, started>>

\* A test that does not end with 0, or a module that throws.
TestFails == /\ At("test")
             /\ "test" \in in.cmds /\ (disk[me].tests # {} \/ mods[me] # {})
             /\ Fails

\* "Current project lib/bin not found", "Depedency Project lib not found".
Unpackable == \/ (me \in main_ \/ me \in in.sourced) /\ disk[me].bin = {}
              \/ \E d \in ToSet(in.deps[me]) \cap in.sourced : "lib" \notin disk[d].bin

\* Fault: the libraries of dependencies are not looked for.
PackedOwn == {<<me, b>> : b \in disk[me].bin}

Packed == {<<me, b>> : b \in IF me \in main_ \/ me \in in.sourced THEN disk[me].bin ELSE {}}
          \cup {<<d, "lib">> : d \in ToSet(in.deps[me]) \cap in.sourced}

Pack == /\ At("pack")
        /\ IF "pack" \in in.cmds
           THEN ~Unpackable /\ disk' = [disk EXCEPT ![me].there = TRUE, ![me].pack = @ \cup Packed]
           ELSE UNCHANGED disk
        /\ GoOn
        /\ UNCHANGED <<in, stamp, main_, main, recorded, mods, inited, k, status, history>>

\* Or a path of a library that is not there, or a module that throws.
PackFails == /\ At("pack") /\ "pack" \in in.cmds
             /\ Fails

Runs == main /\ "run" \in in.cmds /\ me \in main_

\* The end of process(): back to the caller or on to the next root.
Return == IF Len(stack) > 1 THEN stack' = Tail(stack) /\ UNCHANGED <<k, status>>
          ELSE IF k < Len(in.roots)
               THEN k' = k + 1 /\ stack' \in {<<c>> : c \in Calls(in.roots[k + 1])} /\ UNCHANGED status
               ELSE stack' = <<>> /\ status' = "done" /\ UNCHANGED k

\* Every file whose name contains that of the program.  Without one there is
\* nothing to start, and nothing is said.
Run == /\ At("run")
       /\ started' = IF Runs /\ "exe" \in disk[me].bin THEN started \cup {me} ELSE started
       /\ Return
       /\ UNCHANGED <<in, disk, stamp, main_, main, recorded, mods, inited, made, loaded, ran>>

\* The program does not end with 0, there is no directory to list, or the name
\* is also in that of a library an earlier build left.
RunFails == /\ At("run")
            /\ Runs /\ (disk[me].bin # {} \/ ~disk[me].there)
            /\ Fails

Ended == status # "run" /\ UNCHANGED vars

Next == \/ Leave \/ Rebuild \/ LookFails \/ ProcessModule \/ Rebuilt \/ ModsEnd
        \/ FindProcesses \/ Load \/ InitModules \/ LoadFails \/ LoadEnd
        \/ Skip \/ Take \/ Compile \/ CompileFails \/ Link \/ LinkFails \/ ProcsEnd
        \/ BetaCompile \/ BetaFails \/ BetaJoin \/ BetaLink \/ BetaLinkFails \/ BetaEnd
        \/ Test \/ TestFails \/ Pack \/ PackFails \/ Run \/ RunFails \/ Ended

Spec == Init /\ [][Next]_vars

-----------------------------------------------------------------------------
(* Properties.                                                             *)

\* Types; a call on the stack is of a module of one below it.
TypeOK ==
  /\ stamp \in [Apps -> {"none", "old", "new"}]
  /\ main_ \subseteq in.mains /\ main \in BOOLEAN /\ recorded \subseteq Apps
  /\ mods \in [Apps -> SUBSET Apps] /\ \A a \in Apps : inited[a] \subseteq mods[a]
  /\ k \in DOMAIN in.roots /\ status \in {"run", "done", "failed"}
  /\ (stack = <<>>) = (status = "done")
  /\ \A n \in DOMAIN stack :
       /\ stack[n].app \in Apps /\ stack[n].at \in ToSet(Phases)
       /\ stack[n].saved \in BOOLEAN /\ ToSet(stack[n].listed) \subseteq recorded
       /\ n < Len(stack) => stack[n + 1].at \in {"mods", "load"}
  /\ \A a \in Apps : LET d == disk[a] IN
       /\ d.objs \subseteq Objs /\ d.bin \subseteq Kinds /\ d.tests \subseteq Tests /\ d.pack \subseteq Apps \X Kinds
       /\ d # Gone => d.there
  /\ made \in [Apps -> Nat] /\ loaded \subseteq Apps /\ ran \subseteq Apps \X Tests /\ started \subseteq Apps

\* An application is compiled and linked with a loader of every module it
\* names, each of them initialised, whoever's process() comes to it first
\* (loadModules before proc_a, for all of deps).
HooksBeforeWork ==
  [][\A a \in Apps : made'[a] > made[a] \/ ~(disk'[a].objs \subseteq disk[a].objs) =>
       ToSet(in.mods[a]) \subseteq inited[a]]_vars

\* The applications process() may be called for, and where a is used.
Called == LET Up[n \in Nat] == IF n = 0 THEN ToSet(in.roots)
                               ELSE Up[n - 1] \cup UNION {Modules(a) : a \in Up[n - 1]}
          IN Up[Cardinality(Apps)]
Processed(a) == a \in ToSet(in.roots) \/ \E c \in Called : a \in ToSet(in.deps[c])
Users(a)     == {c \in Called : a \in Modules(c)}

\* What a run links it links once and does not remove again, by whatever ways
\* process() comes to it; and a module's library is not replaced under those
\* it is loaded for, unless it is listed in several places.
InUseStays ==
  [][\A a \in in.sourced : made'[a] > made[a] \/ ~(disk[a].bin \subseteq disk'[a].bin) =>
       made[a] = 0 /\ (a \in loaded => Processed(a) \/ Cardinality(Users(a)) > 1)]_vars

\* A run that ends well did what it was told for every selected root that is
\* nobody's dependency: it and its dependencies are linked, its tests ran, what
\* it needs is packed, and its binary was started.  A dependency that is a root
\* as well and has a main file may have been linked as a binary.
DoneMeans ==
  status = "done" =>
    \A r \in ToSet(in.roots) \ in.ignored :
      ~(\E c \in Called : r \in ToSet(in.deps[c])) =>
        LET binary == IF r \in in.mains THEN {"exe"} ELSE IF r \in in.sourced THEN {"lib"} ELSE {}
            libs   == ToSet(in.deps[r]) \cap in.sourced IN
        /\ Compiles /\ Links =>
             /\ binary \subseteq disk[r].bin /\ (binary # {} => made[r] = 1)
             /\ \A d \in libs \ (in.ignored \cup (in.mains \cap ToSet(in.roots))) : made[d] = 1 /\ "lib" \in disk[d].bin
        /\ "test" \in in.cmds => {r} \X disk[r].tests \subseteq ran
        /\ "pack" \in in.cmds => /\ binary # {} => disk[r].bin # {} /\ {r} \X disk[r].bin \subseteq disk[r].pack
                               /\ libs \X {"lib"} \subseteq disk[r].pack
        /\ "run" \in in.cmds /\ r \in in.mains /\ "exe" \in disk[r].bin => r \in started
=============================================================================
