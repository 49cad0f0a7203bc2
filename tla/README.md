# A TLA+ model of maiken

maiken (`mkn`) builds C and C++ projects from a `mkn.yaml`: it reads the yaml files of a
project and of everything it depends on, decides what has to be built and in which order,
compiles the out-of-date sources on a thread pool, and links. This directory holds the
specification of its core: TLA+ modules translated from the source, TLC configurations that
check them on small instances, and TLAPS proofs that hold for every instance.

Paths of source files are relative to the repository.

## 1. The system

| part | state it keeps | operations | talks to |
|---|---|---|---|
| set-up (`setup.cpp`, `depmod.cpp`, `maiken.cpp`, `app.cpp`, `validation.cpp`, `with.cpp`) | the process-wide `Applications` memo; per `Application` its `par`, `sup`, `deps`, `bd`, properties, includes, main file | `setup`, `setSuper`, `popDepOrMod`, `cyclicCheck`, `getOrCreate`, `getOrCreateRoot` | calls itself through supers, `self:` profiles and dependencies |
| dependency selection and order (`dep.cpp`, `graph.hpp`, `create.cpp`) | `ig` and `deps` of shared Applications, the dependency level in `AppVars` | `buildDepVec`, `buildDepVecRec`, `DepGrapher` | runs per root after set-up; `process()` reads what it leaves |
| processing (`process.cpp`, `build.cpp`, `mkn.cpp`) | `BuildRecorder`, `main_`, `buildDir()` | `main_entry`, `process`, `build`, `link` | calls timestamps, compilation and linking per application |
| timestamps and source selection (`timestamps.cpp`, `source.cpp`, `object.cpp`) | `.mkn/src_stamp`, `.mkn/inc_stamp` and `obj/` on disk; `stss`, `itss`, `includeStamps` in memory | `loadTimeStamps`, `incSrc`, `all_sources_from`, `writeTimeStamps`, `findObjects` | shares the disk with the developer and with earlier, perhaps killed, runs |
| compile batch (`build/obj.cpp`, `threading/compile.cpp`) | a queue of units, captured results under a lock, the pool | `compile` | its tasks run on pool threads, callbacks stop the pool |
| beta processor (`processor.cpp`) | one pool for all applications, the process-wide working directory | `Processor::process` | `MKN_BETA=1` puts it in the place of compiling and linking in `process()` |
| linking, tests, run and pack (`build/bin.cpp`, `run.cpp`, `pack.cpp`) | artifacts in `buildDir()`, `test/`, `pack/` | `buildExecutable`, `buildLibrary`, `buildTest`, `test`, `run`, `pack` | later phases of `process()` take what is on disk, not what this run made |
| distributed compilation (`dist/*`) | sessions on the server, requests | setup, compile, download, link requests | HTTP between a client and its nodes |
| command line (`create.cpp`, `cli.cpp`, `globals.cpp`, `global.hpp`) | `AppVars`, `properkeys` | `CREATE`, which a default line calls again | settings, then set-up of each root |
| settings and properties (`settings.cpp`, `properties.cpp`, `env.hpp`) | chain of settings files, the static `SuperSettings::files`, property maps, the environment | `Settings::SET`, `POST_CONSTRUCT`, `RESOLVE` | read by everything above |
| source control (`scm.cpp`, `scm/getter.cpp`, `git/*`) | `UpdateTracker`, versions kept under `.mkn/`, `_403_rate_limited` | `scmUpdate`, `loadDepOrMod`, `resolveSCMBranch`, `GET_LATEST` | called from set-up; git and the network are external |
| modules (`mod.cpp`, `mods.cpp`) | loaded plug-ins per application | `FIND`, `LOAD`, init, hooks | called from `process()`, which they call |
| the rest: output, yaml and regular expressions, compiler back ends | none, or strings | parsing and formatting | |

What is hard about it:

* **Concurrency.** A batch is compiled by pool threads while the main thread is still
  queueing; any task may fail in several ways and stop the pool (`obj.cpp:203-253`). The beta
  processor shares one working directory between threads.
* **Failure and restart.** A run may fail or be killed anywhere, and the next one trusts what
  it finds under `bin/`. The developer edits files under a running build.
* **Order.** Dependencies must come first whatever the order of the yaml lists and of the
  unordered maps; roots of `-p` share Applications whose `deps`, `ig` and `main_` are
  overwritten in place.
* **Deep recursion over half-made objects.** `setup()` calls itself through three kinds of
  edges over a memo; whether an application is set up is read off an empty path. `process()`
  calls itself for modules, under a process-wide flag.
* **The same question asked twice.** Where a dependency is, is resolved once when it is fetched
  and again when it is read, with a network in between that may answer otherwise.
* **What is static stays.** A default line runs `CREATE` a second time in the same process.

What makes each part correct, and where it is stated, is in section 3; `PROJECT.json` lists
every hazard at its line with the properties that would catch it.

## 2. Plan

In the order of importance; the first eight are done.

1. `CompilePool`, refining `CompileBatch` -- the concurrent core. Proved.
2. `IncrementalBuild` -- what survives on disk between runs. Proved.
3. `BuildOrder` -- selection, order and processing. Proved.
4. `Setup` -- the recursion that makes the Applications. Its safety proved.
5. `Dist` -- client and nodes: sessions, packets of objects, lost answers, nodes that die.
   Its safety proved.
6. `Fetch` -- versions, clones and updates of dependencies over many runs. Its safety proved.
7. `Startup` -- settings, properties and the command line. Proved.
8. `Process` -- every phase of `process()`, modules included. Model-checked.
9. Proofs about `Process`.
10. Deleted sources and objects in `IncrementalBuild`; the threads and the working directory of
   the beta processor; the order of plain libraries on the link line.

Composition: `IncrementalBuild` and `BuildOrder` treat compiling a unit or an application as
one step that succeeds or ends the run, and `Dist` does so with the part of a batch that stays on the
client (`LocalCompile`) and with the part a node compiles (`CompileEnd`); `CompileBatch` is
the contract that justifies it and `CompilePool` is shown to implement it. `BuildOrder` starts
from what `Setup` ends with: an acyclic graph and the `main_` of each root. `Setup` and `Fetch` are
two views of one recursion: `Setup` has every kind of edge and finds every directory, `Fetch` has the
edges that lead to other projects and the search for them. `Startup` ends where they begin.
`Process` has all phases of `process()` for a given selection, of which `BuildOrder` has the middle
for every selection.

## 3. Modules

### CompileBatch, CompilePool

`CompileBatch` is what the caller of `Application::compile` relies on: a unit is attempted at
most once, the call returns normally only if all were compiled, and throws only if a task
failed.

`CompilePool` is `compile(std::queue&)` (`obj.cpp:173-279`). `pc`, `nxt`, `head` and `objects` are the
main thread (`Async`, `Finish`, `Join`, `Verdict`, `Collect`, `Return`); `step`, `unit`,
`result` one pool thread (`Take`, `Compile`, `Record`, `Rethrow`, `Throw`); `pending` and
`stopped` the pool; `cpcs` the captures under the lock. A unit may end in `ok`, a
`mkn::kul::Exception`, a `std::exception`, or by throwing out of the task, before or after the
compiler ran. The pool is external (mkn.kul); its contract is in the head of the module.

| property | meaning |
|---|---|
| `ReturnsOnlyComplete` | a normal return means every object was built, and hands on exactly those outside `tmp` |
| `ErrorHasCause` | an exception means some task failed |
| `AttemptsAllUnlessStopped` | one run reports all failing files unless a stop was called |
| `BatchAccounted` | no unit lost or run twice; no stop without a cause the main thread finds (inductive) |
| `Terminates` | the call always ends |
| `ImplementsBatch` | it refines `CompileBatch`, its liveness included |

### IncrementalBuild

Successive runs of `mkn [clean] build` with `MKN_TIMESTAMPS=1` on one project. A modification time stands
for the content it belongs to. `src`, `hdr`, `listed` are the developer's files, `obj`,
`srcStamp`, `incStamp`, `torn`, `bin` the disk, `stss` ... `cacheFiles` a run. `Clean`,
`Load`, `LoadExits`, `Select`, `Compile`, `CompileFails`, `OpenStamps`, `WriteStamps`, `Link`, `Exit`
are the run in the order of `process()`; edits may come between any two of them, and `Killed`
ends a run at any of the steps of `KillPoints`, with part of the stamp lines, or half a line,
on disk. `Clean` is the recursive removal, file by file and in any order: it removes any part of the objects, of the
stamp files and of the binary, and what is left is left -- whether the run is killed there, or goes on, since nobody
looks at what `rm()` returns. `lost` are the sources whose object went while both stamp files stayed.

| property | meaning |
|---|---|
| `LinksFresh` | whatever was edited, failed or killed, what a run links is no older than the files were when it started; except `edited`, `skipped` and `lost` sources |
| `NothingTwice` | a run right after a complete one compiles nothing |
| `StampSound` | between runs a matching stamp vouches for an up-to-date object; same exceptions |
| `EditsUnderBuildAreSeen` | violated: the first of these exceptions (section 6) |

### BuildOrder

One invocation with one or two roots and any `-d`. `Select` is `buildDepVec` for one root
(`Level`, `Selected`, `Below`: which `ig` it clears; `Rounds`, `Graphed`, `Lists`,
`Graphings`: every order `DepGrapher` may give, its maps being unordered, for the root and for
everything below it). `Root`, `Ignore`, `Again`, `Build`, `BuildFails`, `NoWork` are
`process()` turn by turn, with `BuildRecorder` in `recorded`.

| property | meaning |
|---|---|
| `DepsFirst` | nothing is linked before the libraries of all selected dependencies below it |
| `AllBuilt` | a good end leaves the wanted artifact of every selected application |
| `SelectionConnected` | no dependency is selected that nothing selected needs, for any level up to that of a bare `-d`; a level from 32768 on is negative in the `int16_t` of `buildDepVecRec` (`Int16`), and wraps when it is decremented |
| `AllMeansAll` | `-d` and `-d +` leave none out, for any root |
| `LevelIsDepth`, `DependencyIsLibrary` | violated (section 6) |

### Setup

From the yaml files of one invocation to its Applications. The state is the stack of calls of
`setup()`, each with its place in the code (`super`, `inherit`, `validate`, then for each
profile of the lineage and at last for the scalar lists `take`, `self`, `each`), and the
Applications themselves. `CreateRoot` is `getOrCreateRoot`; `SetSuper` and `Inherit` are
`setSuper`; `Take`, `SelfSetUp`, `SelfTake`, `CyclicCheck`, `Each` are `popDepOrMod`;
`NextNode` is `populateMaps`; `End` is the rest. A check that calls itself without end is
the status `overflow`, a stack overflow; the other ends are the `KEXIT` calls.

| property | meaning |
|---|---|
| `NoFalseAlarm` | without a loop the run is never ended by a check against loops |
| `CyclesStop` | a loop of dependencies taken from `dep:` and `self:` never gets past set-up, unless a `with:` is part of such a loop or a super leads back to what it is the super of |
| `SetUpOnce` | an application is set up once, unless a super leads back to what it is the super of; a root that nobody came to need keeps its main file |
| `IncludesComplete` | each application ends with the public includes of everything below it |
| `InheritsAll` | ... and with the properties of its whole chain of supers; except `early`, those whose super someone had created and not yet set up |
| `Terminates` | set-up ends, by itself or with the overflow |
| `CyclesDetected` | violated (section 6) |

### Dist

Clients run with `-n`, the nodes they use, and what goes between them. A client is a main thread
(`phase`) and a pool thread per host (`task`); `share` is the part of the batch a host was given, `local` what
the client compiles itself, `writer` the file being fetched, `have` and `fresh` its object files.
A node is one process: its working directory and options (`cwd`, `opts`), its sessions
(`sess`: applications, list of objects, open reader, open writer), its files (`made`, `bins`).
`Pinged` ends `CREATE`; `Split`, `LocalCompile`, `Join` are `compile(vector)`. `Link` is a linker and the `print()`
after it, which starts `DistLinker` before anyone looks at what the linker said: `disk` has what was linked, or the old
file or none that a failed link leaves, and that is sent. Then `SentFails` is an exception or
`checkErrors`, which is not called for tests; `SendAgain` the second sending of a library; `NextTest`, `NextApp` what is
linked next. An exchange is one step with the handler it runs: `Setup`,
`Download`, `Send`; the `CompileRequest` takes two, `CompileStart` and `CompileEnd`, with anything in
between. Each may lose its answer, and `Unanswered` is the one whose request never arrived.

| property | meaning |
|---|---|
| `Complete` | a build that ends well has every object of its work, whole, in order, compiled with its own options |
| `Drained` | when a batch, or a build, has ended well, nothing is left in its sessions |
| `TypeOK` | types, and `ReaderOnHead`: packets are sent under the name of the object they are read from |
| `SentWhole` | after a build that ends well every host has its binaries, tests included, as they are on the client's disk, and those that must link are whole; except `cut` |
| `Terminates` | every client ends |

Two exceptions, both history variables. `disturbed` are clients whose use of a node met another's: at the
same time (they share `cwd` and `opts`), or by coming upon a session another had used (its name
is the node's name and an address in the client's memory, `dist.hpp:102`). To those the code
promises nothing, and the runs have them end well with objects of other options. `cut` are
clients whose node died between two packets of a binary: started again it takes the rest for a
new binary, and answers as if all were well.

### Fetch

Any number of runs over one disk and one network. The disk has a directory per project and version under
`MKN_REPO`, another under `MKN_MOD_REPO`, and those outside that `local:`, `sub:` and `super:` name
(`tree`: none, partial or whole; `new`: at the latest commit), and the versions remembered in
`.mkn/dep/ver`, `.mkn/mod/ver` and `.mkn/sub/ver` (`pinned`). A run is the stack of calls of `setup()`, each at
one place (`update`, `super`, `sub`, `missingMod`, `mod`, `setupMod`, `missing`, `dep`, `setupDep`, `with`,
`setupWith`); what is loaded, be it a dependency, a module, a super or the project the developer is in, is in one
list `getOrNullptr` looks through (`Loaded`), and may give an entry its version (`Known`). `ask` is
the query of `resolveSCMBranch` for the entry it is at. `Ask`, `Skip`, `Request`, `LsRemote`,
`TakeFallback` are `resolveSCMBranch` and `GET_LATEST`, with the retries, the requests that throw and the
one that notes a refusal; `ScmUpdate` is `-u`/`-U` with `Projects::reload`; `GetIfMissing` and
`Checkout` fetch, `SetSuper` loads a super and goes into it, `PopDepOrMod` and `SetUp` read and go down. `Killed` ends a run between any two
steps, `NetChanges` may come there too, and `Run` starts another.

| property | meaning |
|---|---|
| `DirectoryThere` | what set-up looked for first it finds on the second look; but for killed clones and for projects used in ways that disagree (`Uses`: listed with the name only, and also with a version or `local:`, as a module and a dependency, as a super, or the developer's own) |
| `OneVersion` | one run uses one version for all entries of a name that say no more, of modules and of dependencies, also when the projects that have them remember different versions; unless another entry or a super says where the project is (`Placed`) |
| `FreshYaml` | with `-u -d` nothing is set up from a yaml file older than the one on disk |
| `Recovers` | once the network stays up runs end well again; same exceptions as the first, and supers that are missing or lead back |

### Startup

`CREATE` from its options to the applications. `at` is the place in `Phases`; `Refuse` and
`Answer` are the ways out on the way, `Plain` what only keeps its options. `LoadSettings`
calls the constructor of `Settings`: `LocalRepo`, `LoadSuper`, `BadSuper`, `MergeSuper`,
`Constructed`, on the stack `loading`. `PostAppVars`, `PostSettings` and `Roots` resolve. A value, of `-P` as well,
is a literal named after where it stands or one reference. `Lookup` is what `RESOLVE` puts in its place: what `AppVars`
has, then the properties, and for an application at last what else is one text in its yaml, such as `name:` (`Scalars`);
`Roots` has the three occasions: `scm:` before there are properties, the properties, and the rest of the yaml.
`FindYaml` is the search, in the directory or where `-C` points (`Found`). `DefaultLine` calls `CREATE` again with the
line of the yaml file that was found: `files`, `instance`, `pks` and `noted` stay, and a file that is come to a second time
is an endless recursion (`followed`). `init`, `info` and `tree` do not end the run.

| property | meaning |
|---|---|
| `TypeOK` | types, and no reference is left when start-up ends well |
| `Scoping` | a property means what the nearest file that has it says, its references read in that file and its supers; what `AppVars` holds comes first, in its own terms, and the scalars of the yaml last, for the application alone; `MKN_REPO` is in `AppVars` when the instance and the application are resolved, and for supers only when a default line with `-x` loads them |
| `EndsForCause` | the stack overflows only for references that go round in one settings file, or among those of `-P`, the yaml's properties and its scalars, or for default lines that lead from one yaml to the next and never out; a cycle is reported only if there is one, or a default line has `-x` |

### Process

`process()` for the roots one after another, each call a frame of `stack` with its phase
(`Phases`). *mods*: `Leave`, `Rebuild`, `ProcessModule`, `Rebuilt` build the modules, with `main`
off; *load*: `FindProcesses`, `Load`, `InitModules`; *procs*: `Take`, `Skip`, `Compile`, `Link` per
line of the dependencies; *beta*, *betalink*: the same by `Processor`; then `Test`, `Pack`, `Run`.
`disk` is what each `buildDir()` holds and `stamp` the time stamp per project, both in any state at the
start. `made`, `loaded`, `ran`, `started` are history. The questions that are put for a stale module may
be answered in any way; a compiler, a linker, a test, a module's hook may fail wherever it is called.

| property | meaning |
|---|---|
| `HooksBeforeWork` | nothing is compiled or linked before every module its application names is open and initialised |
| `InUseStays` | what a run links it links once and does not remove again, and no library is replaced after it was opened as a module; except modules listed in several places, or roots or dependencies as well |
| `DoneMeans` | a run that ends well linked, tested, packed and started what it was told to, for each root nothing depends on |

Definitions whose comment begins with "Fault:" are altered forms of the one that follows; no
specification uses them. They are the plausible bugs against which the properties were tried
out, one per property.

## 4. Runs

| run | instance | states | shows |
|---|---|---|---|
| `compile_pool` | 3 units (one in `tmp`), 2 threads, `-D` on | 12,413 | all of CompilePool's properties |
| `incremental` | 2 sources, 1 include directory, 3 edits, any number of runs, kills everywhere, inside a clean too | 2,727,888 | `LinksFresh`, `NothingTwice`, `StampSound` |
| `incremental_edit` | the same | | violation |
| `build_order` | all graphs over 4 applications with ordered lists, one or two roots, 8 forms of `-d`, with and without clean | 889,416 | BuildOrder's properties |
| `dep_level`, `nested_roots` | as above with `-d 1` and `-d 2`; two roots that may depend on each other | | violations |
| `setup` | seven families of yaml files, loops included (below) | 238,252 | Setup's properties |
| `setup_cycles` | the same | | violation |
| `dist` | one client on two nodes or on one listed twice, or two clients at one node; up to two applications, a library, a test; 1 packet a file, 1 restart | 546,611 | Dist's properties |
| `fetch` | a project and two others with the lists, modules and supers of `MCFetch`; any number of runs, 2 mishaps | 151,879 | Fetch's properties |
| `startup` | three settings files, two properties, `MKN_REPO` and `name:`, two directories; seven families of files and command lines | 583,265 | Startup's properties |
| `process` | four applications, two tests; three families of graphs, commands and roots | 583,702 | Process's properties |

Why the bounds are enough. *CompilePool*: with three units and two threads one can be running,
one recorded and one queued when a stop arrives, and a thread takes a second unit; the
proofs cover the rest. *IncrementalBuild*: two sources are needed for one to be compiled and one
skipped, three edits for one before, one during and one after a run; the number of runs is not
bounded; `MaxEdits` bounds the clock only; a clean may leave any part of two objects, two stamp files and the binary. Proofs cover the rest. *BuildOrder*: four
applications give the diamond, the chain of depth three, and two roots over shared
dependencies. *Setup*: in `MCSetup`, `ByLists` has two profiles of one project and another
project with lists of up to two, repeated and self-referring ones included, and `self:`;
`Mixed` adds the scalar form, `with:` and `-w`, and an entry with two profiles; `ByProfile` lists that ask for two
profiles of one project, of which AddEntry may drop one; `Selves3` scalar links between the profiles a `self:` names;
`RootsBelow` two roots that supers and what is below them list; `BySuper` every
super relation over three projects with dependencies across it; `ByParent` every inheritance
over three profiles, the smallest number for which one profile leads to a cycle that it is not on.
*Dist*: four sources on two hosts leave one each and two for the client; two
applications reuse the sessions; a library before an application is sent twice
and followed by another binary, a test follows a library and may fail; earlier objects or none give both `Target`s; a dependency in another
directory gives the `CompileRequest` that cannot succeed; the second client shares project and session, only the
node, or only the project. One packet of data and the empty one that ends it are two exchanges
a file, so that each fault can fall between them.
*Fetch*: one project listed by the root and by a dependency, before or after it and through `with:`, `sub:` or
`local:`, is what it takes for two looks to differ; X and Y as modules of both projects, of one only or as
dependency as well, R listed by its own dependency, and X as super of either, missing or leading back, give every pair of `Uses`; two remotes make the first one answer or not; two mishaps
let the network go in one run and come back in the next with a run killed in between; runs are not bounded. *Startup*: two properties
are enough for a reference and for a ring, three files for a chain in which the middle file overrides; `ByRepo` gives files a
`MKN_REPO` of their own, with a default line that has `-x` or not; `BySupers` has every super relation; `ByName` what a yaml's scalars,
`scm:`, properties and `-P` can say of one another in two keys each; `ByLine` default lines of three yaml files in two directories, with
`-C` to a directory, a file, or nothing; `ByOption` each pair of options of each kind. *Process*: a root, a library it and a module
may both need, a module and a module's module give every call of `process()` by itself and by `FIND` and
every order of `deps`; each directory starts gone, empty, current or stale; `ByRoots` has pairs of
roots that are dependencies or modules of each other.

Deadlock is checked in every run: the modules have an explicit
step for the ended run, and IncrementalBuild and Fetch never end.

Fairness. `CompilePool`: `WF` on the main thread and on each pool thread, which is what the
operating system gives a thread that can run, together with a compiler process that ends. No
strong fairness, none on which unit is taken or how it ends. `Setup`: `WF` on its only thread.
`Dist`: `WF` on each client's main thread, on each of
its pool threads (an exchange ends, in an answer or an exception) and on the handlers of each node (a
compiler ends). None on `Restart`, `Die` or `Killed`. `Fetch`: `WF` on the steps of the run, the process's
only thread, whose requests end in an answer or an error, and on `Run`: the developer tries again. None on
the network; `Recovers` assumes in its premise that it stays up. The other modules state no liveness.

## 5. Proofs

| theorem | establishes |
|---|---|
| `CompilePool_proofs`: `TypeCorrect`, `Accounted`, `ReturnSound`, `ErrorSound`, `AttemptsAll` | the safety properties of the table above, for any number of units and any non-empty set of threads |
| `CompilePool_proofs`: `Refinement` | every behaviour of `Spec` satisfies the safety part of `CompileBatch` |
| `IncrementalBuild_proofs`: `TypeCorrect`, `LinkedFresh`, `StampsSound`, `CompilesNothingTwice` | the safety properties, for any sources, include directories and number of edits |
| `BuildOrder_proofs`: `TypeCorrect`, `SelectionSound` | types, and that what is selected hangs together up to the level of a bare `-d`, for any acyclic lists and roots `Small` enough that no level wraps |
| `BuildOrder_proofs`: `AllSelected` | `-d` and `-d +` leave none out, when lists are short and chains shallow enough for the 16 bits of the level (`Small`) |
| `BuildOrder_proofs`: `EverythingBuilt`, `DependenciesFirst` | a good end leaves every artifact, and nothing is linked too early, for roots that do not depend on each other |
| `Setup_proofs`: `TypeCorrect`, `NoFalseCycle` | types; no check against loops ends a run in which nothing loops, for any yaml files of finitely many projects and profiles |
| `Setup_proofs`: `SupersInherited`, `OneSetUp`, `IncludesWhole` | properties come from all supers, applications are set up once, public includes come from all that is below, with the exceptions the properties name |
| `Setup_proofs`: `LoopsStop` | a loop of `dep:` and `self:` is never set up to the end, unless a `with:` or a super is part of it |
| `Fetch_proofs`: `TypeCorrect`, `OneDirectory` | types, and one version for all plain entries of a name, of modules and dependencies, for any yaml files, remotes, versions remembered and mishaps |
| `Fetch_proofs`: `LooksAgree` | the second look finds what the first found or fetched, with modules, supers and lists of any kind; but for a killed clone and projects used in ways that disagree |
| `Fetch_proofs`: `UpdatesRead` | with `-u -d` every yaml file is read after its last update, when dependencies are not cyclic and no chain is longer than a hundred |
| `Startup_proofs`: `TypeCorrect`, `CausesFound` | types; the stack overflows, and a cycle is reported, only for a cause: for any settings files, yaml files, properties, `-P` and command lines |
| `Startup_proofs`: `ScopeKept` | each property comes down to what the nearest file that has it says, read in that file and its supers, after what `AppVars` answers and before the scalars of the yaml |
| `Dist_proofs`: `TypeCorrect` | types, and packets sent under the name of the object they are read from, for any clients, nodes, batches and packets |
| `Dist_proofs`: `LeftNothing` | what ended well left nothing in its sessions |
| `Dist_proofs`: `EveryObjectWhole` | a build that ends well has every object, whole and its own; for clients that are not `disturbed` |
| `Dist_proofs`: `EveryBinaryWhole` | ... and every host has its binaries as the client has them, though they are sent before the check for errors and libraries twice; for clients that are not `disturbed` and none of whose binaries was `cut` |

Assumptions, all on constants: `NAssumption` (the number of units is a natural), `TmpAssumption`
(`Tmp` is a set of units), `WorkersAssumption` (the pool has a thread; `-t 0` is outside),
`DumpAssumption`, `MaxEditsAssumption`, `KillPointsAssumption`; `AppsAssumption` and `ProjectsAssumption`
(finitely many applications, numbered so that dependencies have larger numbers: set-up has refused cycles),
`RootListsAssumption`, `DepArgsAssumption` (`-d` is an unsigned 16-bit number), `FetchAssumption` (the types of
the yaml files, remotes and options; the developer's directory exists), `InputsAssumption` (the types of
what clients are to do; a client has a list of work that is not empty, and different sessions for two hosts on
one node: they are two addresses in one process). Of Startup, `NamesAssumption` (settings files and properties are finitely many, `x` and
the user's settings are files, and no name is one of the words the model uses for "no file" or a failure) and its
`InputsAssumption` (the types of settings files, yaml files and command lines). Of Setup, `ProjectsAssumption` and `ProfilesAssumption` (finitely
many, with the default profile) and `YamlsAssumption` (the types of the yaml files). Five theorems have a hypothesis of
their own, and none holds without: `SelfDeps = FALSE` for `EverythingBuilt` and `DependenciesFirst` (`nested_roots` shows what
happens otherwise), `Small` for `SelectionSound` and `AllSelected` (a product of length and depth up to 32767: beyond it a level wraps
or runs out), `Ordered` for `UpdatesRead`.

*CompilePool.* The properties are about the end of the call; the induction needs to know where every
unit is before that. `BatchAccounted` says so: a unit handed over is queued, with exactly
one worker, in `thrown` or captured (`UnitsTracked`, `UnitsExclusive`); a capture tells the truth
about the object (`ResultsTrue`); a stop has a cause among what the main thread looks
at (`StopHasCause`); and the main thread is where its counters say (`MainInStep`). The refinement maps
`faulty` to the units that threw or whose object is bad, and each step to `Attempt`, `Mishap`, `Succeed`,
`Fail` or a stutter.

*IncrementalBuild.* `LinksFresh` is not inductive: it speaks of the moment of linking, while the
mistake would have been made runs earlier. `IInv` adds that no stamp and no object is later than the
file it is for (`Bounds`); that outside the sources at risk, `lost` ones among them, from the file a clean removes to the compilation
that brings the object back, a matching stamp has a good object, whatever
part of the lines a kill left (`SoundDisk`); what a run has already made or found made (`Done`); and, when
nothing changed, that the stamps are those of the files (`Settled`). "Matching" is judged against the
include stamps the run took at its start, and between runs against the headers themselves; `EndRef` is
the step from one to the other when a run ends.

*BuildOrder.* Its operators are recursive functions over the graph (`Reach`, `Below`, `Rounds`, `Graphings`),
defined by CHOOSE: before anything can be said of them it must be shown that a function with that recursion
exists. `Induction` proves this once (`RankedRecursion`: a function that asks itself only about arguments of
lower rank exists; `RankInduction`: what passes from lower ranks to higher holds of all), with sets in the place
of the operator parameters the library's theorems have. On it rest `ReachDef`, `BelowDef`, `RoundsDef`,
`GraphingsFacts`: what `DepGrapher` may return holds everything below an application, each once, dependencies
last, whatever order its maps have. `SelectInv` adds to the types that `dep_libs` may have replaced the list of
an application by everything below it and nothing else (`ListsOK`): so `Reach` stays, level and order do not.
`AllSelected` needs that the level never reaches 0 on the way: each sibling takes one off, so a
bound on length times depth; `SelectionSound` that it never comes round from -32768 to 32767, which the same bound gives
(`Lowest`: how low a level may be at an application, so that it does not wrap further down). That what stays positive was selected on the
way to it then passes from the step to the invariant (`ConnectedStep`). `BuildInv` says what is done with the part of the list that has been handled
(`TodoOK`, `Handled`, `RootsDone`), that the list has dependencies before those who need them, and whose main file is
kept (`MainKept`).

*Setup.* Each action is first put in terms of the frames of the stack (`StepDoes`), and the recursions of `Closure`, `Lineage`
and `Popped` are shown to have solutions. `Edges` adds to the types that whatever is created, listed, inherited or linked by `par`
follows an edge of the yaml files, so that a check that fires has a loop before it (`StopsAtLoops`). `Placed` makes the
stack a path in that graph: who is called although someone is at it already closes a loop through a super (`BackToSuper`), hence `OneSetUp`.
`Remembered` says that what is created and not set up is still in a list of someone on the stack that has not been passed; `Incs`, that what has
come to its end (`Fin`) has its directories, and those it depends on have come to theirs. `CyclesStop` is the hard one, since `par` holds
one of many and is overwritten all the time. `Links` says what is left of it: all who took z
lead to `par[z]` by the calls (`Reaches`), or are among some that have come to their end and lead nowhere else
(`Behind`). On a loop whose last one is checked nobody is done with, so `par` leads from one of the loop to another
(`ParsLoop`), the chain has no end, and `cyclicCheck` does not come back (`Seen`). `Noticed` is then inductive: as long as a loop is
there, counting the `self:` entries about to be taken (`Plus`), one of its applications is still before its check. The proof found
errors in two properties: `CyclesStop` had claimed it of loops with a `with:` and of entries that are listed and not taken, and
`SetUpOnce` had let a root keep its main file that someone who is not a root needs.

*Fetch.* `FetchInv` is about time: an entry that `getIfMissing` has passed will be found where `popDepOrMod`
looks for it (`PassedFound`), although between the two other projects load, remember versions and fail. It holds
because a version remembered stays remembered for the run, a directory that exists stays, and a name that is
used in one way is loaded in one version (`LoadedOnce`), from one repository (`LoadedWhere`): whoever asks later gets that one. The list of
modules is passed before the list of dependencies is looked at, in which setting up a module may already have loaded projects, so `PassedFound`
is about both groups of lists at once. Which uses of a name may lead elsewhere is what `Disagree` says; nothing else has to be excepted. What is loaded is on disk with
its project file (`LoadedWhole`), which is why the clone that fails and takes its directory away cannot take one in
use. `FreshYaml` needs that a project reached again has not been updated in between (`ReadFresh`), and that -u reaches
it: `par` goes up the heights of `Ordered` (`ParOrdered`), so no one has a hundred above it.

*Dist.* The invariant has five layers. `Typed` adds to the types where a pool thread can be when the main
thread is at a given place (`InStep`). `Known` is about who gets in whose way: `disturbed` is computed when a client
turns to a node, and has to be shown to have all who could meet later -- at the node, at a request that is still
handled after its client failed, in a session left over from another (`MeetAtNode`, `MeetHandler`,
`MeetInSession`, `MeetRequest`, `MeetUsers`) -- and a session one client used alone
has files to send only while that client's thread fetches them (`Lone`); that is `Drained`. `Own` says of a client in
nobody's way what its nodes do: options and directory are its own, or the directory is that of
another project and the batch can only fail (`Stuck`), requests are its own, and the files to be sent were
compiled with its options (`AppMine`, `ReqMine`, `SrcMine`). `ObjectsDone` follows the packets: the objects of earlier
applications and of hosts that ended are whole; a host has p objects delivered, one `Arriving`, of which node and
client agree on the number of packets and on the file beside or in place of an older one, and the others
have no `.new` yet (`Progress`); the rest is the main thread's. That one host's packets do not
touch what another brought rests on arithmetic: the parts of a batch and what is left of it are disjoint
(`PartsApart`) and cover it (`PartsCover`). `Shipping` follows the binaries the other way: those that were linked before
this one (`Past`: of earlier applications, and of this one up to its present test) are on every host as they are on the client's disk (`Delivered`),
the current one is at its node or being written there (`Underway`), beside or over what an earlier sending left, and what a host has sent is what
its writer has put down (`InTransit`) of whatever the linker left. Two hosts may be one node: both write one file, and only the one who opened
it last is linked to it (`OneWriter`); the other's packets go nowhere, and the file is whole when the last ends.

*Startup.* `TypedInvariant` has the types (`Typed`) and `Control`: which call of CREATE is where (`Flow`), that the
constructors on the stack wait for each other's files (`Stacked`), and what `pks` answers at each place (`Answers`). That a
walk of more replacements than there are keys comes back to one it has made, and that the ring it then goes round is a set of
references that lead to one another, is `Cardinality` and a pigeonhole; where the ring leaves the tables resolved before, which hold literals,
decides whose it is. `CausesFound` adds `Cause`, which finds in the files on the
stack the circle of supers, and `Trail`: the yaml files in `followed` lead from one to the next, so that one come to again closes `Endless`. `Layered` says what has been read so far: there is a list of different files, each the super of the one
before (`Links`), each resolved on top of the next with what AppVars had when it was loaded (`Complete`), and the stack is building
it from its end (`Building`, `Built`). That the second call of CREATE resolves the same instance once more and changes nothing
is `ResAgain`. At the end the application, the instance and its supers are a `Tower`; `Climb`, the recursion
of `Chain`, goes up it, and `MeansOn` carries from the lowest file up that what is resolved is what `Meanings` says of the value that stands
there, its depth enough for every reference in every file, in `-P` and, beneath the application only, in the scalars of its yaml (`Beyond`). The proof found an error in the property: `MKN_REPO` had been said to be known to
every super in a second call, while only `-x` reads supers again.

Only model-checked: `Terminates` of all modules, `Recovers` and the liveness half of `ImplementsBatch`, which
need fairness and ENABLED; and `TypeOK`, `DoneMeans`, `HooksBeforeWork` and `InUseStays` of Process, whose proofs are
planned (section 2).

## 6. Where code and documentation disagree

Those with a run end in a counterexample; the passing runs name the same situation as their exception. Those
without one are only the exception.

* `incremental_edit` -- a source edited between its compilation and `writeTimeStamps` is stamped with
  its new time, and not compiled until it changes again (`timestamps.cpp:66`).
* `LinksFresh`, `lost` -- `clean` removes one file after the other and nobody looks at what `rm()` returns: killed in between, or
  with files it cannot remove, it leaves stamps whose objects are gone, and the next build links without them (`process.cpp:73`).
* `LinksFresh`, `skipped` -- a source taken off `src:` keeps its stamp, renewed by every build; put back
  after a change it is not compiled (`timestamps.cpp:41`).
* `dep_level` -- `-d 1` also selects dependencies of dependencies: the level is used up sibling by
  sibling (`dep.cpp:155-157`).
* `SelectionConnected` -- a level above 32767 is accepted and turns negative in an `int16_t`: `-d 32768` selects direct dependencies, not
  theirs, and what is below those again, when the decrement has wrapped (`dep.cpp:157`).
* `nested_roots` -- with `-p a,b` where b has a as a dependency, the directory of a is recorded when it
  is linked as an executable, and the library b needs is not made; with `-p b,a` the executable is
  missing (`process.cpp:67`).
* `DirectoryThere`, `Disagree` -- a project that is a module and a dependency is loaded from two directories, and the next entry of its name is
  refused for "multiple versions in the dependency tree", though there is one (`app.cpp:74`).
* `setup_cycles` -- `cyclicCheck` climbs `par` before it compares, and a real cycle has closed that
  chain already: a stack overflow instead of the message (`maiken.cpp:152`). Its message is only
  reached where the last link is of the scalar form, which sets no `par`; a cycle of scalar links
  alone is not noticed.
* `SetUpOnce` -- a root whose super project lists it as a dependency is set up twice, becomes a
  dependency of its super and loses its main file (`maiken.cpp:208`).
* `CyclesStop` -- `par` remembers one of those that list an application, and a scalar link sets none: a
  loop of `self:` and `dep:` can get past set-up when a `with:` had one of its applications set up early (`depmod.cpp:212`).
* `Needed` -- an entry of a list is dropped whole when its project is already there with the profile of the one that
  lists it, whatever profile the entry is for (`depmod.cpp:170`): what a yaml file lists need not be taken.

What the other modules show of the code, without a document that says otherwise:

* A clone that is killed leaves a directory, and a directory that exists passes for the dependency: no
  later run fetches it (`depmod.cpp:85`, `LeftPartial`). A directory whose `mkn.sh` failed is kept,
  and the script is not run again.
* A dependency is checked out at the version its entry gives, not at the one its directory is
  named after (`depmod.cpp:64`). When nobody answers the directory
  is called `master` and the name is remembered, while the clone has the default branch of the remote, whatever its name.
* Only `GET_DEFAULT_BRANCH` notes that the API refuses; the other requests throw at any answer but 200, and the search goes
  on with git (`github.hpp:171`).
* Without `-d` a project may be set up from an old yaml file after an update: its one reload was spent
  before (`project.hpp:103`).
* A second `-x`, in a default line, ends in "Super cycle detected" when it shares a super with the first
  settings (`settings.cpp:42`); a default line without an option, or one with `-C` that leads back, overflows the stack (`create.cpp:224`).
* A dependency that lists the developer's own project by name, or one that some project has as its super, is led to
  a directory `MKN_REPO` does not have, or makes the name ambiguous: who lists it next is led to the root of `MKN_REPO` and ends
  (`depmod.cpp:125`). The runs have such lists; `Disagree` names them.
* A ring through `name:` or another scalar of the yaml, or through a value of `-P`, overflows the stack as one of properties does
  (`properties.cpp:80`).
* What a failed link leaves, an old file or none, has been sent to every node by the time the error is noticed
  (`bin.cpp:149`).
* `MKN_REPO` is known in the outermost settings file and in the application, not in supers (`globals.cpp:71`), unless a
  default line with `-x` loads them a second time.
* When one module must be built all are processed, and one that another application has opened may be replaced
  under it (`process.cpp:126`).
* A test that does not link is not mentioned; a binary of it from an earlier build runs in its place (`bin.cpp:186`).
* `run` starts every file of the build directory whose name contains the program's, a library of an earlier build
  included (`run.cpp:121`).
* `MKN_BETA=1` with `link` and no compilation ends in an exception: no entry was made to link from (`processor.cpp:123`).

## 7. Not modelled

*Set-up*: `-T`, `if_dep:` and `if_mod:` (the same function on another list), `inst:`, the parsing of values; module lists are in Fetch and
Process, not in Setup. *Process*: environment
variables set for a build, dry runs, `-D`, the choice of a language for a main file (`resolveLang`), binaries made by a
compiler (C#), `inst:` and `dbg`, whether `kul::Dir` throws when it lists a directory that is not there (both are
possible), what a module does in its hooks. Two threads of the beta processor over one working directory are
"a unit may fail". Tests as a reason to process an application, and the order of plain libraries on
the link line, are not in BuildOrder. *IncrementalBuild*: deleted sources and objects, main and test files, and changed
compilers or flags (which the code does not track). The modification times of fetched
objects, and `.new` files over several builds, are in neither IncrementalBuild nor Dist. *Dist*: the
registration of connections by address (`onConnect`, and the answer of `respond` to a stranger), the
contents of the set-up query, the values of the options, the nesting of
a unit's own `PushDir` in its handler's and races on the session map; the HTTP server
and the operating system are external. *Fetch*: `scmStatus`, commit and push, the arguments of git, a directory
with changes of the developer's own, the parsing of answers; `-m`, which adds to the modules of the root; the lists of a
profile's parents; `scm:` of an entry; a super given as a file; remotes of their own for modules (one list serves both); repositories without
a root directory. *Dist*: the tests of an application are linked at once and sent one by one, in the model linked one by one. *Startup*: the values of most options, escapes,
text around a reference and several references in one value, masks of compilers, lists of remotes, `$NAME` in `env:`; what a project's own super and
the parents of a profile add to its properties (inheritance is in Setup).

Output and messages (`show.cpp`, `context.cpp`, `defs.*`), `--with` strings beyond what Setup takes of them, yaml files
and regular expressions, and the command lines of compiler back ends are strings and files without
state over which a step could go wrong.
