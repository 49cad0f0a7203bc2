-------------------------------- MODULE Fetch --------------------------------
(***************************************************************************)
(* How set-up finds the directories of dependencies, fetches those that    *)
(* are missing and updates those that are not: Application::setup, its     *)
(* sub_initializer and getIfMissing (setup.cpp), resolveDepOrModDirectory, *)
(* loadDepOrMod and popDepOrMod (depmod.cpp), Git::resolveSCMBranch        *)
(* (git.hpp), Github::GET_LATEST (github.hpp), SCMGetter (getter.cpp),     *)
(* scmUpdate (scm.cpp) and Projects (project.hpp).                         *)
(*                                                                         *)
(* The disk and the network outlive a run; a run may be killed and another *)
(* started at any time.  A directory is written <<"dep", name, version>>   *)
(* under MKN_REPO, <<"mod", name, version>> under MKN_MOD_REPO and         *)
(* <<"outside", name, "here">> where local: and super: point.              *)
(***************************************************************************)
EXTENDS Naturals, SequencesExt, FiniteSetsExt

CONSTANTS Names, Root,    \* projects, and the one the developer is in
          Profiles,
          Worlds,         \* yaml files, remotes and options of a session
          Troubles        \* how often the network changes, a request fails or a run is killed

Fallback == "master"      \* defaultSCMBranchName
Default  == "main"        \* what every remote calls its default branch
Release  == "v1"
None     == "none"
Several  == "several"
Versions == {Fallback, Default, Release, "here"}

Places   == {"dep", "mod"}   \* MKN_REPO and MKN_MOD_REPO
Repo(t, n, v) == <<t, n, v>>
Outside(n)    == <<"outside", n, "here">>
RepoRoot == <<"root", None, None>>   \* of either
Dirs     == {Repo(t, n, v) : t \in Places, n \in Names, v \in Versions} \cup {Outside(n) : n \in Names}
Apps     == Dirs \X Profiles
Nobody   == <<>>

\* An entry of a list: a project, where it says so its version or that it is
\* outside of both repositories, and one profile of it.
EntryType == [name : Names, version : Versions \cup {None}, local : BOOLEAN, profile : Profiles]

ASSUME FetchAssumption ==
  /\ Root \in Names /\ 0 \in Profiles /\ Troubles \in Nat
  /\ \A w \in Worlds :
       /\ w.level \in {0, 99} /\ w.update \in BOOLEAN
       /\ w.order \in {<<1, 2, 3>>, <<2, 3, 1>>}
       /\ w.remotes \in Nat /\ w.host \in [Names -> 1..w.remotes] /\ w.github \subseteq 1..w.remotes
       /\ w.released \subseteq Names
       /\ Outside(Root) \in w.there /\ w.there \subseteq Dirs
       /\ \A x \in DOMAIN w.pins : x[1] \in Dirs /\ w.pins[x] \in Versions
       /\ \A d \in DOMAIN w.supers : d \in Dirs /\ \E n \in Names : w.supers[d] = Outside(n)
       /\ \A a \in DOMAIN w.lists : LET l == w.lists[a] IN
            {l.sub, l.mod, l.with, l.dep} \subseteq Seq(EntryType)

VARIABLES
  world,
  net,       \* "up", "limited" (the API refuses) or "down"
  trouble,   \* how many of Troubles are left
  tree,      \* per directory "none", "partial" or "whole"
  new,       \* the directories that have the latest commit
  pinned,    \* .mkn/dep/ver, .mkn/mod/ver and .mkn/sub/ver: <<directory, type, name>> to version
  status,    \* "run", "done", "killed" or the error that ended the run
  stack,     \* the calls of setup(), the running one first
  ask,       \* the query of Git::resolveSCMBranch
  limited,   \* Github::_403_rate_limited
  apps, par, ready,   \* Applications, the par pointers, those set up
  read,      \* Projects: the directories whose yaml was read, and at which commit
  updated, reloaded,  \* UpdateTracker, Projects::m_reloaded
  stale      \* history: set up from a yaml file older than the one on disk

disk    == <<tree, new, pinned>>
process == <<status, stack, ask, limited, apps, par, ready, read, updated, reloaded, stale>>
vars    == <<world, net, trouble, disk, process>>

Idle     == [at |-> "idle", remote |-> 1, get |-> 1, tries |-> 3, v |-> None]
Frame(a) == [app |-> a, at |-> "update", i |-> 1, vec |-> <<>>]

Fresh == /\ status' = "run" /\ ask' = Idle /\ limited' = FALSE
         /\ apps' = {<<Outside(Root), 0>>}
         /\ par' = [a \in Apps |-> Nobody]
         /\ ready' = {} /\ updated' = {} /\ reloaded' = {} /\ stale' = {}
         /\ stack' = <<Frame(<<Outside(Root), 0>>)>>
         /\ read' = [d \in {Outside(Root)} |-> Outside(Root) \in new]

Init == /\ world \in Worlds
        /\ net = "up" /\ trouble = Troubles
        /\ tree = [d \in Dirs |-> IF d \in world.there THEN "whole" ELSE "none"]
        /\ new = {} /\ pinned = world.pins
        /\ status = "done" /\ stack = <<>> /\ ask = Idle /\ limited = FALSE
        /\ apps = {} /\ par = [a \in Apps |-> Nobody] /\ ready = {}
        /\ read = <<>> /\ updated = {} /\ reloaded = {} /\ stale = {}

-----------------------------------------------------------------------------
(* Where an entry of a yaml file leads.                                    *)

top   == Head(stack)
me    == top.app
home  == me[1]             \* setup() runs in the project's directory
lists == IF me \in DOMAIN world.lists THEN world.lists[me]
         ELSE [sub |-> <<>>, mod |-> <<>>, with |-> <<>>, dep |-> <<>>]
missing == lists.with \o lists.dep

Go(frame)   == stack' = <<frame>> \o Tail(stack)
At(where)   == status = "run" /\ stack # <<>> /\ top.at = where
GoTo(where) == Go([top EXCEPT !.at = where, !.i = 1])
Onward      == Go([top EXCEPT !.i = @ + 1])
Ends(why)   == status' = why /\ UNCHANGED stack

\* Applications::getOrNullptr: the directories a project is loaded from, be it as
\* a dependency, a module, a super or the one the developer is in.
Loaded(n) == {a[1] : a \in {b \in apps : b[1][2] = n}}

Pin(type, n) == <<home, type, n>>

\* Fault: a project that is loaded already has no say.
KnownAlone(e, type) ==
  IF e.version # None THEN e.version
  ELSE IF Pin(type, e.name) \in DOMAIN pinned THEN pinned[Pin(type, e.name)] ELSE ask.v

\* What resolveDepOrModDirectory and PARSE_LINE can say of the version of e
\* before and, once ask has it, after a query.
Known(e, type) ==
  IF e.version # None THEN e.version
  ELSE IF type # "sub" /\ Loaded(e.name) # {}
    THEN IF Cardinality(Loaded(e.name)) > 1 THEN Several
         ELSE (CHOOSE d \in Loaded(e.name) : TRUE)[3]
  ELSE IF Pin(type, e.name) \in DOMAIN pinned THEN pinned[Pin(type, e.name)]
  ELSE ask.v

Asks(e, type)     == ~ e.local /\ Known(e, type) = None
Directory(e, type) == IF e.local THEN Outside(e.name)
                      ELSE IF Known(e, type) = Several THEN RepoRoot
                      ELSE Repo(type, e.name, Known(e, type))
TreeOf(d)         == IF d = RepoRoot THEN "partial" ELSE tree[d]  \* has no project file
Exists(d)         == TreeOf(d) # "none"
Added(f, x, v)    == [y \in DOMAIN f \cup {x} |-> IF y \in DOMAIN f THEN f[y] ELSE v]

\* Fault: only what a remote said is kept.
WriteNoCacheVersion(e, type) == pinned

\* Fault: so is the repository's root, where an undecided version leads.
WriteAnyVersion(e, type) == Added(pinned, Pin(type, e.name), Known(e, type))

\* write_cache_version: the first answer stays.
WriteCacheVersion(e, type) ==
  IF e.local \/ Known(e, type) = Several THEN pinned
  ELSE Added(pinned, Pin(type, e.name), Known(e, type))

-----------------------------------------------------------------------------
(* Git::resolveSCMBranch, for the entry that setup() is at.                *)

list == CASE top.at = "sub" -> lists.sub
          [] top.at \in {"missingMod", "mod"} -> lists.mod
          [] top.at = "missing" -> missing
          [] top.at = "dep"  -> lists.dep
          [] top.at = "with" -> lists.with
          [] OTHER -> <<>>
entry   == list[top.i]
Listing == status = "run" /\ stack # <<>> /\ top.i <= Len(list)
kind    == CASE top.at = "sub" -> "sub" [] top.at \in {"missingMod", "mod"} -> "mod" [] OTHER -> "dep"
Resolved(where) == /\ At(where) /\ Listing
                   /\ ask.at = "got" \/ (ask.at = "idle" /\ ~ Asks(entry, kind))

Asking(where) == Listing /\ ask.at = where

\* The first remote on github.com, if any, is asked first.
Ask == /\ Asking("idle") /\ Asks(entry, kind)
       /\ ask' = [Idle EXCEPT !.at = "api"]
       /\ UNCHANGED <<world, net, trouble, disk, status, stack, limited, apps, par, ready, read, updated, reloaded, stale>>

Reached     == world.host[entry.name] = ask.remote
get         == world.order[ask.get]
ToGit       == [Idle EXCEPT !.at = "git"]
NextGet     == IF ask.get < 3 THEN [ask EXCEPT !.get = @ + 1, !.tries = 3]
               ELSE [Idle EXCEPT !.at = "api", !.remote = ask.remote + 1]
Retry       == IF ask.tries > 1 THEN [ask EXCEPT !.tries = @ - 1] ELSE NextGet
Got(v)      == [Idle EXCEPT !.at = "got", !.v = v]
ResolvedTo(v) == ask' = Got(v) /\ pinned' = Added(pinned, Pin(kind, entry.name), v)

unanswered == UNCHANGED <<world, net, tree, new, status, stack, apps, par, ready, read, updated, reloaded, stale>>

\* GET_LATEST: no more remotes, or one that is not on github.com.
Skip == /\ Asking("api") /\ (ask.remote > world.remotes \/ ask.remote \notin world.github \/ limited)
        /\ ask' = IF ask.remote > world.remotes THEN ToGit
                  ELSE IF ask.remote \notin world.github THEN [ask EXCEPT !.remote = @ + 1]
                  ELSE NextGet
        /\ UNCHANGED <<trouble, limited, pinned>> /\ unanswered

\* GET_DEFAULT_BRANCH, GET_LATEST_RELEASE and GET_LATEST_TAG send a request.
\* Only the first notes a 403; the other two throw at whatever is not a 200, and
\* no exception comes out of resolveSCMBranch.  The last looks for a key in what
\* it has seen to be a sequence.
Request ==
  /\ Asking("api") /\ ask.remote \in 1..world.remotes /\ ask.remote \in world.github /\ ~ limited
  /\ \/ /\ net = "down"
        /\ ask' = ToGit /\ UNCHANGED <<trouble, limited, pinned>>
     \/ /\ net = "limited"
        /\ ask' = ToGit /\ limited' = (get = 1) /\ UNCHANGED <<trouble, pinned>>
     \/ /\ net = "up" /\ get = 1 /\ Reached
        /\ ResolvedTo(Default) /\ UNCHANGED <<trouble, limited>>
     \/ /\ net = "up" /\ get = 2 /\ Reached /\ entry.name \in world.released
        /\ ResolvedTo(Release) /\ UNCHANGED <<trouble, limited>>
     \/ /\ net = "up" /\ get = 3 /\ Reached
        /\ ask' = Retry /\ UNCHANGED <<trouble, limited, pinned>>
     \/ /\ net = "up" /\ (~ Reached \/ (get = 2 /\ entry.name \notin world.released))
        /\ ask' = IF get = 1 THEN Retry ELSE ToGit
        /\ UNCHANGED <<trouble, limited, pinned>>
     \/ /\ net = "up" /\ trouble > 0 /\ trouble' = trouble - 1
        /\ ask' = IF get = 1 THEN Retry ELSE ToGit
        /\ UNCHANGED <<limited, pinned>>
  /\ unanswered

\* Fault: the fallback is kept like an answer.
KeepFallback == ResolvedTo(Fallback)

\* Nobody answered: the name every repository used to have.
TakeFallback == ask' = Got(Fallback) /\ UNCHANGED pinned

\* git ls-remote on one remote after the other.
LsRemote ==
  /\ Asking("git")
  /\ IF ask.remote > world.remotes THEN TakeFallback
     ELSE IF net # "down" /\ Reached THEN ResolvedTo(Default)
     ELSE ask' = [ask EXCEPT !.remote = @ + 1] /\ UNCHANGED pinned
  /\ UNCHANGED <<trouble, limited>> /\ unanswered

-----------------------------------------------------------------------------
(* setup().                                                                *)

ancestors(a) ==
  LET Up[b \in Apps] == IF par[b] = Nobody THEN 0 ELSE 1 + Up[par[b]]
  IN Up[a]

\* Fault: the yaml file is read again before the update.
ReloadFirst(done) == home \in new

\* Projects::reload, once for each file; done: the directories that have the
\* latest commit after scmUpdate.
Reload(done) == IF home \in reloaded THEN read[home] ELSE home \in done

\* -u and -U: scmUpdate, then reload.  -u asks, and may be told no.
ScmUpdate ==
  /\ At("update")
  /\ \/ /\ ~ world.update /\ UNCHANGED <<new, updated, reloaded, read>> /\ status' = status
     \/ /\ world.update
        /\ \/ /\ ancestors(me) > world.level \/ home \in updated
              /\ UNCHANGED <<new, updated>>
           \/ /\ ancestors(me) <= world.level /\ home \notin updated
              /\ net # "down"
              /\ new' \in {new, new \cup {home}} /\ updated' = updated \cup {home}
        /\ read' = [read EXCEPT ![home] = Reload(new')]
        /\ reloaded' = reloaded \cup {home}
        /\ status' = status
     \/ /\ world.update /\ net = "down" /\ ancestors(me) <= world.level /\ home \notin updated
        /\ status' = "scm" /\ UNCHANGED <<new, updated, reloaded, read>>
  /\ IF status' = "run" THEN GoTo("super") ELSE UNCHANGED stack
  /\ stale' = stale \cup {b \in {me} : home \in new' /\ ~ read'[home]}
  /\ UNCHANGED <<world, net, trouble, tree, pinned, ask, limited, apps, par, ready>>

super == world.supers[home]

\* The super's own supers, as far as they are known, end in this project.
LeadsBack ==
  LET Back[d \in Dirs] == d = home \/ (<<d, 0>> \in ready /\ d \in DOMAIN world.supers /\ Back[world.supers[d]])
  IN Back[super]

\* setSuper: a super that is new to Applications is set up in the middle of
\* this.  Only what follows gives an application its buildDir().
SetSuper ==
  /\ At("super")
  /\ \/ /\ home \in DOMAIN world.supers => <<super, 0>> \in apps /\ ~ LeadsBack
        /\ GoTo("sub") /\ ready' = ready \cup {me}
        /\ UNCHANGED <<status, apps, read>>
     \/ /\ home \in DOMAIN world.supers /\ <<super, 0>> \notin apps /\ tree[super] = "whole"
        /\ apps' = apps \cup {<<super, 0>>} /\ read' = Added(read, super, super \in new)
        /\ stack' = <<Frame(<<super, 0>>)>> \o stack
        /\ UNCHANGED <<status, ready>>
     \/ /\ home \in DOMAIN world.supers
        /\ IF <<super, 0>> \in apps THEN LeadsBack ELSE tree[super] # "whole"
        /\ Ends("super") /\ UNCHANGED <<apps, read, ready>>
  /\ UNCHANGED <<world, net, trouble, disk, ask, limited, par, updated, reloaded, stale>>

Target == IF top.at = "sub" THEN Outside(entry.name) ELSE Directory(entry, kind)
Pinned == IF top.at = "sub" THEN pinned ELSE WriteCacheVersion(entry, kind)

\* getIfMissing, and the same for sub:, up to SCMGetter::GET_SCM, which looks
\* for a remote that answers.
GetIfMissing ==
  /\ \E where \in {"sub", "missingMod", "missing"} : Resolved(where)
  /\ pinned' = Pinned
  /\ \/ Exists(Target) /\ Onward /\ ask' = Idle /\ UNCHANGED <<tree, status>>
     \/ /\ ~ Exists(Target) /\ net # "down"
        /\ tree' = [tree EXCEPT ![Target] = "partial"]
        /\ ask' = [ask EXCEPT !.at = "co"] /\ UNCHANGED <<stack, status>>
     \/ ~ Exists(Target) /\ net = "down" /\ Ends("noscm") /\ ask' = Idle /\ UNCHANGED tree
  /\ UNCHANGED <<world, net, trouble, new, limited, apps, par, ready, read, updated, reloaded, stale>>

\* A dependency is checked out at the version its entry gives and not at the
\* one its directory is named after, a sub: at the one found for it.
Wanted == IF top.at = "sub" THEN Known(entry, "sub") ELSE entry.version

\* The clone ends, or fails and takes its directory away, and what
\* loadDepOrMod does then: it runs mkn.sh, or forgets the version.
Checkout ==
  /\ Asking("co")
  /\ \/ /\ net # "down" /\ Wanted # Fallback
        /\ tree' = [tree EXCEPT ![Target] = "whole"] /\ new' = new \cup {Target}
        /\ \/ Onward /\ UNCHANGED <<status, trouble>>
           \/ top.at # "sub" /\ trouble > 0 /\ trouble' = trouble - 1 /\ Ends("init")
        /\ UNCHANGED pinned
     \/ /\ net = "down" \/ Wanted = Fallback
        /\ tree' = [tree EXCEPT ![Target] = "none"]
        /\ pinned' = [x \in DOMAIN pinned \ {Pin(t, entry.name) : t \in {kind} \ {"sub"}} |-> pinned[x]]
        /\ Ends("scm") /\ UNCHANGED <<new, trouble>>
  /\ ask' = Idle
  /\ UNCHANGED <<world, net, limited, apps, par, ready, read, updated, reloaded, stale>>

\* popDepOrMod's lam: the directory is resolved again.  An entry is dropped if
\* the list has its project with the profile that is being set up.
PopDepOrMod ==
  /\ \E where \in {"mod", "dep", "with"} : Resolved(where)
  /\ pinned' = WriteCacheVersion(entry, kind)
  /\ ask' = Idle
  /\ LET d == Directory(entry, kind)
         a == <<d, entry.profile>>
     IN \/ /\ <<d, me[2]>> \in ToSet(top.vec)
           /\ Onward /\ UNCHANGED <<apps, par, read, status>>
        \/ /\ <<d, me[2]>> \notin ToSet(top.vec) /\ TreeOf(d) = "whole"
           /\ apps' = apps \cup {a}
           /\ par' = IF top.at = "dep" THEN [par EXCEPT ![a] = me] ELSE par
           /\ read' = Added(read, d, d \in new)
           /\ Go([top EXCEPT !.i = @ + 1, !.vec = Append(@, a)])
           /\ UNCHANGED status
        \/ /\ <<d, me[2]>> \notin ToSet(top.vec) /\ TreeOf(d) # "whole"
           /\ Ends(IF Exists(d) THEN "noproject" ELSE "nodir")
           /\ UNCHANGED <<apps, par, read>>
  /\ UNCHANGED <<world, net, trouble, tree, new, limited, ready, updated, reloaded, stale>>

quiet == UNCHANGED <<world, net, trouble, disk, ask, limited, apps, par, ready, read, updated, reloaded, stale>>

\* The second loop of popDepOrMod.
SetUp == /\ \E where \in {"setupMod", "setupDep", "setupWith"} : At(where)
         /\ top.i <= Len(top.vec)
         /\ LET a == top.vec[top.i] IN
              IF a \in ready THEN Onward
              ELSE stack' = <<Frame(a), [top EXCEPT !.i = @ + 1]>> \o Tail(stack)
         /\ UNCHANGED status /\ quiet

After(where) == CASE where = "sub" -> "missingMod" [] where = "missingMod" -> "mod"
                  [] where = "mod" -> "setupMod" [] where = "setupMod" -> "missing"
                  [] where = "missing" -> "dep" [] where = "dep" -> "setupDep"
                  [] where = "setupDep" -> "with" [] where = "with" -> "setupWith"

\* modDeps is one vector; what dep: and with: give is another.
ListEnds == /\ status = "run" /\ stack # <<>> /\ top.at \notin {"update", "super", "setupWith"}
            /\ top.i > IF top.at \in {"setupMod", "setupDep"} THEN Len(top.vec) ELSE Len(list)
            /\ Go([top EXCEPT !.at = After(top.at), !.i = 1, !.vec = IF top.at = "setupMod" THEN <<>> ELSE @])
            /\ UNCHANGED status /\ quiet

Return == /\ At("setupWith") /\ top.i > Len(top.vec)
          /\ stack' = Tail(stack)
          /\ status' = IF Tail(stack) = <<>> THEN "done" ELSE "run"
          /\ quiet

-----------------------------------------------------------------------------
(* The developer, the network and the operating system.                    *)

Run == status # "run" /\ Fresh /\ UNCHANGED <<world, net, trouble, disk>>

NetChanges == /\ trouble > 0 /\ trouble' = trouble - 1
              /\ net' \in {"up", "limited", "down"} \ {net}
              /\ UNCHANGED <<world, disk, process>>

NetReturns == /\ net # "up" /\ net' = "up"
              /\ UNCHANGED <<world, trouble, disk, process>>

Killed == /\ status = "run" /\ trouble > 0 /\ trouble' = trouble - 1
          /\ status' = "killed"
          /\ UNCHANGED <<world, net, disk, stack, ask, limited, apps, par, ready, read, updated, reloaded, stale>>

Step == \/ Ask \/ Skip \/ Request \/ LsRemote
        \/ ScmUpdate \/ SetSuper \/ GetIfMissing \/ Checkout \/ PopDepOrMod \/ SetUp \/ ListEnds \/ Return
Next == Step \/ Run \/ NetChanges \/ NetReturns \/ Killed

Spec     == Init /\ [][Next]_vars
FairSpec == Spec /\ WF_vars(Step) /\ WF_vars(Run)

-----------------------------------------------------------------------------
(* Properties.                                                             *)

\* Every variable keeps its type.
TypeOK ==
  /\ world \in Worlds /\ net \in {"up", "limited", "down"} /\ trouble \in 0..Troubles
  /\ tree \in [Dirs -> {"none", "partial", "whole"}] /\ new \subseteq Dirs
  /\ \A x \in DOMAIN pinned : x[1] \in Dirs /\ pinned[x] \in Versions
  /\ status \in {"run", "done", "killed", "scm", "noscm", "init", "super", "nodir", "noproject"}
  /\ \A i \in DOMAIN stack : stack[i].app \in apps /\ ToSet(stack[i].vec) \subseteq apps
  /\ ask.at \in {"idle", "api", "git", "got", "co"} /\ ask.v \in Versions \cup {None}
  /\ limited \in BOOLEAN
  /\ apps \subseteq Apps /\ par \in [Apps -> Apps \cup {Nobody}] /\ ready \subseteq apps
  /\ DOMAIN read = {a[1] : a \in apps} /\ updated \subseteq Dirs /\ reloaded \subseteq Dirs
  /\ stale \subseteq apps

Plain(e)   == e.version = None /\ ~ e.local
Entries(t) == UNION {ToSet(IF t = "mod" THEN world.lists[a].mod ELSE world.lists[a].dep \o world.lists[a].with) :
                       a \in DOMAIN world.lists}
\* Something else than the repositories decides where n is: an entry with a
\* version or local:, or a project that has it as its super.
Placed(n) == \/ \E d \in DOMAIN world.supers : world.supers[d] = Outside(n)
             \/ \E t \in Places : \E e \in Entries(t) : e.name = n /\ ~ Plain(e)
Uses(n)   == {t \in Places : \E e \in Entries(t) : e.name = n /\ Plain(e)}
             \cup {t \in {"given"} : n = Root \/ Placed(n)}
\* A project is listed with only its name, and used in another way as well: as
\* a module and as a dependency, with a version or local:, as a super or as the
\* one the developer is in.
Disagree == \E n \in Names : \E t, u \in Uses(n) : t # u
\* A clone was killed, and its directory passes for the dependency ever since.
LeftPartial == status # "run" /\ \E d \in Dirs : tree[d] = "partial"

\* A dependency or module is looked for twice, and what the second look names is
\* there: whatever the network answered in between, set-up fails for want of a
\* directory or project file only after a clone that was killed, or when a
\* project is used in ways that disagree -- listed by name, and elsewhere placed
\* by an entry, a module too, a super, or the developer's own.
DirectoryThere == status \in {"nodir", "noproject"} => LeftPartial \/ Disagree

\* One run uses one version for all plain entries of a name, be they of modules
\* or dependencies, even when the projects that have them remember different
\* ones, and when it is the project the developer is in.
OneVersion ==
  \A n \in Names : ~ Placed(n) => Cardinality({d[3] : d \in Loaded(n)}) <= 1

\* With -u -d no application is set up from a yaml file older than the one on
\* disk.  Without -d one can be: an application that is too deep to be updated
\* uses the one reload there is.
FreshYaml == world.level = 99 => stale = {}

\* Once the network stays up, runs end again and again, and they end well,
\* whatever was remembered or half done before; a killed clone, uses that
\* disagree and a super that is missing or leads back excepted.
Recovers ==
  <>[](net = "up") =>
    []<>(status # "run" /\ (status \in {"done", "super"} \/ LeftPartial \/ Disagree))
=============================================================================
