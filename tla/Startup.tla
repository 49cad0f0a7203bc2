------------------------------- MODULE Startup -------------------------------
(***************************************************************************)
(* From the command line to the applications to build: Application::CREATE *)
(* (create.cpp), the settings files and their supers (settings.cpp), the   *)
(* resolution of ${} in settings and projects (properties.cpp), the env:   *)
(* of settings (env.hpp) and what AppVars keeps of it all (globals.cpp,    *)
(* global.hpp).                                                            *)
(*                                                                         *)
(* CREATE calls itself for a default command, the `#! ` line of a yaml     *)
(* file, in the same process: what is static stays.  A value is the        *)
(* literal it comes down to, named after where it stands, or a reference   *)
(* ${p}.  Applications::getOrCreateRoot is in Setup and Fetch; a project   *)
(* has no super here.                                                      *)
(***************************************************************************)
EXTENDS Naturals, Sequences, FiniteSets

CONSTANTS Files,      \* settings files
          Dirs,       \* directories a project may be in
          Keys,       \* properties
          Inputs      \* families of files on disk and command lines

User == "settings"    \* ~/.maiken/settings.yaml, which exists or is written
App  == "mkn"         \* the project's file, as a holder of properties
None == "none"

Lit(f) == [text |-> f, ref |-> None]
Ref(k) == [text |-> None, ref |-> k]
Values == {Lit(f) : f \in Files \cup {App, "HOME", "MKN_REPO", "-P", "yaml"}} \cup {Ref(k) : k \in Keys}
Some   == UNION {[K -> Values] : K \in SUBSET Keys}

\* What is looked for in a directory; -C may name a file that is called otherwise,
\* or what is not there.
Names    == {"mkn.yml", "mkn.yaml", ".mkn.yml", ".mkn.yaml"}
Yamls    == [dir : Dirs, name : Names \cup {"other"}]
Targets  == Yamls \cup [dir : Dirs \cup {"absent"}, name : {None}]
Commands == [options : SUBSET STRING, to : Targets]

\* super: a settings file names another, "absent" if there is none of the name;
\* property, env: what a file defines, in order; scalar: what else in the yaml is
\* one text, as name: and version:; scm, uses: what scm: and the rest of the yaml
\* refer to; line: the command after #!, if there is one; ymls: the project files
\* there are; many: -p names several profiles; override: the properties of -P.  -x
\* names the file "x".
Worlds == [super : [Files -> Files \cup {None, "absent"}],
           property : [Files \cup {App} -> Some],
           scalar : Some, scm : SUBSET Values, uses : SUBSET Values,
           env : [Files -> Seq(Values)],
           args : SUBSET STRING, to : Targets, line : [Yamls -> Seq(Commands)],
           start : Dirs, ymls : SUBSET Yamls, many : BOOLEAN,
           unwritable : SUBSET Files, override : Some]

\* A file can be told from what is not one, and a key from no reference.
ASSUME NamesAssumption ==
  /\ IsFiniteSet(Files) /\ {User, "x"} \subseteq Files
  /\ Files \cap {None, "absent", App, "undefined", "overflow"} = {}
  /\ IsFiniteSet(Keys) /\ None \notin Keys

ASSUME InputsAssumption == \A family \in Inputs : family \subseteq Worlds

-----------------------------------------------------------------------------
(* The options, as CREATE comes to them.  An option followed by ? has an    *)
(* argument that CREATE refuses.                                            *)

Phases == <<"verbose", "settings", "appvars", "post", "yaml", "line", "profiles", "flags",
            "overrides", "commands", "roots", "queries", "threads", "printing", "nodes">>
Others(f, at) == IF at \in DOMAIN f THEN f[at] ELSE {}

\* KEXIT(1), or an exception
Refused(at) == Others([verbose |-> {"-V?"}, settings |-> {"-x?"}, profiles |-> {"-p?"}, flags |-> {"-n?", "-g?", "-O?", "-W?"},
                       overrides |-> {"-P?", "-E?"}, commands |-> {"-T?"}, roots |-> {"-d?", "-f?"},
                       threads |-> {"-t?", "-j?"}], at)
\* KEXIT(0), after printing something; the second row only for a single application
Answered(at, many) ==
  Others([verbose |-> {"-h", "-v"}, printing |-> {"deps", "mods", "inc", "src", "-s"}], at)
  \cup (IF many THEN {} ELSE Others([queries |-> {"profiles", "-G"}], at))
\* what AppVars or the application keeps; info and tree only print
Noted(at, many) ==
  Others([settings |-> {"-q"}, flags |-> {"-D", "-R", "-S", "-K", "-U", "-u", "-d", "-n", "-g", "-O", "-W"},
          overrides |-> {"-P", "-E"},
          commands |-> {"clean", "build", "compile", "link", "run", "test", "dbg", "pack", "-w", "-m", "-T"},
          roots |-> {"-f"}, threads |-> {"-a", "-r", "-l", "-L", "-t", "-j"}], at)
  \cup (IF many THEN {} ELSE Others([queries |-> {"info"}, printing |-> {"-A", "-M", "-o"}], at))

-----------------------------------------------------------------------------
VARIABLES
  input,    \* never changes but for what the run writes
  status,   \* "run", "done" or why the process ended
  followed, \* the yaml files whose default command runs: each a call of CREATE in another
  args,     \* the options of the innermost call
  to,       \* what its -C names
  at,       \* its place in Phases
  yml,      \* the yaml file it found, or only the directory it is called in
  noted,    \* AppVars: the options noted
  pks,      \* AppVars::properkeys: a value for some keys
  files,    \* SuperSettings::files
  instance, \* Settings::instance
  loading,  \* constructors of Settings that are running, the innermost first
  ps,       \* the properties of each settings file and of the application
  env       \* what env: entries have set, in order

statics == <<noted, pks, files, instance, ps, env>>
call    == <<followed, args, to, yml>>
vars    == <<input, status, call, at, loading, statics>>

Init == /\ (\E family \in Inputs : input \in family)
        /\ status = "run" /\ followed = {}
        /\ args = input.args /\ to = input.to /\ at = 1
        /\ yml = [dir |-> input.start, name |-> None]
        /\ noted = {}
        /\ pks = [k \in {"HOME"} \cap Keys |-> Lit("HOME")]
        /\ files = {} /\ instance = None /\ loading = <<>>
        /\ ps = [f \in Files \cup {App} |-> <<>>]
        /\ env = <<>>

Ends(why) == status' = why /\ UNCHANGED <<input, call, at, loading, statics>>
Over(f, g) == [k \in DOMAIN f \cup DOMAIN g |-> IF k \in DOMAIN f THEN f[k] ELSE g[k]]

-----------------------------------------------------------------------------
(* Properties::RESOLVE: replace a reference until there is none.           *)

Lookup(table, v) == IF v.ref \in DOMAIN pks THEN pks[v.ref]
                    ELSE IF v.ref \in DOMAIN table THEN table[v.ref] ELSE Lit("undefined")

\* Fault: what replaces a reference is not looked at again.
ResolveOnce(table, v) == IF v.ref = None THEN v ELSE Lookup(table, v)

\* More replacements than there are keys never end.
Resolve(table, v) ==
  LET R[n \in 0..Cardinality(Keys) + 1] ==
        IF n = 0 THEN v ELSE LET w == R[n - 1] IN IF w.ref = None THEN w ELSE Lookup(table, w)
      end == R[Cardinality(Keys) + 1]
  IN IF end.ref = None THEN end ELSE Lit("overflow")

Bad(values) == {v \in values : v.text \in {"undefined", "overflow"}}

\* resolveProperties of a holder f: its own come in as they are written, then
\* each is resolved with all of them in place.
Own(f)    == input.property[f]
Given(f)  == Over(Own(f), ps[f])
ResolveProperties(f) == Over([k \in DOMAIN Own(f) |-> Resolve(Given(f), Own(f)[k])], ps[f])
Failing(f) == Bad({Resolve(Given(f), Own(f)[k]) : k \in DOMAIN Own(f)})

\* PARSE_ENV_NODE, before resolveProperties: only what a super has defined is there.
EnvOf(f)      == [i \in DOMAIN input.env[f] |-> Resolve(ps[f], input.env[f][i])]
EnvFailing(f) == Bad({EnvOf(f)[i] : i \in DOMAIN input.env[f]})

\* POST_CONSTRUCT of a settings file.
PostConstructs(f) == EnvFailing(f) = {} /\ Failing(f) = {}
PostFails(f) == LET bad == IF EnvFailing(f) # {} THEN EnvFailing(f) ELSE Failing(f)
                IN bad # {} /\ \E v \in bad : Ends(v.text)

-----------------------------------------------------------------------------
(* The constructor of Settings.                                            *)

here         == Head(loading)
Loading(p)   == status = "run" /\ loading # <<>> /\ here.at = p
Then(p)      == loading' = <<[here EXCEPT !.at = p]>> \o Tail(loading)
quiet        == UNCHANGED <<input, status, call, at>>

Open(f)      == [file |-> f, at |-> "local"]

\* local: repo: is made if it is not there.
LocalRepo == /\ Loading("local")
             /\ \/ here.file \notin input.unwritable /\ Then("super") /\ quiet /\ UNCHANGED statics
                \/ here.file \in input.unwritable /\ Ends("settings")

super == input.super[here.file]

\* Fault: nobody looks whether a file was seen before.
Unchecked(f) == FALSE

\* SuperSettings::cycleCheck
Seen(f) == f \in files

LoadSuper ==
  /\ Loading("super") /\ super \notin {None, "absent", here.file} /\ ~ Seen(super)
  /\ files' = files \cup {super}
  /\ \/ /\ Len(loading) <= Cardinality(Files)
        /\ loading' = <<Open(super)>> \o <<[here EXCEPT !.at = "merge"]>> \o Tail(loading)
        /\ ps' = [ps EXCEPT ![super] = <<>>]
        /\ UNCHANGED status
     \/ Len(loading) > Cardinality(Files) /\ status' = "overflow" /\ UNCHANGED <<loading, ps>>
  /\ UNCHANGED <<input, call, at, noted, pks, instance, env>>

BadSuper == /\ Loading("super")
            /\ \/ super \in {"absent", here.file} /\ Ends("settings")
               \/ super \in Files \ {here.file} /\ Seen(super) /\ Ends("cycle")

\* Fault: the super's properties are taken before they are resolved.
MergeFirst(f, g) == Over(ps[f], Over(Own(g), ps[g]))

Merge(f, g) == Over(ps[f], ResolveProperties(g))

\* The super is complete: POST_CONSTRUCT on it, and its properties are taken.
MergeSuper ==
  /\ Loading("merge")
  /\ \/ /\ PostConstructs(super)
        /\ env' = env \o EnvOf(super)
        /\ ps' = [ps EXCEPT ![super] = ResolveProperties(super), ![here.file] = Merge(here.file, super)]
        /\ Then("mask")
        /\ quiet /\ UNCHANGED <<noted, pks, files, instance>>
     \/ PostFails(super)

\* The constructor ends; the outermost one makes the instance.
Constructed ==
  /\ Loading("mask") \/ (Loading("super") /\ super = None)
  /\ loading' = Tail(loading)
  /\ instance' = IF Len(loading) = 1 THEN here.file ELSE instance
  /\ quiet /\ UNCHANGED <<noted, pks, files, ps, env>>

-----------------------------------------------------------------------------
(* CREATE.                                                                 *)

phase    == Phases[at]
In(p)    == status = "run" /\ loading = <<>> /\ phase = p
Passes   == args \cap (Refused(phase) \cup Answered(phase, input.many)) = {}
Onward   == at' = at + 1
\* showConfig is silent in a dry run.
Silent   == IF "-R" \in noted THEN {"info"} ELSE {}
Takes    == noted' = noted \cup ((args \cap Noted(phase, input.many)) \ Silent)

\* An option is refused, or answered at once.
Refuse == /\ status = "run" /\ loading = <<>> /\ args \cap Refused(phase) # {} /\ Ends("refused")
Answer == /\ status = "run" /\ loading = <<>> /\ args \cap Refused(phase) = {}
          /\ args \cap Answered(phase, input.many) # {} /\ Ends("answered")

\* Settings::SET, or the default instance if there is none.
LoadSettings ==
  /\ In("settings") /\ Passes
  /\ LET f == IF "-x" \in args THEN "x" ELSE User
     IN IF "-x" \in args \/ instance = None
        THEN loading' = <<Open(f)>> /\ ps' = [ps EXCEPT ![f] = <<>>]
        ELSE UNCHANGED <<loading, ps>>
  /\ Onward /\ Takes
  /\ UNCHANGED <<input, status, call, pks, files, instance, env>>

\* AppVars::POST_CONSTRUCT: local: repo: of the instance or the first super that
\* has one, or the default.
PostAppVars ==
  /\ In("appvars")
  /\ pks' = Over([k \in {"MKN_REPO"} \cap Keys |-> Lit("MKN_REPO")], pks)
  /\ Onward
  /\ UNCHANGED <<input, status, call, noted, loading, files, instance, ps, env>>

PostSettings ==
  /\ In("post")
  /\ \/ /\ PostConstructs(instance)
        /\ env' = env \o EnvOf(instance)
        /\ ps' = [ps EXCEPT ![instance] = ResolveProperties(instance)]
        /\ Onward
        /\ UNCHANGED <<input, status, call, loading, noted, pks, files, instance>>
     \/ PostFails(instance)

\* The yaml files that are found in dir, or by -C.
Found(ymls, dir, options, target) ==
  IF "-C" \in options /\ target \in ymls THEN {target}
  ELSE LET d == IF "-C" \notin options THEN dir ELSE IF target.name = None THEN target.dir ELSE "absent"
       IN {y \in ymls : y.dir = d /\ y.name \in Names}

\* init, and find_mkn_file.
FindYaml ==
  /\ In("yaml")
  /\ LET new   == [dir |-> yml.dir, name |-> "mkn.yaml"]
         ymls  == input.ymls \cup {y \in {new} : "init" \in args}
         found == Found(ymls, yml.dir, args, to)
     IN \/ "init" \in args /\ new \in input.ymls /\ Ends("exists")
        \/ /\ "init" \notin args \/ new \notin input.ymls
           /\ input' = [input EXCEPT !.ymls = ymls]
           /\ \/ \E y \in found : found = {y} /\ yml' = y /\ UNCHANGED status
              \/ /\ found = {} /\ UNCHANGED yml
                 /\ status' = IF "-C" \in args /\ (to.dir = "absent" \/ to.name # None) THEN "refused" ELSE "nothing"
              \/ (\E y, z \in found : y # z) /\ status' = "several" /\ UNCHANGED yml
           /\ Onward
           /\ UNCHANGED <<followed, args, to, loading, statics>>

\* Nothing was asked for.
Alone(options) == options \subseteq {"-C"}

\* The default command: CREATE calls itself.  A yaml file that is come to again
\* leads to itself for ever.
DefaultLine ==
  /\ In("line")
  /\ \/ /\ Alone(args) /\ input.line[yml] # <<>> /\ yml \notin followed
        /\ followed' = followed \cup {yml}
        /\ args' = input.line[yml][1].options /\ to' = input.line[yml][1].to /\ at' = 1
        /\ UNCHANGED status
     \/ /\ Alone(args) /\ input.line[yml] # <<>> /\ yml \in followed
        /\ status' = "overflow" /\ UNCHANGED <<followed, args, to, at>>
     \/ /\ ~ Alone(args) \/ input.line[yml] = <<>>
        /\ Onward /\ UNCHANGED <<status, followed, args, to>>
  /\ UNCHANGED <<input, yml, loading, statics>>

\* -P is an answer to every reference from here on.
Plain ==
  /\ \E p \in {"verbose", "profiles", "flags", "overrides", "commands", "queries", "threads", "printing"} : In(p)
  /\ Passes
  /\ IF phase = "flags" /\ {"-S", "-K"} \subseteq args
     THEN status' = "refused" /\ UNCHANGED <<at, noted, pks>>
     ELSE /\ Onward /\ Takes /\ UNCHANGED status
          /\ pks' = IF phase = "overrides" /\ "-P" \in args THEN Over(input.override, pks) ELSE pks
  /\ UNCHANGED <<input, call, loading, files, instance, ps, env>>

\* Where nothing else says what a reference is, an application looks in its yaml.
Scalars(table) == Over(table, input.scalar)

\* getOrCreateRoot: scm: is resolved before there are properties; setSuper gives the
\* application those of the settings, resolveProperties adds its own; then the rest.
Roots ==
  /\ In("roots") /\ Passes
  /\ LET with  == Over(ps[App], ps[instance])
         table == Scalars(Over(Own(App), with))
         own   == [k \in DOMAIN Own(App) |-> Resolve(table, Own(App)[k])]
         early == Bad({Resolve(Scalars(ps[App]), v) : v \in input.scm})
         bad   == Bad({own[k] : k \in DOMAIN own})
         late  == Bad({Resolve(Scalars(Over(own, with)), v) : v \in input.uses})
     IN \/ /\ early = {} /\ bad = {} /\ late = {}
           /\ ps' = [ps EXCEPT ![App] = Over(own, with)]
           /\ Onward /\ Takes
           /\ UNCHANGED <<input, status, call, loading, pks, files, instance, env>>
        \/ \E v \in IF early # {} THEN early ELSE IF bad # {} THEN bad ELSE late : Ends(v.text)

\* The nodes of -n are asked; there may be none, or one that does not answer.
Nodes == /\ In("nodes")
         /\ \/ status' = "done"
            \/ "-n" \in noted /\ status' = "nodes"
         /\ UNCHANGED <<input, call, at, loading, statics>>

Ended == status # "run" /\ UNCHANGED vars

Step == \/ LocalRepo \/ LoadSuper \/ BadSuper \/ MergeSuper \/ Constructed
        \/ Refuse \/ Answer \/ LoadSettings \/ PostAppVars \/ PostSettings \/ FindYaml
        \/ DefaultLine \/ Plain \/ Roots \/ Nodes
Next == Step \/ Ended
Spec == Init /\ [][Next]_vars

-----------------------------------------------------------------------------
(* Properties.                                                             *)

\* Every variable keeps its type, and no reference is left in what start-up hands on.
TypeOK ==
  /\ status \in {"run", "done", "refused", "answered", "settings", "cycle", "undefined", "overflow",
                 "exists", "nothing", "several", "nodes"}
  /\ followed \subseteq Yamls /\ at \in 1..Len(Phases)
  /\ DOMAIN pks \subseteq Keys
  /\ files \subseteq Files /\ instance \in Files \cup {None}
  /\ \A f \in Files \cup {App} : \A k \in DOMAIN ps[f] : k \in Keys /\ ps[f][k] \in Values
  /\ status = "done" => \A f \in {instance, App} : \A k \in DOMAIN ps[f] : ps[f][k].ref = None
  /\ \A i \in DOMAIN env : env[i] \in Values /\ env[i].ref = None
  /\ \A i \in DOMAIN loading : loading[i].file \in Files

\* The file and those it can take properties from, nearest first.
Chain(f) ==
  LET up(g) == IF g = App THEN instance ELSE input.super[g]
      C[s \in Seq(Files \cup {App})] ==
        IF up(s[Len(s)]) \in Files /\ Len(s) <= Cardinality(Files) THEN C[Append(s, up(s[Len(s)]))] ELSE s
  IN C[<<f>>]
Definers(f, k)   == {i \in DOMAIN Chain(f) : k \in DOMAIN Own(Chain(f)[i])}
Nearest(f, k)    == Chain(f)[CHOOSE i \in Definers(f, k) : \A j \in Definers(f, k) : i <= j]
Overridden(f, k) == f = App /\ "-P" \in args /\ k \in DOMAIN input.override

\* What AppVars says when f is resolved: MKN_REPO, for a super, only if it is
\* loaded by a default command.
Fixed(f, k) == \/ k = "HOME"
               \/ k = "MKN_REPO" /\ (f \in {instance, App} \/ (followed # {} /\ "-x" \in args))

\* Where it stands what ${k} means in f, and what stands there: what AppVars says,
\* or the nearest file from f on, or else the yaml.
Source(f, k) ==
  CASE Overridden(f, k) -> [in |-> f, value |-> input.override[k]]
    [] ~ Overridden(f, k) /\ Fixed(f, k) -> [in |-> f, value |-> Lit(k)]
    [] ~ Overridden(f, k) /\ ~ Fixed(f, k) /\ Definers(f, k) # {} ->
         [in |-> Nearest(f, k), value |-> Own(Nearest(f, k))[k]]
    [] OTHER -> [in |-> f, value |-> IF f = App /\ k \in DOMAIN input.scalar THEN input.scalar[k] ELSE Lit("undefined")]

\* What the value v says where it is written in f, each reference read in its turn
\* where it stands.
Meaning(f, v) ==
  LET depth == (Cardinality(Keys) + 2) * (Cardinality(Files) + 2)
      M[n \in 0..depth] ==
        [g \in Files \cup {App} |-> [w \in Values \cup {Lit("undefined")} |->
           IF n = 0 \/ w.ref = None THEN w.text
           ELSE M[n - 1][Source(g, w.ref).in][Source(g, w.ref).value]]]
  IN M[depth][f][v]

\* However settings files override one another, a property means what the
\* nearest file that has it says, its references read in that file and the
\* supers of it and never in a file below; what AppVars says comes first, and the
\* yaml's own name, version and the like last, for the application alone: so in
\* the application as in each settings file.
Scoping ==
  status = "done" =>
    \A f \in {App, instance} : \A k \in DOMAIN ps[f] :
      ps[f][k].text = Meaning(Nearest(f, k), Own(Nearest(f, k))[k])

Reaches(f, g) == \E i \in DOMAIN Chain(f) : i > 1 /\ Chain(f)[i] = g
\* References that lead from one to the next and never out.
Looping(table) == \E s \in [1..Cardinality(Keys) + 1 -> DOMAIN table] :
                    \A i \in 1..Cardinality(Keys) : table[s[i]] = Ref(s[i + 1])
Said == IF "-P" \in args THEN input.override ELSE <<>>

\* Yaml files whose default commands ask for nothing and lead from one to the next.
Leads(y, z) == /\ input.line[y] # <<>> /\ Alone(input.line[y][1].options)
               /\ Found(input.ymls, y.dir, input.line[y][1].options, input.line[y][1].to) = {z}
Endless == \E Y \in SUBSET Yamls : Y # {} /\ \A y \in Y : \E z \in Y : Leads(y, z)

\* A process that runs out of stack has references that go round, in one file, in
\* what -P says or in the yaml, or default commands that do.  A cycle of supers is
\* reported when there is one, or when a default command has -x and a file was
\* loaded before.
EndsForCause ==
  /\ status = "overflow" => \/ \E f \in Files : Looping(Own(f))
                            \/ Looping(Over(Said, input.scalar))
                            \/ Looping(Over(Said, Over(Own(App), input.scalar)))
                            \/ Endless
  /\ status = "cycle" => \/ \E f \in Files : Reaches(f, f)
                         \/ followed # {} /\ "-x" \in args
=============================================================================
