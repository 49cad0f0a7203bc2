------------------------------ MODULE MCStartup ------------------------------
(* Every way two or three settings files can be each other's super, every    *)
(* way properties in a chain can refer to one another, to what the yaml and  *)
(* to what -P says, default commands that lead from one directory to         *)
(* another, and command lines of each kind.                                  *)
EXTENDS Startup, TLC

MCFiles == {User, "x", "base"}
MCDirs  == {"here", "sub"}
MCKeys  == {"p", "q", "MKN_REPO", "name"}

Empty == <<>>
NoEnv   == (User :> Empty) @@ ("x" :> Empty) @@ ("base" :> Empty)
NoProps == NoEnv @@ (App :> Empty)
Yaml(d, n) == [dir |-> d, name |-> n]
ToDir(d)   == [dir |-> d, name |-> None]
Mkn        == Yaml("here", "mkn.yaml")
NoLines    == [y \in Yamls |-> <<>>]
Input(s, p, e, a, l) ==
  [super |-> s, property |-> p, scalar |-> Empty, scm |-> {}, uses |-> {}, env |-> e, args |-> a,
   to |-> ToDir("absent"), line |-> [NoLines EXCEPT ![Mkn] = l], start |-> "here", ymls |-> {Mkn}, many |-> FALSE,
   unwritable |-> {}, override |-> ("q" :> Lit("-P"))]
Line(options) == <<[options |-> options, to |-> ToDir("here")]>>

ToBase == (User :> "base") @@ ("x" :> "base") @@ ("base" :> None)
Supers == [MCFiles -> MCFiles \cup {None, "absent"}]

Defs(f, refs) == UNION {[K -> {Lit(f)} \cup {Ref(k) : k \in refs}] : K \in SUBSET {"p", "q"}}

ByChain  == {Input(ToBase, [NoProps EXCEPT !["base"] = b, ![User] = u, ![App] = a], NoEnv, x, <<>>) :
               b \in Defs("base", {"p", "q"}), u \in Defs(User, {"p", "q", "MKN_REPO"}),
               a \in Defs(App, {"p", "q"}), x \in {{"build"}, {"build", "-P"}}}
ByEnv    == {Input(ToBase, [NoProps EXCEPT !["base"] = b, ![User] = u], [NoEnv EXCEPT !["base"] = e, ![User] = d],
                   {}, l) :
               b \in Defs("base", {}), u \in Defs(User, {}), e \in {<<>>, <<Ref("q")>>, <<Ref("MKN_REPO")>>},
               d \in {<<>>, <<Ref("p")>>, <<Lit(User), Ref("q")>>},
               l \in {<<>>, Line({"build"}), Line({"build", "-x"})}}
\* MKN_REPO as a property of a file, which AppVars answers for once it is known.
OfRepo(f) == UNION {[K -> {Lit(f), Ref("MKN_REPO")}] : K \in SUBSET {"p", "MKN_REPO"}}
OfX(u)    == [k \in DOMAIN u |-> IF u[k] = Lit(User) THEN Lit("x") ELSE u[k]]
ByRepo   == {Input(ToBase, [NoProps EXCEPT !["base"] = b, ![User] = u, !["x"] = OfX(u), ![App] = a], NoEnv, {}, l) :
               b \in OfRepo("base"), u \in OfRepo(User), a \in OfRepo(App),
               l \in {<<>>, Line({"build"}), Line({"build", "-x"})}}
BySupers == {Input(s, NoProps, NoEnv, a, Line({"-x", "clean"})) : s \in Supers, a \in {{}, {"-x", "build"}}}

\* What the application finds in its yaml and what -P says, as references too.
Texts  == UNION {[K -> {Lit("yaml"), Ref("p"), Ref("name")}] : K \in SUBSET {"p", "name"}}
ByName == {[Input(ToBase, [NoProps EXCEPT ![User] = u, ![App] = a], NoEnv, {"build", "-P"}, <<>>)
              EXCEPT !.scalar = t, !.scm = s, !.uses = w, !.override = o] :
             u \in {Empty, "p" :> Lit(User)}, a \in Defs(App, {"p", "name"}), t \in Texts,
             s \in {{}, {Ref("name")}}, w \in {{}, {Ref("q")}},
             o \in {Empty, "q" :> Ref("p"), "q" :> Ref("q"), "p" :> Ref("name")}}

\* -C, and default commands with it.
Others1 == {Yaml("sub", "mkn.yml"), Yaml("sub", "other"), Yaml("here", ".mkn.yml")}
Nowhere == {ToDir("absent"), Yaml("here", "other")}
Asks(targets) == {<<>>, Line({}), Line({"build"})} \cup {<<[options |-> {"-C"}, to |-> t]>> : t \in targets}
ByLine == {[Input(ToBase, NoProps, NoEnv, a, l) EXCEPT !.to = t, !.ymls = {Mkn} \cup y,
              !.line = [@ EXCEPT ![Yaml("sub", "mkn.yml")] = m, ![Yaml("sub", "other")] = o]] :
             a \in {{}, {"-C"}, {"-C", "init"}}, t \in {ToDir("here"), ToDir("sub"), Yaml("sub", "other")} \cup Nowhere,
             l \in Asks({ToDir("sub"), Yaml("sub", "other")}), m \in Asks({ToDir("here"), ToDir("absent")}),
             o \in Asks({Mkn}), y \in SUBSET Others1}

Options == {"-V?", "-x?", "-h", "init", "-q", "-p?", "-S", "-K", "-g?", "-d", "-P?", "clean", "-T?", "-f?", "-G",
            "info", "-R", "-t?", "deps", "-n", "-M"}
ByOption == {[Input(ToBase, NoProps, NoEnv, a, l) EXCEPT !.ymls = {Yaml("here", n) : n \in y}, !.many = m,
                                                         !.unwritable = w] :
               a \in {{}} \cup {{o, r} : o, r \in Options}, l \in {<<>>, Line({"test", "-R"})},
               y \in SUBSET {"mkn.yaml", "mkn.yml"}, m \in BOOLEAN, w \in {{}, {"base"}}}

MCInputs == {ByChain, ByEnv, ByRepo, BySupers, ByName, ByLine, ByOption}
=============================================================================
