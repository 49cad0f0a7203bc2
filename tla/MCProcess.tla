------------------------------ MODULE MCProcess ------------------------------
(* Three small families of projects: 1 is a root, 2 a library it may depend  *)
(* on, 3 and 4 modules or further roots, in every state of their buildDir(). *)
EXTENDS Process

MCApps  == 1..4
MCTests == {"t", "u"}

Empty == [Gone EXCEPT !.there = TRUE, !.objs = {"dir"}]
Old   == [Empty EXCEPT !.objs = {"dir", "src"}, !.bin = {"lib"}]
Stale == [Old EXCEPT !.tests = {"u"}]
StampOf(d) == IF d.bin = {} THEN "none" ELSE IF d = Stale THEN "old" ELSE "new"

Lists(d1, d3, m1, m2, m3, m4) ==
  [deps |-> <<d1, <<>>, d3, <<>>>>, mods |-> <<m1, m2, m3, m4>>]
Input(g, d, r, c, t) ==
  [deps |-> g.deps, mods |-> g.mods, roots |-> r, sourced |-> MCApps, mains |-> {1}, ignored |-> {},
   tests |-> <<t, {}, {}, {}>>, project |-> <<1, 2, 3, 4>>, cmds |-> c, beta |-> FALSE, quiet |-> FALSE,
   disk |-> d, stamp |-> [a \in MCApps |-> StampOf(d[a])]]
Disks(d1, d2, d3, d4) == {<<a, b, c, d>> : a \in d1, b \in d2, c \in d3, d \in d4}

\* Who needs whom, in which state everybody is.
ByGraph == {Input(Lists(d1, d3, m1, m2, m3, <<>>), d, <<1>>, c, {}) :
              d1 \in {<<>>, <<2>>}, d3 \in {<<>>, <<2>>}, m1 \in {<<3>>, <<3, 4>>},
              m2 \in {<<>>, <<4>>}, m3 \in {<<>>, <<4>>},
              d \in Disks({Gone}, {Gone, Old}, {Gone, Old, Stale}, {Gone, Empty, Old, Stale}),
              c \in {{"build"}, {"clean", "build", "run"}}}

\* What may be asked for.
Commands == {{"clean"}, {"compile"}, {"clean", "link"}, {"compile", "link", "run"}, {"test", "run"}, {"pack"},
             {"clean", "build", "test", "pack", "run"}}
Basic == Lists(<<2>>, <<2>>, <<3>>, <<>>, <<>>, <<>>)
ByCommand == {[Input(Basic, d, <<1>>, c, t) EXCEPT !.beta = b, !.mains = m, !.ignored = i, !.sourced = s] :
                d \in Disks({Gone, Stale}, {Gone, Old}, {Empty, Stale}, {Gone}),
                c \in Commands, t \in {{}, {"t", "u"}}, b \in BOOLEAN, m \in {{}, {1}}, i \in {{}, {2}},
                s \in {MCApps, 2..4}}

\* Roots that share modules, or a profile that shares its project.
ByRoots == {[Input(g, d, r, c, {}) EXCEPT !.beta = b, !.quiet = q, !.project = p, !.mains = m] :
              g \in {Lists(<<2>>, <<>>, <<4>>, <<4>>, <<4>>, <<>>), Lists(<<2>>, <<2>>, <<3>>, <<4>>, <<>>, <<>>)},
              d \in Disks({Gone}, {Gone}, {Gone, Old}, {Gone, Old, Stale}),
              r \in {<<1, 2>>, <<2, 1>>, <<1, 3>>, <<3, 1>>}, c \in {{"build"}, {"clean", "build"}, {"link", "run"}, {"build", "run"}},
              b \in BOOLEAN, q \in BOOLEAN, p \in {<<1, 2, 3, 4>>, <<1, 2, 3, 1>>}, m \in {{1}, {1, 4}, {2, 3}}}

MCInputs == {ByGraph, ByCommand, ByRoots}
=============================================================================
