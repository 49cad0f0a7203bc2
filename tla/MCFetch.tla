------------------------------- MODULE MCFetch -------------------------------
(* A project R whose yaml files list X and Y in ways that differ in what the *)
(* entries say, where the second list comes from, what is remembered, and    *)
(* whether X is a module or a super as well.                                 *)
EXTENDS Fetch

MCNames == {"R", "X", "Y"}

E(n)     == [name |-> n, version |-> None, local |-> FALSE, profile |-> 0]
EP(n)    == [E(n) EXCEPT !.profile = 1]
EV(n)    == [E(n) EXCEPT !.version = Release]
EM(n)    == [E(n) EXCEPT !.version = Default]
EL(n)    == [E(n) EXCEPT !.local = TRUE]

L(s, w, d) == [sub |-> s, mod |-> <<>>, with |-> w, dep |-> d]
M(m, d)    == [sub |-> <<>>, mod |-> m, with |-> <<>>, dep |-> d]
R0 == <<Outside("R"), 0>>
YLists(l)  == [a \in {<<Repo(t, "Y", v), 0>> : t \in Places, v \in Versions} |-> l]
World(r, y, p, t, u, l) ==
  [lists |-> (R0 :> r) @@ YLists(y), supers |-> <<>>, pins |-> p, there |-> {Outside("R")} \cup t,
   update |-> u, level |-> l, order |-> <<1, 2, 3>>, remotes |-> 2,
   host |-> [n \in MCNames |-> IF n = "X" THEN 2 ELSE 1], github |-> {2}, released |-> {"Y"}]

Nothing == L(<<>>, <<>>, <<>>)
Old == <<Outside("R"), "dep", "X">> :> Fallback

Lists == {<<L(<<>>, <<>>, <<E("Y"), E("X")>>), L(<<>>, <<>>, <<E("X")>>)>>,
          <<L(<<>>, <<E("X")>>, <<E("Y")>>), L(<<>>, <<>>, <<E("X")>>)>>,
          <<L(<<>>, <<E("X")>>, <<E("Y")>>), L(<<>>, <<>>, <<EL("X")>>)>>,
          <<L(<<>>, <<E("X")>>, <<EV("X"), E("Y")>>), L(<<>>, <<>>, <<E("X")>>)>>,
          <<L(<<>>, <<E("X")>>, <<EV("X"), EM("X")>>), Nothing>>,
          <<L(<<E("X")>>, <<>>, <<E("Y"), EP("Y")>>), Nothing>>}

\* X or Y as modules: of R and of Y, of R and as a dependency of R or Y or both.
Modules == {<<M(<<E("X")>>, <<E("Y")>>), M(<<E("X")>>, <<>>)>>,
            <<M(<<E("Y")>>, <<E("X")>>), M(<<>>, <<E("X")>>)>>,
            <<M(<<E("X"), EP("X")>>, <<E("X"), E("Y")>>), M(<<>>, <<E("X")>>)>>}

\* Y lists the project the developer is in.
Own == World(M(<<>>, <<E("Y")>>), M(<<E("R")>>, <<E("R")>>), <<>>, {}, FALSE, 0)

\* X as the super of R or of Y, which lists it or does not; a loop; none there.
Supers(x) == {[World(L(<<>>, <<>>, <<E("Y")>>), L(<<>>, <<>>, d), <<>>, x, FALSE, 0)
                EXCEPT !.supers = s] :
                d \in {<<>>, <<E("X")>>},
                s \in {[d2 \in {Outside("R")} |-> Outside("X")],
                       [d2 \in {Repo("dep", "Y", v) : v \in Versions} |-> Outside("X")],
                       (Outside("R") :> Outside("X")) @@ (Outside("X") :> Outside("R"))}}

MCWorlds ==
  {World(l[1], l[2], p, {}, FALSE, 0) : l \in Lists, p \in {<<>>, Old}}
  \cup {World(l[1], l[2], <<>>, {}, FALSE, 0) : l \in Modules} \cup {Own}
  \cup Supers({Outside("X")}) \cup Supers({})
  \cup {[World(l[1], l[2], <<>>, {}, FALSE, 0) EXCEPT !.order = <<2, 3, 1>>, !.github = {1, 2}] :
          l \in {l \in Lists : l[1].with = <<>>}}
  \cup {World(L(<<>>, w, <<E("Y")>>), L(<<>>, <<>>, <<x>>),
              <<>>, {Repo("dep", "X", Default), Repo("dep", "Y", Default)}, TRUE, v) :
          w \in {<<>>, <<EP("X")>>}, x \in {E("X"), EP("X")}, v \in {0, 99}}
  \cup {[World(M(<<E("Y")>>, <<>>), M(<<E("X")>>, <<>>), <<>>,
               {Outside("X"), Repo("mod", "X", Default), Repo("mod", "Y", Default)}, TRUE, 99) EXCEPT
           !.supers = [d \in {Repo("mod", "Y", Default)} |-> Outside("R")]]}
=============================================================================
