------------------------------- MODULE MCDist -------------------------------
(* One client with one or two nodes, a node listed twice, dependencies and  *)
(* profiles; and two clients that meet at one node.                        *)
EXTENDS Dist, TLC

App(d, n) == [dir |-> d, n |-> n, lib |-> FALSE, tests |-> 0]
Library(d, n, t) == [dir |-> d, n |-> n, lib |-> TRUE, tests |-> t]
Run(hs, k, is, d, at, w, o) ==
  [hosts |-> hs, nodes |-> k, ids |-> is, home |-> d, at |-> at, work |-> w, olds |-> o]

One  == <<App("A", 4)>>
Two  == <<App("A", 3), App("A", 2)>>
Lib  == <<Library("L", 2, 0), App("A", 1)>>
Dep  == <<Library("L", 1, 0), App("A", 2)>>
Tested == <<Library("A", 2, 1)>>
Twice == <<"n", "n">>
Both  == <<"n", "m">>

Solo == {("c" :> Run(hs, k, <<"x", "y">>, "A", TRUE, w, FALSE)) :
           hs \in {Both, Twice}, k \in 1..2, w \in {One, Two}}
        \cup {("c" :> Run(hs, 2, <<"x", "y">>, "A", TRUE, One, TRUE)) : hs \in {Both, Twice}}
        \cup {("c" :> Run(Both, 1, <<"x", "x">>, "A", at, Lib, FALSE)) : at \in BOOLEAN}
        \cup {("c" :> Run(Both, 1, <<"x", "x">>, "A", TRUE, Dep, TRUE))}
        \cup {("c" :> Run(Twice, 1, <<"x", "y">>, "A", TRUE, Tested, FALSE))}

\* Same project and session identity; nothing in common but the node; same
\* project, which the second takes from the directory the node is in.
Second == {Run(<<"n">>, 1, <<"x">>, "A", TRUE, <<App("A", 2)>>, FALSE),
           Run(<<"n">>, 1, <<"y">>, "B", TRUE, <<App("B", 1)>>, FALSE),
           Run(<<"n">>, 1, <<"y">>, "A", FALSE, <<App("A", 2)>>, FALSE)}
Pair == {("c" :> Run(<<"n">>, 1, <<"x">>, "A", TRUE, <<App("A", 2)>>, FALSE)) @@ ("d" :> r) :
           r \in Second}

MCInputs == Solo \cup Pair
=============================================================================
