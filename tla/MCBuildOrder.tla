---------------------------- MODULE MCBuildOrder ----------------------------
(* Four applications, every dependency graph over them and every order of   *)
(* the lists; the first two may be profiles of the root project.            *)
EXTENDS BuildOrder

MCApps     == 1..4
Ordered(S) == UNION {SetToSeqs(T) : T \in SUBSET S}
MCProjects == {<<d1, d2, d3, <<>>>> : d1 \in Ordered({2, 3, 4}), d2 \in Ordered({3, 4}),
                                      d3 \in Ordered({4})}

Arg(l, n, p) == [level |-> l, names |-> n, plus |-> p]
MCDepArgs == {Arg(0, {}, FALSE),      \* no -d
              Arg(32767, {}, FALSE),  \* -d
              Arg(1, {}, FALSE), Arg(2, {}, FALSE),
              Arg(32768, {}, FALSE),  \* one more than -d, negative in 16 bits
              Arg(0, {}, TRUE),       \* -d +
              Arg(0, {3}, FALSE), Arg(0, {4}, TRUE)}
Levels    == {Arg(1, {}, FALSE), Arg(2, {}, FALSE)}
NoLevel   == {Arg(0, {}, FALSE)}

One == {<<1>>}
Two == {<<1, 2>>}
Upto2 == {<<1>>, <<1, 2>>, <<2, 1>>}
=============================================================================
