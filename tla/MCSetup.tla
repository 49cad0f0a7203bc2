------------------------------- MODULE MCSetup -------------------------------
(* Families of yaml files: every way three applications can need each other *)
(* by lists, scalars and self:, two profiles of one dependency, every way   *)
(* three projects can share supers and dependencies, and every inheritance  *)
(* of three profiles.  Loops of all kinds are among them.                   *)
EXTENDS Setup

MCProjects == {"A", "B", "C"}
MCProfiles == 0..3

None == <<>>
Yaml(d, s, w, p, sp, m, r, c) ==
  [dep |-> d, self |-> s, with |-> w, parent |-> p, super |-> sp, mains |-> m,
   roots |-> r, cli |-> c]

\* The entries of a list, one application each.
E(a)       == <<a[1], <<a[2]>>>>
Entries1(S) == {<<>>} \cup {<<E(a)>> : a \in S}
Entries2(S) == Entries1(S) \cup {<<E(a), E(b)>> : a \in S, b \in S}

A0 == <<"A", 0>>
A1 == <<"A", 1>>
A2 == <<"A", 2>>
A3 == <<"A", 3>>
B0 == <<"B", 0>>
B1 == <<"B", 1>>
C0 == <<"C", 0>>
Trio == {A0, A1, B0}

\* Lists of up to two; a self: for the two that have one project.
ByLists ==
  {Yaml((A0 :> d0) @@ (A1 :> d1) @@ (B0 :> d2), (A0 :> s0) @@ (A1 :> s1), None, None, None,
        {A0, A1}, r, <<>>) :
     d0 \in Entries2(Trio \ {A0}), d1 \in Entries2(Trio \ {A1}), d2 \in Entries1({A0, A1}),
     s0 \in {<<>>, <<1>>}, s1 \in {<<>>, <<1>>}, r \in {<<A0>>, <<A1, A0>>}}

\* A list or the scalar form, and -w.
Mixed ==
  {Yaml((A0 :> d0) @@ (A1 :> d1) @@ (B0 :> d2), None, (A0 :> w0) @@ (A1 :> w1) @@ (B0 :> w2),
        None, None, {A0, A1}, <<A0>>, c) :
     d0 \in Entries1(Trio) \cup {<<<<"B", <<0, 1>>>>>>}, d1 \in Entries1({A0, B0}),
     d2 \in Entries1({A0, A1}), w0 \in Entries1({A1, B0}), w1 \in Entries1({A0, B0}),
     w2 \in Entries1({A0, A1}),
     c \in Entries1({A1, B0})}

Supering == UNION {[S -> {"A", "B", "C"}] : S \in SUBSET {"A", "B", "C"}}
BySuper ==
  {Yaml((A0 :> d0) @@ (B0 :> d1) @@ (C0 :> d2), None, None, None, sp, {A0}, <<A0>>, <<>>) :
     d0 \in Entries2({B0, C0}), d1 \in Entries1({A0, C0}), d2 \in Entries1({A0}),
     sp \in Supering}

Parenting == {[a \in S |-> f[a]] : S \in SUBSET {A0, A1, A2, A3}, f \in [{A0, A1, A2, A3} -> 1..3]}
ByParent ==
  {Yaml((A1 :> <<E(B0)>>) @@ (A3 :> <<E(A2)>>), None, (A2 :> <<E(B0)>>), p, None, {A1},
        <<A0>>, <<>>) :
     p \in Parenting}

\* Two profiles of a dependency, of which one list may ask for both.
Both == <<"B", <<0, 1>>>>
ByProfile ==
  {Yaml((A0 :> d0) @@ (A1 :> d1) @@ (B0 :> d2) @@ (B1 :> d3), A0 :> s, None, None, None, {A0, A1},
        <<A1, A0>>, <<>>) :
     d0 \in Entries2({B0, B1}) \cup {<<Both>>}, d1 \in Entries1({A0, B1}) \cup {<<Both>>},
     d2 \in Entries1({A0, A1, B1}), d3 \in Entries1({A0, A1, B0}),
     s \in {<<>>, <<1>>}}

\* Scalars and self: over three profiles.
Selves3 ==
  {Yaml((A1 :> d1) @@ (A2 :> d2) @@ (B0 :> d3), A0 :> s, (A1 :> w1) @@ (A2 :> w2), None, None,
        {A0}, <<A0>>, <<>>) :
     d1 \in Entries1({A0, A2}), d2 \in Entries1({A0, A1}), d3 \in Entries1({A0, A1, A2}),
     s \in {<<1>>, <<1, 2>>, <<2, 1>>}, w1 \in Entries2({A2, B0}), w2 \in Entries1({A1})}

\* Roots that a super or its dependencies list.
RootsBelow ==
  {Yaml((A0 :> d0) @@ (A1 :> d1) @@ (B0 :> d2) @@ (C0 :> d3), None, C0 :> w, None, sp, {A0, A1},
        r, <<>>) :
     d0 \in Entries1({A1, B0}), d1 \in Entries1({A0, B0}), d2 \in Entries1({A0, A1}),
     d3 \in Entries1({A0, A1}), w \in Entries1({A0, A1}),
     sp \in {"A" :> "C", "B" :> "C", ("A" :> "B") @@ ("B" :> "C")},
     r \in {<<A0, A1>>, <<A1, A0>>}}

MCYamls == ByLists \cup Mixed \cup ByProfile \cup Selves3 \cup BySuper \cup RootsBelow \cup ByParent
=============================================================================
