---------------------------- MODULE Fetch_proofs ----------------------------
(***************************************************************************)
(* Proofs about Fetch.  FetchInv says what every reachable state is like:  *)
(* what is loaded is on disk, an entry that getIfMissing has dealt with    *)
(* will be found where it is looked for again (PassedFound), entries that  *)
(* only give a name load one version (LoadedOnce), and from one of the two *)
(* repositories when they agree (LoadedWhere).  From it follow TypeOK,     *)
(* OneVersion and DirectoryThere; with ReadFresh and ParOrdered also       *)
(* FreshYaml, when dependencies are not cyclic.                            *)
(***************************************************************************)
EXTENDS Fetch, Induction, SequenceTheorems

Early    == {"update", "super", "sub"}
ModLater == {"mod", "setupMod"}
DepLater == {"dep", "setupDep", "with", "setupWith"}
Phases == Early \cup {"missingMod", "missing"} \cup ModLater \cup DepLater
Listed == {"sub", "missingMod", "mod", "missing", "dep", "with"}
Frames == [app : Apps, at : Phases, i : Nat \ {0}, vec : Seq(Apps)]
Asked  == [at : {"idle", "api", "git", "got", "co"}, remote : Nat, get : Nat, tries : Nat,
           v : Versions \cup {None}]

\* What a project lists.
ListsOf(a)   == IF a \in DOMAIN world.lists THEN world.lists[a]
                ELSE [sub |-> <<>>, mod |-> <<>>, with |-> <<>>, dep |-> <<>>]
MissingOf(a) == ListsOf(a).with \o ListsOf(a).dep

\* Modules have their part of setup(), and what is looked for twice there.
KindAt(at)  == IF at \in {"missingMod", "mod", "setupMod"} THEN "mod" ELSE "dep"
Group(a, t) == IF t = "mod" THEN ListsOf(a).mod ELSE MissingOf(a)

-----------------------------------------------------------------------------
(* The inductive invariant.                                                *)

\* TypeOK and the types it leaves open.
Typed ==
  /\ TypeOK
  /\ stack \in Seq(Frames) /\ ask \in Asked
  /\ IsFiniteSet(DOMAIN read)
  /\ status = "run" => stack # <<>> /\ <<Outside(Root), 0>> \in apps

\* What is loaded is on disk with its project file.
LoadedWhole == tree[Outside(Root)] = "whole" /\ \A b \in apps : tree[b[1]] = "whole"

\* The entries of frame f that getIfMissing has dealt with.
Passed(f) ==
  LET g == Group(f.app, KindAt(f.at))
  IN CASE f.at \in Early -> {}
       [] f.at \in {"missingMod", "missing"} -> {g[j] : j \in {k \in DOMAIN g : k < f.i}}
       [] OTHER -> ToSet(g)

\* What the second look for entry e of the project in h will name is there.
Found(h, e, t) ==
  IF e.local THEN tree[Outside(e.name)] # "none"
  ELSE IF e.version # None THEN tree[Repo(t, e.name, e.version)] # "none"
  ELSE \/ Loaded(e.name) # {}
       \/ /\ <<h, t, e.name>> \in DOMAIN pinned
          /\ tree[Repo(t, e.name, pinned[<<h, t, e.name>>])] # "none"

\* A query is about an entry that setup() is at, and a clone goes to a
\* directory that has nothing else.
InAsk == status = "run" =>
  /\ ask.at # "idle" => top.at \in Listed /\ top.i <= Len(list)
  /\ ask.at \in {"idle", "api", "git"} => ask.v = None
  /\ ask.at = "got" => ask.v \in Versions
  /\ ask.at = "co" => /\ top.at \in {"sub", "missingMod", "missing"}
                      /\ Target \in Dirs /\ tree[Target] = "partial"
                      /\ top.at # "sub" => Found(home, entry, kind)

PassedFound == status = "run" =>
  \A j \in DOMAIN stack : \A e \in Passed(stack[j]) :
    Found(stack[j].app[1], e, KindAt(stack[j].at))

\* Projects whose entries are all plain are loaded in one version.
LoadedOnce == \A n \in Names : ~ Placed(n) =>
  \E v \in Versions : \A d \in Loaded(n) : d[3] = v

\* And from one repository, when they are used in one way.
LoadedWhere == \A n \in Names : \A t \in Places : Uses(n) = {t} =>
  \A d \in Loaded(n) : d[1] = t

\* What is loaded is all right.
LoadedOK == LoadedWhole /\ LoadedOnce /\ LoadedWhere

FetchInv == Typed /\ InAsk /\ PassedFound /\ LoadedOK

-----------------------------------------------------------------------------
(* The stack.                                                              *)

\* Replacing the running call.
LEMMA Replaced ==
  ASSUME NEW S, NEW s \in Seq(S), s # <<>>, NEW f \in S
  PROVE  LET t == <<f>> \o Tail(s) IN
         /\ t \in Seq(S) /\ t # <<>> /\ Head(t) = f
         /\ \A j \in DOMAIN t : t[j] = f \/ \E k \in DOMAIN s : t[j] = s[k]
<1> DEFINE t == <<f>> \o Tail(s)
<1>1. Tail(s) \in Seq(S) /\ Len(Tail(s)) = Len(s) - 1
      /\ \A j \in 1..Len(Tail(s)) : Tail(s)[j] = s[j + 1]
  BY HeadTailProperties
<1>2. <<f>> \in Seq(S) /\ Len(<<f>>) = 1 /\ <<f>>[1] = f
  OBVIOUS
<1>3. /\ t \in Seq(S) /\ Len(t) = Len(s)
      /\ \A j \in 1..Len(t) : t[j] = IF j <= 1 THEN <<f>>[j] ELSE Tail(s)[j - 1]
  BY <1>1, <1>2, ConcatProperties
<1>4. Len(s) \in Nat /\ Len(s) # 0
  BY EmptySeq
<1>5. t[1] = f /\ t # <<>> /\ DOMAIN t = 1..Len(s) /\ DOMAIN s = 1..Len(s)
  BY <1>2, <1>3, <1>4
<1>6. \A j \in 1..Len(s) : j > 1 => t[j] = s[j]
  <2> SUFFICES ASSUME NEW j \in 1..Len(s), j > 1
               PROVE  t[j] = s[j]
    OBVIOUS
  <2>1. j - 1 \in 1..Len(Tail(s)) /\ (j - 1) + 1 = j /\ ~(j <= 1)
    BY <1>1
  <2> QED
    BY <1>1, <1>3, <2>1
<1>7. Head(t) = t[1]
  BY DEF Head
<1> QED
  BY <1>3, <1>5, <1>6, <1>7

\* Calling, from the running call.
LEMMA Called ==
  ASSUME NEW S, NEW s \in Seq(S), s # <<>>, NEW f \in S, NEW g \in S
  PROVE  LET t == <<f, g>> \o Tail(s) IN
         /\ t \in Seq(S) /\ t # <<>> /\ Head(t) = f
         /\ \A j \in DOMAIN t : t[j] = f \/ t[j] = g \/ \E k \in DOMAIN s : t[j] = s[k]
<1> DEFINE t == <<f, g>> \o Tail(s)
<1>1. Tail(s) \in Seq(S) /\ Len(Tail(s)) = Len(s) - 1
      /\ \A j \in 1..Len(Tail(s)) : Tail(s)[j] = s[j + 1]
  BY HeadTailProperties
<1>2. <<f, g>> \in Seq(S) /\ Len(<<f, g>>) = 2 /\ <<f, g>>[1] = f /\ <<f, g>>[2] = g
  OBVIOUS
<1>3. /\ t \in Seq(S) /\ Len(t) = Len(s) + 1
      /\ \A j \in 1..Len(t) : t[j] = IF j <= 2 THEN <<f, g>>[j] ELSE Tail(s)[j - 2]
  BY <1>1, <1>2, ConcatProperties
<1>4. Len(s) \in Nat /\ Len(s) # 0
  BY EmptySeq
<1>5. t[1] = f /\ t[2] = g /\ t # <<>> /\ DOMAIN t = 1..Len(s) + 1 /\ DOMAIN s = 1..Len(s)
  BY <1>2, <1>3, <1>4
<1>6. \A j \in 1..Len(s) + 1 : j > 2 => t[j] = s[j - 1] /\ j - 1 \in DOMAIN s
  <2> SUFFICES ASSUME NEW j \in 1..Len(s) + 1, j > 2
               PROVE  t[j] = s[j - 1] /\ j - 1 \in DOMAIN s
    OBVIOUS
  <2>1. j - 2 \in 1..Len(Tail(s)) /\ (j - 2) + 1 = j - 1 /\ ~(j <= 2)
    BY <1>1
  <2> QED
    BY <1>1, <1>3, <1>5, <2>1
<1>7. Head(t) = t[1]
  BY DEF Head
<1> QED
  BY <1>3, <1>5, <1>6, <1>7

\* Calling, from an unfinished step of the running call.
LEMMA Pushed ==
  ASSUME NEW S, NEW s \in Seq(S), NEW g \in S
  PROVE  LET t == <<g>> \o s IN
         /\ t \in Seq(S) /\ t # <<>>
         /\ \A j \in DOMAIN t : t[j] = g \/ \E k \in DOMAIN s : t[j] = s[k]
<1> DEFINE t == <<g>> \o s
<1>1. <<g>> \in Seq(S) /\ Len(<<g>>) = 1 /\ <<g>>[1] = g
  OBVIOUS
<1>2. /\ t \in Seq(S) /\ Len(t) = 1 + Len(s)
      /\ \A j \in 1..1 + Len(s) : t[j] = IF j <= 1 THEN <<g>>[j] ELSE s[j - 1]
  BY <1>1, ConcatProperties
<1>3. Len(s) \in Nat /\ DOMAIN s = 1..Len(s) /\ DOMAIN t = 1..1 + Len(s) /\ t # <<>>
  BY <1>2
<1>4. ASSUME NEW j \in 1..1 + Len(s)
      PROVE  t[j] = g \/ \E k \in DOMAIN s : t[j] = s[k]
  <2>1. CASE j <= 1
    BY <1>1, <1>2, <1>3, <2>1
  <2>2. CASE ~(j <= 1)
    <3>1. j - 1 \in DOMAIN s /\ t[j] = s[j - 1]
      BY <1>2, <1>3, <2>2
    <3> QED
      BY <3>1
  <2> QED
    BY <2>1, <2>2
<1> QED
  BY <1>2, <1>3, <1>4

\* Returning.
LEMMA Returned ==
  ASSUME NEW S, NEW s \in Seq(S), s # <<>>
  PROVE  /\ Tail(s) \in Seq(S)
         /\ \A j \in DOMAIN Tail(s) : \E k \in DOMAIN s : Tail(s)[j] = s[k]
<1>1. Tail(s) \in Seq(S) /\ Len(Tail(s)) = Len(s) - 1
      /\ \A j \in 1..Len(Tail(s)) : Tail(s)[j] = s[j + 1]
  BY HeadTailProperties
<1>2. Len(s) \in Nat /\ DOMAIN s = 1..Len(s) /\ DOMAIN Tail(s) = 1..Len(Tail(s))
  BY <1>1
<1> QED
  BY <1>1, <1>2

-----------------------------------------------------------------------------
(* Where the running call is.                                              *)

\* The worlds a session may be in.
LEMMA WorldOK ==
  ASSUME world \in Worlds
  PROVE  /\ world.remotes \in Nat /\ world.there \subseteq Dirs /\ Outside(Root) \in world.there
         /\ \A a : LET l == ListsOf(a) IN {l.sub, l.mod, l.with, l.dep} \subseteq Seq(EntryType)
         /\ \A x \in DOMAIN world.pins : x[1] \in Dirs /\ world.pins[x] \in Versions
         /\ \A d \in DOMAIN world.supers : \E n \in Names : world.supers[d] = Outside(n)
<1>1. ASSUME NEW a
      PROVE  LET l == ListsOf(a) IN {l.sub, l.mod, l.with, l.dep} \subseteq Seq(EntryType)
  <2>1. CASE a \in DOMAIN world.lists
    BY <2>1, FetchAssumption DEF ListsOf
  <2>2. CASE a \notin DOMAIN world.lists
    BY <2>2 DEF ListsOf
  <2> QED
    BY <2>1, <2>2
<1> QED
  BY <1>1, FetchAssumption

\* The running call and what it lists.
LEMMA Here ==
  ASSUME Typed, stack # <<>>
  PROVE  /\ top \in Frames /\ top = stack[1] /\ 1 \in DOMAIN stack
         /\ me \in apps /\ me \in Apps /\ home \in Dirs /\ home = me[1]
         /\ ToSet(top.vec) \subseteq apps
         /\ lists = ListsOf(me)
         /\ missing = MissingOf(me) /\ missing \in Seq(EntryType)
         /\ lists.sub \in Seq(EntryType) /\ lists.mod \in Seq(EntryType)
         /\ lists.with \in Seq(EntryType) /\ lists.dep \in Seq(EntryType)
         /\ list \in Seq(EntryType)
<1>1. top = stack[1] /\ 1 \in DOMAIN stack
  BY DEF Typed, top
<1>2. top \in Frames
  BY <1>1 DEF Typed
<1>3. me \in apps /\ ToSet(top.vec) \subseteq apps
  BY <1>1 DEF Typed, TypeOK, me
<1>4. me \in Apps /\ home \in Dirs /\ home = me[1]
  BY <1>3 DEF Typed, TypeOK, home, Apps
<1>5. lists = ListsOf(me)
  BY DEF lists, ListsOf
<1>6. missing = MissingOf(me)
  BY <1>5 DEF missing, MissingOf
<1>7. /\ lists.sub \in Seq(EntryType) /\ lists.mod \in Seq(EntryType)
      /\ lists.with \in Seq(EntryType) /\ lists.dep \in Seq(EntryType)
  BY <1>5, WorldOK DEF Typed, TypeOK
<1>8. missing \in Seq(EntryType)
  BY <1>7, ConcatProperties DEF missing
<1>9. list \in Seq(EntryType)
  <2>1. CASE top.at \in Listed
    BY <1>7, <1>8, <2>1 DEF list, Listed
  <2>2. CASE top.at \notin Listed
    <3>1. list = <<>>
      BY <2>2 DEF list, Listed
    <3> QED
      BY <3>1
  <2> QED
    BY <2>1, <2>2
<1> QED
  BY <1>1, <1>2, <1>3, <1>4, <1>5, <1>6, <1>7, <1>8, <1>9

\* What two lists, one after the other, have.
LEMMA Concatenated ==
  ASSUME NEW S, NEW s \in Seq(S), NEW t \in Seq(S)
  PROVE  /\ s \o t \in Seq(S)
         /\ ToSet(s \o t) = ToSet(s) \cup ToSet(t)
<1>1. /\ s \o t \in Seq(S) /\ Len(s \o t) = Len(s) + Len(t)
      /\ \A j \in 1..Len(s) + Len(t) : (s \o t)[j] = IF j <= Len(s) THEN s[j] ELSE t[j - Len(s)]
  BY ConcatProperties
<1>2. /\ Len(s) \in Nat /\ DOMAIN s = 1..Len(s) /\ Len(t) \in Nat /\ DOMAIN t = 1..Len(t)
      /\ DOMAIN (s \o t) = 1..Len(s) + Len(t)
  BY <1>1
<1>3. ASSUME NEW x \in ToSet(s)
      PROVE  x \in ToSet(s \o t)
  <2>1. PICK j \in DOMAIN s : s[j] = x
    BY DEF ToSet
  <2>2. j \in 1..Len(s) + Len(t) /\ (s \o t)[j] = x
    BY <1>1, <1>2, <2>1
  <2> QED
    BY <1>2, <2>2 DEF ToSet
<1>4. ASSUME NEW x \in ToSet(t)
      PROVE  x \in ToSet(s \o t)
  <2>1. PICK j \in DOMAIN t : t[j] = x
    BY DEF ToSet
  <2>2. j + Len(s) \in 1..Len(s) + Len(t) /\ ~(j + Len(s) <= Len(s)) /\ (j + Len(s)) - Len(s) = j
    BY <1>2
  <2>3. (s \o t)[j + Len(s)] = x
    BY <1>1, <2>1, <2>2
  <2> QED
    BY <1>2, <2>2, <2>3 DEF ToSet
<1>5. ASSUME NEW x \in ToSet(s \o t)
      PROVE  x \in ToSet(s) \cup ToSet(t)
  <2>1. PICK j \in 1..Len(s) + Len(t) : (s \o t)[j] = x
    BY <1>2 DEF ToSet
  <2>2. CASE j <= Len(s)
    BY <1>1, <1>2, <2>1, <2>2 DEF ToSet
  <2>3. CASE ~(j <= Len(s))
    <3>1. j - Len(s) \in DOMAIN t /\ t[j - Len(s)] = x
      BY <1>1, <1>2, <2>1, <2>3
    <3> QED
      BY <3>1 DEF ToSet
  <2> QED
    BY <2>2, <2>3
<1> QED
  BY <1>1, <1>3, <1>4, <1>5

\* The entry that setup() is at.
LEMMA Entry ==
  ASSUME Typed, Listing
  PROVE  /\ top.at \in Listed /\ top.i \in DOMAIN list
         /\ entry \in EntryType
         /\ top.at = "sub" => kind = "sub"
         /\ top.at # "sub" => /\ kind = KindAt(top.at) /\ kind \in Places
                             /\ entry \in ToSet(Group(me, kind)) /\ entry \in Entries(kind)
         /\ top.at \in {"missingMod", "missing"} => list = Group(me, kind)
         /\ top.at = "dep" => entry \in ToSet(ListsOf(me).dep)
<1>1. stack # <<>> /\ top.i <= Len(list)
  BY DEF Listing
<1>2. top \in Frames /\ me \in Apps /\ lists = ListsOf(me)
      /\ missing = MissingOf(me) /\ missing \in Seq(EntryType)
      /\ lists.sub \in Seq(EntryType) /\ lists.mod \in Seq(EntryType)
      /\ lists.with \in Seq(EntryType) /\ lists.dep \in Seq(EntryType)
      /\ list \in Seq(EntryType)
  BY <1>1, Here
<1>3. top.i \in Nat /\ top.i # 0 /\ top.at \in Phases
  BY <1>2 DEF Frames
<1>4. top.i \in DOMAIN list /\ entry \in EntryType /\ entry \in ToSet(list)
  <2>1. Len(list) \in Nat /\ DOMAIN list = 1..Len(list)
    BY <1>2
  <2>2. top.i \in DOMAIN list
    BY <1>1, <1>3, <2>1
  <2> QED
    BY <1>2, <2>2 DEF entry, ToSet
<1>5. top.at \in Listed
  <2> SUFFICES ASSUME top.at \notin Listed
               PROVE  FALSE
    OBVIOUS
  <2>1. list = <<>>
    BY DEF list, Listed
  <2> QED
    BY <1>4, <2>1 DEF ToSet
<1>6. CASE top.at = "sub"
  BY <1>4, <1>5, <1>6 DEF kind
<1>7. CASE top.at # "sub"
  <2>1. ToSet(missing) = ToSet(lists.with) \cup ToSet(lists.dep)
    <3>1. lists.with \in Seq(EntryType) /\ lists.dep \in Seq(EntryType)
      BY <1>2
    <3> QED
      BY <3>1, Concatenated DEF missing
  <2>2. kind = KindAt(top.at) /\ kind \in Places
    BY <1>5, <1>7 DEF kind, KindAt, Places, Listed
  <2>3. entry \in ToSet(Group(me, kind))
    <3>1. CASE top.at \in {"missingMod", "mod"}
      BY <1>2, <1>4, <3>1 DEF list, kind, Group
    <3>2. CASE top.at \in {"missing", "dep", "with"}
      <4>1. list \in {missing, lists.dep, lists.with} /\ kind = "dep"
        BY <3>2 DEF list, kind
      <4>2. entry \in ToSet(missing)
        BY <1>4, <2>1, <4>1
      <4> QED
        BY <1>2, <4>1, <4>2 DEF Group
    <3> QED
      BY <1>5, <1>7, <3>1, <3>2 DEF Listed
  <2>4. top.at \in {"missingMod", "missing"} => list = Group(me, kind)
    BY <1>2 DEF list, kind, Group
  <2>5. top.at = "dep" => entry \in ToSet(ListsOf(me).dep)
    BY <1>2, <1>4 DEF list
  <2>6. me \in DOMAIN world.lists
    <3> SUFFICES ASSUME me \notin DOMAIN world.lists
                 PROVE  FALSE
      OBVIOUS
    <3>1. lists.with = <<>> /\ lists.dep = <<>> /\ lists.mod = <<>>
      BY <1>2 DEF ListsOf
    <3>2. ToSet(lists.with) = {} /\ ToSet(lists.dep) = {} /\ ToSet(lists.mod) = {}
      BY <3>1 DEF ToSet
    <3> QED
      BY <1>2, <2>1, <2>3, <3>2 DEF Group
  <2>7. world.lists[me] = lists
    BY <2>6 DEF lists
  <2>8. ToSet(world.lists[me].dep \o world.lists[me].with) = ToSet(missing)
    BY <1>2, <2>1, <2>7, Concatenated
  <2>9. entry \in Entries(kind)
    BY <1>2, <2>2, <2>3, <2>6, <2>7, <2>8 DEF Entries, Group, Places
  <2> QED
    BY <1>4, <1>5, <1>7, <2>2, <2>3, <2>4, <2>5, <2>9
<1> QED
  BY <1>6, <1>7

\* The projects that are loaded.
LEMMA LoadedFacts ==
  ASSUME Typed, NEW n
  PROVE  /\ IsFiniteSet(Loaded(n))
         /\ \A d \in Loaded(n) : d \in Dirs /\ d[2] = n /\ d[3] \in Versions
         /\ \A d \in Loaded(n) : \E a \in apps : a[1] = d
         /\ Cardinality(Loaded(n)) = 0 <=> Loaded(n) = {}
         /\ Cardinality(Loaded(n)) \in Nat
<1>1. apps \subseteq Apps /\ DOMAIN read = {a[1] : a \in apps} /\ IsFiniteSet(DOMAIN read)
  BY DEF Typed, TypeOK
<1>2. \A d \in Loaded(n) : \E a \in apps : a[1] = d /\ a[1][2] = n
  BY DEF Loaded
<1>3. Loaded(n) \in SUBSET DOMAIN read
  BY <1>1, <1>2
<1>4. IsFiniteSet(Loaded(n))
  BY <1>1, <1>3, FS_Subset
<1>5. \A a \in Apps : a[1] \in Dirs
  BY DEF Apps
<1>6. \A d \in Dirs : d[3] \in Versions
  BY DEF Dirs, Repo, Outside, Versions
<1>7. \A d \in Loaded(n) : d \in Dirs /\ d[2] = n /\ d[3] \in Versions
  BY <1>1, <1>2, <1>5, <1>6
<1>8. Cardinality(Loaded(n)) = 0 <=> Loaded(n) = {}
  BY <1>4, FS_EmptySet
<1>9. Cardinality(Loaded(n)) \in Nat
  BY <1>4, FS_CardinalityType
<1> QED
  BY <1>2, <1>4, <1>7, <1>8, <1>9

\* Versions are not None or Several.
LEMMA VersionTags == None \notin Versions /\ Several \notin Versions /\ None # Several
  BY DEF None, Several, Versions, Fallback, Default, Release

\* What can be known of an entry.
LEMMA KnownFacts ==
  ASSUME Typed, NEW e \in EntryType, NEW type \in {"dep", "mod", "sub"}
  PROVE  /\ Known(e, type) \in Versions \cup {None, Several}
         /\ e.version # None => Known(e, type) = e.version
         /\ Known(e, type) = Several =>
              type # "sub" /\ e.version = None /\ Cardinality(Loaded(e.name)) > 1
         /\ e.version = None /\ type # "sub" =>
              /\ Cardinality(Loaded(e.name)) > 1 => Known(e, type) = Several
              /\ Cardinality(Loaded(e.name)) = 1 =>
                   \E d \in Loaded(e.name) : Loaded(e.name) = {d} /\ Known(e, type) = d[3]
         /\ e.version = None /\ (type = "sub" \/ Loaded(e.name) = {}) =>
              Known(e, type) = IF Pin(type, e.name) \in DOMAIN pinned THEN pinned[Pin(type, e.name)] ELSE ask.v
<1>1. e.version \in Versions \cup {None} /\ ask.v \in Versions \cup {None}
  BY DEF EntryType, Typed, TypeOK
<1>2. \A x \in DOMAIN pinned : pinned[x] \in Versions
  BY DEF Typed, TypeOK
<1>3. /\ Cardinality(Loaded(e.name)) \in Nat
      /\ Cardinality(Loaded(e.name)) = 0 <=> Loaded(e.name) = {}
      /\ IsFiniteSet(Loaded(e.name))
      /\ \A d \in Loaded(e.name) : d[3] \in Versions
  BY LoadedFacts
<1>4. CASE e.version # None
  BY <1>1, <1>4, VersionTags DEF Known
<1>5. CASE e.version = None /\ type # "sub" /\ Cardinality(Loaded(e.name)) > 1
  <2>2. ~(Cardinality(Loaded(e.name)) = 1) /\ Loaded(e.name) # {}
    BY <1>3, <1>5
  <2>1. Known(e, type) = Several
    BY <1>5, <2>2 DEF Known
  <2> QED
    BY <1>5, <2>1, <2>2, VersionTags
<1>6. CASE e.version = None /\ type # "sub" /\ Cardinality(Loaded(e.name)) = 1
  <2>1. PICK d : Loaded(e.name) = {d}
    BY <1>3, <1>6, FS_Singleton
  <2>2. (CHOOSE x \in Loaded(e.name) : TRUE) = d
    BY <2>1
  <2>3. ~(Cardinality(Loaded(e.name)) > 1)
    BY <1>6
  <2>4. Known(e, type) = d[3]
    BY <1>6, <2>1, <2>2, <2>3 DEF Known
  <2>5. d[3] \in Versions
    BY <1>3, <2>1
  <2> QED
    BY <1>6, <2>1, <2>3, <2>4, <2>5, VersionTags
<1>7. CASE e.version = None /\ (type = "sub" \/ Loaded(e.name) = {})
  <2>1. ~(Cardinality(Loaded(e.name)) > 1 /\ type # "sub") /\ ~(Cardinality(Loaded(e.name)) = 1 /\ type # "sub")
    BY <1>3, <1>7
  <2>2. Known(e, type) = IF Pin(type, e.name) \in DOMAIN pinned THEN pinned[Pin(type, e.name)] ELSE ask.v
    <3>1. CASE Pin(type, e.name) \in DOMAIN pinned
      BY <1>7, <2>1, <3>1 DEF Known
    <3>2. CASE Pin(type, e.name) \notin DOMAIN pinned
      BY <1>7, <2>1, <3>2 DEF Known
    <3> QED
      BY <3>1, <3>2
  <2>3. Known(e, type) \in Versions \cup {None}
    BY <1>1, <1>2, <2>2
  <2> QED
    BY <1>7, <2>1, <2>2, <2>3, VersionTags
<1>8. \/ Loaded(e.name) = {} \/ Cardinality(Loaded(e.name)) = 1 \/ Cardinality(Loaded(e.name)) > 1
  BY <1>3
<1> QED
  BY <1>4, <1>5, <1>6, <1>7, <1>8


\* Where an entry leads once it is known.
LEMMA Directories ==
  ASSUME Typed, NEW e \in EntryType, NEW type \in Places
  PROVE  /\ \A t \in Places, n \in Names, v \in Versions : Repo(t, n, v) \in Dirs /\ Outside(n) \in Dirs
         /\ e.local => Directory(e, type) = Outside(e.name) /\ Directory(e, type) \in Dirs
         /\ ~e.local /\ Known(e, type) \in Versions =>
              Directory(e, type) = Repo(type, e.name, Known(e, type)) /\ Directory(e, type) \in Dirs
         /\ ~e.local /\ Known(e, type) = Several => Directory(e, type) = RepoRoot
         /\ RepoRoot \notin Dirs /\ TreeOf(RepoRoot) = "partial"
         /\ \A d \in Dirs : TreeOf(d) = tree[d] /\ (Exists(d) <=> tree[d] # "none")
<1>1. \A t \in Places, n \in Names, v \in Versions : Repo(t, n, v) \in Dirs /\ Outside(n) \in Dirs
  BY DEF Dirs
<1>2. e.name \in Names
  BY DEF EntryType
<1>3. RepoRoot \notin Dirs
  BY VersionTags DEF RepoRoot, Dirs, Repo, Outside, Places
<1>4. \A d \in Dirs : TreeOf(d) = tree[d] /\ (Exists(d) <=> tree[d] # "none")
  BY <1>3 DEF TreeOf, Exists
<1>5. TreeOf(RepoRoot) = "partial"
  BY DEF TreeOf
<1>6. e.local => Directory(e, type) = Outside(e.name) /\ Directory(e, type) \in Dirs
  BY <1>2 DEF Directory, Dirs
<1>7. ~e.local /\ Known(e, type) = Several => Directory(e, type) = RepoRoot
  BY DEF Directory
<1>8. ~e.local /\ Known(e, type) \in Versions =>
        Directory(e, type) = Repo(type, e.name, Known(e, type)) /\ Directory(e, type) \in Dirs
  BY <1>1, <1>2, VersionTags DEF Directory
<1> QED
  BY <1>1, <1>3, <1>4, <1>5, <1>6, <1>7, <1>8

\* An entry that setup() goes on with is known.
LEMMA ResolvedKnown ==
  ASSUME Typed, InAsk, NEW where, Resolved(where)
  PROVE  /\ status = "run" /\ stack # <<>> /\ top.at = where /\ Listing
         /\ entry \in EntryType /\ kind \in {"dep", "mod", "sub"}
         /\ entry.local \/ Known(entry, kind) # None
<1>1. status = "run" /\ stack # <<>> /\ top.at = where /\ Listing
      /\ (ask.at = "got" \/ (ask.at = "idle" /\ ~Asks(entry, kind)))
  BY DEF Resolved, At
<1>2. entry \in EntryType /\ kind \in {"dep", "mod", "sub"}
  BY <1>1, Entry DEF kind
<1>3. CASE ask.at = "idle" /\ ~Asks(entry, kind)
  BY <1>1, <1>2, <1>3 DEF Asks
<1>4. CASE ask.at = "got"
  <2>1. ask.v \in Versions /\ \A x \in DOMAIN pinned : pinned[x] \in Versions
    BY <1>1, <1>4 DEF InAsk, Typed, TypeOK
  <2>2. CASE entry.version # None
    BY <1>1, <1>2, <2>2, KnownFacts
  <2>3. CASE entry.version = None /\ (kind = "sub" \/ Loaded(entry.name) = {})
    <3>1. Known(entry, kind) \in Versions
      BY <1>2, <2>1, <2>3, KnownFacts
    <3> QED
      BY <1>1, <1>2, <3>1, VersionTags
  <2>4. CASE entry.version = None /\ kind # "sub" /\ Loaded(entry.name) # {}
    <3>1. Cardinality(Loaded(entry.name)) = 1 \/ Cardinality(Loaded(entry.name)) > 1
      BY <2>4, LoadedFacts
    <3>2. \A d \in Loaded(entry.name) : d[3] \in Versions
      BY LoadedFacts
    <3>3. Known(entry, kind) \in Versions \cup {Several}
      BY <1>2, <2>4, <3>1, <3>2, KnownFacts
    <3> QED
      BY <1>1, <1>2, <3>3, VersionTags
  <2> QED
    BY <1>2, <2>2, <2>3, <2>4
<1> QED
  BY <1>1, <1>2, <1>3, <1>4

\* A directory knows its name.
LEMMA DirName ==
  \A t, n, v : /\ Repo(t, n, v)[1] = t /\ Repo(t, n, v)[2] = n /\ Repo(t, n, v)[3] = v
               /\ Outside(n)[2] = n /\ Outside(n)[3] = "here"
  BY DEF Repo, Outside

\* The lists' entries and what they say of a project.
LEMMA UsesFacts ==
  ASSUME NEW t \in Places, NEW e \in Entries(t)
  PROVE  /\ Plain(e) => t \in Uses(e.name)
         /\ ~ Plain(e) => Placed(e.name)
         /\ \A n : n = Root \/ Placed(n) => "given" \in Uses(n)
         /\ "given" \notin Places
BY DEF Uses, Placed, Places

\* Plain entries of a project that is used in one way, when it has been found,
\* lead to a directory that is there.
LEMMA FoundThere ==
  ASSUME Typed, LoadedOK, NEW t \in Places, NEW e \in EntryType, e \in Entries(t), Found(home, e, t),
         e.local \/ Known(e, t) # None, ~ Disagree
  PROVE  Directory(e, t) \in Dirs /\ tree[Directory(e, t)] # "none"
<1>1. e.name \in Names /\ e.version \in Versions \cup {None} /\ e.local \in BOOLEAN
      /\ t \in {"dep", "mod", "sub"} /\ t # "sub"
  BY DEF EntryType, Places
<1>2. CASE e.local
  BY <1>2, Directories DEF Found
<1>3. CASE ~e.local /\ e.version # None
  BY <1>1, <1>3, KnownFacts, Directories DEF Found
<1>4. CASE ~e.local /\ e.version = None
  <2>1. Plain(e)
    BY <1>4 DEF Plain
  <2>2. t \in Uses(e.name) /\ "given" \notin Uses(e.name) /\ ~ Placed(e.name)
    BY <1>1, <2>1, UsesFacts DEF Disagree
  <2>3. Uses(e.name) = {t}
    BY <1>1, <2>2 DEF Disagree
  <2>4. PICK v \in Versions : \A d \in Loaded(e.name) : d[3] = v
    BY <1>1, <2>2 DEF LoadedOK, LoadedOnce
  <2>5. \A d \in Loaded(e.name) : d[1] = t
    BY <1>1, <2>3 DEF LoadedOK, LoadedWhere
  <2>6. CASE Loaded(e.name) # {}
    <3>1. \A d \in Loaded(e.name) : d = Repo(t, e.name, v)
      <4> SUFFICES ASSUME NEW d \in Loaded(e.name)
                   PROVE  d = Repo(t, e.name, v)
        OBVIOUS
      <4>1. d \in Dirs /\ d[1] = t /\ d[2] = e.name /\ d[3] = v
        BY <2>4, <2>5, LoadedFacts
      <4> QED
        BY <4>1 DEF Dirs, Repo, Outside
    <3>2. Loaded(e.name) = {Repo(t, e.name, v)}
      BY <2>6, <3>1
    <3>3. Cardinality(Loaded(e.name)) = 1
      BY <3>2, FS_Singleton
    <3>4. Known(e, t) = v
      <4>1. \E d \in Loaded(e.name) : Known(e, t) = d[3]
        BY <1>1, <1>4, <3>3, KnownFacts
      <4> QED
        BY <2>4, <4>1
    <3>5. \E a \in apps : a[1] = Repo(t, e.name, v)
      BY <3>2, LoadedFacts
    <3> QED
      BY <1>4, <3>4, <3>5, Directories DEF LoadedOK, LoadedWhole
  <2>7. CASE Loaded(e.name) = {}
    <3>1. /\ Pin(t, e.name) \in DOMAIN pinned
          /\ tree[Repo(t, e.name, pinned[Pin(t, e.name)])] # "none"
      BY <1>4, <2>7 DEF Found, Pin
    <3>2. Known(e, t) = pinned[Pin(t, e.name)]
      BY <1>1, <1>4, <2>7, <3>1, KnownFacts
    <3>3. Known(e, t) \in Versions
      BY <3>1, <3>2 DEF Typed, TypeOK
    <3> QED
      BY <1>4, <3>1, <3>2, <3>3, Directories
  <2> QED
    BY <2>6, <2>7
<1> QED
  BY <1>1, <1>2, <1>3, <1>4

-----------------------------------------------------------------------------
(* What the steps keep.                                                    *)

\* What nothing in a run takes away.
Kept ==
  /\ world' = world /\ apps \subseteq apps'
  /\ \A d \in Dirs : tree[d] # "none" => tree'[d] # "none"
  /\ \A x \in DOMAIN pinned : x \in DOMAIN pinned' /\ pinned'[x] = pinned[x]

\* What has been found stays.
LEMMA FoundKept ==
  ASSUME Typed, Kept, NEW h \in Dirs, NEW e \in EntryType, NEW t \in Places, Found(h, e, t)
  PROVE  Found(h, e, t)'
<1>1. e.name \in Names /\ e.version \in Versions \cup {None}
  BY DEF EntryType
<1>2. Loaded(e.name) \subseteq Loaded(e.name)'
  BY DEF Loaded, Kept
<1>3. CASE e.local
  BY <1>1, <1>3, Directories DEF Found, Kept
<1>4. CASE ~e.local /\ e.version # None
  BY <1>1, <1>4, Directories DEF Found, Kept
<1>5. CASE ~e.local /\ e.version = None
  <2>1. CASE Loaded(e.name) # {}
    BY <1>2, <1>5, <2>1 DEF Found
  <2>2. CASE Loaded(e.name) = {}
    <3>1. /\ <<h, t, e.name>> \in DOMAIN pinned
          /\ tree[Repo(t, e.name, pinned[<<h, t, e.name>>])] # "none"
      BY <1>5, <2>2 DEF Found
    <3>2. pinned[<<h, t, e.name>>] \in Versions
      BY <3>1 DEF Typed, TypeOK
    <3>3. tree'[Repo(t, e.name, pinned[<<h, t, e.name>>])] # "none"
      BY <1>1, <3>1, <3>2, Directories DEF Kept
    <3> QED
      BY <1>5, <3>1, <3>3 DEF Found, Kept
  <2> QED
    BY <2>1, <2>2
<1> QED
  BY <1>1, <1>3, <1>4, <1>5

\* What a frame has passed are entries, and the same entries as long as the
\* yaml files stay.
LEMMA PassedEntries ==
  ASSUME Typed, NEW f \in Frames
  PROVE  Passed(f) \subseteq EntryType /\ KindAt(f.at) \in Places
<1>1. /\ ListsOf(f.app).with \in Seq(EntryType) /\ ListsOf(f.app).dep \in Seq(EntryType)
      /\ ListsOf(f.app).mod \in Seq(EntryType)
  BY WorldOK DEF Typed, TypeOK
<1>2. MissingOf(f.app) \in Seq(EntryType)
  BY <1>1, ConcatProperties DEF MissingOf
<1>3. PICK g : g = Group(f.app, KindAt(f.at))
  OBVIOUS
<1>4. g \in Seq(EntryType)
  BY <1>1, <1>2, <1>3 DEF Group
<1>5. ToSet(g) \subseteq EntryType /\ \A j \in DOMAIN g : g[j] \in EntryType
  BY <1>4 DEF ToSet
<1>6. Passed(f) \subseteq EntryType
  <2>1. CASE f.at \in Early
    <3>1. Passed(f) = {}
      BY <2>1 DEF Passed, Early
    <3> QED
      BY <3>1
  <2>2. CASE f.at \in {"missingMod", "missing"}
    BY <1>3, <1>5, <2>2 DEF Passed, Early
  <2>3. CASE f.at \notin Early /\ f.at \notin {"missingMod", "missing"}
    <3>1. Passed(f) = ToSet(g)
      BY <1>3, <2>3 DEF Passed
    <3> QED
      BY <1>5, <3>1
  <2> QED
    BY <2>1, <2>2, <2>3
<1> QED
  BY <1>6 DEF KindAt, Places

\* Passed(f) reads the yaml files only.
LEMMA PassedSame ==
  ASSUME NEW f, world' = world
  PROVE  Passed(f)' = Passed(f) /\ \A a, t : Group(a, t)' = Group(a, t)
<1>1. \A a, t : Group(a, t)' = Group(a, t)
  BY DEF Group, MissingOf, ListsOf
<1> QED
  BY <1>1 DEF Passed

\* A step that keeps what was found keeps it for the frames it leaves alone.
LEMMA PassedKept ==
  ASSUME FetchInv, status = "run", Kept,
         \A j \in DOMAIN stack' :
           \/ \E k \in DOMAIN stack : stack'[j] = stack[k]
           \/ \A e \in Passed(stack[j])' : Found(stack[j].app[1], e, KindAt(stack[j].at))'
  PROVE  PassedFound'
<1> SUFFICES ASSUME NEW j \in DOMAIN stack', NEW e \in Passed(stack[j])'
             PROVE  Found(stack[j].app[1], e, KindAt(stack[j].at))'
  BY DEF PassedFound
<1>1. PICK f : f = stack'[j]
  OBVIOUS
<1>2. e \in Passed(f)
  <2>1. Passed(stack[j])' = Passed(f)'
    BY <1>1 DEF Passed, Group, MissingOf, ListsOf
  <2> QED
    BY <2>1, PassedSame DEF Kept
<1>3. SUFFICES Found(f.app[1], e, KindAt(f.at))'
  BY <1>1 DEF Found, Loaded
<1>4. CASE \E k \in DOMAIN stack : f = stack[k]
  <2>1. PICK k \in DOMAIN stack : f = stack[k]
    BY <1>4
  <2>2. f \in Frames /\ f.app \in Apps
    <3>1. stack[k] \in Frames
      BY DEF FetchInv, Typed
    <3> QED
      BY <2>1, <3>1 DEF Frames
  <2>3. PICK h, t : h = f.app[1] /\ t = KindAt(f.at)
    OBVIOUS
  <2>4. h \in Dirs /\ t \in Places /\ e \in EntryType
    BY <1>2, <2>2, <2>3, PassedEntries DEF Apps, FetchInv
  <2>5. Found(h, e, t)
    BY <1>2, <2>1, <2>3 DEF FetchInv, PassedFound
  <2>6. Found(h, e, t)'
    BY <2>4, <2>5, FoundKept DEF FetchInv
  <2> QED
    BY <2>3, <2>6 DEF Found, Loaded
<1>5. CASE ~ \E k \in DOMAIN stack : f = stack[k]
  BY <1>1, <1>5 DEF Found, Loaded
<1> QED
  BY <1>4, <1>5

\* Loading nothing new and leaving on disk what is loaded.
LEMMA LoadedSame ==
  ASSUME Typed, LoadedOK, apps' = apps, world' = world,
         \A d \in Dirs : tree[d] = "whole" => tree'[d] = "whole"
  PROVE  LoadedOK'
<1>1. \A b \in apps : b[1] \in Dirs
  BY DEF Typed, TypeOK, Apps
<1>2. Outside(Root) \in Dirs
  BY FetchAssumption DEF Dirs
<1>3. LoadedWhole'
  BY <1>1, <1>2 DEF LoadedOK, LoadedWhole
<1>4. \A n : Loaded(n)' = Loaded(n)
  BY DEF Loaded
<1>5. \A n : Placed(n)' = Placed(n) /\ Uses(n)' = Uses(n)
  BY DEF Placed, Uses, Entries
<1>6. LoadedOnce'
  BY <1>4, <1>5 DEF LoadedOK, LoadedOnce
<1>7. LoadedWhere'
  BY <1>4, <1>5 DEF LoadedOK, LoadedWhere
<1> QED
  BY <1>3, <1>6, <1>7 DEF LoadedOK

\* A step that ends the run owes the next ones only the types and the disk.
LEMMA EndedStep ==
  ASSUME Typed', LoadedOK', status' # "run"
  PROVE  FetchInv'
BY DEF FetchInv, InAsk, PassedFound

\* A version kept in a file beside those there are.
LEMMA AddedFacts ==
  ASSUME NEW f, NEW x, NEW v
  PROVE  /\ DOMAIN Added(f, x, v) = DOMAIN f \cup {x}
         /\ \A y \in DOMAIN f : y \in DOMAIN Added(f, x, v) /\ Added(f, x, v)[y] = f[y]
         /\ x \notin DOMAIN f => Added(f, x, v)[x] = v
BY DEF Added

\* What a query may change: itself, and what is remembered.
QueryStep ==
  /\ UNCHANGED <<world, net, tree, new, status, stack, apps, par, ready, read, updated, reloaded, stale>>
  /\ Listing /\ trouble' \in 0..Troubles /\ limited' \in BOOLEAN
  /\ ask' \in Asked
  /\ \/ ask'.at \in {"api", "git"} /\ ask'.v = None
     \/ ask'.at = "got" /\ ask'.v \in Versions
  /\ pinned' = pinned \/ \E v \in Versions : pinned' = Added(pinned, Pin(kind, entry.name), v)

\* The three records a query is taken on with.
LEMMA IdleFacts ==
  /\ Idle \in Asked /\ Idle.v = None /\ Idle.at = "idle"
  /\ ToGit \in Asked /\ ToGit.at = "git" /\ ToGit.v = None
  /\ \A v \in Versions : Got(v) \in Asked /\ Got(v).at = "got" /\ Got(v).v = v
BY DEF Idle, Asked, ToGit, Got

\* The next request, or the next remote.
LEMMA NextGetFacts ==
  ASSUME ask \in Asked, ask.at = "api", ask.v = None
  PROVE  /\ NextGet \in Asked /\ NextGet.at = "api" /\ NextGet.v = None
         /\ Retry \in Asked /\ Retry.at = "api" /\ Retry.v = None
<1>1. ask.get \in Nat /\ ask.remote \in Nat /\ ask.tries \in Nat
  BY DEF Asked
<1>2. NextGet \in Asked /\ NextGet.at = "api" /\ NextGet.v = None
  <2>1. CASE ask.get < 3
    <3>1. NextGet = [ask EXCEPT !.get = ask.get + 1, !.tries = 3]
      BY <2>1 DEF NextGet
    <3>2. ask.get + 1 \in Nat
      BY <1>1
    <3> QED
      BY <3>1, <3>2 DEF Asked
  <2>2. CASE ~(ask.get < 3)
    <3>1. NextGet = [Idle EXCEPT !.at = "api", !.remote = ask.remote + 1]
      BY <2>2 DEF NextGet
    <3>2. ask.remote + 1 \in Nat
      BY <1>1
    <3> QED
      BY <3>1, <3>2, IdleFacts DEF Asked
  <2> QED
    BY <2>1, <2>2
<1>3. CASE ask.tries > 1
  BY <1>1, <1>2, <1>3 DEF Retry, Asked
<1>4. CASE ~(ask.tries > 1)
  BY <1>2, <1>4 DEF Retry
<1> QED
  BY <1>2, <1>3, <1>4

\* Each of the four steps of a query is one.
LEMMA Queries ==
  ASSUME FetchInv, Ask \/ Skip \/ Request \/ LsRemote
  PROVE  QueryStep
<1>1. Typed /\ InAsk /\ ask \in Asked /\ trouble \in 0..Troubles /\ limited \in BOOLEAN
  BY DEF FetchInv, Typed, TypeOK
<1>2. \A v \in Versions : ResolvedTo(v) =>
        /\ ask' \in Asked /\ ask'.at = "got" /\ ask'.v \in Versions
        /\ \E w \in Versions : pinned' = Added(pinned, Pin(kind, entry.name), w)
  BY IdleFacts DEF ResolvedTo
<1>3. Default \in Versions /\ Release \in Versions /\ Fallback \in Versions
  BY DEF Versions
<1>4. CASE Ask
  <2>1. ask' \in Asked /\ ask'.at = "api" /\ ask'.v = None
    BY <1>4 DEF Ask, Idle, Asked
  <2> QED
    BY <1>1, <1>4, <2>1 DEF Ask, Asking, QueryStep, disk
<1>5. CASE Skip
  <2>1. Listing /\ status = "run" /\ ask.at = "api"
    BY <1>5 DEF Skip, Asking, Listing
  <2>2. ask.v = None
    BY <1>1, <2>1 DEF InAsk
  <2>3. ask' \in Asked /\ ask'.at \in {"api", "git"} /\ ask'.v = None
    <3>1. CASE ask.remote > world.remotes
      BY <1>5, <3>1, IdleFacts DEF Skip
    <3>2. CASE ~(ask.remote > world.remotes) /\ ask.remote \notin world.github
      BY <1>1, <1>5, <2>1, <2>2, <3>2 DEF Skip, Asked
    <3>3. CASE ~(ask.remote > world.remotes) /\ ask.remote \in world.github
      BY <1>1, <1>5, <2>1, <2>2, <3>3, NextGetFacts DEF Skip
    <3> QED
      BY <3>1, <3>2, <3>3
  <2> QED
    BY <1>1, <1>5, <2>1, <2>3 DEF Skip, unanswered, QueryStep
<1>6. CASE Request
  <2>1. Listing /\ status = "run" /\ ask.at = "api" /\ unanswered
    BY <1>6 DEF Request, Asking, Listing
  <2>2. ask.v = None
    BY <1>1, <2>1 DEF InAsk
  <2>3. trouble' \in 0..Troubles /\ limited' \in BOOLEAN
    <3>1. trouble' = trouble \/ (trouble > 0 /\ trouble' = trouble - 1)
      BY <1>6 DEF Request
    <3>2. limited' = limited \/ limited' = (get = 1)
      BY <1>6 DEF Request
    <3>3. Troubles \in Nat
      BY FetchAssumption
    <3>4. trouble' \in 0..Troubles
      BY <1>1, <3>1, <3>3
    <3>5. limited' \in BOOLEAN
      BY <1>1, <3>2
    <3> QED
      BY <3>4, <3>5
  <2>4. \/ ask' \in {ToGit, Retry} /\ pinned' = pinned
        \/ \E v \in Versions : ResolvedTo(v)
    BY <1>3, <1>6 DEF Request
  <2>5. CASE ask' \in {ToGit, Retry} /\ pinned' = pinned
    <3>1. ask' \in Asked /\ ask'.at \in {"api", "git"} /\ ask'.v = None
      BY <1>1, <2>1, <2>2, <2>5, IdleFacts, NextGetFacts
    <3> QED
      BY <2>1, <2>3, <2>5, <3>1 DEF unanswered, QueryStep
  <2>6. CASE \E v \in Versions : ResolvedTo(v)
    BY <1>2, <2>1, <2>3, <2>6 DEF unanswered, QueryStep
  <2> QED
    BY <2>4, <2>5, <2>6
<1>7. CASE LsRemote
  <2>1. Listing /\ status = "run" /\ ask.at = "git" /\ unanswered /\ trouble' = trouble /\ limited' = limited
    BY <1>7 DEF LsRemote, Asking, Listing
  <2>2. ask.v = None
    BY <1>1, <2>1 DEF InAsk
  <2>3. \/ TakeFallback
        \/ ResolvedTo(Default)
        \/ ask' = [ask EXCEPT !.remote = @ + 1] /\ pinned' = pinned
    BY <1>7 DEF LsRemote
  <2>4. CASE TakeFallback
    BY <1>1, <1>3, <2>1, <2>4, IdleFacts DEF TakeFallback, unanswered, QueryStep
  <2>5. CASE ResolvedTo(Default)
    BY <1>1, <1>2, <1>3, <2>1, <2>5 DEF unanswered, QueryStep
  <2>6. CASE ask' = [ask EXCEPT !.remote = @ + 1] /\ pinned' = pinned
    <3>1. ask' \in Asked /\ ask'.at = "git" /\ ask'.v = None
      BY <1>1, <2>1, <2>2, <2>6 DEF Asked
    <3> QED
      BY <1>1, <2>1, <2>6, <3>1 DEF unanswered, QueryStep
  <2> QED
    BY <2>3, <2>4, <2>5, <2>6
<1> QED
  BY <1>4, <1>5, <1>6, <1>7

\* A step of a query keeps the invariant.
LEMMA QueryKeeps ==
  ASSUME FetchInv, QueryStep
  PROVE  FetchInv'
<1>1. Typed /\ InAsk /\ LoadedOK /\ PassedFound
  BY DEF FetchInv
<1>2. UNCHANGED <<world, net, tree, new, status, stack, apps, par, ready, read, updated, reloaded, stale>>
  BY DEF QueryStep
<1>3. stack # <<>> /\ status = "run" /\ top.i <= Len(list)
  BY DEF QueryStep, Listing
<1>4. \A x \in DOMAIN pinned' : x[1] \in Dirs /\ pinned'[x] \in Versions
  <2>1. CASE pinned' = pinned
    BY <1>1, <2>1 DEF Typed, TypeOK
  <2>2. CASE \E v \in Versions : pinned' = Added(pinned, Pin(kind, entry.name), v)
    <3>1. PICK v \in Versions : pinned' = Added(pinned, Pin(kind, entry.name), v)
      BY <2>2
    <3>2. Pin(kind, entry.name)[1] \in Dirs
      BY <1>1, <1>3, Here DEF Pin
    <3>3. \A x \in DOMAIN pinned : x[1] \in Dirs /\ pinned[x] \in Versions
      BY <1>1 DEF Typed, TypeOK
    <3> QED
      BY <3>1, <3>2, <3>3 DEF Added
  <2> QED
    BY <2>1, <2>2 DEF QueryStep
<1>5. Typed'
  BY <1>1, <1>2, <1>4 DEF QueryStep, Typed, TypeOK, Asked
<1>6. InAsk'
  <2>1. top' = top /\ list' = list
    BY <1>2 DEF top, list, lists, missing, me
  <2>2. top.at \in Listed
    BY <1>1, Entry DEF QueryStep
  <2>3. \/ ask'.at \in {"api", "git"} /\ ask'.v = None
        \/ ask'.at = "got" /\ ask'.v \in Versions
    BY DEF QueryStep
  <2> QED
    BY <1>3, <2>1, <2>2, <2>3 DEF InAsk
<1>7. LoadedOK'
  BY <1>1, <1>2, LoadedSame
<1>8. Kept
  <2>1. \A x \in DOMAIN pinned : x \in DOMAIN pinned' /\ pinned'[x] = pinned[x]
    <3>1. CASE pinned' = pinned
      BY <3>1
    <3>2. CASE \E v \in Versions : pinned' = Added(pinned, Pin(kind, entry.name), v)
      BY <3>2 DEF Added
    <3> QED
      BY <3>1, <3>2 DEF QueryStep
  <2> QED
    BY <1>2, <2>1 DEF Kept
<1>9. PassedFound'
  BY <1>2, <1>3, <1>8, PassedKept
<1> QED
  BY <1>5, <1>6, <1>7, <1>9 DEF FetchInv


-----------------------------------------------------------------------------
(* The steps of setup().                                                   *)

\* The running call goes on as f.
LEMMA GoKeeps ==
  ASSUME Typed, stack # <<>>, NEW f \in Frames, Go(f),
         apps \subseteq apps', f.app \in apps', ToSet(f.vec) \subseteq apps'
  PROVE  /\ stack' \in Seq(Frames) /\ stack' # <<>> /\ top' = f
         /\ \A j \in DOMAIN stack' : stack'[j].app \in apps' /\ ToSet(stack'[j].vec) \subseteq apps'
         /\ \A j \in DOMAIN stack' : stack'[j] = f \/ \E k \in DOMAIN stack : stack'[j] = stack[k]
<1>1. stack \in Seq(Frames) /\ stack' = <<f>> \o Tail(stack)
  BY DEF Typed, Go
<1>2. /\ stack' \in Seq(Frames) /\ stack' # <<>> /\ Head(stack') = f
      /\ \A j \in DOMAIN stack' : stack'[j] = f \/ \E k \in DOMAIN stack : stack'[j] = stack[k]
  BY <1>1, Replaced
<1>3. \A k \in DOMAIN stack : stack[k].app \in apps /\ ToSet(stack[k].vec) \subseteq apps
  BY DEF Typed, TypeOK
<1>4. ASSUME NEW j \in DOMAIN stack'
      PROVE  stack'[j].app \in apps' /\ ToSet(stack'[j].vec) \subseteq apps'
  <2>1. CASE stack'[j] = f
    BY <2>1
  <2>2. CASE \E k \in DOMAIN stack : stack'[j] = stack[k]
    <3>1. PICK k \in DOMAIN stack : stack'[j] = stack[k]
      BY <2>2
    <3>2. stack[k].app \in apps /\ ToSet(stack[k].vec) \subseteq apps
      BY <1>3
    <3> QED
      BY <3>1, <3>2
  <2> QED
    BY <1>2, <2>1, <2>2
<1> QED
  BY <1>2, <1>4 DEF top

\* Only the steps for an entry have a query.
LEMMA NoQuery ==
  ASSUME FetchInv, status = "run", stack # <<>>, ~Listing \/ top.at \notin Listed
  PROVE  ask.at = "idle" /\ ask.v = None
<1>1. ask.at # "idle" => top.at \in Listed /\ top.i <= Len(list)
  BY DEF FetchInv, InAsk
<1>2. ask.at = "idle"
  BY <1>1 DEF Listing
<1> QED
  BY <1>2 DEF FetchInv, InAsk

\* A step after which there is no query.
LEMMA NoQueryAfter ==
  ASSUME ask'.at = "idle", ask'.v = None
  PROVE  InAsk'
BY DEF InAsk

\* scmUpdate and reload keep the invariant.
LEMMA ScmUpdateKeeps ==
  ASSUME FetchInv, ScmUpdate
  PROVE  FetchInv'
<1>1. Typed /\ LoadedOK /\ status = "run" /\ stack # <<>> /\ top.at = "update"
  BY DEF FetchInv, ScmUpdate, At
<1>2. /\ top \in Frames /\ me \in apps /\ home \in Dirs /\ ToSet(top.vec) \subseteq apps
      /\ home \in DOMAIN read
  <2>1. top \in Frames /\ me \in apps /\ home \in Dirs /\ ToSet(top.vec) \subseteq apps
    BY <1>1, Here
  <2>2. home \in DOMAIN read
    BY <1>1, <2>1 DEF Typed, TypeOK, home
  <2> QED
    BY <2>1, <2>2
<1>3. UNCHANGED <<world, net, trouble, tree, pinned, ask, limited, apps, par, ready>>
  BY DEF ScmUpdate
<1>4. status' \in {"run", "scm"} /\ new' \subseteq Dirs /\ updated' \subseteq Dirs
      /\ reloaded' \subseteq Dirs /\ DOMAIN read' = DOMAIN read
      /\ stale' \subseteq apps
  <2>1. new \subseteq Dirs /\ updated \subseteq Dirs /\ reloaded \subseteq Dirs /\ stale \subseteq apps
    BY <1>1 DEF Typed, TypeOK
  <2>2. /\ status' \in {"run", "scm"}
        /\ new' = new \/ new' = new \cup {home}
        /\ updated' = updated \/ updated' = updated \cup {home}
        /\ reloaded' = reloaded \/ reloaded' = reloaded \cup {home}
        /\ read' = read \/ read' = [read EXCEPT ![home] = Reload(new')]
    BY <1>1 DEF ScmUpdate
  <2>3. stale' \subseteq stale \cup {me}
    BY DEF ScmUpdate
  <2> QED
    BY <1>2, <2>1, <2>2, <2>3
<1>5. CASE status' = "run"
  <2> DEFINE f == [top EXCEPT !.at = "super", !.i = 1]
  <2>1. Go(f)
    BY <1>5 DEF ScmUpdate, GoTo
  <2>2. f \in Frames /\ f.at = "super" /\ f.app = me /\ f.vec = top.vec
    <3>1. PICK w, j : w = "super" /\ j = 1
      OBVIOUS
    <3>2. w \in Phases /\ j \in Nat \ {0}
      BY <3>1 DEF Phases, Early
    <3>3. f = [top EXCEPT !.at = w, !.i = j]
      BY <3>1
    <3> QED
      BY <1>2, <3>1, <3>2, <3>3 DEF Frames, me
  <2> HIDE DEF f
  <2>3. /\ stack' \in Seq(Frames) /\ stack' # <<>> /\ top' = f
        /\ \A j \in DOMAIN stack' : stack'[j].app \in apps' /\ ToSet(stack'[j].vec) \subseteq apps'
        /\ \A j \in DOMAIN stack' : stack'[j] = f \/ \E k \in DOMAIN stack : stack'[j] = stack[k]
    BY <1>1, <1>2, <1>3, <2>1, <2>2, GoKeeps
  <2>4. Typed'
    BY <1>1, <1>3, <1>4, <2>3 DEF Typed, TypeOK
  <2>5. InAsk'
    BY <1>1, <1>3, NoQuery, NoQueryAfter DEF Listed
  <2>6. LoadedOK'
    BY <1>1, <1>3, LoadedSame
  <2>7. Kept
    BY <1>3 DEF Kept
  <2>8. \A j \in DOMAIN stack' : stack'[j] = f => Passed(stack[j])' = {}
    BY <2>2 DEF Passed, Early
  <2>9. PassedFound'
    BY <1>1, <2>3, <2>7, <2>8, PassedKept
  <2> QED
    BY <2>4, <2>5, <2>6, <2>9 DEF FetchInv
<1>6. CASE status' # "run"
  <2>1. stack' = stack
    BY <1>6 DEF ScmUpdate
  <2>2. Typed'
    BY <1>1, <1>3, <1>4, <1>6, <2>1 DEF Typed, TypeOK
  <2>3. LoadedOK'
    BY <1>1, <1>3, LoadedSame
  <2> QED
    BY <1>6, <2>2, <2>3, EndedStep
<1> QED
  BY <1>5, <1>6

\* A super that is new to Applications is none that entries decide about.
LEMMA SuperKeeps ==
  ASSUME Typed, LoadedOK, world' = world, tree' = tree, home \in DOMAIN world.supers,
         tree[super] = "whole", NEW a, a[1] = super, apps' = apps \cup {a}
  PROVE  LoadedOK' /\ super \in Dirs
<1>1. PICK n \in Names : super = Outside(n)
  BY WorldOK DEF Typed, TypeOK, super
<1>2. super \in Dirs /\ super[2] = n
  BY <1>1, DirName DEF Dirs
<1>3. Placed(n) /\ "given" \in Uses(n) /\ "given" \notin Places
  BY <1>1 DEF Placed, Uses, super, Places
<1>4. \A m : m # n => Loaded(m)' = Loaded(m)
  <2> SUFFICES ASSUME NEW m, m # n
               PROVE  Loaded(m)' = Loaded(m)
    OBVIOUS
  <2>1. Loaded(m)' = {b[1] : b \in {c \in apps \cup {a} : c[1][2] = m}}
    BY DEF Loaded
  <2> QED
    BY <1>2, <2>1 DEF Loaded
<1>5. \A m : Placed(m)' = Placed(m) /\ Uses(m)' = Uses(m)
  BY DEF Placed, Uses, Entries
<1>6. LoadedWhole'
  BY DEF LoadedOK, LoadedWhole
<1>7. LoadedOnce'
  BY <1>3, <1>4, <1>5 DEF LoadedOK, LoadedOnce
<1>8. LoadedWhere'
  <2> SUFFICES ASSUME NEW m \in Names, NEW t \in Places, Uses(m) = {t}
               PROVE  \A d \in Loaded(m)' : d[1] = t
    BY <1>5 DEF LoadedWhere
  <2>1. m # n
    BY <1>3
  <2> QED
    BY <1>4, <2>1 DEF LoadedOK, LoadedWhere
<1> QED
  BY <1>2, <1>6, <1>7, <1>8 DEF LoadedOK

\* A super that is there, new or none keeps the invariant.
LEMMA SetSuperKeeps ==
  ASSUME FetchInv, SetSuper
  PROVE  FetchInv'
<1>1. Typed /\ LoadedOK /\ status = "run" /\ stack # <<>> /\ top.at = "super"
  BY DEF FetchInv, SetSuper, At
<1>2. top \in Frames /\ me \in apps /\ home \in Dirs /\ ToSet(top.vec) \subseteq apps
  BY <1>1, Here
<1>3. UNCHANGED <<world, net, trouble, tree, new, pinned, ask, limited, par, updated, reloaded, stale>>
  BY DEF SetSuper, disk
<1>4. InAsk'
  BY <1>1, <1>3, NoQuery, NoQueryAfter DEF Listed
<1>5. CASE GoTo("sub") /\ ready' = ready \cup {me} /\ UNCHANGED <<status, apps, read>>
  <2>1. PICK w, j : w = "sub" /\ j = 1
    OBVIOUS
  <2>2. PICK f : f = [top EXCEPT !.at = w, !.i = j]
    OBVIOUS
  <2>3. w \in Phases /\ j \in Nat \ {0}
    BY <2>1 DEF Phases, Early
  <2>4. f \in Frames /\ f.at = "sub" /\ f.app = me /\ f.vec = top.vec
    BY <1>2, <2>1, <2>2, <2>3 DEF Frames, me
  <2>5. Go(f)
    BY <1>5, <2>1, <2>2 DEF GoTo
  <2>6. /\ stack' \in Seq(Frames) /\ stack' # <<>>
        /\ \A k \in DOMAIN stack' : stack'[k].app \in apps' /\ ToSet(stack'[k].vec) \subseteq apps'
        /\ \A k \in DOMAIN stack' : stack'[k] = f \/ \E i \in DOMAIN stack : stack'[k] = stack[i]
    BY <1>1, <1>2, <1>5, <2>4, <2>5, GoKeeps
  <2>7. Typed'
    BY <1>1, <1>2, <1>3, <1>5, <2>6 DEF Typed, TypeOK
  <2>8. LoadedOK'
    BY <1>1, <1>3, <1>5, LoadedSame
  <2>9. Kept
    BY <1>3, <1>5 DEF Kept
  <2>10. \A k \in DOMAIN stack' : stack'[k] = f => Passed(stack[k])' = {}
    BY <2>4 DEF Passed, Early
  <2>11. PassedFound'
    BY <1>1, <2>6, <2>9, <2>10, PassedKept
  <2> QED
    BY <1>4, <2>7, <2>8, <2>11 DEF FetchInv
<1>6. ASSUME home \in DOMAIN world.supers, tree[super] = "whole", NEW a, a = <<super, 0>>,
             apps' = apps \cup {a}, read' = Added(read, super, super \in new),
             stack' = <<Frame(a)>> \o stack, UNCHANGED <<status, ready>>
      PROVE  FetchInv'
  <2>1. LoadedOK' /\ super \in Dirs
    BY <1>1, <1>3, <1>6, SuperKeeps
  <2>2. a \in Apps /\ a[1] = super
    BY <1>6, <2>1, FetchAssumption DEF Apps
  <2>3. PICK g : g = Frame(a)
    OBVIOUS
  <2>4. g \in Frames /\ g.app = a /\ ToSet(g.vec) = {} /\ g.at = "update"
    BY <2>2, <2>3 DEF Frame, Frames, Phases, Early, ToSet
  <2>5. stack \in Seq(Frames) /\ stack' = <<g>> \o stack
    BY <1>1, <1>6, <2>3 DEF Typed
  <2>6. /\ stack' \in Seq(Frames) /\ stack' # <<>>
        /\ \A k \in DOMAIN stack' : stack'[k] = g \/ \E i \in DOMAIN stack : stack'[k] = stack[i]
    BY <2>4, <2>5, Pushed
  <2>7. apps \subseteq apps' /\ a \in apps'
    BY <1>6
  <2>8. \A k \in DOMAIN stack' : stack'[k].app \in apps' /\ ToSet(stack'[k].vec) \subseteq apps'
    <3> SUFFICES ASSUME NEW k \in DOMAIN stack'
                 PROVE  stack'[k].app \in apps' /\ ToSet(stack'[k].vec) \subseteq apps'
      OBVIOUS
    <3>1. CASE stack'[k] = g
      BY <2>4, <2>7, <3>1
    <3>2. CASE \E i \in DOMAIN stack : stack'[k] = stack[i]
      <4>1. PICK i \in DOMAIN stack : stack'[k] = stack[i]
        BY <3>2
      <4>2. stack[i].app \in apps /\ ToSet(stack[i].vec) \subseteq apps
        BY <1>1 DEF Typed, TypeOK
      <4> QED
        BY <2>7, <4>1, <4>2
    <3> QED
      BY <2>6, <3>1, <3>2
  <2>9. /\ apps' \subseteq Apps /\ ready' \subseteq apps' /\ stale' \subseteq apps'
        /\ DOMAIN read' = {b[1] : b \in apps'} /\ IsFiniteSet(DOMAIN read')
    <3>1. /\ apps \subseteq Apps /\ ready \subseteq apps /\ stale \subseteq apps
          /\ DOMAIN read = {b[1] : b \in apps} /\ IsFiniteSet(DOMAIN read)
      BY <1>1 DEF Typed, TypeOK
    <3>2. DOMAIN read' = DOMAIN read \cup {super}
      BY <1>6, AddedFacts
    <3>3. IsFiniteSet(DOMAIN read')
      BY <3>1, <3>2, FS_AddElement
    <3> QED
      BY <1>3, <1>6, <2>2, <3>1, <3>2, <3>3
  <2>10. Typed'
    BY <1>1, <1>3, <1>6, <2>6, <2>7, <2>8, <2>9 DEF Typed, TypeOK
  <2>11. Kept
    BY <1>3, <2>7 DEF Kept
  <2>12. \A k \in DOMAIN stack' : stack'[k] = g => Passed(stack[k])' = {}
    BY <2>4 DEF Passed, Early
  <2>13. PassedFound'
    BY <1>1, <2>6, <2>11, <2>12, PassedKept
  <2> QED
    BY <1>4, <2>1, <2>10, <2>13 DEF FetchInv
<1>7. CASE Ends("super") /\ UNCHANGED <<apps, read, ready>>
  <2>1. Typed'
    BY <1>1, <1>3, <1>7 DEF Typed, TypeOK, Ends
  <2>2. LoadedOK'
    BY <1>1, <1>3, <1>7, LoadedSame
  <2> QED
    BY <1>7, <2>1, <2>2, EndedStep DEF Ends
<1> QED
  BY <1>5, <1>6, <1>7 DEF SetSuper

\* The running call comes to its next entry.
LEMMA Next1 ==
  ASSUME Typed, stack # <<>>
  PROVE  LET f == [top EXCEPT !.i = @ + 1] IN
         f \in Frames /\ f.app = me /\ f.vec = top.vec /\ f.at = top.at /\ f.i = top.i + 1
<1>1. top \in Frames
  BY Here
<1>2. top.i \in Nat /\ top.i + 1 \in Nat \ {0}
  BY <1>1 DEF Frames
<1> QED
  BY <1>1, <1>2 DEF Frames, me

\* What is remembered of an entry that is resolved.
LEMMA Remembered ==
  ASSUME FetchInv, NEW where \in Listed \ {"sub"}, Resolved(where),
         NEW p, p = WriteCacheVersion(entry, kind)
  PROVE  /\ \A x \in DOMAIN p : x[1] \in Dirs /\ p[x] \in Versions
         /\ \A x \in DOMAIN pinned : x \in DOMAIN p /\ p[x] = pinned[x]
<1>1. Typed /\ InAsk
  BY DEF FetchInv
<1>2. /\ stack # <<>> /\ top.at = where /\ Listing /\ entry \in EntryType
      /\ kind \in {"dep", "mod", "sub"} /\ (entry.local \/ Known(entry, kind) # None)
  BY <1>1, ResolvedKnown
<1>3. PICK t : t = kind
  OBVIOUS
<1>4. Known(entry, t) \in Versions \cup {None, Several} /\ home \in Dirs
  BY <1>1, <1>2, <1>3, KnownFacts, Here
<1>5. \/ p = pinned
      \/ Known(entry, t) \in Versions /\ p = Added(pinned, Pin(t, entry.name), Known(entry, t))
  BY <1>2, <1>3, <1>4 DEF WriteCacheVersion
<1>6. Pin(t, entry.name)[1] \in Dirs
  BY <1>4 DEF Pin
<1>7. \A x \in DOMAIN pinned : x[1] \in Dirs /\ pinned[x] \in Versions
  BY <1>1 DEF Typed, TypeOK
<1> QED
  BY <1>5, <1>6, <1>7 DEF Added

\* What getIfMissing finds, or makes a directory for, is found.
LEMMA GotFound ==
  ASSUME FetchInv, NEW where \in {"missingMod", "missing"}, Resolved(where),
         NEW h, h = home, NEW e, e = entry, NEW t, t = kind,
         pinned' = WriteCacheVersion(entry, kind), apps' = apps,
         Target \in Dirs => tree'[Target] # "none"
  PROVE  Found(h, e, t)'
<1>1. Typed /\ InAsk
  BY DEF FetchInv
<1>2. stack # <<>> /\ top.at = where /\ Listing /\ e \in EntryType
      /\ (e.local \/ Known(e, t) # None)
  BY <1>1, ResolvedKnown
<1>3. e.name \in Names /\ e.version \in Versions \cup {None} /\ t \in Places
      /\ t \in {"dep", "mod", "sub"} /\ t # "sub"
  <2>1. t \in Places
    BY <1>1, <1>2, Entry
  <2> QED
    BY <1>2, <2>1 DEF EntryType, Places
<1>4. Known(e, t) \in Versions \cup {None, Several} /\ Target = Directory(e, t) /\ h \in Dirs
  <2>1. Target = Directory(e, t) /\ h \in Dirs
    BY <1>1, <1>2, Here DEF Target
  <2> QED
    BY <1>1, <1>2, <1>3, <2>1, KnownFacts
<1>5. \A n : Loaded(n)' = Loaded(n)
  BY DEF Loaded
<1>6. CASE e.local
  BY <1>1, <1>2, <1>3, <1>4, <1>6, Directories DEF Found
<1>7. CASE ~e.local /\ e.version # None
  <2>1. Known(e, t) = e.version /\ e.version \in Versions
    BY <1>1, <1>2, <1>3, <1>7, KnownFacts
  <2>2. Directory(e, t) = Repo(t, e.name, e.version) /\ Directory(e, t) \in Dirs
    BY <1>1, <1>2, <1>3, <1>7, <2>1, Directories
  <2> QED
    BY <1>4, <1>7, <2>2 DEF Found
<1>8. CASE ~e.local /\ e.version = None /\ Loaded(e.name) # {}
  BY <1>5, <1>8 DEF Found
<1>9. CASE ~e.local /\ e.version = None /\ Loaded(e.name) = {}
  <2>1. Known(e, t) = IF Pin(t, e.name) \in DOMAIN pinned THEN pinned[Pin(t, e.name)] ELSE ask.v
    BY <1>1, <1>2, <1>3, <1>9, KnownFacts
  <2>2. ~(Cardinality(Loaded(e.name)) > 1)
    <3>1. PICK c : c = Cardinality(Loaded(e.name))
      OBVIOUS
    <3>2. c = 0
      BY <1>1, <1>9, <3>1, LoadedFacts
    <3> QED
      BY <3>1, <3>2
  <2>3. Known(e, t) \in Versions /\ Known(e, t) # Several
    <3>1. Known(e, t) # Several
      BY <1>1, <1>2, <1>3, <1>9, <2>2, KnownFacts
    <3> QED
      BY <1>2, <1>4, <1>9, <3>1, VersionTags
  <2>4. pinned' = Added(pinned, Pin(t, e.name), Known(e, t))
    BY <1>9, <2>3 DEF WriteCacheVersion
  <2>5. /\ Pin(t, e.name) \in DOMAIN pinned'
        /\ pinned'[Pin(t, e.name)] = Known(e, t)
    BY <2>1, <2>4 DEF Added
  <2>6. Directory(e, t) = Repo(t, e.name, Known(e, t)) /\ Directory(e, t) \in Dirs
    BY <1>1, <1>2, <1>3, <1>9, <2>3, Directories
  <2>7. Pin(t, e.name) = <<h, t, e.name>>
    BY DEF Pin
  <2>8. tree'[Repo(t, e.name, pinned'[<<h, t, e.name>>])] # "none"
    BY <1>4, <2>5, <2>6, <2>7
  <2> QED
    BY <1>9, <2>5, <2>7, <2>8 DEF Found
<1> QED
  BY <1>3, <1>6, <1>7, <1>8, <1>9

\* The call has come past its entry, which has been found.
LEMMA PassedEntry ==
  ASSUME FetchInv, status = "run", Kept, Listing, top.at \in {"sub", "missingMod", "missing"},
         NEW f, f = [top EXCEPT !.i = @ + 1], NEW h, h = home, NEW e, e = entry, NEW t, t = kind,
         top.at # "sub" => Found(h, e, t)'
  PROVE  \A x \in Passed(f) : Found(h, x, KindAt(f.at))'
<1> SUFFICES ASSUME NEW x \in Passed(f)
             PROVE  Found(h, x, KindAt(f.at))'
  OBVIOUS
<1>1. Typed /\ stack # <<>>
  BY DEF FetchInv, Listing
<1>2. f \in Frames /\ f.app = me /\ f.vec = top.vec /\ f.at = top.at /\ f.i = top.i + 1
  BY <1>1, Next1
<1>3. CASE top.at = "sub"
  BY <1>2, <1>3 DEF Passed, Early
<1>4. CASE top.at # "sub"
  <2>1. /\ t = KindAt(top.at) /\ t \in Places /\ list = Group(me, t) /\ list \in Seq(EntryType)
        /\ top.at \in {"missingMod", "missing"} /\ top.i \in DOMAIN list
    BY <1>1, <1>4, Entry, Here
  <2>2. PICK k : k \in DOMAIN list /\ k < top.i + 1 /\ x = list[k]
    BY <1>2, <2>1 DEF Passed, Early
  <2>3. /\ top \in Frames /\ 1 \in DOMAIN stack /\ top = stack[1] /\ h \in Dirs /\ h = me[1]
    BY <1>1, Here
  <2>4. k \in Nat /\ top.i \in Nat
    <3>1. DOMAIN list = 1..Len(list) /\ Len(list) \in Nat
      BY <2>1
    <3> QED
      BY <2>1, <2>2, <3>1
  <2>5. CASE k = top.i
    <3>1. x = e
      BY <2>2, <2>5 DEF entry
    <3>2. Found(h, x, t)'
      BY <1>4, <3>1
    <3> QED
      BY <1>2, <2>1, <3>2
  <2>6. CASE k < top.i
    <3>1. x \in Passed(top)
      BY <2>1, <2>2, <2>6 DEF Passed, Early, me
    <3>2. Found(h, x, t)
      BY <2>1, <2>3, <3>1 DEF FetchInv, PassedFound, me
    <3>3. x \in EntryType
      BY <1>1, <2>3, <3>1, PassedEntries
    <3>4. Found(h, x, t)'
      BY <1>1, <2>1, <2>3, <3>2, <3>3, FoundKept
    <3> QED
      BY <1>2, <2>1, <3>4
  <2>7. PICK m \in Nat : m = top.i
    BY <2>4
  <2>8. k = m \/ k < m
    BY <2>2, <2>4, <2>7
  <2> QED
    BY <2>5, <2>6, <2>7, <2>8
<1> QED
  BY <1>3, <1>4

\* And so have those behind it, in the frame it goes on with.
LEMMA OnwardPassed ==
  ASSUME FetchInv, status = "run", Kept, Listing, top.at \in {"sub", "missingMod", "missing"},
         NEW f, f = [top EXCEPT !.i = @ + 1], NEW h, h = home, NEW e, e = entry, NEW t, t = kind,
         top.at # "sub" => Found(h, e, t)', NEW j \in DOMAIN stack', stack'[j] = f
  PROVE  \A x \in Passed(stack[j])' : Found(stack[j].app[1], x, KindAt(stack[j].at))'
<1> SUFFICES ASSUME NEW x \in Passed(stack[j])'
             PROVE  Found(stack[j].app[1], x, KindAt(stack[j].at))'
  OBVIOUS
<1>1. PICK g : g = stack'[j]
  OBVIOUS
<1>5. PICK k : g = f /\ k = KindAt(f.at)
  BY <1>1
<1>2. x \in Passed(g)
  <2>1. Passed(stack[j])' = Passed(g)'
    BY <1>1 DEF Passed, Group, MissingOf, ListsOf
  <2> QED
    BY <2>1, PassedSame DEF Kept
<1>3. Found(h, x, k)'
  BY <1>2, <1>5, PassedEntry
<1>4. stack'[j].app[1] = h /\ KindAt(stack'[j].at) = k
  <2>1. f.app = me
    BY Next1 DEF FetchInv, Listing
  <2> QED
    BY <1>5, <2>1 DEF home
<1> QED
  BY <1>3, <1>4 DEF Found, Loaded, KindAt

\* An entry of sub: or of the lists of missing ones is found, its directory is
\* made for a clone, or no remote answers.
LEMMA GetIfMissingKeeps ==
  ASSUME FetchInv, GetIfMissing
  PROVE  FetchInv'
<1>1. Typed /\ InAsk /\ LoadedOK
  BY DEF FetchInv
<1>2. PICK where \in {"sub", "missingMod", "missing"} : Resolved(where)
  BY DEF GetIfMissing
<1>3. /\ status = "run" /\ stack # <<>> /\ top.at = where /\ Listing
      /\ top.at # "sub" => where \in {"missingMod", "missing"} /\ kind \in Places
      /\ entry \in EntryType
      /\ entry.local \/ Known(entry, kind) # None
  <2>1. /\ status = "run" /\ stack # <<>> /\ top.at = where /\ Listing /\ entry \in EntryType
        /\ entry.local \/ Known(entry, kind) # None
    BY <1>1, <1>2, ResolvedKnown
  <2>2. top.at # "sub" => where \in {"missingMod", "missing"} /\ kind \in Places
    BY <1>1, <1>2, <2>1, Entry
  <2> QED
    BY <2>1, <2>2
<1>4. UNCHANGED <<world, net, trouble, new, limited, apps, par, ready, read, updated, reloaded, stale>>
  BY DEF GetIfMissing
<1>5. me \in apps /\ home \in Dirs /\ ToSet(top.vec) \subseteq apps /\ top \in Frames
  BY <1>1, <1>3, Here
<1>6. entry.name \in Names /\ entry.version \in Versions \cup {None}
  BY <1>3 DEF EntryType
<1>7. PICK t : t = kind
  OBVIOUS
<1>8. top.at # "sub" => /\ Known(entry, t) \in Versions \cup {None, Several}
                        /\ t \in Places /\ t \in {"dep", "mod", "sub"} /\ t # "sub"
  <2> SUFFICES ASSUME top.at # "sub"
               PROVE  /\ Known(entry, t) \in Versions \cup {None, Several}
                      /\ t \in Places /\ t \in {"dep", "mod", "sub"} /\ t # "sub"
    OBVIOUS
  <2>1. t \in Places /\ t \in {"dep", "mod", "sub"} /\ t # "sub"
    BY <1>3, <1>7 DEF Places
  <2> QED
    BY <1>1, <1>3, <2>1, KnownFacts
<1>9. \/ Target \in Dirs
      \/ Target = RepoRoot
  <2>1. CASE top.at = "sub"
    BY <1>6, <2>1 DEF Target, Dirs
  <2>2. CASE top.at # "sub"
    <3>1. Target = Directory(entry, t)
      BY <1>7, <2>2 DEF Target
    <3> QED
      BY <1>1, <1>3, <1>7, <1>8, <2>2, <3>1, Directories
  <2> QED
    BY <2>1, <2>2
<1>10. /\ \A x \in DOMAIN pinned' : x[1] \in Dirs /\ pinned'[x] \in Versions
       /\ \A x \in DOMAIN pinned : x \in DOMAIN pinned' /\ pinned'[x] = pinned[x]
  <2>1. CASE top.at = "sub"
    <3>1. pinned' = pinned
      BY <2>1 DEF GetIfMissing, Pinned
    <3> QED
      BY <1>1, <3>1 DEF Typed, TypeOK
  <2>2. CASE top.at # "sub"
    <3>1. pinned' = WriteCacheVersion(entry, kind)
      BY <2>2 DEF GetIfMissing, Pinned
    <3> QED
      BY <1>2, <1>3, <2>2, <3>1, Remembered DEF Listed
  <2> QED
    BY <2>1, <2>2
<1>14. RepoRoot \notin Dirs /\ Exists(RepoRoot) /\ \A d \in Dirs : Exists(d) <=> tree[d] # "none"
  <2>1. "dep" \in Places
    BY DEF Places
  <2> QED
    BY <1>1, <1>3, <2>1, Directories DEF Exists
<1>15. ASSUME Target \in Dirs => tree'[Target] # "none", NEW h, h = home, NEW e, e = entry
       PROVE  top.at # "sub" => Found(h, e, t)'
  <2> SUFFICES ASSUME top.at # "sub"
               PROVE  Found(h, e, t)'
    OBVIOUS
  <2>1. pinned' = WriteCacheVersion(entry, kind)
    BY DEF GetIfMissing, Pinned
  <2> QED
    BY <1>2, <1>3, <1>4, <1>7, <1>15, <2>1, GotFound
<1>11. CASE Exists(Target) /\ Onward /\ ask' = Idle /\ UNCHANGED <<tree, status>>
  <2> DEFINE f == [top EXCEPT !.i = @ + 1]
  <2>1. Go(f)
    BY <1>11 DEF Onward
  <2>2. f \in Frames /\ f.app = me /\ f.vec = top.vec /\ f.at = top.at /\ f.i = top.i + 1
    BY <1>1, <1>3, Next1
  <2> HIDE DEF f
  <2>3. /\ stack' \in Seq(Frames) /\ stack' # <<>> /\ top' = f
        /\ \A j \in DOMAIN stack' : stack'[j].app \in apps' /\ ToSet(stack'[j].vec) \subseteq apps'
        /\ \A j \in DOMAIN stack' : stack'[j] = f \/ \E k \in DOMAIN stack : stack'[j] = stack[k]
    BY <1>1, <1>3, <1>4, <1>5, <2>1, <2>2, GoKeeps
  <2>4. Typed'
    BY <1>1, <1>4, <1>10, <1>11, <2>3, IdleFacts DEF Typed, TypeOK, Asked
  <2>5. InAsk'
    BY <1>11, IdleFacts, NoQueryAfter
  <2>6. LoadedOK'
    BY <1>1, <1>4, <1>11, LoadedSame
  <2>7. Kept
    BY <1>4, <1>10, <1>11 DEF Kept
  <2>8. PICK h, e : h = home /\ e = entry
    OBVIOUS
  <2>9. top.at # "sub" => Found(h, e, t)'
    <3>1. Target \in Dirs => tree'[Target] # "none"
      BY <1>11, <1>14
    <3> QED
      BY <1>15, <2>8, <3>1
  <2>12. \A j \in DOMAIN stack' : stack'[j] = f =>
          \A x \in Passed(stack[j])' : Found(stack[j].app[1], x, KindAt(stack[j].at))'
    BY <1>2, <1>3, <1>7, <2>7, <2>8, <2>9, OnwardPassed DEF f
  <2>10. PassedFound'
    BY <1>3, <2>3, <2>7, <2>12, PassedKept
  <2> QED
    BY <2>4, <2>5, <2>6, <2>10 DEF FetchInv
<1>12. CASE ~Exists(Target) /\ net # "down" /\ tree' = [tree EXCEPT ![Target] = "partial"]
             /\ ask' = [ask EXCEPT !.at = "co"] /\ UNCHANGED <<stack, status>>
  <2>1. Target \in Dirs /\ tree[Target] = "none"
    BY <1>9, <1>12, <1>14
  <2>2. tree' \in [Dirs -> {"none", "partial", "whole"}] /\ tree'[Target] = "partial"
        /\ \A d \in Dirs : d # Target => tree'[d] = tree[d]
    BY <1>1, <1>12, <2>1 DEF Typed, TypeOK
  <2>3. ask' \in Asked /\ ask'.at = "co" /\ ask'.v = ask.v
    BY <1>1, <1>12 DEF Typed, Asked
  <2>4. Typed'
    <3>1. ask'.v \in Versions \cup {None}
      BY <2>3 DEF Asked
    <3> QED
      BY <1>1, <1>4, <1>10, <1>12, <2>2, <2>3, <3>1 DEF Typed, TypeOK
  <2>5. Kept
    BY <1>4, <1>10, <2>1, <2>2 DEF Kept
  <2>6. LoadedOK'
    BY <1>1, <1>4, <2>1, <2>2, LoadedSame
  <2>7. PassedFound'
    BY <1>3, <1>12, <2>5, PassedKept
  <2>8. Target' = Target
    <3>1. top' = top /\ entry' = entry /\ home' = home /\ kind' = kind
      BY <1>4, <1>12 DEF entry, top, list, lists, me, missing, home, kind
    <3>2. CASE top.at = "sub"
      BY <3>1, <3>2 DEF Target
    <3>3. CASE top.at # "sub"
      <4>1. PICK e : e = entry
        OBVIOUS
      <4>2. \A n : Loaded(n)' = Loaded(n)
        BY <1>4 DEF Loaded
      <4>3. \A x : Pin(x, e.name)' = Pin(x, e.name)
        BY <3>1 DEF Pin
      <4>4. Target' = Directory(e, t)' /\ Target = Directory(e, t)
        <5>1. Target = Directory(e, t)
          BY <1>7, <3>3, <4>1 DEF Target
        <5>2. Target' = Directory(entry, kind)'
          BY <3>1, <3>3 DEF Target
        <5>3. entry' = e /\ kind' = t
          BY <1>7, <3>1, <4>1
        <5>4. Known(entry, kind)' = Known(e, t)'
          BY <5>3 DEF Known, Loaded, Pin
        <5>5. Directory(entry, kind)' = Directory(e, t)'
          BY <5>3, <5>4 DEF Directory
        <5> QED
          BY <5>1, <5>2, <5>5
      <4>5. CASE e.local
        BY <4>4, <4>5 DEF Directory
      <4>6. CASE ~e.local /\ (e.version # None \/ Loaded(e.name) # {})
        <5>1. Known(e, t)' = Known(e, t)
          <6>1. CASE e.version # None
            BY <6>1 DEF Known
          <6>2. CASE e.version = None /\ Loaded(e.name) # {}
            <7>1. PICK L : L = Loaded(e.name) /\ L = Loaded(e.name)'
              BY <4>2
            <7>2. Known(e, t) = IF Cardinality(L) > 1 THEN Several ELSE (CHOOSE d \in L : TRUE)[3]
              BY <1>8, <3>3, <6>2, <7>1 DEF Known
            <7>3. Known(e, t)' = IF Cardinality(L) > 1 THEN Several ELSE (CHOOSE d \in L : TRUE)[3]
              BY <1>8, <3>3, <6>2, <7>1 DEF Known
            <7> QED
              BY <7>2, <7>3
          <6> QED
            BY <4>6, <6>1, <6>2
        <5> QED
          BY <4>4, <4>6, <5>1 DEF Directory
      <4>7. CASE ~e.local /\ e.version = None /\ Loaded(e.name) = {}
        <5>1. Known(e, t) \in Versions
          <6>1. ~(Cardinality(Loaded(e.name)) > 1)
            <7>1. PICK c : c = Cardinality(Loaded(e.name))
              OBVIOUS
            <7>2. c = 0
              BY <1>1, <4>7, <7>1, LoadedFacts
            <7> QED
              BY <7>1, <7>2
          <6> QED
            BY <1>1, <1>3, <1>7, <1>8, <3>3, <4>1, <4>7, <6>1, KnownFacts
        <5>2. Known(e, t) = IF Pin(t, e.name) \in DOMAIN pinned THEN pinned[Pin(t, e.name)] ELSE ask.v
          BY <1>1, <1>3, <1>8, <3>3, <4>1, <4>7, KnownFacts
        <5>3. pinned' = Added(pinned, Pin(t, e.name), Known(e, t))
          <6>1. Known(e, t) # Several
            BY <5>1, VersionTags
          <6>2. pinned' = WriteCacheVersion(e, t)
            BY <1>7, <3>3, <4>1 DEF GetIfMissing, Pinned
          <6> QED
            BY <4>7, <6>1, <6>2 DEF WriteCacheVersion
        <5>4. Pin(t, e.name) \in DOMAIN pinned' /\ pinned'[Pin(t, e.name)] = Known(e, t)
          BY <5>2, <5>3 DEF Added
        <5>5. Known(e, t)' = Known(e, t)
          BY <4>2, <4>3, <4>7, <5>4 DEF Known
        <5> QED
          BY <4>4, <4>7, <5>5 DEF Directory
      <4>8. e.version \in Versions \cup {None}
        BY <1>6, <4>1
      <4> QED
        BY <4>5, <4>6, <4>7
    <3> QED
      BY <3>2, <3>3
  <2>9. InAsk'
    <3>1. top' = top /\ list' = list /\ home' = home /\ entry' = entry /\ kind' = kind
      BY <1>4, <1>12 DEF top, list, lists, missing, me, home, entry, kind
    <3>2. top.at # "sub" => Found(home, entry, kind)'
      <4>1. PICK h, e : h = home /\ e = entry
        OBVIOUS
      <4>2. top.at # "sub" => Found(h, e, t)'
        BY <1>15, <2>2, <4>1
      <4> QED
        BY <1>7, <3>1, <4>1, <4>2 DEF Found, Loaded
    <3>3. top.at \in Listed /\ top.i <= Len(list)
      BY <1>1, <1>3, Entry DEF Listing
    <3> QED
      BY <1>2, <1>3, <2>1, <2>2, <2>3, <2>8, <3>1, <3>2, <3>3 DEF InAsk
  <2> QED
    BY <2>4, <2>6, <2>7, <2>9 DEF FetchInv
<1>13. CASE ~Exists(Target) /\ net = "down" /\ Ends("noscm") /\ ask' = Idle /\ UNCHANGED tree
  <2>1. Typed'
    BY <1>1, <1>4, <1>10, <1>13, IdleFacts DEF Typed, TypeOK, Asked, Ends
  <2>2. LoadedOK'
    BY <1>1, <1>4, <1>13, LoadedSame
  <2> QED
    BY <1>13, <2>1, <2>2, EndedStep DEF Ends
<1> QED
  BY <1>11, <1>12, <1>13 DEF GetIfMissing


\* A clone that ends, with or without its directory, keeps the invariant.
LEMMA CheckoutKeeps ==
  ASSUME FetchInv, Checkout
  PROVE  FetchInv'
<1>1. Typed /\ InAsk /\ LoadedOK
  BY DEF FetchInv
<1>2. Listing /\ status = "run" /\ stack # <<>> /\ ask.at = "co" /\ ask' = Idle
  BY DEF Checkout, Asking, Listing
<1>3. /\ top.at \in {"sub", "missingMod", "missing"} /\ Target \in Dirs /\ tree[Target] = "partial"
      /\ top.at # "sub" => Found(home, entry, kind)
  BY <1>1, <1>2 DEF InAsk
<1>4. UNCHANGED <<world, net, limited, apps, par, ready, read, updated, reloaded, stale>>
  BY DEF Checkout
<1>5. me \in apps /\ home \in Dirs /\ ToSet(top.vec) \subseteq apps /\ top \in Frames
  BY <1>1, <1>2, Here
<1>6. entry \in EntryType /\ (top.at # "sub" => kind \in Places)
  BY <1>1, <1>2, Entry
<1>7. CASE /\ tree' = [tree EXCEPT ![Target] = "whole"] /\ new' = new \cup {Target}
           /\ Onward /\ UNCHANGED <<status, trouble, pinned>>
  <2>1. /\ tree' \in [Dirs -> {"none", "partial", "whole"}] /\ tree'[Target] = "whole"
        /\ \A d \in Dirs : d # Target => tree'[d] = tree[d]
        /\ new' \subseteq Dirs
    BY <1>1, <1>3, <1>7 DEF Typed, TypeOK
  <2>2. PICK f : f = [top EXCEPT !.i = @ + 1]
    OBVIOUS
  <2>3. f \in Frames /\ f.app = me /\ f.vec = top.vec
    BY <1>1, <1>2, <2>2, Next1
  <2>4. /\ stack' \in Seq(Frames) /\ stack' # <<>> /\ top' = f
        /\ \A j \in DOMAIN stack' : stack'[j].app \in apps' /\ ToSet(stack'[j].vec) \subseteq apps'
        /\ \A j \in DOMAIN stack' : stack'[j] = f \/ \E k \in DOMAIN stack : stack'[j] = stack[k]
    BY <1>1, <1>2, <1>4, <1>5, <1>7, <2>2, <2>3, GoKeeps DEF Onward
  <2>5. Typed'
    BY <1>1, <1>2, <1>4, <1>7, <2>1, <2>4, IdleFacts DEF Typed, TypeOK, Asked
  <2>6. InAsk'
    BY <1>2, IdleFacts, NoQueryAfter
  <2>7. LoadedOK'
    BY <1>1, <1>3, <1>4, <2>1, LoadedSame
  <2>8. Kept
    BY <1>3, <1>4, <1>7, <2>1 DEF Kept
  <2>9. PICK h, e, t : h = home /\ e = entry /\ t = kind
    OBVIOUS
  <2>10. top.at # "sub" => Found(h, e, t)'
    BY <1>1, <1>3, <1>5, <1>6, <2>8, <2>9, FoundKept
  <2>12. \A j \in DOMAIN stack' : stack'[j] = f =>
           \A x \in Passed(stack[j])' : Found(stack[j].app[1], x, KindAt(stack[j].at))'
    BY <1>2, <1>3, <2>2, <2>8, <2>9, <2>10, OnwardPassed
  <2>13. PassedFound'
    BY <1>2, <2>4, <2>8, <2>12, PassedKept
  <2> QED
    BY <2>5, <2>6, <2>7, <2>13 DEF FetchInv
<1>8. CASE /\ tree' = [tree EXCEPT ![Target] = "whole"] /\ new' = new \cup {Target}
           /\ trouble > 0 /\ trouble' = trouble - 1 /\ Ends("init") /\ UNCHANGED pinned
  <2>1. /\ tree' \in [Dirs -> {"none", "partial", "whole"}] /\ new' \subseteq Dirs
        /\ \A d \in Dirs : tree[d] = "whole" => tree'[d] = "whole"
    BY <1>1, <1>3, <1>8 DEF Typed, TypeOK
  <2>2. trouble' \in 0..Troubles
    <3>1. trouble \in 0..Troubles /\ Troubles \in Nat
      BY <1>1, FetchAssumption DEF Typed, TypeOK
    <3> QED
      BY <1>8, <3>1
  <2>3. Typed'
    BY <1>1, <1>2, <1>4, <1>8, <2>1, <2>2, IdleFacts DEF Typed, TypeOK, Asked, Ends
  <2>4. LoadedOK'
    BY <1>1, <1>4, <2>1, LoadedSame
  <2> QED
    BY <1>8, <2>3, <2>4, EndedStep DEF Ends
<1>9. CASE /\ tree' = [tree EXCEPT ![Target] = "none"] /\ Ends("scm") /\ UNCHANGED <<new, trouble>>
           /\ pinned' = [x \in DOMAIN pinned \ {Pin(t, entry.name) : t \in {kind} \ {"sub"}} |-> pinned[x]]
  <2>1. /\ tree' \in [Dirs -> {"none", "partial", "whole"}]
        /\ \A d \in Dirs : tree[d] = "whole" => tree'[d] = "whole"
    BY <1>1, <1>3, <1>9 DEF Typed, TypeOK
  <2>2. \A x \in DOMAIN pinned' : x[1] \in Dirs /\ pinned'[x] \in Versions
    <3>1. \A x \in DOMAIN pinned : x[1] \in Dirs /\ pinned[x] \in Versions
      BY <1>1 DEF Typed, TypeOK
    <3> QED
      BY <1>9, <3>1
  <2>3. Typed'
    BY <1>1, <1>2, <1>4, <1>9, <2>1, <2>2, IdleFacts DEF Typed, TypeOK, Asked, Ends
  <2>4. LoadedOK'
    BY <1>1, <1>4, <2>1, LoadedSame
  <2> QED
    BY <1>9, <2>3, <2>4, EndedStep DEF Ends
<1> QED
  BY <1>7, <1>8, <1>9 DEF Checkout


\* The later phases of a part have all of its entries behind them.
LEMMA LaterPassed ==
  ASSUME NEW f, f.at \in ModLater \cup DepLater
  PROVE  Passed(f) = ToSet(Group(f.app, KindAt(f.at)))
BY DEF Passed, ModLater, DepLater, Early

\* The frames still have only found entries behind them when the running call
\* goes on with a later phase of its part.
LEMMA LaterKeeps ==
  ASSUME FetchInv, status = "run", stack # <<>>, Kept, NEW f, f.app = me,
         \/ f.at \in ModLater /\ top.at \in ModLater
         \/ f.at \in DepLater /\ top.at \in DepLater,
         NEW j \in DOMAIN stack', stack'[j] = f
  PROVE  \A x \in Passed(stack[j])' : Found(stack[j].app[1], x, KindAt(stack[j].at))'
<1> SUFFICES ASSUME NEW x \in Passed(stack[j])'
             PROVE  Found(stack[j].app[1], x, KindAt(stack[j].at))'
  OBVIOUS
<1>1. Typed
  BY DEF FetchInv
<1>2. /\ top \in Frames /\ top = stack[1] /\ 1 \in DOMAIN stack /\ home \in Dirs /\ home = me[1]
  BY <1>1, Here
<1>3. PICK g : g = stack'[j]
  OBVIOUS
<1>4. PICK h, t : h = home /\ t = KindAt(f.at)
  OBVIOUS
<1>5. t = KindAt(top.at) /\ t \in Places
  BY <1>4 DEF KindAt, ModLater, DepLater, Places
<1>6. x \in Passed(g)
  <2>1. Passed(stack[j])' = Passed(g)'
    BY <1>3 DEF Passed, Group, MissingOf, ListsOf
  <2> QED
    BY <2>1, PassedSame DEF Kept
<1>7. Passed(f) = ToSet(Group(me, t)) /\ Passed(top) = ToSet(Group(me, t))
  <2>1. f.at \in ModLater \cup DepLater /\ top.at \in ModLater \cup DepLater
    OBVIOUS
  <2> QED
    BY <1>4, <1>5, <2>1, LaterPassed DEF me
<1>8. x \in Passed(top) /\ x \in EntryType
  BY <1>1, <1>2, <1>3, <1>6, <1>7, PassedEntries
<1>9. Found(h, x, t)
  BY <1>2, <1>4, <1>5, <1>8 DEF FetchInv, PassedFound, me
<1>10. Found(h, x, t)'
  BY <1>1, <1>2, <1>4, <1>5, <1>8, <1>9, FoundKept
<1>11. stack'[j].app[1] = h /\ KindAt(stack'[j].at) = t
  BY <1>2, <1>4
<1> QED
  BY <1>10, <1>11 DEF Found, Loaded, KindAt

\* Loading one more directory leaves a project with one version, and in one
\* repository.
LEMMA LoadKeepsOnce ==
  ASSUME FetchInv, NEW where \in Listed \ {"sub"}, Resolved(where), world' = world,
         NEW d, d = Directory(entry, kind), d \in Dirs,
         NEW a, a[1] = d, apps' = apps \cup {a}
  PROVE  LoadedOnce' /\ LoadedWhere' /\ d[2] = entry.name
<1>1. Typed /\ InAsk /\ LoadedOK
  BY DEF FetchInv
<1>2. /\ status = "run" /\ stack # <<>> /\ top.at = where /\ Listing /\ entry \in EntryType
      /\ entry.local \/ Known(entry, kind) # None
  BY <1>1, ResolvedKnown
<1>3. entry \in Entries(kind) /\ kind \in Places /\ entry.name \in Names
  BY <1>1, <1>2, Entry DEF EntryType
<1>4. PICK e, t : e = entry /\ t = kind
  OBVIOUS
<1>5. /\ e \in EntryType /\ e \in Entries(t) /\ e.name \in Names /\ d = Directory(e, t)
      /\ e.local \/ Known(e, t) # None
      /\ t \in Places /\ t \in {"dep", "mod", "sub"} /\ t # "sub"
  BY <1>2, <1>3, <1>4 DEF Places
<1>6. Known(e, t) \in Versions \cup {None, Several}
  BY <1>1, <1>5, KnownFacts
<1>7. ~e.local => Known(e, t) \in Versions /\ d = Repo(t, e.name, Known(e, t))
  <2> SUFFICES ASSUME ~e.local
               PROVE  Known(e, t) \in Versions /\ d = Repo(t, e.name, Known(e, t))
    OBVIOUS
  <2>1. Known(e, t) # Several /\ Known(e, t) # None
    BY <1>1, <1>5, Directories
  <2> QED
    BY <1>1, <1>5, <1>6, <2>1, Directories
<1>8. d[2] = e.name
  <2>1. CASE e.local
    BY <1>1, <1>5, <2>1, Directories, DirName
  <2>2. CASE ~e.local
    BY <1>7, <2>2, DirName
  <2> QED
    BY <2>1, <2>2
<1>9. \A n : Loaded(n)' = IF n = e.name THEN Loaded(n) \cup {d} ELSE Loaded(n)
  <2> SUFFICES ASSUME NEW n
               PROVE  Loaded(n)' = IF n = e.name THEN Loaded(n) \cup {d} ELSE Loaded(n)
    OBVIOUS
  <2>1. Loaded(n)' = {b[1] : b \in {c \in apps \cup {a} : c[1][2] = n}}
    BY DEF Loaded
  <2> QED
    BY <1>8, <2>1 DEF Loaded
<1>10. \A n : Placed(n)' = Placed(n) /\ Uses(n)' = Uses(n)
  BY DEF Placed, Uses, Entries
<1>11. LoadedOnce'
  <2> SUFFICES ASSUME NEW n \in Names, ~Placed(n), n = e.name
               PROVE  \E v \in Versions : \A x \in Loaded(n) \cup {d} : x[3] = v
    BY <1>1, <1>9, <1>10 DEF LoadedOK, LoadedOnce
  <2>1. e.version = None /\ ~e.local
    BY <1>5, UsesFacts DEF Plain
  <2>2. Known(e, t) \in Versions /\ d[3] = Known(e, t)
    BY <1>7, <2>1, DirName
  <2>3. CASE Loaded(n) = {}
    BY <2>2, <2>3
  <2>4. CASE Loaded(n) # {}
    <3>1. Cardinality(Loaded(n)) = 1
      <4>1. Cardinality(Loaded(n)) = 1 \/ Cardinality(Loaded(n)) > 1
        BY <1>1, <2>4, LoadedFacts
      <4>2. ~(Cardinality(Loaded(n)) > 1)
        BY <1>1, <1>5, <2>1, <2>2, KnownFacts, VersionTags
      <4> QED
        BY <4>1, <4>2
    <3>2. PICK x : Loaded(n) = {x} /\ Known(e, t) = x[3]
      BY <1>1, <1>5, <2>1, <3>1, KnownFacts
    <3> QED
      BY <2>2, <3>2
  <2> QED
    BY <2>3, <2>4
<1>12. LoadedWhere'
  <2> SUFFICES ASSUME NEW n \in Names, NEW u \in Places, Uses(n) = {u}, n = e.name
               PROVE  \A x \in Loaded(n) \cup {d} : x[1] = u
    BY <1>1, <1>9, <1>10 DEF LoadedOK, LoadedWhere
  <2>1. ~Placed(n)
    BY <1>5, UsesFacts
  <2>2. e.version = None /\ ~e.local /\ t = u
    BY <1>5, <2>1, UsesFacts DEF Plain
  <2>3. d[1] = u
    BY <1>7, <2>2, DirName
  <2> QED
    BY <1>1, <2>3 DEF LoadedOK, LoadedWhere
<1> QED
  BY <1>4, <1>8, <1>11, <1>12

\* An entry that is dropped, loaded or not there keeps the invariant.
LEMMA PopDepOrModKeeps ==
  ASSUME FetchInv, PopDepOrMod
  PROVE  FetchInv'
<1>1. Typed /\ InAsk /\ LoadedOK
  BY DEF FetchInv
<1>2. PICK where \in {"mod", "dep", "with"} : Resolved(where)
  BY DEF PopDepOrMod
<1>16. where \in Listed \ {"sub"} /\ where \in ModLater \cup DepLater
  BY DEF Listed, ModLater, DepLater
<1>3. /\ status = "run" /\ stack # <<>> /\ top.at = where /\ Listing /\ entry \in EntryType
  BY <1>1, <1>2, ResolvedKnown
<1>4. UNCHANGED <<world, net, trouble, tree, new, limited, ready, updated, reloaded, stale>>
      /\ ask' = Idle /\ pinned' = WriteCacheVersion(entry, kind)
  BY DEF PopDepOrMod
<1>5. me \in apps /\ home \in Dirs /\ ToSet(top.vec) \subseteq apps /\ top \in Frames
      /\ entry.profile \in Profiles
  BY <1>1, <1>3, Here DEF EntryType
<1>6. /\ \A x \in DOMAIN pinned' : x[1] \in Dirs /\ pinned'[x] \in Versions
      /\ \A x \in DOMAIN pinned : x \in DOMAIN pinned' /\ pinned'[x] = pinned[x]
  BY <1>2, <1>4, <1>16, Remembered
<1>7. InAsk'
  BY <1>4, IdleFacts, NoQueryAfter
<1>8. CASE Onward /\ UNCHANGED <<apps, par, read, status>>
  <2>1. PICK f : f = [top EXCEPT !.i = @ + 1]
    OBVIOUS
  <2>2. f \in Frames /\ f.app = me /\ f.vec = top.vec /\ f.at = top.at
    BY <1>1, <1>3, <2>1, Next1
  <2>3. /\ stack' \in Seq(Frames) /\ stack' # <<>>
        /\ \A j \in DOMAIN stack' : stack'[j].app \in apps' /\ ToSet(stack'[j].vec) \subseteq apps'
        /\ \A j \in DOMAIN stack' : stack'[j] = f \/ \E k \in DOMAIN stack : stack'[j] = stack[k]
    BY <1>1, <1>3, <1>5, <1>8, <2>1, <2>2, GoKeeps DEF Onward
  <2>4. Typed'
    BY <1>1, <1>4, <1>6, <1>8, <2>3, IdleFacts DEF Typed, TypeOK, Asked
  <2>5. LoadedOK'
    BY <1>1, <1>4, <1>8, LoadedSame
  <2>6. Kept
    BY <1>4, <1>6, <1>8 DEF Kept
  <2>7. PassedFound'
    BY <1>3, <1>16, <2>2, <2>3, <2>6, LaterKeeps, PassedKept
  <2> QED
    BY <1>7, <2>4, <2>5, <2>7 DEF FetchInv
<1>9. ASSUME NEW d, d = Directory(entry, kind), NEW a, a = <<d, entry.profile>>, TreeOf(d) = "whole",
             apps' = apps \cup {a}, par' = IF top.at = "dep" THEN [par EXCEPT ![a] = me] ELSE par,
             read' = Added(read, d, d \in new),
             Go([top EXCEPT !.i = @ + 1, !.vec = Append(@, a)]), UNCHANGED status
      PROVE  FetchInv'
  <2>1. d \in Dirs /\ tree[d] = "whole"
    <3>1. d # RepoRoot
      <4>1. "dep" \in Places
        BY DEF Places
      <4> QED
        BY <1>1, <1>3, <1>9, <4>1, Directories
    <3>2. PICK t : t = kind
      OBVIOUS
    <3>3. t \in Places /\ t \in {"dep", "mod", "sub"} /\ (entry.local \/ Known(entry, t) # None)
      <4>1. t \in Places /\ (entry.local \/ Known(entry, t) # None)
        BY <1>1, <1>2, <1>3, <1>16, <3>2, Entry, ResolvedKnown
      <4> QED
        BY <4>1 DEF Places
    <3>4. Known(entry, t) \in Versions \cup {None, Several}
      BY <1>1, <1>3, <3>3, KnownFacts
    <3>5. d \in Dirs
      BY <1>1, <1>3, <1>9, <3>1, <3>2, <3>3, <3>4, Directories
    <3> QED
      BY <1>1, <1>3, <1>9, <3>3, <3>5, Directories
  <2>2. a \in Apps /\ a[1] = d
    BY <1>5, <1>9, <2>1 DEF Apps
  <2>3. PICK j : j = top.i + 1
    OBVIOUS
  <2>4. PICK v : v = Append(top.vec, a)
    OBVIOUS
  <2>5. PICK f : f = [top EXCEPT !.i = j, !.vec = v]
    OBVIOUS
  <2>6. top.vec \in Seq(Apps) /\ v \in Seq(Apps) /\ j \in Nat \ {0} /\ ToSet(v) = ToSet(top.vec) \cup {a}
    <3>1. top.vec \in Seq(Apps) /\ top.i \in Nat
      BY <1>5 DEF Frames
    <3>2. v \in Seq(Apps) /\ Len(v) = Len(top.vec) + 1 /\ v[Len(top.vec) + 1] = a
          /\ \A k \in 1..Len(top.vec) : v[k] = top.vec[k]
      BY <2>2, <2>4, <3>1
    <3>3. DOMAIN v = 1..Len(top.vec) + 1 /\ DOMAIN top.vec = 1..Len(top.vec) /\ Len(top.vec) \in Nat
      BY <3>1, <3>2
    <3>4. ASSUME NEW x
          PROVE  x \in ToSet(v) <=> x \in ToSet(top.vec) \cup {a}
      <4>1. x \in ToSet(v) => x \in ToSet(top.vec) \cup {a}
        BY <3>2, <3>3 DEF ToSet
      <4>2. x \in ToSet(top.vec) => x \in ToSet(v)
        BY <3>2, <3>3 DEF ToSet
      <4>3. Len(top.vec) + 1 \in DOMAIN v
        BY <3>3
      <4>4. a \in ToSet(v)
        BY <3>2, <4>3 DEF ToSet
      <4> QED
        BY <4>1, <4>2, <4>4
    <3> QED
      BY <2>3, <3>1, <3>2, <3>4
  <2>7. f \in Frames /\ f.app = me /\ f.vec = v /\ f.at = top.at
    BY <1>5, <2>5, <2>6 DEF Frames, me
  <2>8. Go(f)
    BY <1>9, <2>3, <2>4, <2>5
  <2>9. /\ stack' \in Seq(Frames) /\ stack' # <<>>
        /\ \A k \in DOMAIN stack' : stack'[k].app \in apps' /\ ToSet(stack'[k].vec) \subseteq apps'
        /\ \A k \in DOMAIN stack' : stack'[k] = f \/ \E i \in DOMAIN stack : stack'[k] = stack[i]
    <3>1. apps \subseteq apps' /\ f.app \in apps' /\ ToSet(f.vec) \subseteq apps'
      BY <1>5, <1>9, <2>6, <2>7
    <3> QED
      BY <1>1, <1>3, <2>7, <2>8, <3>1, GoKeeps
  <2>10. /\ apps' \subseteq Apps /\ par' \in [Apps -> Apps \cup {Nobody}] /\ ready' \subseteq apps'
         /\ stale' \subseteq apps' /\ DOMAIN read' = {b[1] : b \in apps'} /\ IsFiniteSet(DOMAIN read')
    <3>1. /\ apps \subseteq Apps /\ par \in [Apps -> Apps \cup {Nobody}] /\ ready \subseteq apps
          /\ stale \subseteq apps /\ DOMAIN read = {b[1] : b \in apps} /\ IsFiniteSet(DOMAIN read)
      BY <1>1 DEF Typed, TypeOK
    <3>2. DOMAIN read' = DOMAIN read \cup {d}
      BY <1>9, AddedFacts
    <3>3. IsFiniteSet(DOMAIN read')
      BY <3>1, <3>2, FS_AddElement
    <3>4. par' \in [Apps -> Apps \cup {Nobody}]
      BY <1>5, <1>9, <2>2, <3>1
    <3> QED
      BY <1>4, <1>9, <2>2, <3>1, <3>2, <3>3, <3>4
  <2>11. Typed'
    BY <1>1, <1>4, <1>6, <1>9, <2>9, <2>10, IdleFacts DEF Typed, TypeOK, Asked
  <2>12. LoadedWhole'
    BY <1>1, <1>4, <1>9, <2>1, <2>2 DEF LoadedOK, LoadedWhole
  <2>13. LoadedOK'
    BY <1>2, <1>4, <1>9, <1>16, <2>1, <2>2, <2>12, LoadKeepsOnce DEF LoadedOK
  <2>14. Kept
    BY <1>4, <1>6, <1>9 DEF Kept
  <2>15. PassedFound'
    BY <1>3, <1>16, <2>7, <2>9, <2>14, LaterKeeps, PassedKept
  <2> QED
    BY <1>7, <2>11, <2>13, <2>15 DEF FetchInv
<1>10. ASSUME NEW why \in {"noproject", "nodir"}, Ends(why), UNCHANGED <<apps, par, read>>
       PROVE  FetchInv'
  <2>1. Typed'
    BY <1>1, <1>4, <1>6, <1>10, IdleFacts DEF Typed, TypeOK, Asked, Ends
  <2>2. LoadedOK'
    BY <1>1, <1>4, <1>10, LoadedSame
  <2> QED
    BY <1>10, <2>1, <2>2, EndedStep DEF Ends
<1>11. PICK d : d = Directory(entry, kind)
  OBVIOUS
<1>12. PICK a : a = <<d, entry.profile>>
  OBVIOUS
<1>13. \/ Onward /\ UNCHANGED <<apps, par, read, status>>
       \/ /\ TreeOf(d) = "whole"
          /\ apps' = apps \cup {a} /\ par' = IF top.at = "dep" THEN [par EXCEPT ![a] = me] ELSE par
          /\ read' = Added(read, d, d \in new)
          /\ Go([top EXCEPT !.i = @ + 1, !.vec = Append(@, a)]) /\ UNCHANGED status
       \/ \E why \in {"noproject", "nodir"} : Ends(why) /\ UNCHANGED <<apps, par, read>>
  BY <1>11, <1>12 DEF PopDepOrMod
<1> QED
  BY <1>8, <1>9, <1>10, <1>11, <1>12, <1>13

\* A call of setup() for an application of the list keeps the invariant.
LEMMA SetUpKeeps ==
  ASSUME FetchInv, SetUp
  PROVE  FetchInv'
<1>1. Typed /\ InAsk /\ LoadedOK
  BY DEF FetchInv
<1>2. /\ status = "run" /\ stack # <<>> /\ top.at \in {"setupMod", "setupDep", "setupWith"} /\ top.i <= Len(top.vec)
  BY DEF SetUp, At
<1>3. UNCHANGED <<world, net, trouble, disk, ask, limited, apps, par, ready, read, updated, reloaded, stale, status>>
  BY DEF SetUp, quiet
<1>4. me \in apps /\ home \in Dirs /\ ToSet(top.vec) \subseteq apps /\ top \in Frames
  BY <1>1, <1>2, Here
<1>5. PICK f : f = [top EXCEPT !.i = @ + 1]
  OBVIOUS
<1>6. f \in Frames /\ f.app = me /\ f.vec = top.vec /\ f.at = top.at
  BY <1>1, <1>2, <1>5, Next1
<1>7. PICK a : a = top.vec[top.i]
  OBVIOUS
<1>8. PICK g : g = Frame(a)
  OBVIOUS
<1>9. g \in Frames /\ g.app \in apps /\ ToSet(g.vec) = {} /\ g.at = "update"
  <2>1. a \in ToSet(top.vec)
    <3>1. top.vec \in Seq(Apps) /\ top.i \in Nat \ {0}
      BY <1>4 DEF Frames
    <3>2. top.i \in DOMAIN top.vec
      <4>1. DOMAIN top.vec = 1..Len(top.vec) /\ Len(top.vec) \in Nat
        BY <3>1
      <4>2. top.i \in Nat /\ top.i # 0 /\ top.i <= Len(top.vec)
        BY <1>2, <3>1
      <4> QED
        BY <4>1, <4>2
    <3> QED
      BY <1>7, <3>2 DEF ToSet
  <2>2. a \in apps /\ a \in Apps
    BY <1>1, <1>4, <2>1 DEF Typed, TypeOK
  <2> QED
    BY <1>8, <2>2 DEF Frame, Frames, Phases, Early, ToSet
<1>10. Go(f) \/ stack' = <<g, f>> \o Tail(stack)
  BY <1>5, <1>7, <1>8 DEF SetUp, Onward
<1>11. /\ stack' \in Seq(Frames) /\ stack' # <<>>
       /\ \A j \in DOMAIN stack' : stack'[j] = f \/ stack'[j] = g \/ \E k \in DOMAIN stack : stack'[j] = stack[k]
  <2>1. stack \in Seq(Frames)
    BY <1>1 DEF Typed
  <2>2. CASE Go(f)
    <3>1. stack' = <<f>> \o Tail(stack)
      BY <2>2 DEF Go
    <3>2. stack # <<>> /\ f \in Frames
      BY <1>2, <1>6
    <3>3. /\ stack' \in Seq(Frames) /\ stack' # <<>>
          /\ \A j \in DOMAIN stack' : stack'[j] = f \/ \E k \in DOMAIN stack : stack'[j] = stack[k]
      BY <2>1, <3>1, <3>2, Replaced
    <3> QED
      BY <3>3
  <2>3. CASE stack' = <<g, f>> \o Tail(stack)
    <3>1. stack # <<>> /\ f \in Frames /\ g \in Frames
      BY <1>2, <1>6, <1>9
    <3> QED
      BY <2>1, <2>3, <3>1, Called
  <2> QED
    BY <1>10, <2>2, <2>3
<1>12. \A j \in DOMAIN stack' : stack'[j].app \in apps' /\ ToSet(stack'[j].vec) \subseteq apps'
  <2> SUFFICES ASSUME NEW j \in DOMAIN stack'
               PROVE  stack'[j].app \in apps /\ ToSet(stack'[j].vec) \subseteq apps
    BY <1>3
  <2>1. CASE stack'[j] = f
    BY <1>4, <1>6, <2>1
  <2>2. CASE stack'[j] = g
    BY <1>9, <2>2
  <2>3. CASE \E k \in DOMAIN stack : stack'[j] = stack[k]
    <3>1. PICK k \in DOMAIN stack : stack'[j] = stack[k]
      BY <2>3
    <3>2. stack[k].app \in apps /\ ToSet(stack[k].vec) \subseteq apps
      BY <1>1 DEF Typed, TypeOK
    <3> QED
      BY <3>1, <3>2
  <2> QED
    BY <1>11, <2>1, <2>2, <2>3
<1>13. Typed'
  BY <1>1, <1>3, <1>11, <1>12 DEF Typed, TypeOK, disk
<1>14. InAsk'
  BY <1>2, <1>3, NoQuery, NoQueryAfter DEF Listed
<1>15. LoadedOK'
  BY <1>1, <1>3, LoadedSame DEF disk
<1>16. Kept
  BY <1>3 DEF Kept, disk
<1>17. \A j \in DOMAIN stack' : stack'[j] = g => Passed(stack[j])' = {}
  BY <1>9 DEF Passed, Early
<1>18. PassedFound'
  BY <1>2, <1>6, <1>11, <1>16, <1>17, LaterKeeps, PassedKept DEF ModLater, DepLater
<1> QED
  BY <1>13, <1>14, <1>15, <1>18 DEF FetchInv


\* The next phase of setup() keeps the invariant: the modules, and after them
\* the lists of missing entries, have been gone through when the first of them
\* is resolved again.
LEMMA ListEndsKeeps ==
  ASSUME FetchInv, ListEnds
  PROVE  FetchInv'
<1>1. Typed /\ InAsk /\ LoadedOK
  BY DEF FetchInv
<1>2. /\ status = "run" /\ stack # <<>> /\ top.at \notin {"update", "super", "setupWith"}
      /\ top.at \notin {"setupMod", "setupDep"} => top.i > Len(list)
      /\ Go([top EXCEPT !.at = After(top.at), !.i = 1, !.vec = IF top.at = "setupMod" THEN <<>> ELSE @])
  BY DEF ListEnds
<1>3. UNCHANGED <<world, net, trouble, disk, ask, limited, apps, par, ready, read, updated, reloaded, stale, status>>
  BY DEF ListEnds, quiet
<1>4. /\ me \in apps /\ home \in Dirs /\ home = me[1] /\ ToSet(top.vec) \subseteq apps /\ top \in Frames
      /\ lists = ListsOf(me) /\ missing = MissingOf(me) /\ list \in Seq(EntryType)
      /\ top = stack[1] /\ 1 \in DOMAIN stack
  BY <1>1, <1>2, Here
<1>5. /\ top.at \in {"sub", "missingMod", "mod", "setupMod", "missing", "dep", "setupDep", "with"}
      /\ top.i \in Nat /\ top.vec \in Seq(Apps)
  BY <1>2, <1>4 DEF Frames, Phases, Early, ModLater, DepLater
<1>6. PICK w : w = After(top.at)
  OBVIOUS
<1>7. PICK j : j = 1
  OBVIOUS
<1>8. PICK v : v = IF top.at = "setupMod" THEN <<>> ELSE top.vec
  OBVIOUS
<1>9. /\ w \in Phases
      /\ top.at = "sub" => w = "missingMod"
      /\ top.at = "missingMod" => w = "mod"
      /\ top.at = "mod" => w = "setupMod"
      /\ top.at = "setupMod" => w = "missing"
      /\ top.at = "missing" => w = "dep"
      /\ top.at \in {"dep", "setupDep", "with"} => w \in {"setupDep", "with", "setupWith"}
  BY <1>5, <1>6 DEF After, Phases, Early, ModLater, DepLater
<1>10. v \in Seq(Apps) /\ ToSet(v) \subseteq apps
  <2>1. ToSet(<<>>) = {}
    BY DEF ToSet
  <2> QED
    BY <1>4, <1>5, <1>8, <2>1
<1>11. PICK f : f = [top EXCEPT !.at = w, !.i = j, !.vec = v]
  OBVIOUS
<1>12. f \in Frames /\ f.app = me /\ f.vec = v /\ f.at = w /\ f.i = 1
  <2>1. j \in Nat \ {0}
    BY <1>7
  <2> QED
    BY <1>4, <1>7, <1>9, <1>10, <1>11, <2>1 DEF Frames, me
<1>13. Go(f)
  <2>1. f = [top EXCEPT !.at = w, !.i = j, !.vec = IF top.at = "setupMod" THEN <<>> ELSE @]
    BY <1>4, <1>8, <1>11 DEF Frames
  <2> QED
    BY <1>2, <1>6, <1>7, <2>1
<1>14. /\ stack' \in Seq(Frames) /\ stack' # <<>>
       /\ \A k \in DOMAIN stack' : stack'[k].app \in apps' /\ ToSet(stack'[k].vec) \subseteq apps'
       /\ \A k \in DOMAIN stack' : stack'[k] = f \/ \E i \in DOMAIN stack : stack'[k] = stack[i]
  BY <1>1, <1>2, <1>3, <1>4, <1>10, <1>12, <1>13, GoKeeps
<1>15. Typed'
  BY <1>1, <1>3, <1>14 DEF Typed, TypeOK, disk
<1>16. Len(list) \in Nat /\ DOMAIN list = 1..Len(list)
  BY <1>4
<1>17. InAsk'
  <2>1. CASE top.at \in {"setupMod", "setupDep"}
    BY <1>2, <1>3, <2>1, NoQuery, NoQueryAfter DEF Listed
  <2>2. CASE top.at \notin {"setupMod", "setupDep"}
    <3>1. ~(top.i <= Len(list))
      BY <1>2, <1>5, <1>16, <2>2
    <3>2. ~Listing
      BY <3>1 DEF Listing
    <3> QED
      BY <1>2, <1>3, <3>2, NoQuery, NoQueryAfter
  <2> QED
    BY <2>1, <2>2
<1>18. LoadedOK'
  BY <1>1, <1>3, LoadedSame DEF disk
<1>19. Kept
  BY <1>3 DEF Kept, disk
<1>20. ASSUME NEW k \in DOMAIN stack', stack'[k] = f
       PROVE  \A x \in Passed(stack[k])' : Found(stack[k].app[1], x, KindAt(stack[k].at))'
  <2>1. CASE top.at \in {"sub", "setupMod"}
    <3>1. PICK g : g = stack'[k]
      OBVIOUS
    <3>2. Passed(stack[k])' = Passed(g)
      <4>1. Passed(stack[k])' = Passed(g)'
        BY <3>1 DEF Passed, Group, MissingOf, ListsOf
      <4> QED
        BY <1>19, <4>1, PassedSame DEF Kept
    <3>3. PICK l : l = Group(f.app, KindAt(f.at))
      OBVIOUS
    <3>4. l \in Seq(EntryType)
      <4>1. missing \in Seq(EntryType) /\ lists.mod \in Seq(EntryType)
        BY <1>1, <1>2, Here
      <4> QED
        BY <1>4, <1>12, <3>3, <4>1 DEF Group
    <3>5. \A n \in DOMAIN l : ~(n < 1)
      BY <3>4
    <3>6. f.at \in {"missingMod", "missing"}
      BY <1>9, <1>12, <2>1
    <3>7. Passed(f) = {}
      BY <1>12, <3>3, <3>5, <3>6 DEF Passed, Early
    <3> QED
      BY <1>20, <3>1, <3>2, <3>7
  <2>2. CASE top.at \in {"missingMod", "missing"}
    <3> SUFFICES ASSUME NEW x \in Passed(stack[k])'
                 PROVE  Found(stack[k].app[1], x, KindAt(stack[k].at))'
      OBVIOUS
    <3>1. PICK g : g = stack'[k]
      OBVIOUS
    <3>2. x \in Passed(g)
      <4>1. Passed(stack[k])' = Passed(g)'
        BY <3>1 DEF Passed, Group, MissingOf, ListsOf
      <4> QED
        BY <1>19, <4>1, PassedSame DEF Kept
    <3>3. PICK h, t : h = home /\ t = KindAt(f.at)
      OBVIOUS
    <3>4. f.at \in {"mod", "dep"} /\ t = KindAt(top.at) /\ t \in Places /\ list = Group(me, t)
      <4>1. CASE top.at = "missingMod"
        BY <1>4, <1>9, <1>12, <3>3, <4>1 DEF KindAt, Places, Group, list
      <4>2. CASE top.at = "missing"
        BY <1>4, <1>9, <1>12, <3>3, <4>2 DEF KindAt, Places, Group, list
      <4> QED
        BY <2>2, <4>1, <4>2
    <3>5. x \in ToSet(list)
      <4>1. Passed(f) = ToSet(Group(f.app, KindAt(f.at)))
        BY <3>4, LaterPassed DEF ModLater, DepLater
      <4> QED
        BY <1>12, <1>20, <3>1, <3>2, <3>3, <3>4, <4>1
    <3>6. PICK i \in DOMAIN list : x = list[i]
      BY <3>5 DEF ToSet
    <3>7. i < top.i
      <4>1. top.i > Len(list) /\ i \in 1..Len(list)
        BY <1>2, <1>16, <2>2
      <4> QED
        BY <1>5, <1>16, <4>1
    <3>8. x \in Passed(top)
      BY <2>2, <3>4, <3>6, <3>7 DEF Passed, Early, me
    <3>9. x \in EntryType
      BY <1>1, <1>4, <3>8, PassedEntries
    <3>10. Found(h, x, t)
      BY <1>2, <1>4, <3>3, <3>4, <3>8 DEF FetchInv, PassedFound, me
    <3>11. Found(h, x, t)'
      BY <1>1, <1>4, <1>19, <3>3, <3>4, <3>9, <3>10, FoundKept
    <3>12. stack'[k].app[1] = h /\ KindAt(stack'[k].at) = t
      BY <1>4, <1>12, <1>20, <3>3
    <3> QED
      BY <3>11, <3>12 DEF Found, Loaded, KindAt
  <2>3. CASE top.at \in {"mod", "dep", "setupDep", "with"}
    <3>1. \/ w \in ModLater /\ top.at \in ModLater
          \/ w \in DepLater /\ top.at \in DepLater
      BY <1>9, <2>3 DEF ModLater, DepLater
    <3> QED
      BY <1>2, <1>12, <1>19, <1>20, <3>1, LaterKeeps
  <2> QED
    BY <1>5, <2>1, <2>2, <2>3
<1>21. PassedFound'
  BY <1>2, <1>14, <1>19, <1>20, PassedKept
<1> QED
  BY <1>15, <1>17, <1>18, <1>21 DEF FetchInv

\* Returning from setup() keeps the invariant.
LEMMA ReturnKeeps ==
  ASSUME FetchInv, Return
  PROVE  FetchInv'
<1>1. Typed /\ LoadedOK
  BY DEF FetchInv
<1>2. /\ status = "run" /\ stack # <<>> /\ top.at = "setupWith" /\ stack' = Tail(stack)
      /\ status' = IF Tail(stack) = <<>> THEN "done" ELSE "run"
      /\ UNCHANGED <<world, net, trouble, disk, ask, limited, apps, par, ready, read, updated, reloaded, stale>>
  BY DEF Return, At, quiet
<1>3. /\ stack' \in Seq(Frames)
      /\ \A j \in DOMAIN stack' : \E k \in DOMAIN stack : stack'[j] = stack[k]
  BY <1>1, <1>2, Returned DEF Typed
<1>4. \A j \in DOMAIN stack' : stack'[j].app \in apps' /\ ToSet(stack'[j].vec) \subseteq apps'
  <2> SUFFICES ASSUME NEW j \in DOMAIN stack'
               PROVE  stack'[j].app \in apps /\ ToSet(stack'[j].vec) \subseteq apps
    BY <1>2
  <2>1. PICK k \in DOMAIN stack : stack'[j] = stack[k]
    BY <1>3
  <2>2. stack[k].app \in apps /\ ToSet(stack[k].vec) \subseteq apps
    BY <1>1 DEF Typed, TypeOK
  <2> QED
    BY <2>1, <2>2
<1>5. Typed'
  BY <1>1, <1>2, <1>3, <1>4 DEF Typed, TypeOK, disk
<1>6. LoadedOK'
  BY <1>1, <1>2, LoadedSame DEF disk
<1>7. InAsk'
  BY <1>2, NoQuery, NoQueryAfter DEF Listed
<1>8. Kept
  BY <1>2 DEF Kept, disk
<1>9. PassedFound'
  BY <1>2, <1>3, <1>8, PassedKept
<1> QED
  BY <1>5, <1>6, <1>7, <1>9 DEF FetchInv

\* A new run starts with nothing but the developer's project.
LEMMA RunKeeps ==
  ASSUME FetchInv, Run
  PROVE  FetchInv'
<1>1. Typed /\ LoadedWhole
  BY DEF FetchInv, LoadedOK
<1>2. UNCHANGED <<world, net, trouble, disk>> /\ Fresh
  BY DEF Run
<1>3. PICK r : r = <<Outside(Root), 0>>
  OBVIOUS
<1>4. r \in Apps /\ r[1] = Outside(Root) /\ Outside(Root) \in Dirs
  BY <1>3, FetchAssumption DEF Apps, Dirs
<1>5. PICK f : f = Frame(r)
  OBVIOUS
<1>6. f \in Frames /\ f.app = r /\ f.at = "update" /\ ToSet(f.vec) = {}
  BY <1>4, <1>5 DEF Frame, Frames, Phases, Early, ToSet
<1>7. /\ apps' = {r} /\ stack' = <<f>> /\ ask' = Idle /\ status' = "run"
      /\ stack' \in Seq(Frames) /\ stack' # <<>>
      /\ \A j \in DOMAIN stack' : stack'[j] = f
  BY <1>2, <1>3, <1>5, <1>6 DEF Fresh
<1>8. DOMAIN read' = {Outside(Root)}
  BY <1>2 DEF Fresh
<1>9. IsFiniteSet(DOMAIN read')
  BY <1>8, FS_Singleton
<1>10. \A j \in DOMAIN stack' : stack'[j].app \in apps' /\ ToSet(stack'[j].vec) \subseteq apps'
  BY <1>6, <1>7
<1>11. par' \in [Apps -> Apps \cup {Nobody}] /\ ready' = {} /\ updated' = {} /\ reloaded' = {} /\ stale' = {} /\ limited' = FALSE
  BY <1>2 DEF Fresh
<1>12. DOMAIN read' = {a[1] : a \in apps'}
  BY <1>4, <1>7, <1>8
<1>13. Typed'
  <2>1. /\ world' \in Worlds /\ net' \in {"up", "limited", "down"} /\ trouble' \in 0..Troubles
        /\ tree' \in [Dirs -> {"none", "partial", "whole"}] /\ new' \subseteq Dirs
        /\ \A x \in DOMAIN pinned' : x[1] \in Dirs /\ pinned'[x] \in Versions
    BY <1>1, <1>2 DEF Typed, TypeOK, disk
  <2>2. ask'.at \in {"idle", "api", "git", "got", "co"} /\ ask'.v \in Versions \cup {None} /\ ask' \in Asked
    BY <1>7, IdleFacts DEF Asked
  <2>3. apps' \subseteq Apps /\ <<Outside(Root), 0>> \in apps' /\ limited' \in BOOLEAN
    BY <1>3, <1>4, <1>7, <1>11
  <2>4. TypeOK'
    BY <1>7, <1>10, <1>11, <1>12, <2>1, <2>2, <2>3 DEF TypeOK
  <2> QED
    BY <1>7, <1>9, <2>2, <2>3, <2>4 DEF Typed
<1>14. InAsk'
  BY <1>7, IdleFacts, NoQueryAfter
<1>15. LoadedWhole'
  BY <1>1, <1>2, <1>4, <1>7 DEF LoadedOK, LoadedWhole, disk
<1>16. Default \in Versions /\ "here" \in Versions /\ "given" \notin Places
  BY DEF Versions, Places
<1>19. \A n : \A d \in Loaded(n)' : n = Root /\ d[3] = "here"
  <2> SUFFICES ASSUME NEW n, NEW d \in Loaded(n)'
               PROVE  n = Root /\ d[3] = "here"
    OBVIOUS
  <2>1. Loaded(n)' = {b[1] : b \in {c \in {r} : c[1][2] = n}}
    BY <1>7 DEF Loaded
  <2> QED
    BY <1>4, <2>1, DirName
<1>20. LoadedOnce'
  BY <1>16, <1>19 DEF LoadedOnce
<1>21. LoadedWhere'
  <2>1. "given" \in Uses(Root)'
    BY DEF Uses
  <2> QED
    BY <1>16, <1>19, <2>1 DEF LoadedWhere
<1>22. LoadedOK'
  BY <1>15, <1>20, <1>21 DEF LoadedOK
<1>17. \A j \in DOMAIN stack' : Passed(stack[j])' = {}
  BY <1>6, <1>7 DEF Passed, Early
<1>18. PassedFound'
  BY <1>17 DEF PassedFound
<1> QED
  BY <1>13, <1>14, <1>18, <1>22 DEF FetchInv

\* The network and a kill keep the invariant.
LEMMA OutsideKeeps ==
  ASSUME FetchInv, NetChanges \/ NetReturns \/ Killed \/ UNCHANGED vars
  PROVE  FetchInv'
<1>1. Typed /\ InAsk /\ LoadedOK /\ PassedFound
  BY DEF FetchInv
<1>2. /\ UNCHANGED <<world, disk, stack, ask, limited, apps, par, ready, read, updated, reloaded, stale>>
      /\ status' \in {status, "killed"} /\ net' \in {"up", "limited", "down"} /\ trouble' \in 0..Troubles
  <2>1. trouble \in 0..Troubles /\ Troubles \in Nat /\ net \in {"up", "limited", "down"}
    BY <1>1, FetchAssumption DEF Typed, TypeOK
  <2>2. CASE NetChanges
    BY <2>1, <2>2 DEF NetChanges, process
  <2>3. CASE NetReturns
    BY <2>1, <2>3 DEF NetReturns, process
  <2>4. CASE Killed
    BY <2>1, <2>4 DEF Killed
  <2>5. CASE UNCHANGED vars
    BY <2>1, <2>5 DEF vars, process
  <2> QED
    BY <2>2, <2>3, <2>4, <2>5
<1>3. Typed'
  BY <1>1, <1>2 DEF Typed, TypeOK, disk
<1>4. LoadedOK'
  BY <1>1, <1>2, LoadedSame DEF disk
<1>5. CASE status' # "run"
  BY <1>3, <1>4, <1>5, EndedStep
<1>6. CASE status' = "run"
  <2>1. status = "run"
    BY <1>2, <1>6
  <2>2. Kept
    BY <1>2 DEF Kept, disk
  <2>3. \A j \in DOMAIN stack' : \E k \in DOMAIN stack : stack'[j] = stack[k]
    BY <1>2
  <2>4. PassedFound'
    BY <2>1, <2>2, <2>3, PassedKept
  <2>5. InAsk'
    <3>1. top' = top /\ list' = list /\ home' = home /\ entry' = entry /\ kind' = kind
      BY <1>2 DEF top, list, lists, missing, me, home, entry, kind
    <3>2. PICK e, h, t : e = entry /\ h = home /\ t = kind
      OBVIOUS
    <3>3. Known(e, t)' = Known(e, t)
      BY <1>2, <3>1 DEF Known, Loaded, Pin, disk
    <3>4. Directory(e, t)' = Directory(e, t)
      BY <3>3 DEF Directory
    <3>5. Directory(entry, kind)' = Directory(e, t)'
      <4>1. entry' = e /\ kind' = t
        BY <3>1, <3>2
      <4>2. Known(entry, kind)' = Known(e, t)'
        BY <4>1 DEF Known, Loaded, Pin
      <4> QED
        BY <4>1, <4>2 DEF Directory
    <3>6. Target' = Target
      BY <3>1, <3>2, <3>4, <3>5 DEF Target
    <3>7. Found(h, e, t)' <=> Found(h, e, t)
      BY <1>2 DEF Found, Loaded, disk
    <3>8. Found(home, entry, kind)' <=> Found(h, e, t)'
      BY <3>1, <3>2 DEF Found, Loaded
    <3>9. Found(home, entry, kind) <=> Found(h, e, t)
      BY <3>2
    <3> QED
      BY <1>1, <1>2, <2>1, <3>1, <3>6, <3>7, <3>8, <3>9 DEF InAsk, disk
  <2> QED
    BY <1>3, <1>4, <2>4, <2>5 DEF FetchInv
<1> QED
  BY <1>5, <1>6

\* The invariant holds at first.
LEMMA FetchInit ==
  ASSUME Init
  PROVE  FetchInv
<1>1. /\ world.there \subseteq Dirs /\ Outside(Root) \in world.there
      /\ \A x \in DOMAIN world.pins : x[1] \in Dirs /\ world.pins[x] \in Versions
  BY WorldOK DEF Init
<1>2. tree \in [Dirs -> {"none", "partial", "whole"}] /\ tree[Outside(Root)] = "whole"
  BY <1>1 DEF Init
<1>3. DOMAIN read = {} /\ stack \in Seq(Frames) /\ DOMAIN stack = {}
  BY DEF Init
<1>4. IsFiniteSet(DOMAIN read)
  BY <1>3, FS_EmptySet
<1>5. par \in [Apps -> Apps \cup {Nobody}] /\ Troubles \in Nat
  BY FetchAssumption DEF Init
<1>6. DOMAIN read = {a[1] : a \in apps}
  BY <1>3 DEF Init
<1>7. Typed
  <2>1. ask \in Asked /\ ask.at = "idle" /\ ask.v = None
    BY IdleFacts DEF Init
  <2>2. trouble \in 0..Troubles
    BY <1>5 DEF Init
  <2>3. TypeOK
    BY <1>1, <1>2, <1>3, <1>5, <1>6, <2>1, <2>2 DEF Init, TypeOK
  <2> QED
    BY <1>3, <1>4, <2>1, <2>3 DEF Init, Typed
<1>8. LoadedOnce /\ LoadedWhere
  <2>1. \A n : Loaded(n) = {}
    BY DEF Init, Loaded
  <2>2. Default \in Versions
    BY DEF Versions
  <2> QED
    BY <2>1, <2>2 DEF LoadedOnce, LoadedWhere
<1> QED
  BY <1>2, <1>7, <1>8 DEF Init, FetchInv, InAsk, PassedFound, LoadedOK, LoadedWhole

\* Every step keeps the invariant.
LEMMA FetchStep ==
  ASSUME FetchInv, [Next]_vars
  PROVE  FetchInv'
BY Queries, QueryKeeps, ScmUpdateKeeps, SetSuperKeeps, GetIfMissingKeeps, CheckoutKeeps, PopDepOrModKeeps,
   SetUpKeeps, ListEndsKeeps, ReturnKeeps, RunKeeps, OutsideKeeps DEF Next, Step

\* The invariant holds in every behaviour.
LEMMA FetchInvariant == Spec => []FetchInv
BY FetchInit, FetchStep, PTL DEF Spec

-----------------------------------------------------------------------------
(* The theorems.                                                           *)

\* Every variable keeps its type, whatever the yaml files say and the network
\* does.
THEOREM TypeCorrect == Spec => []TypeOK
<1>1. FetchInv => TypeOK
  BY DEF FetchInv, Typed
<1> QED
  BY <1>1, FetchInvariant, PTL


\* One run uses one version for all plain entries of a name, for any yaml files,
\* any number of projects and any answers of the network.
THEOREM OneDirectory == Spec => []OneVersion
<1>1. FetchInv => OneVersion
  <2> SUFFICES ASSUME FetchInv, NEW n \in Names, ~Placed(n)
               PROVE  Cardinality({d[3] : d \in Loaded(n)}) <= 1
    BY DEF OneVersion
  <2>1. PICK v \in Versions : \A d \in Loaded(n) : d[3] = v
    BY DEF FetchInv, LoadedOK, LoadedOnce
  <2>2. PICK L : L = {d[3] : d \in Loaded(n)}
    OBVIOUS
  <2>3. IsFiniteSet({v}) /\ Cardinality({v}) = 1 /\ L \in SUBSET {v}
    BY <2>1, <2>2, FS_Singleton
  <2>4. Cardinality(L) <= Cardinality({v})
    BY <2>3, FS_Subset
  <2>5. Cardinality(L) <= 1
    BY <2>3, <2>4
  <2> QED
    BY <2>2, <2>5
<1> QED
  BY <1>1, FetchInvariant, PTL

\* What the second look names is there.
LEMMA SecondLook ==
  ASSUME FetchInv, PopDepOrMod, status' \in {"nodir", "noproject"}
  PROVE  DirectoryThere'
<1>1. Typed /\ InAsk /\ LoadedOK
  BY DEF FetchInv
<1>2. PICK where \in {"mod", "dep", "with"} : Resolved(where)
  BY DEF PopDepOrMod
<1>3. /\ status = "run" /\ stack # <<>> /\ top.at = where /\ Listing /\ entry \in EntryType
      /\ entry.local \/ Known(entry, kind) # None
  BY <1>1, <1>2, ResolvedKnown
<1>4. PICK e, t : e = entry /\ t = kind
  OBVIOUS
<1>5. /\ e \in Entries(t) /\ t \in Places /\ e \in EntryType /\ t = KindAt(top.at)
      /\ e \in ToSet(Group(me, t)) /\ (e.local \/ Known(e, t) # None)
  BY <1>1, <1>3, <1>4, Entry
<1>6. /\ top = stack[1] /\ 1 \in DOMAIN stack /\ home = me[1]
  BY <1>1, <1>3, Here
<1>7. Found(home, e, t)
  <2>1. top.at \in ModLater \cup DepLater
    BY <1>3 DEF ModLater, DepLater
  <2>2. Passed(top) = ToSet(Group(me, t))
    BY <1>5, <2>1, LaterPassed DEF me
  <2> QED
    BY <1>3, <1>5, <1>6, <2>2 DEF FetchInv, PassedFound, me
<1>8. TreeOf(Directory(e, t)) # "whole" /\ UNCHANGED <<tree, world>>
  BY <1>3, <1>4 DEF PopDepOrMod
<1>9. CASE Disagree
  <2>1. Disagree'
    BY <1>8, <1>9 DEF Disagree, Uses, Placed, Entries
  <2> QED
    BY <2>1 DEF DirectoryThere
<1>10. CASE ~Disagree
  <2>1. Directory(e, t) \in Dirs /\ tree[Directory(e, t)] # "none"
    BY <1>1, <1>5, <1>7, <1>10, FoundThere
  <2>2. tree[Directory(e, t)] = "partial"
    BY <1>1, <1>5, <1>8, <2>1, Directories DEF Typed, TypeOK
  <2>3. LeftPartial'
    BY <1>8, <2>1, <2>2 DEF LeftPartial
  <2> QED
    BY <2>3 DEF DirectoryThere
<1> QED
  BY <1>9, <1>10

\* The second look for a dependency or module finds a directory with a project
\* file, unless a clone was killed or a project is used in ways that disagree,
\* for any yaml files.
THEOREM LooksAgree == Spec => []DirectoryThere
<1>1. Init => DirectoryThere
  BY DEF Init, DirectoryThere
<1>2. FetchInv /\ DirectoryThere /\ [Next]_vars => DirectoryThere'
  <2> SUFFICES ASSUME FetchInv, DirectoryThere, [Next]_vars, status' \in {"nodir", "noproject"}
               PROVE  DirectoryThere'
    BY DEF DirectoryThere
  <2>1. CASE PopDepOrMod
    BY <2>1, SecondLook
  <2>2. CASE NetChanges \/ NetReturns \/ UNCHANGED vars
    <3>1. UNCHANGED <<status, tree, world>>
      BY <2>2 DEF NetChanges, NetReturns, vars, process, disk
    <3> QED
      BY <3>1 DEF DirectoryThere, LeftPartial, Disagree, Uses, Placed, Entries
  <2>3. CASE Run
    BY <2>3 DEF Run, Fresh
  <2>4. CASE Killed
    BY <2>4 DEF Killed
  <2>5. CASE Ask \/ Skip \/ Request \/ LsRemote
    BY <2>5, Queries DEF QueryStep, Listing
  <2>6. CASE ScmUpdate
    BY <2>6 DEF ScmUpdate, At
  <2>12. CASE SetSuper
    BY <2>12 DEF SetSuper, At, Ends
  <2>7. CASE GetIfMissing
    BY <2>7 DEF GetIfMissing, Resolved, At, Ends
  <2>8. CASE Checkout
    BY <2>8 DEF Checkout, Asking, Listing, Ends
  <2>9. CASE SetUp
    BY <2>9 DEF SetUp, At
  <2>10. CASE ListEnds
    BY <2>10 DEF ListEnds
  <2>11. CASE Return
    BY <2>11 DEF Return
  <2> QED
    BY <2>1, <2>2, <2>3, <2>4, <2>5, <2>6, <2>7, <2>8, <2>9, <2>10, <2>11, <2>12 DEF Next, Step
<1> QED
  BY <1>1, <1>2, FetchInvariant, PTL DEF Spec

-----------------------------------------------------------------------------
(* Updates.                                                                *)

\* Dependencies are not cyclic, and chains of them no longer than what -u
\* without a number climbs.
Ordered(height) ==
  /\ height \in [Names -> 0..99]
  /\ \A w \in Worlds : \A a \in DOMAIN w.lists :
       \A e \in ToSet(w.lists[a].dep) : height[e.name] < height[a[1][2]]

\* A project is under those that depend on it.
ParOrdered(height) ==
  \A a \in Apps : par[a] # Nobody => height[a[1][2]] < height[par[a][1][2]]

\* What is loaded from a directory with the latest commit was read since it came,
\* and a project that was read again has been updated.
ReadFresh == world.level = 99 =>
  /\ reloaded \subseteq updated /\ stale = {}
  /\ \A a \in apps : a[1] \in new => read[a[1]]

\* The projects above one are not more than those heights leave.
LEMMA AncestorsBound ==
  ASSUME Typed, NEW height, Ordered(height), ParOrdered(height), NEW a \in Apps
  PROVE  ~(ancestors(a) > 99)
<1> DEFINE R[b \in Apps] == IF par[b] = Nobody THEN 0 ELSE 1 + R[par[b]]
<1>1. \A b \in Apps : b[1][2] \in Names /\ height[b[1][2]] \in 0..99
  BY DEF Apps, Dirs, Repo, Outside, Ordered
<1>2. \A b \in Apps : par[b] # Nobody =>
        par[b] \in Apps /\ height[b[1][2]] < height[par[b][1][2]]
  BY DEF ParOrdered, Typed, TypeOK
<1> DEFINE rank == [b \in Apps |-> 99 - height[b[1][2]]]
           H == [x \in Apps |-> [g \in [Apps -> Nat] |-> IF par[x] = Nobody THEN 0 ELSE 1 + g[par[x]]]]
<1>3. rank \in [Apps -> 0..99]
  BY <1>1
<1>4. \A x \in Apps : par[x] # Nobody => rank[par[x]] < rank[x]
  <2> SUFFICES ASSUME NEW x \in Apps, par[x] # Nobody
               PROVE  rank[par[x]] < rank[x]
    OBVIOUS
  <2>1. par[x] \in Apps /\ height[x[1][2]] < height[par[x][1][2]]
    BY <1>2
  <2>2. height[x[1][2]] \in 0..99 /\ height[par[x][1][2]] \in 0..99
    BY <1>1, <2>1
  <2>3. rank[x] = 99 - height[x[1][2]] /\ rank[par[x]] = 99 - height[par[x][1][2]]
    BY <2>1
  <2> HIDE DEF rank
  <2>4. PICK m, n \in 0..99 : m = height[x[1][2]] /\ n = height[par[x][1][2]]
    BY <2>2
  <2>5. m < n /\ rank[x] = 99 - m /\ rank[par[x]] = 99 - n
    BY <2>1, <2>3, <2>4
  <2>6. 99 - n < 99 - m
    BY <2>5, SMT
  <2> QED
    BY <2>5, <2>6
<1>5. H \in [Apps -> [[Apps -> Nat] -> Nat]]
  BY <1>2
<1>6. ASSUME NEW x \in Apps, NEW g \in [Apps -> Nat], NEW k \in [Apps -> Nat],
             \A y \in Apps : rank[y] < rank[x] => g[y] = k[y]
      PROVE  H[x][g] = H[x][k]
  <2>1. par[x] # Nobody => g[par[x]] = k[par[x]]
    BY <1>2, <1>4, <1>6
  <2> QED
    BY <2>1
<1>7. Ranked(Apps, Nat, 99, rank, H)
  <2> HIDE DEF H, rank
  <2> QED
    BY <1>3, <1>5, <1>6 DEF Ranked
<1>8. \E f \in [Apps -> Nat] : f = [x \in Apps |-> H[x][f]]
  <2> HIDE DEF H, rank
  <2> QED
    BY <1>7, RankedRecursion
<1>9. R = [b \in Apps |-> IF par[b] = Nobody THEN 0 ELSE 1 + R[par[b]]]
  <2>1. PICK f \in [Apps -> Nat] : f = [x \in Apps |-> H[x][f]]
    BY <1>8
  <2>2. f = [b \in Apps |-> IF par[b] = Nobody THEN 0 ELSE 1 + f[par[b]]]
    BY <2>1
  <2>3. \E g : g = [b \in Apps |-> IF par[b] = Nobody THEN 0 ELSE 1 + g[par[b]]]
    BY <2>2
  <2> QED
    BY <2>3
<1>10. ancestors(a) = R[a]
  BY DEF ancestors
<1> HIDE DEF R
<1>11. \A b \in Apps : R[b] = IF par[b] = Nobody THEN 0 ELSE 1 + R[par[b]]
  BY <1>9
<1> HIDE DEF rank, H
<1> DEFINE T == {b \in Apps : R[b] \in Nat /\ R[b] <= rank[b]}
<1>12. ASSUME NEW x \in Apps, \A y \in Apps : rank[y] < rank[x] => y \in T
       PROVE  x \in T
  <2>1. rank[x] \in 0..99
    BY <1>3
  <2>2. CASE par[x] = Nobody
    BY <1>11, <2>1, <2>2
  <2>3. CASE par[x] # Nobody
    <3>1. par[x] \in T /\ rank[par[x]] < rank[x] /\ rank[par[x]] \in 0..99
      BY <1>2, <1>3, <1>4, <1>12, <2>3
    <3>2. R[x] = 1 + R[par[x]]
      BY <1>11, <2>3
    <3>3. PICK p, q, r : p = rank[par[x]] /\ q = rank[x] /\ r = R[par[x]]
      OBVIOUS
    <3>4. p \in Nat /\ q \in Nat /\ r \in Nat /\ r <= p /\ p < q
      BY <2>1, <3>1, <3>3
    <3>5. 1 + r \in Nat /\ 1 + r <= q
      BY <3>4
    <3> QED
      BY <3>2, <3>3, <3>5
  <2> QED
    BY <2>2, <2>3
<1>13. \A x \in Apps : rank[x] \in Nat
  BY <1>3
<1>14. Apps \subseteq T
  <2> HIDE DEF T
  <2> QED
    BY <1>12, <1>13, RankInduction
<1>15. R[a] \in Nat /\ R[a] <= rank[a] /\ rank[a] \in 0..99
  BY <1>3, <1>14
<1> QED
  BY <1>10, <1>15


\* Steps that leave what is loaded and what was read alone.
LEMMA ReadFreshSame ==
  ASSUME ReadFresh, UNCHANGED <<world, apps, read, new, updated, reloaded, stale>>
  PROVE  ReadFresh'
BY DEF ReadFresh

\* Steps that leave the chains alone.
LEMMA ParOrderedSame ==
  ASSUME NEW height, ParOrdered(height), par' = par
  PROVE  ParOrdered(height)'
BY DEF ParOrdered

\* An update reads the yaml file again whenever it brings a new one.
LEMMA ScmUpdateReads ==
  ASSUME FetchInv, ReadFresh, NEW height, Ordered(height), ParOrdered(height), ScmUpdate
  PROVE  ReadFresh'
<1> SUFFICES ASSUME world.level = 99
             PROVE  /\ reloaded' \subseteq updated' /\ stale' = {}
                    /\ \A a \in apps' : a[1] \in new' => read'[a[1]]
  BY DEF ReadFresh, ScmUpdate
<1>1. Typed /\ stack # <<>>
  BY DEF FetchInv, ScmUpdate, At
<1>2. me \in apps /\ me \in Apps /\ home = me[1] /\ DOMAIN read = {a[1] : a \in apps} /\ home \in DOMAIN read
  <2>1. me \in apps /\ me \in Apps /\ home = me[1] /\ DOMAIN read = {a[1] : a \in apps}
    BY <1>1, Here DEF Typed, TypeOK, home
  <2> QED
    BY <2>1
<1>3. reloaded \subseteq updated /\ stale = {} /\ \A a \in apps : a[1] \in new => read[a[1]]
  BY DEF ReadFresh
<1>4. ~(ancestors(me) > world.level)
  BY <1>1, <1>2, AncestorsBound
<1>5. stale' = stale \cup {b \in {me} : home \in new' /\ ~read'[home]} /\ apps' = apps
  BY DEF ScmUpdate
<1>6. CASE UNCHANGED <<new, updated, reloaded, read>>
  BY <1>2, <1>3, <1>5, <1>6
<1>7. CASE /\ home \in updated /\ UNCHANGED <<new, updated>>
           /\ read' = [read EXCEPT ![home] = Reload(new')] /\ reloaded' = reloaded \cup {home}
  <2>1. home \in new => read'[home]
    BY <1>2, <1>3, <1>7 DEF Reload
  <2>2. \A d \in DOMAIN read : d # home => read'[d] = read[d]
    BY <1>7
  <2>3. \A a \in apps' : a[1] \in new' => read'[a[1]]
    BY <1>2, <1>3, <1>5, <1>7, <2>1, <2>2
  <2> QED
    BY <1>3, <1>5, <1>7, <2>1, <2>3
<1>8. CASE /\ home \notin updated /\ new' \in {new, new \cup {home}} /\ updated' = updated \cup {home}
           /\ read' = [read EXCEPT ![home] = Reload(new')] /\ reloaded' = reloaded \cup {home}
  <2>1. home \notin reloaded
    BY <1>3, <1>8
  <2>2. home \in new' => read'[home]
    BY <1>2, <1>8, <2>1 DEF Reload
  <2>3. \A d \in DOMAIN read : d # home => read'[d] = read[d] /\ (d \in new' => d \in new)
    BY <1>8
  <2>4. \A a \in apps' : a[1] \in new' => read'[a[1]]
    BY <1>2, <1>3, <1>5, <2>2, <2>3
  <2> QED
    BY <1>3, <1>5, <1>8, <2>2, <2>4
<1> QED
  BY <1>4, <1>6, <1>7, <1>8 DEF ScmUpdate

\* What is loaded is read when it is new to Projects.
LEMMA LoadKeepsFresh ==
  ASSUME FetchInv, ReadFresh, UNCHANGED <<world, new, updated, reloaded, stale>>,
         \/ UNCHANGED <<apps, read>>
         \/ \E d, a : a[1] = d /\ apps' = apps \cup {a} /\ read' = Added(read, d, d \in new)
  PROVE  ReadFresh'
<1>1. CASE UNCHANGED <<apps, read>>
  BY <1>1 DEF ReadFresh
<1>2. CASE \E d, a : a[1] = d /\ apps' = apps \cup {a} /\ read' = Added(read, d, d \in new)
  <2>1. PICK d, a : a[1] = d /\ apps' = apps \cup {a} /\ read' = Added(read, d, d \in new)
    BY <1>2
  <2>2. DOMAIN read = {b[1] : b \in apps}
    BY DEF FetchInv, Typed, TypeOK
  <2>3. \A b \in apps : read'[b[1]] = read[b[1]]
    <3> TAKE b \in apps
    <3>1. PICK y : y = b[1]
      OBVIOUS
    <3>2. y \in DOMAIN read
      BY <2>2, <3>1
    <3>3. read'[y] = read[y]
      BY <2>1, <3>2 DEF Added
    <3> QED
      BY <3>1, <3>3
  <2>4. CASE d \in DOMAIN read
    <3>1. \A b \in apps' : \E c \in apps : c[1] = b[1]
      BY <2>1, <2>2, <2>4
    <3> QED
      BY <2>3, <3>1 DEF ReadFresh
  <2>5. CASE d \notin DOMAIN read
    <3>1. read'[d] = (d \in new)
      BY <2>1, <2>5, AddedFacts
    <3> QED
      BY <2>1, <2>3, <3>1 DEF ReadFresh
  <2> QED
    BY <2>4, <2>5
<1> QED
  BY <1>1, <1>2

\* What an entry loads is under the project that lists it.
LEMMA LoadKeepsOrder ==
  ASSUME FetchInv, NEW height, Ordered(height), ParOrdered(height), PopDepOrMod
  PROVE  ParOrdered(height)'
<1>1. Typed /\ InAsk
  BY DEF FetchInv
<1>2. PICK where \in {"mod", "dep", "with"} : Resolved(where)
  BY DEF PopDepOrMod
<1>3. /\ status = "run" /\ stack # <<>> /\ top.at = where /\ Listing /\ entry \in EntryType
      /\ entry.local \/ Known(entry, kind) # None
  BY <1>1, <1>2, ResolvedKnown
<1>4. CASE par' = par
  BY <1>4, ParOrderedSame
<1>5. CASE par' # par
  <2>1. PICK d, a : /\ d = Directory(entry, kind) /\ a = <<d, entry.profile>> /\ TreeOf(d) = "whole"
                    /\ top.at = "dep" /\ par' = [par EXCEPT ![a] = me]
    BY <1>5 DEF PopDepOrMod
  <2>2. d \in Dirs /\ d[2] = entry.name
    <3>1. "dep" \in Places
      BY DEF Places
    <3>2. kind = "dep"
      BY <2>1 DEF kind
    <3>3. Known(entry, "dep") \in Versions \cup {None, Several}
      BY <1>1, <1>3, KnownFacts
    <3>4. d # RepoRoot
      BY <1>1, <1>3, <2>1, <3>1, Directories
    <3> QED
      BY <1>1, <1>3, <2>1, <3>1, <3>2, <3>3, <3>4, Directories, DirName
  <2>3. entry \in ToSet(ListsOf(me).dep) /\ me \in Apps
    BY <1>1, <1>3, <2>1, Entry, Here
  <2>4. me \in DOMAIN world.lists
    <3> SUFFICES ASSUME me \notin DOMAIN world.lists
                 PROVE  FALSE
      OBVIOUS
    <3>1. ListsOf(me).dep = <<>>
      BY DEF ListsOf
    <3>2. ToSet(ListsOf(me).dep) = {}
      BY <3>1 DEF ToSet
    <3> QED
      BY <2>3, <3>2
  <2>5. entry \in ToSet(world.lists[me].dep) /\ world \in Worlds
    BY <1>1, <2>3, <2>4 DEF ListsOf, Typed, TypeOK
  <2>6. height[entry.name] < height[me[1][2]]
    BY <2>4, <2>5 DEF Ordered
  <2>7. a[1][2] = entry.name
    BY <2>1, <2>2
  <2>8. PICK m : m = me
    OBVIOUS
  <2>9. ASSUME NEW b \in Apps, par'[b] # Nobody
        PROVE  height[b[1][2]] < height[par'[b][1][2]]
    <3>1. par \in [Apps -> Apps \cup {Nobody}]
      BY <1>1 DEF Typed, TypeOK
    <3>2. CASE b = a
      BY <2>1, <2>6, <2>7, <2>8, <3>1, <3>2
    <3>3. CASE b # a
      BY <2>1, <2>9, <3>1, <3>3 DEF ParOrdered
    <3> QED
      BY <3>2, <3>3
  <2> QED
    BY <2>9 DEF ParOrdered
<1> QED
  BY <1>4, <1>5

\* With -u -d no application is set up from a yaml file older than the one on
\* disk, for any yaml files without cycles and chains of up to a hundred
\* projects.
THEOREM UpdatesRead ==
  ASSUME NEW height, Ordered(height)
  PROVE  Spec => []FreshYaml
<1> DEFINE Inv == ReadFresh /\ ParOrdered(height)
<1>1. Init => Inv
  BY DEF Init, ReadFresh, ParOrdered
<1>2. FetchInv /\ Inv /\ [Next]_vars => Inv'
  <2> SUFFICES ASSUME FetchInv, ReadFresh, ParOrdered(height), [Next]_vars
               PROVE  ReadFresh' /\ ParOrdered(height)'
    OBVIOUS
  <2>1. CASE NetChanges \/ NetReturns \/ Killed \/ UNCHANGED vars
    <3>1. UNCHANGED <<world, apps, read, new, updated, reloaded, stale, par>>
      BY <2>1 DEF NetChanges, NetReturns, Killed, vars, process, disk
    <3> QED
      BY <3>1, ReadFreshSame, ParOrderedSame
  <2>2. CASE Run
    <3>1. /\ world' = world /\ new' = new /\ reloaded' = {} /\ updated' = {} /\ stale' = {}
          /\ apps' = {<<Outside(Root), 0>>} /\ read' = [d \in {Outside(Root)} |-> Outside(Root) \in new]
          /\ \A a \in Apps : par'[a] = Nobody
      BY <2>2 DEF Run, Fresh, disk
    <3>2. PICK d : d = Outside(Root)
      OBVIOUS
    <3>3. read' = [y \in {d} |-> d \in new] /\ apps' = {<<d, 0>>}
      BY <3>1, <3>2
    <3>4. \A a \in apps' : a[1] = d
      BY <3>3
    <3>5. read'[d] = (d \in new)
      BY <3>3
    <3>6. ReadFresh'
      BY <3>1, <3>4, <3>5 DEF ReadFresh
    <3>7. ParOrdered(height)'
      BY <3>1 DEF ParOrdered
    <3> QED
      BY <3>6, <3>7
  <2>3. CASE Ask \/ Skip \/ Request \/ LsRemote
    <3>1. UNCHANGED <<world, apps, read, new, updated, reloaded, stale, par>>
      BY <2>3, Queries DEF QueryStep
    <3> QED
      BY <3>1, ReadFreshSame, ParOrderedSame
  <2>4. CASE ScmUpdate
    <3>1. par' = par
      BY <2>4 DEF ScmUpdate
    <3> QED
      BY <2>4, <3>1, ScmUpdateReads, ParOrderedSame
  <2>9. CASE SetSuper
    <3>1. /\ UNCHANGED <<world, new, updated, reloaded, stale, par>>
          /\ \/ UNCHANGED <<apps, read>>
             \/ \E d, a : a[1] = d /\ apps' = apps \cup {a} /\ read' = Added(read, d, d \in new)
      <4>1. UNCHANGED <<world, new, updated, reloaded, stale, par>>
        BY <2>9 DEF SetSuper, disk
      <4>2. PICK d, a : d = super /\ a = <<super, 0>>
        OBVIOUS
      <4>3. a[1] = d
        BY <4>2
      <4>4. UNCHANGED <<apps, read>> \/ (apps' = apps \cup {a} /\ read' = Added(read, d, d \in new))
        BY <2>9, <4>2 DEF SetSuper
      <4> QED
        BY <4>1, <4>3, <4>4
    <3> QED
      BY <3>1, ParOrderedSame, LoadKeepsFresh
  <2>5. CASE GetIfMissing
    <3>1. UNCHANGED <<world, apps, read, new, updated, reloaded, stale, par>>
      BY <2>5 DEF GetIfMissing
    <3> QED
      BY <3>1, ReadFreshSame, ParOrderedSame
  <2>6. CASE Checkout
    <3>1. /\ UNCHANGED <<world, apps, read, updated, reloaded, stale, par>>
          /\ new' \subseteq new \cup {Target}
      BY <2>6 DEF Checkout
    <3>2. tree[Target] = "partial" /\ \A a \in apps : tree[a[1]] = "whole"
        BY <2>6 DEF Checkout, Asking, Listing, FetchInv, InAsk, LoadedOK, LoadedWhole
    <3>3. \A a \in apps : a[1] # Target
      BY <3>2
    <3> QED
      BY <3>1, <3>3, ParOrderedSame DEF ReadFresh
  <2>7. CASE PopDepOrMod
    <3>1. /\ UNCHANGED <<world, new, updated, reloaded, stale>>
          /\ \/ UNCHANGED <<apps, read>>
             \/ \E d, a : a[1] = d /\ apps' = apps \cup {a} /\ read' = Added(read, d, d \in new)
      BY <2>7 DEF PopDepOrMod
    <3>2. ReadFresh'
      BY <3>1, LoadKeepsFresh
    <3> QED
      BY <2>7, <3>2, LoadKeepsOrder
  <2>8. CASE SetUp \/ ListEnds \/ Return
    <3>1. UNCHANGED <<world, apps, read, new, updated, reloaded, stale, par>>
      BY <2>8 DEF SetUp, ListEnds, Return, quiet, disk
    <3> QED
      BY <3>1, ReadFreshSame, ParOrderedSame
  <2> QED
    BY <2>1, <2>2, <2>3, <2>4, <2>5, <2>6, <2>7, <2>8, <2>9 DEF Next, Step
<1>3. Inv => FreshYaml
  BY DEF ReadFresh, FreshYaml
<1> HIDE DEF Inv
<1> QED
  BY <1>1, <1>2, <1>3, FetchInvariant, PTL DEF Spec

=============================================================================
