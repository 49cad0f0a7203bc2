---------------------------- MODULE Dist_proofs ----------------------------
(***************************************************************************)
(* Proofs about Dist.                                                      *)
(*                                                                         *)
(* The inductive invariant has five layers, each kept by every step given  *)
(* those before it: types and where the threads are (Typed); who can get   *)
(* in whose way (Known); what a node does for a client in nobody's way     *)
(* (Own); what has arrived of its objects (ObjectsDone); and, on the first *)
(* two alone, what has arrived of its binaries (Shipping).                 *)
(***************************************************************************)
EXTENDS Dist, SequenceTheorems, TLAPS

USE DEF shipping

-----------------------------------------------------------------------------
(* The inductive invariant.                                                *)

PhaseNames == {"ping", "split", "pool", "link", "send", "done", "failed"}
TaskNames  == {"none", "queued", "wait", "download", "sending", "end", "threw"}
Files      == Dirs \X Nat \X Nat
Binaries   == Dirs \X Nat \X Nat
Chunks     == [of : Binaries, k : Nat, by : Clients \cup {"earlier"}]
Opt(S)     == {<<>>} \cup {<<x>> : x \in S}
Targets    == [file : Files, new : BOOLEAN]
Readers    == [of : Files, pos : Nat, void : BOOLEAN]
Receivers  == [to : Binaries \X BOOLEAN, linked : BOOLEAN]
Sessions   == [users : SUBSET Users, app : Dirs \cup {"none"}, src : Seq(Files),
               reader : Opt(Readers), writer : Opt(Receivers)]
Requests   == [c : Users, h : Nat, app : Dirs, saved : Dirs, by : Users \cup {"none"}]

\* The types of what the client links and sends.
LinksAt(c) ==
  /\ out[c] \in 0..Work(c).tests /\ again[c] \in BOOLEAN
  /\ \A b \in DOMAIN disk[c] : disk[c][b] \in Seq(Chunks)
  /\ DOMAIN sent[c] = Hosts(c) /\ \A h \in Hosts(c) : sent[c][h] \in Nat

\* The types of the client's state.
ClientAt(c) ==
  /\ phase[c] \in PhaseNames /\ app[c] \in DOMAIN in[c].work /\ local[c] \subseteq Objects(c)
  /\ task[c] \in [Hosts(c) -> TaskNames] /\ share[c] \in [Hosts(c) -> Seq(Files)]
  /\ \A h \in Hosts(c) : \A j \in DOMAIN share[c][h] : share[c][h][j] \in Objects(c)
  /\ writer[c] \in [Hosts(c) -> Opt(Targets)]
  /\ LinksAt(c)
ClientTyped ==
  /\ in \in Inputs
  /\ DOMAIN phase = Users /\ DOMAIN app = Users /\ DOMAIN task = Users /\ DOMAIN share = Users
  /\ DOMAIN local = Users /\ DOMAIN writer = Users /\ DOMAIN have = Users /\ DOMAIN fresh = Users
  /\ DOMAIN out = Users /\ DOMAIN again = Users /\ DOMAIN disk = Users /\ DOMAIN sent = Users
  /\ \A c \in Users : ClientAt(c)
  /\ disturbed \subseteq Users /\ cut \subseteq Users

\* ... and of the nodes'.
NodeTyped ==
  /\ up \in [Nodes -> BOOLEAN] /\ restarts \in Nat
  /\ cwd \in [Nodes -> Dirs] /\ opts \in [Nodes -> Users \cup {"none"}]
  /\ sess \in [Nodes -> [Ids -> Sessions]]
  /\ DOMAIN made = Nodes /\ DOMAIN bins = Nodes
  /\ busy \in [Nodes -> SUBSET Requests]

\* How many objects each host is given.
Size(c) == Work(c).n \div (Threads(c) + 1)

\* Where a pool thread can be, by the phase of the main thread.
Tasks(c, h) ==
  CASE phase[c] = "ping"  -> IF h <= Threads(c) THEN {"queued", "end", "threw"} ELSE {"none"}
    [] phase[c] = "pool"  -> IF h <= Threads(c) /\ Size(c) > 0
                             THEN {"queued", "wait", "download", "end", "threw"} ELSE {"none"}
    [] phase[c] = "send"  -> {"queued", "sending", "end", "threw"}
    [] phase[c] = "failed" -> TaskNames
    [] phase[c] \in {"split", "link", "done"} -> {"none", "end"}

\* ... and how much of a binary has been sent.
Sending(c) == phase[c] = "send" =>
  /\ Current(c) \in DOMAIN disk[c]
  /\ \A h \in Hosts(c) : /\ sent[c][h] <= Len(Text(c)) + 1
                         /\ task[c][h] \in {"queued", "sending"} => sent[c][h] <= Len(Text(c))

InStepAt(c) ==
  /\ phase[c] = "done" => app[c] = Len(in[c].work)
  /\ \A h \in Hosts(c) : task[c][h] \in Tasks(c, h)
  /\ Sending(c)
InStep == \A c \in Users : InStepAt(c)

\* A host whose set-up request has been answered, of a client that goes on.
Placed(c, h) == /\ phase[c] \notin Ended /\ h \in Hosts(c) /\ h <= Threads(c)
                /\ phase[c] = "ping" => task[c][h] = "end"
Turned(c, n) == \E h \in Hosts(c) : Placed(c, h) /\ Node(c, h) = n
Sess(c, h)   == sess[Node(c, h)][Id(c, h)]

\* A session nobody used and those of a dead node are empty; who used one has a
\* host it is for.
SessionsOwned == \A n \in Nodes, i \in Ids :
  /\ sess[n][i].users = {} \/ ~up[n] => sess[n][i] = NoSession
  /\ \A c \in sess[n][i].users : \E h \in Hosts(c) :
       Node(c, h) = n /\ Id(c, h) = i /\ ~(phase[c] = "ping" /\ task[c][h] = "queued")

\* A request that is handled is the one its thread waits for.
BusyAwaited == \A n \in Nodes : \A r \in busy[n] :
  /\ up[n] /\ r.h \in Hosts(r.c) /\ r.h <= Threads(r.c) /\ Node(r.c, r.h) = n
  /\ task[r.c][r.h] = "wait" /\ phase[r.c] \in {"pool", "failed"}
  /\ Sess(r.c, r.h).users # {}
  /\ \A q \in busy[n] : q.c = r.c /\ q.h = r.h => q = r

\* Clients that can get in each other's way know: disturbed has them.
MeetAtNode    == \A n \in Nodes : \A x, y \in Users :
                   x # y /\ Turned(x, n) /\ Turned(y, n) => x \in disturbed
MeetHandler   == \A n \in Nodes : \A c \in Users : \A b \in busy[n] :
                   Turned(c, n) /\ b.c # c => c \in disturbed
MeetInSession == \A c \in Users : \A h \in Hosts(c) : Placed(c, h) =>
                   /\ c \notin disturbed => Sess(c, h).users \subseteq {c}
                   /\ \A x \in Users : Sess(c, h).users = {x} /\ x # c => x \in disturbed
MeetRequest   == \A n \in Nodes : \A r \in busy[n] : \A x \in Users :
                   Sess(r.c, r.h).users = {x} /\ x # r.c => x \in disturbed
MeetUsers     == \A n \in Nodes, i \in Ids : \A x, y \in sess[n][i].users :
                   x # y => sess[n][i].users \cap disturbed # {}
Met == MeetAtNode /\ MeetHandler /\ MeetInSession /\ MeetRequest /\ MeetUsers

\* A session of one client that met nobody is where that client is.
InPool(c, h) == phase[c] = "failed" \/ (phase[c] = "pool" /\ task[c][h] \in {"download", "threw"})
InSend(c, h) == phase[c] = "failed" \/ (phase[c] = "send" /\ task[c][h] \in {"sending", "threw"})
LoneSession(c, h) == LET s == Sess(c, h) IN s.users = {c} =>
  /\ s.src # <<>> \/ s.reader # <<>> => InPool(c, h)
  /\ s.writer # <<>> => InSend(c, h)
  /\ s.reader # <<>> => s.src # <<>> /\ s.reader[1].of = Head(s.src) /\ ~s.reader[1].void
  /\ \A r \in busy[Node(c, h)] : r.c = c /\ r.h = h => s.src = <<>> /\ s.reader = <<>>
Lone == \A c \in Users \ disturbed : \A h \in Hosts(c) : LoneSession(c, h)

\* What is known of sessions and requests.
Known == SessionsOwned /\ BusyAwaited /\ Met /\ Lone

\* Its node is in the directory of its applications, or will not be found
\* there before the batch has failed.
Stuck(c, h)  == /\ phase[c] = "pool" /\ Work(c).dir # Sess(c, h).app
                /\ \E g \in Hosts(c) : Node(c, g) = Node(c, h) /\ task[c][g] \in {"wait", "download", "threw"}
AtHome(c, h) == /\ cwd[Node(c, h)] = Sess(c, h).app
                /\ \A b \in busy[Node(c, h)] : b.saved = Sess(c, h).app
AppMine(c, h) == LET s == Sess(c, h)
                     n == Node(c, h) IN s.app # "none" =>
  /\ opts[n] = c /\ (in[c].at => s.app = in[c].home)
  /\ AtHome(c, h) \/ Stuck(c, h)
  /\ \A g \in Hosts(c) : Placed(c, g) /\ Node(c, g) = n /\ Sess(c, g).app # "none" => Sess(c, g).app = s.app
SrcMine(c, h) == LET s == Sess(c, h)
                     n == Node(c, h) IN s.src # <<>> =>
  /\ s.app = Work(c).dir
  /\ \A j \in DOMAIN s.src : /\ s.src[j][1] = Work(c).dir
                             /\ s.src[j] \in DOMAIN made[n] /\ made[n][s.src[j]] = c
ReqMine(c, h) == \A r \in busy[Node(c, h)] : r.c = c /\ r.h = h =>
  /\ Sess(c, h).app # "none" /\ r.app = Sess(c, h).app /\ r.by = c
OwnNode(c, h) == Placed(c, h) => AppMine(c, h) /\ SrcMine(c, h) /\ ReqMine(c, h)
Shared(c)     == phase[c] = "pool" => \A h \in Hosts(c) :
                   share[c][h] = IF h <= Threads(c) THEN Part(c, h, Size(c)) ELSE <<>>
Own == /\ \A c \in Users : Shared(c)
       /\ \A c \in Users \ disturbed : \A h \in Hosts(c) : OwnNode(c, h)

\* The first q packets of an object.
Prefix(o, q, by) == [k \in 1..q |-> Chunk(o, k, by)]
Good(c, o)       == Result(c, o) = Whole(o, c)

\* The object a host is sending.
Arriving(c, h, o) == LET s == Sess(c, h) IN
  \/ s.reader = <<>> /\ writer[c][h] = <<>> /\ o \notin DOMAIN fresh[c]
  \/ \E q \in 1..Packets, new \in BOOLEAN :
       /\ s.reader = <<[of |-> o, pos |-> q, void |-> FALSE]>> /\ writer[c][h] = <<[file |-> o, new |-> new]>>
       /\ IF new THEN o \in DOMAIN fresh[c] /\ fresh[c][o] = Prefix(o, q, c)
          ELSE o \notin DOMAIN fresh[c] /\ o \in DOMAIN have[c] /\ have[c][o] = Prefix(o, q, c)

\* p of the objects of a host have arrived.
Progress(c, h) == LET s == Sess(c, h)
                      f == share[c][h] IN
  \E p \in 0..Len(f) :
    /\ p < Len(f) /\ Len(s.src) = Len(f) - p
    /\ \A j \in 1..Len(s.src) : s.src[j] = f[p + j]
    /\ \A j \in 1..p : Good(c, f[j])
    /\ \A j \in (p + 2)..Len(f) : f[j] \notin DOMAIN fresh[c]
    /\ Arriving(c, h, f[p + 1])

\* What the main thread keeps for itself.
Rest(c) == {Object(c, app[c], i) : i \in (Threads(c) * Size(c) + 1)..Work(c).n}

OthersBatches(c) == \A k \in DOMAIN in[c].work : \A i \in 1..in[c].work[k].n :
  /\ k < app[c] \/ (k = app[c] /\ phase[c] \in {"link", "send", "done"}) => Good(c, Object(c, k, i))
  /\ k > app[c] \/ (k = app[c] /\ phase[c] \in {"ping", "split"}) => Object(c, k, i) \notin DOMAIN fresh[c]

RestDone(c) == phase[c] = "pool" =>
  /\ local[c] \in {{}, Rest(c)}
  /\ \A o \in Rest(c) : /\ o \notin DOMAIN fresh[c]
                        /\ local[c] = {} => o \in DOMAIN have[c] /\ have[c][o] = Whole(o, c)

PartDone(c, h) ==
  /\ writer[c][h] # <<>> => phase[c] = "pool" /\ task[c][h] \in {"download", "threw"}
  /\ phase[c] = "pool" =>
       /\ task[c][h] \in {"queued", "wait"} => \A j \in DOMAIN share[c][h] : share[c][h][j] \notin DOMAIN fresh[c]
       /\ task[c][h] = "end" => \A j \in DOMAIN share[c][h] : Good(c, share[c][h][j])
       /\ task[c][h] = "download" /\ Sess(c, h).src # <<>> => Progress(c, h)

ObjectsAt(c) == phase[c] # "failed" =>
                  OthersBatches(c) /\ RestDone(c) /\ \A h \in Hosts(c) : PartDone(c, h)
ObjectsDone  == \A c \in Users \ disturbed : ObjectsAt(c)

-----------------------------------------------------------------------------
(* The input, and functions of functions.                                  *)

\* What each client is told to do.
LEMMA InputFacts ==
  ASSUME in \in Inputs, NEW c \in Users
  PROVE  /\ c \in Clients /\ c # "none"
         /\ in[c].hosts \in Seq(Nodes) /\ Hosts(c) = 1..Len(in[c].hosts) /\ Len(in[c].hosts) \in Nat
         /\ \A h \in Hosts(c) : h \in Nat /\ h >= 1 /\ Node(c, h) \in Nodes /\ Id(c, h) \in Ids
         /\ \A g, h \in Hosts(c) : g # h /\ Node(c, g) = Node(c, h) => Id(c, g) # Id(c, h)
         /\ Threads(c) \in Nat /\ Threads(c) <= Len(in[c].hosts)
         /\ in[c].home \in Dirs /\ in[c].home # Home
         /\ in[c].work # <<>>
         /\ DOMAIN in[c].work = 1..Len(in[c].work) /\ Len(in[c].work) \in Nat
         /\ \A k \in DOMAIN in[c].work : /\ k \in Nat /\ in[c].work[k].dir \in Dirs
                                         /\ in[c].work[k].dir # Home /\ in[c].work[k].n \in Nat
                                         /\ in[c].work[k].tests \in Nat /\ in[c].work[k].lib \in BOOLEAN
<1> PICK r : r = in[c]
  OBVIOUS
<1>1. c \in Clients /\ c # "none" /\ Valid(r)
  BY InputsAssumption DEF Users
<1>2. DOMAIN r.hosts = 1..Len(r.hosts) /\ Len(r.hosts) \in Nat
  BY <1>1 DEF Valid
<1>3. \A h \in DOMAIN r.hosts : h \in Nat /\ h >= 1 /\ r.hosts[h] \in Nodes /\ r.ids[h] \in Ids
  BY <1>1, <1>2 DEF Valid
<1>4. DOMAIN r.work = 1..Len(r.work) /\ Len(r.work) \in Nat /\ r.work \in Seq(Jobs)
  BY <1>1 DEF Valid
<1>5. \A k \in DOMAIN r.work : k \in Nat /\ r.work[k].dir \in Dirs \ {Home} /\ r.work[k].n \in Nat
                            /\ r.work[k].tests \in Nat /\ r.work[k].lib \in BOOLEAN
  <2>1. \A k \in DOMAIN r.work : k \in Nat /\ r.work[k] \in Jobs
    BY <1>4
  <2> QED
    BY <2>1 DEF Jobs
<1>6. Threads(c) \in Nat /\ Threads(c) <= Len(r.hosts)
  BY <1>1, <1>2 DEF Valid, Threads
<1> QED
  BY <1>1, <1>2, <1>3, <1>4, <1>5, <1>6 DEF Valid, Hosts, Node, Id

\* The current application.
LEMMA WorkFacts ==
  ASSUME ClientTyped, NEW c \in Users
  PROVE  /\ app[c] \in DOMAIN in[c].work /\ app[c] \in Nat
         /\ Work(c).dir \in Dirs /\ Work(c).dir # Home /\ Work(c).n \in Nat
         /\ Work(c).tests \in Nat /\ Work(c).lib \in BOOLEAN
         /\ Size(c) \in Nat /\ Threads(c) \in Nat /\ (Threads(c) + 1) * Size(c) <= Work(c).n
<1>1. app[c] \in DOMAIN in[c].work /\ in \in Inputs
  BY DEF ClientTyped, ClientAt
<1>2. Work(c).dir \in Dirs /\ Work(c).dir # Home /\ Work(c).n \in Nat /\ Threads(c) \in Nat /\ app[c] \in Nat
      /\ Work(c).tests \in Nat /\ Work(c).lib \in BOOLEAN
  BY <1>1, InputFacts DEF Work
<1>3. Size(c) \in Nat /\ (Threads(c) + 1) * Size(c) <= Work(c).n
  BY <1>2 DEF Size
<1> QED
  BY <1>1, <1>2, <1>3

\* Set changes one value.
LEMMA SetFacts ==
  ASSUME NEW f, NEW c, NEW h, NEW v, c \in DOMAIN f, h \in DOMAIN f[c]
  PROVE  /\ DOMAIN Set(f, c, h, v) = DOMAIN f /\ DOMAIN Set(f, c, h, v)[c] = DOMAIN f[c]
         /\ Set(f, c, h, v)[c][h] = v
         /\ \A x \in DOMAIN f : x # c => Set(f, c, h, v)[x] = f[x]
         /\ \A g \in DOMAIN f[c] : g # h => Set(f, c, h, v)[c][g] = f[c][g]
         /\ \A D, V : f[c] \in [D -> V] /\ v \in V => Set(f, c, h, v)[c] \in [D -> V]
BY DEF Set

\* A pool thread takes a step.
TaskStep(c, h) ==
  /\ DOMAIN task' = Users /\ task'[c] \in [Hosts(c) -> TaskNames]
  /\ \A x \in Users : x # c => task'[x] = task[x]
  /\ \A g \in Hosts(c) : g # h => task'[c][g] = task[c][g]

LEMMA TaskSet ==
  ASSUME ClientTyped, NEW c \in Users, NEW h \in Hosts(c), NEW v \in TaskNames, task' = Set(task, c, h, v)
  PROVE  TaskStep(c, h) /\ task'[c][h] = v
BY SetFacts DEF ClientTyped, ClientAt, TaskStep

\* One session of a node changes.
SessStep(n, i) ==
  /\ sess' \in [Nodes -> [Ids -> Sessions]]
  /\ \A m \in Nodes, j \in Ids : m # n \/ j # i => sess'[m][j] = sess[m][j]

LEMMA SessSet ==
  ASSUME NodeTyped, NEW n \in Nodes, NEW i \in Ids, NEW s \in Sessions, sess' = Set(sess, n, i, s)
  PROVE  SessStep(n, i) /\ sess'[n][i] = s
<1>1. sess \in [Nodes -> [Ids -> Sessions]] /\ DOMAIN sess = Nodes /\ DOMAIN sess[n] = Ids
  BY DEF NodeTyped
<1>2. DOMAIN sess' = Nodes /\ sess'[n][i] = s /\ sess'[n] \in [Ids -> Sessions]
      /\ (\A m \in Nodes : m # n => sess'[m] = sess[m])
      /\ (\A j \in Ids : j # i => sess'[n][j] = sess[n][j])
  BY <1>1, SetFacts
<1>3. sess' = [m \in Nodes |-> sess'[m]]
  BY DEF Set, NodeTyped
<1> QED
  BY <1>1, <1>2, <1>3 DEF SessStep

-----------------------------------------------------------------------------
(* What the actions do, value by value.                                    *)

\* The fields of a session.
LEMMA SessionFields ==
  ASSUME NodeTyped, NEW n \in Nodes, NEW i \in Ids
  PROVE  /\ sess[n][i] \in Sessions
         /\ sess[n][i].users \subseteq Users /\ sess[n][i].app \in Dirs \cup {"none"}
         /\ sess[n][i].src \in Seq(Files)
         /\ sess[n][i].reader \in Opt(Readers) /\ sess[n][i].writer \in Opt(Receivers)
BY DEF NodeTyped, Sessions

\* Of which no client is "none".
LEMMA NoneElse == "none" \notin Dirs /\ "none" \notin Clients /\ Home \in Dirs /\ Packets \in Nat /\ Restarts \in Nat
BY InputsAssumption

\* Where client c is in the directory of the node it sets up.
SetupDir(c, n) == IF in[c].at THEN in[c].home ELSE cwd[n]

\* The set-up request.
LEMMA SetupFacts ==
  ASSUME ClientTyped, NodeTyped, NEW c \in Users, NEW h \in Hosts(c), Setup(c, h),
         NEW n, n = Node(c, h), NEW i, i = Id(c, h)
  PROVE  /\ n \in Nodes /\ i \in Ids /\ phase[c] = "ping" /\ task[c][h] = "queued" /\ up[n]
         /\ TaskStep(c, h) /\ task'[c][h] \in {"end", "threw"}
         /\ UNCHANGED <<in, phase, app, share, local, writer, have, fresh, shipping, up, restarts, made, bins, busy, cut>>
         /\ SessStep(n, i) /\ sess'[n][i].users = sess[n][i].users \cup {c}
         /\ sess'[n][i].src = sess[n][i].src /\ sess'[n][i].reader = sess[n][i].reader
         /\ sess'[n][i].writer = sess[n][i].writer
         /\ cwd' \in [Nodes -> Dirs] /\ opts' \in [Nodes -> Users \cup {"none"}]
         /\ \A m \in Nodes : m # n => cwd'[m] = cwd[m] /\ opts'[m] = opts[m]
         /\ \/ sess'[n][i].app = sess[n][i].app /\ cwd' = cwd /\ opts' = opts
            \/ /\ sess'[n][i].app \in {sess[n][i].app, SetupDir(c, n)}
               /\ cwd'[n] = SetupDir(c, n) /\ opts'[n] = c
         /\ Meets(c, n, i)
<1>1. n \in Nodes /\ i \in Ids /\ c \in Clients /\ in[c].home \in Dirs /\ DOMAIN task = Users
  BY InputFacts DEF ClientTyped, ClientAt
<1>2. SetupDir(c, n) \in Dirs
  BY <1>1 DEF SetupDir, NodeTyped
<1>3. PICK got, begun, created \in BOOLEAN :
         /\ created => begun /\ SetupDir(c, n) # Home
         /\ task' = Set(task, c, h, After(got, "end"))
         /\ cwd' = [cwd EXCEPT ![n] = IF begun THEN SetupDir(c, n) ELSE @]
         /\ opts' = [opts EXCEPT ![n] = IF begun THEN c ELSE @]
         /\ sess' = Set(sess, n, i, [sess[n][i] EXCEPT !.users = @ \cup {c},
                                                     !.app = IF created THEN SetupDir(c, n) ELSE @])
  BY DEF Setup, SetupDir
<1>4. PICK v : v = After(got, "end")
  OBVIOUS
<1>5. v \in {"end", "threw"}
  BY <1>4 DEF After
<1>6. TaskStep(c, h) /\ task'[c][h] = v
  BY <1>3, <1>4, <1>5, TaskSet DEF TaskNames
<1>7. PICK s, U, a : s = sess[n][i] /\ U = s.users \cup {c} /\ a = IF created THEN SetupDir(c, n) ELSE s.app
  OBVIOUS
<1>8. s \in Sessions /\ U \in SUBSET Users /\ a \in Dirs \cup {"none"}
  BY <1>1, <1>2, <1>7, SessionFields
<1>9. PICK x : x = [s EXCEPT !.users = U, !.app = a]
  OBVIOUS
<1>10. x \in Sessions /\ x.users = U /\ x.app = a /\ x.src = s.src /\ x.reader = s.reader /\ x.writer = s.writer
  BY <1>8, <1>9 DEF Sessions
<1>11. sess' = Set(sess, n, i, x)
  BY <1>3, <1>7, <1>9
<1>12. SessStep(n, i) /\ sess'[n][i] = x
  BY <1>1, <1>10, <1>11, SessSet
<1>13. /\ cwd' \in [Nodes -> Dirs] /\ opts' \in [Nodes -> Users \cup {"none"}]
       /\ \A m \in Nodes : m # n => cwd'[m] = cwd[m] /\ opts'[m] = opts[m]
  BY <1>1, <1>2, <1>3 DEF NodeTyped
<1>14. \/ sess'[n][i].app = sess[n][i].app /\ cwd' = cwd /\ opts' = opts
       \/ /\ sess'[n][i].app \in {sess[n][i].app, SetupDir(c, n)}
          /\ cwd'[n] = SetupDir(c, n) /\ opts'[n] = c
  <2>1. CASE begun
    BY <1>1, <1>3, <1>7, <1>10, <1>12, <2>1 DEF NodeTyped
  <2>2. CASE ~begun
    BY <1>1, <1>3, <1>7, <1>10, <1>12, <2>2 DEF NodeTyped
  <2> QED
    BY <2>1, <2>2
<1> QED
  BY <1>1, <1>5, <1>6, <1>7, <1>10, <1>12, <1>13, <1>14 DEF Setup, Meets

\* A request to compile, until the handler is in the project's directory.
LEMMA CompileStartFacts ==
  ASSUME ClientTyped, NodeTyped, NEW c \in Users, NEW h \in Hosts(c), CompileStart(c, h),
         NEW n, n = Node(c, h), NEW i, i = Id(c, h)
  PROVE  /\ n \in Nodes /\ i \in Ids /\ phase[c] = "pool" /\ task[c][h] = "queued" /\ up[n]
         /\ sess[n][i].app # "none"
         /\ TaskStep(c, h) /\ task'[c][h] = "wait"
         /\ UNCHANGED <<in, phase, app, share, local, writer, have, fresh, shipping, up, restarts,
                        opts, sess, made, bins, history>>
         /\ cwd' \in [Nodes -> Dirs] /\ cwd'[n] = Work(c).dir
         /\ \A m \in Nodes : m # n => cwd'[m] = cwd[m] /\ busy'[m] = busy[m]
         /\ busy' \in [Nodes -> SUBSET Requests]
         /\ \E r \in Requests : /\ busy'[n] = busy[n] \cup {r}
                                /\ r.c = c /\ r.h = h /\ r.app = sess[n][i].app
                                /\ r.saved = cwd[n] /\ r.by = opts[n]
<1>1. n \in Nodes /\ i \in Ids /\ h \in Nat /\ Work(c).dir \in Dirs
  BY InputFacts, WorkFacts DEF ClientTyped, ClientAt
<1>2. /\ phase[c] = "pool" /\ task[c][h] = "queued" /\ up[n] /\ sess[n][i].app # "none"
      /\ UNCHANGED <<in, phase, app, share, local, writer, have, fresh, shipping, up, restarts,
                     opts, sess, made, bins, history>>
      /\ cwd' = [cwd EXCEPT ![n] = Work(c).dir] /\ task' = Set(task, c, h, "wait")
      /\ busy' = [busy EXCEPT ![n] = @ \cup
                    {[c |-> c, h |-> h, app |-> sess[n][i].app, saved |-> cwd[n], by |-> opts[n]]}]
  BY DEF CompileStart
<1>3. TaskStep(c, h) /\ task'[c][h] = "wait"
  BY <1>2, TaskSet DEF TaskNames
<1>4. /\ cwd' \in [Nodes -> Dirs] /\ cwd'[n] = Work(c).dir
      /\ \A m \in Nodes : m # n => cwd'[m] = cwd[m]
  BY <1>1, <1>2 DEF NodeTyped
<1>5. PICK a, d, b : a = sess[n][i].app /\ d = cwd[n] /\ b = opts[n]
  OBVIOUS
<1>6. a \in Dirs /\ d \in Dirs /\ b \in Users \cup {"none"}
  BY <1>1, <1>2, <1>5, SessionFields DEF NodeTyped
<1>7. PICK r : r = [c |-> c, h |-> h, app |-> a, saved |-> d, by |-> b]
  OBVIOUS
<1>8. r \in Requests /\ r.c = c /\ r.h = h /\ r.app = a /\ r.saved = d /\ r.by = b
  BY <1>1, <1>6, <1>7 DEF Requests
<1>9. /\ busy' = [busy EXCEPT ![n] = @ \cup {r}]
  BY <1>2, <1>5, <1>7
<1>10. /\ busy' \in [Nodes -> SUBSET Requests] /\ busy'[n] = busy[n] \cup {r}
       /\ \A m \in Nodes : m # n => busy'[m] = busy[m]
  BY <1>1, <1>8, <1>9 DEF NodeTyped
<1> QED
  BY <1>1, <1>2, <1>3, <1>4, <1>5, <1>8, <1>10

\* ... and from there to the answer.
LEMMA CompileEndFacts ==
  ASSUME ClientTyped, NodeTyped, BusyAwaited, NEW n \in Nodes, NEW r \in busy[n], CompileEnd(n, r),
         NEW c, c = r.c, NEW h, h = r.h, NEW i, i = Id(c, h)
  PROVE  /\ r \in Requests /\ c \in Users /\ h \in Hosts(c) /\ i \in Ids /\ n = Node(c, h)
         /\ UNCHANGED <<in, phase, app, share, local, writer, have, fresh, shipping, up, restarts, opts, bins, history>>
         /\ busy' \in [Nodes -> SUBSET Requests] /\ busy'[n] = busy[n] \ {r}
         /\ cwd' \in [Nodes -> Dirs] /\ cwd'[n] = r.saved
         /\ \A m \in Nodes : m # n => cwd'[m] = cwd[m] /\ busy'[m] = busy[m]
         /\ TaskStep(c, h)
         /\ IF phase[c] = "pool" THEN task'[c][h] \in {"download", "threw"} ELSE task' = task
         /\ \/ UNCHANGED <<made, sess>>
            \/ /\ r.app = Work(c).dir
               /\ DOMAIN made' = Nodes /\ made'[n] = MadeBy(made[n], share[c][h], r.by)
               /\ \A m \in Nodes : m # n => made'[m] = made[m]
               /\ SessStep(n, i) /\ sess'[n][i].src = share[c][h]
               /\ sess'[n][i].users = sess[n][i].users /\ sess'[n][i].app = sess[n][i].app
               /\ sess'[n][i].reader = sess[n][i].reader /\ sess'[n][i].writer = sess[n][i].writer
<1>1. /\ r \in Requests /\ c \in Users /\ h \in Hosts(c) /\ n = Node(c, h) /\ r.saved \in Dirs
      /\ task[c][h] = "wait"
  BY DEF NodeTyped, BusyAwaited, Requests
<1>2. i \in Ids /\ DOMAIN task = Users /\ task[c] \in [Hosts(c) -> TaskNames]
      /\ share[c][h] \in Seq(Files)
  BY <1>1, InputFacts DEF ClientTyped, ClientAt
<1>3. PICK ok, got \in BOOLEAN :
    /\ ok => r.app = Work(c).dir
    /\ busy' = [busy EXCEPT ![n] = @ \ {r}]
    /\ cwd' = [cwd EXCEPT ![n] = r.saved]
    /\ IF ok
       THEN /\ made' = [made EXCEPT ![n] = MadeBy(made[n], share[c][h], r.by)]
            /\ sess' = Set(sess, n, i, [sess[n][i] EXCEPT !.src = share[c][h]])
       ELSE UNCHANGED <<made, sess>>
    /\ task' = IF phase[c] = "pool" /\ task[c][h] = "wait"
               THEN Set(task, c, h, After(got, "download")) ELSE task
    /\ UNCHANGED <<in, phase, app, share, local, writer, have, fresh, shipping, up, restarts, opts, bins, history>>
  BY DEF CompileEnd
<1>4. /\ busy' \in [Nodes -> SUBSET Requests] /\ busy'[n] = busy[n] \ {r}
      /\ cwd' \in [Nodes -> Dirs] /\ cwd'[n] = r.saved
      /\ \A m \in Nodes : m # n => cwd'[m] = cwd[m] /\ busy'[m] = busy[m]
  BY <1>1, <1>3 DEF NodeTyped
<1>5. PICK v : v = After(got, "download")
  OBVIOUS
<1>6. v \in {"download", "threw"}
  BY <1>5 DEF After
<1>7. TaskStep(c, h) /\ IF phase[c] = "pool" THEN task'[c][h] \in {"download", "threw"} ELSE task' = task
  <2>1. CASE phase[c] = "pool"
    <3>1. task' = Set(task, c, h, v) /\ v \in TaskNames
      BY <1>1, <1>3, <1>5, <1>6, <2>1 DEF TaskNames
    <3> QED
      BY <1>1, <1>6, <2>1, <3>1, TaskSet
  <2>2. CASE phase[c] # "pool"
    BY <1>2, <1>3, <2>2 DEF TaskStep
  <2> QED
    BY <2>1, <2>2
<1>8. CASE ok
  <2>1. PICK s, f, x : s = sess[n][i] /\ f = share[c][h] /\ x = [s EXCEPT !.src = f]
    OBVIOUS
  <2>2. s \in Sessions /\ f \in Seq(Files)
    BY <1>2, <2>1, SessionFields
  <2>3. /\ x \in Sessions /\ x.users = s.users /\ x.app = s.app /\ x.src = f /\ x.reader = s.reader
        /\ x.writer = s.writer
    BY <2>1, <2>2 DEF Sessions
  <2>4. SessStep(n, i) /\ sess'[n][i] = x
    <3>1. sess' = Set(sess, n, i, x)
      BY <1>3, <1>8, <2>1
    <3>2. n \in Nodes /\ i \in Ids /\ x \in Sessions
      BY <1>1, <1>2, <2>3
    <3> QED
      BY <3>1, <3>2, SessSet
  <2>5. /\ DOMAIN made' = Nodes /\ made'[n] = MadeBy(made[n], share[c][h], r.by)
        /\ \A m \in Nodes : m # n => made'[m] = made[m]
    BY <1>3, <1>8 DEF NodeTyped
  <2> QED
    BY <1>1, <1>2, <1>3, <1>4, <1>7, <1>8, <2>1, <2>3, <2>4, <2>5
<1>9. CASE ~ok
  BY <1>1, <1>2, <1>3, <1>4, <1>7, <1>9
<1> QED
  BY <1>8, <1>9

\* The first of the files that wait is one.
LEMMA SeqFacts ==
  ASSUME NEW S, NEW q \in Seq(S), q # <<>>
  PROVE  /\ Head(q) \in S /\ Head(q) = q[1] /\ Tail(q) \in Seq(S)
         /\ Len(q) \in Nat /\ Len(q) > 0 /\ Len(Tail(q)) = Len(q) - 1
         /\ \A j \in 1..Len(Tail(q)) : Tail(q)[j] = q[j + 1]
         /\ DOMAIN q = 1..Len(q) /\ \A j \in DOMAIN q : q[j] \in S
  BY HeadTailProperties, LenProperties

\* A round of the loop that downloads: at the node ...
DownloadNode(n, i, b) ==
  LET s == sess[n][i]
      r == Reader(n, s)
  IN
  /\ SessStep(n, i) /\ sess'[n][i].users = s.users /\ sess'[n][i].app = s.app
  /\ sess'[n][i].writer = s.writer
  /\ r \in Readers /\ b.file = Head(s.src) /\ b.file \in Files
  /\ \/ /\ ~r.void /\ r.pos < Packets /\ sess'[n][i].src = s.src
        /\ sess'[n][i].reader = <<[of |-> r.of, pos |-> r.pos + 1, void |-> FALSE]>>
        /\ b.data = <<Chunk(r.of, r.pos + 1, made[n][r.of])>> /\ b.left = Len(s.src) /\ b.last = FALSE
     \/ /\ r.void \/ r.pos >= Packets
        /\ sess'[n][i].src = Tail(s.src) /\ sess'[n][i].reader = <<>>
        /\ b.data = <<>> /\ b.left = Len(Tail(s.src)) /\ b.last = TRUE

LEMMA DownloadNodeFacts ==
  ASSUME ClientTyped, NodeTyped, NEW n \in Nodes, NEW i \in Ids, NEW s, s = sess[n][i], s.src # <<>>,
         NEW b, b = Blob(n, s), sess' = Set(sess, n, i, b.s)
  PROVE  DownloadNode(n, i, b)
<1> DEFINE r == Reader(n, s)
<1>1. /\ s \in Sessions /\ s.src \in Seq(Files) /\ s.reader \in Opt(Readers) /\ s.users \subseteq Users
      /\ s.app \in Dirs \cup {"none"} /\ s.writer \in Opt(Receivers)
  BY SessionFields
<1>2. Head(s.src) \in Files /\ Tail(s.src) \in Seq(Files)
  BY <1>1, SeqFacts
<1>3. r \in Readers
  <2>1. CASE s.reader = <<>>
    <3>1. PICK v : v = (Head(s.src) \notin DOMAIN made[n] \/ cwd[n] # Head(s.src)[1])
      OBVIOUS
    <3>2. r = [of |-> Head(s.src), pos |-> 0, void |-> v] /\ v \in BOOLEAN
      BY <2>1, <3>1 DEF Reader
    <3> QED
      BY <1>2, <3>2 DEF Readers
  <2>2. CASE s.reader # <<>>
    <3>1. PICK x \in Readers : s.reader = <<x>>
      BY <1>1, <2>2 DEF Opt
    <3> QED
      BY <2>2, <3>1 DEF Reader
  <2> QED
    BY <2>1, <2>2
<1>4. CASE ~r.void /\ r.pos < Packets
  <2>1. r.of \in Files /\ r.pos \in Nat /\ r.pos + 1 \in Nat /\ r.void = FALSE
    BY <1>3, <1>4 DEF Readers
  <2>2. PICK p : p = r.pos + 1
    OBVIOUS
  <2>3. PICK q : q = [r EXCEPT !.pos = p]
    OBVIOUS
  <2>10. q \in Readers /\ q.of = r.of /\ q.pos = p /\ q.void = FALSE
    BY <1>3, <2>1, <2>2, <2>3 DEF Readers
  <2>4. q = [of |-> r.of, pos |-> r.pos + 1, void |-> FALSE]
    BY <2>2, <2>10 DEF Readers
  <2>5. PICK R : R = <<q>>
    OBVIOUS
  <2>11. b.s = [s EXCEPT !.reader = <<[r EXCEPT !.pos = @ + 1]>>] /\ b.file = Head(s.src)
        /\ b.data = <<Chunk(r.of, r.pos + 1, made[n][r.of])>> /\ b.left = Len(s.src) /\ b.last = FALSE
    BY <1>4 DEF Blob
  <2>12. [r EXCEPT !.pos = @ + 1] = q
    BY <2>2, <2>3
  <2>6. b.s = [s EXCEPT !.reader = R] /\ b.file = Head(s.src)
    BY <2>5, <2>11, <2>12
  <2>7. R \in Opt(Readers)
    BY <2>10, <2>5 DEF Opt
  <2>8. /\ b.s \in Sessions /\ b.s.users = s.users /\ b.s.app = s.app /\ b.s.src = s.src /\ b.s.writer = s.writer
        /\ b.s.reader = R
    BY <1>1, <2>6, <2>7 DEF Sessions
  <2>9. SessStep(n, i) /\ sess'[n][i] = b.s
    BY <2>8, SessSet
  <2> QED
    BY <1>2, <1>3, <1>4, <2>4, <2>5, <2>6, <2>8, <2>9, <2>11 DEF DownloadNode
<1>5. CASE ~(~r.void /\ r.pos < Packets)
  <2>1. PICK R, q : R = <<>> /\ q = Tail(s.src)
    OBVIOUS
  <2>2. b.s = [s EXCEPT !.reader = R, !.src = q] /\ b.file = Head(s.src)
    BY <1>5, <2>1 DEF Blob, NextFile
  <2>10. b.data = <<>> /\ b.last = TRUE /\ b.left = Len(b.s.src)
    BY <1>5 DEF Blob
  <2>3. R \in Opt(Readers)
    BY <2>1 DEF Opt
  <2>4. /\ b.s \in Sessions /\ b.s.users = s.users /\ b.s.app = s.app /\ b.s.src = q /\ b.s.writer = s.writer
        /\ b.s.reader = R
    BY <1>1, <1>2, <2>1, <2>2, <2>3 DEF Sessions
  <2>5. SessStep(n, i) /\ sess'[n][i] = b.s
    BY <2>4, SessSet
  <2>6. r.void \/ r.pos >= Packets
    BY <1>3, <1>5, NoneElse DEF Readers
  <2>7. b.left = Len(Tail(s.src)) /\ sess'[n][i].src = Tail(s.src)
    BY <2>1, <2>4, <2>5, <2>10
  <2> HIDE DEF r
  <2> QED
    BY <1>2, <1>3, <2>1, <2>2, <2>4, <2>5, <2>6, <2>7, <2>10 DEF DownloadNode, r
<1> QED
  BY <1>4, <1>5

\* ... and at the client.
OneClient(c, f, g) == DOMAIN g = Users /\ \A x \in Users : x # c => g[x] = f[x]
WriterOf(c, h, o)  == IF writer[c][h] = <<>> THEN Target(c, o) ELSE writer[c][h][1]
DownloadClient(c, h, b) ==
  LET w == WriterOf(c, h, b.file)
      opening == writer[c][h] = <<>>
  IN
  /\ TaskStep(c, h)
  /\ OneClient(c, writer, writer') /\ OneClient(c, have, have') /\ OneClient(c, fresh, fresh')
  /\ writer'[c] \in [Hosts(c) -> Opt(Targets)]
  /\ \A g \in Hosts(c) : g # h => writer'[c][g] = writer[c][g]
  /\ \/ task'[c][h] = "threw" /\ UNCHANGED <<writer, have, fresh>>
     \/ /\ task'[c][h] = IF b.left > 0 THEN "download" ELSE "end"
        /\ writer'[c][h] = IF b.last THEN <<>> ELSE <<w>>
        /\ \/ w.new /\ fresh'[c] = Written(fresh[c], w.file, opening, b.data) /\ have' = have
           \/ ~w.new /\ have'[c] = Written(have[c], w.file, opening, b.data) /\ fresh' = fresh

LEMMA DownloadFacts ==
  ASSUME ClientTyped, NodeTyped, NEW c \in Users, NEW h \in Hosts(c), Download(c, h),
         NEW n, n = Node(c, h), NEW i, i = Id(c, h), NEW b, b = Blob(n, sess[n][i])
  PROVE  /\ n \in Nodes /\ i \in Ids /\ phase[c] = "pool" /\ task[c][h] = "download" /\ up[n]
         /\ sess[n][i].src # <<>>
         /\ UNCHANGED <<in, phase, app, share, local, shipping, up, restarts, cwd, opts, made, bins, busy, history>>
         /\ DownloadNode(n, i, b) /\ DownloadClient(c, h, b)
<1> DEFINE w == WriterOf(c, h, b.file)
<1>1. /\ phase[c] = "pool" /\ task[c][h] = "download" /\ up[n] /\ sess[n][i].src # <<>>
      /\ sess' = Set(sess, n, i, b.s)
      /\ UNCHANGED <<in, phase, app, share, local, shipping, up, restarts, cwd, opts, made, bins, busy, history>>
  <2>1. phase[c] = "pool" /\ task[c][h] = "download" /\ up[n] /\ sess[n][i].src # <<>>
    BY DEF Download
  <2>2. sess' = Set(sess, n, i, b.s)
    BY DEF Download
  <2>3. UNCHANGED <<in, phase, app, share, local, shipping, up, restarts, cwd, opts, made, bins, busy, history>>
    BY DEF Download
  <2> QED
    BY <2>1, <2>2, <2>3
<1>2. n \in Nodes /\ i \in Ids
  BY InputFacts DEF ClientTyped, ClientAt
<1>3. DownloadNode(n, i, b) /\ b.file \in Files
  <2>1. DownloadNode(n, i, b)
    BY <1>1, <1>2, DownloadNodeFacts
  <2> QED
    BY <2>1 DEF DownloadNode
<1>4. /\ DOMAIN writer = Users /\ DOMAIN have = Users /\ DOMAIN fresh = Users
      /\ writer[c] \in [Hosts(c) -> Opt(Targets)]
  BY DEF ClientTyped, ClientAt
<1>5. w \in Targets
  <2>1. CASE writer[c][h] = <<>>
    <3>1. PICK v : v = (b.file \in DOMAIN have[c])
      OBVIOUS
    <3>2. w = [file |-> b.file, new |-> v] /\ v \in BOOLEAN
      BY <2>1, <3>1 DEF WriterOf, Target
    <3> QED
      BY <1>3, <3>2 DEF Targets
  <2>2. CASE writer[c][h] # <<>>
    <3>1. PICK x \in Targets : writer[c][h] = <<x>>
      BY <1>4, <2>2 DEF Opt
    <3> QED
      BY <2>2, <3>1 DEF WriterOf
  <2> QED
    BY <2>1, <2>2
<1>6. PICK got \in BOOLEAN :
       IF got
       THEN /\ task' = Set(task, c, h, IF b.left > 0 THEN "download" ELSE "end")
            /\ writer' = Set(writer, c, h, IF b.last THEN <<>> ELSE <<w>>)
            /\ IF w.new
               THEN /\ fresh' = [fresh EXCEPT ![c] = Written(@, w.file, writer[c][h] = <<>>, b.data)]
                    /\ UNCHANGED have
               ELSE /\ have' = [have EXCEPT ![c] = Written(@, w.file, writer[c][h] = <<>>, b.data)]
                    /\ UNCHANGED fresh
       ELSE /\ task' = Set(task, c, h, "threw")
            /\ UNCHANGED <<writer, have, fresh>>
  BY DEF Download, More, WriterAfter, WriterOf
<1>7. CASE got
  <2>1. PICK T, W : T = (IF b.left > 0 THEN "download" ELSE "end") /\ W = (IF b.last THEN <<>> ELSE <<w>>)
    OBVIOUS
  <2>2. T \in TaskNames
    BY <2>1 DEF TaskNames
  <2>3. TaskStep(c, h) /\ task'[c][h] = T
    BY <1>6, <1>7, <2>1, <2>2, TaskSet
  <2>4. W \in Opt(Targets)
    BY <1>5, <2>1 DEF Opt
  <2>5. writer' = Set(writer, c, h, W)
    BY <1>6, <1>7, <2>1
  <2>6. DOMAIN writer' = DOMAIN writer /\ writer'[c][h] = W /\ (\A x \in DOMAIN writer : x # c => writer'[x] = writer[x])
        /\ (\A g \in DOMAIN writer[c] : g # h => writer'[c][g] = writer[c][g])
        /\ writer'[c] \in [Hosts(c) -> Opt(Targets)]
    <3>1. DOMAIN writer[c] = Hosts(c)
      BY <1>4
    <3>2. PICK V, f : V = Opt(Targets) /\ f = writer
      OBVIOUS
    <3>3. c \in DOMAIN f /\ h \in DOMAIN f[c] /\ f[c] \in [Hosts(c) -> V] /\ W \in V /\ writer' = Set(f, c, h, W)
      BY <1>4, <2>4, <2>5, <3>1, <3>2
    <3>4. DOMAIN writer' = DOMAIN f /\ writer'[c][h] = W /\ (\A x \in DOMAIN f : x # c => writer'[x] = f[x])
          /\ (\A g \in DOMAIN f[c] : g # h => writer'[c][g] = f[c][g])
      BY <3>3, SetFacts
    <3>5. writer'[c] \in [Hosts(c) -> V]
      BY <3>3, SetFacts
    <3> QED
      BY <3>1, <3>2, <3>4, <3>5
  <2>7. CASE w.new
    BY <1>1, <1>2, <1>3, <1>4, <1>6, <1>7, <2>1, <2>3, <2>6, <2>7 DEF DownloadClient, OneClient
  <2>8. CASE ~w.new
    BY <1>1, <1>2, <1>3, <1>4, <1>6, <1>7, <2>1, <2>3, <2>6, <2>8 DEF DownloadClient, OneClient
  <2> QED
    BY <2>7, <2>8
<1>8. CASE ~got
  <2>1. TaskStep(c, h) /\ task'[c][h] = "threw"
    BY <1>6, <1>8, TaskSet DEF TaskNames
  <2> QED
    BY <1>1, <1>2, <1>3, <1>4, <1>6, <1>8, <2>1 DEF DownloadClient, OneClient
<1> QED
  BY <1>7, <1>8

\* A packet of a binary comes to a node.
LEMMA ReceivedFacts ==
  ASSUME ClientTyped, NodeTyped, NEW n \in Nodes, NEW i \in Ids, NEW c \in Users, NEW file \in Binaries,
         NEW data, NEW last \in BOOLEAN, Received(n, i, c, file, data, last)
  PROVE  /\ DOMAIN bins' = Nodes /\ sess' \in [Nodes -> [Ids -> Sessions]]
         /\ \A m \in Nodes : m # n => sess'[m] = sess[m]
         /\ \A j \in Ids : /\ sess'[n][j].app = sess[n][j].app /\ sess'[n][j].src = sess[n][j].src
                           /\ sess'[n][j].reader = sess[n][j].reader
                           /\ j # i => /\ sess'[n][j].users = sess[n][j].users
                                       /\ sess[n][j].writer = <<>> => sess'[n][j] = sess[n][j]
         /\ sess'[n][i].users = sess[n][i].users \cup {c}
         /\ last => sess'[n][i].writer = <<>>
<1> DEFINE opening == sess[n][i].writer = <<>>
           w == IF opening THEN [to |-> <<file, <<file, FALSE>> \in DOMAIN bins[n]>>, linked |-> TRUE]
                           ELSE sess[n][i].writer[1]
<1>3. w \in Receivers
  <2>1. CASE opening
    <3>1. PICK v : v = (<<file, FALSE>> \in DOMAIN bins[n])
      OBVIOUS
    <3>2. PICK z : z = <<file, v>>
      OBVIOUS
    <3>3. v \in BOOLEAN
      BY <3>1
    <3>4. z \in Binaries \X BOOLEAN
      BY <3>2, <3>3
    <3>5. w = [to |-> <<file, v>>, linked |-> TRUE]
      BY <2>1, <3>1
    <3>6. w = [to |-> z, linked |-> TRUE]
      BY <3>2, <3>5
    <3> HIDE DEF w
    <3> QED
      BY <3>4, <3>6 DEF Receivers
  <2>2. CASE ~opening
    <3>1. PICK x \in Receivers : sess[n][i].writer = <<x>>
      BY <2>2, SessionFields DEF Opt
    <3> QED
      BY <2>2, <3>1
  <2> QED
    BY <2>1, <2>2
<1> DEFINE U(s) == IF opening /\ s.writer # <<>> /\ s.writer[1].to = w.to
                   THEN [s EXCEPT !.writer = <<[@[1] EXCEPT !.linked = FALSE]>>] ELSE s
           S(s) == [s EXCEPT !.writer = IF last THEN <<>> ELSE <<w>>, !.users = @ \cup {c}]
<1>4. /\ DOMAIN bins' = DOMAIN bins
      /\ sess' = [sess EXCEPT ![n] = [j \in Ids |-> IF j # i THEN U(sess[n][j]) ELSE S(sess[n][i])]]
  <2>1. DOMAIN bins' = DOMAIN bins
    BY DEF Received
  <2>2. sess' = [sess EXCEPT ![n] = [j \in Ids |-> IF j # i THEN U(sess[n][j]) ELSE S(sess[n][i])]]
    BY DEF Received
  <2> QED
    BY <2>1, <2>2
<1> HIDE DEF opening, w
<1>5. \A j \in Ids : LET s == sess[n][j] IN
        /\ U(s) \in Sessions /\ U(s).app = s.app /\ U(s).src = s.src /\ U(s).reader = s.reader
        /\ U(s).users = s.users /\ (s.writer = <<>> => U(s) = s)
  <2> TAKE j \in Ids
  <2> PICK s : s = sess[n][j]
    OBVIOUS
  <2>1. s \in Sessions /\ s.writer \in Opt(Receivers)
    BY SessionFields
  <2>2. CASE opening /\ s.writer # <<>> /\ s.writer[1].to = w.to
    <3>1. PICK x \in Receivers : s.writer = <<x>>
      BY <2>1, <2>2 DEF Opt
    <3>2. PICK y : y = [x EXCEPT !.linked = FALSE]
      OBVIOUS
    <3>3. y \in Receivers
      BY <3>1, <3>2 DEF Receivers
    <3>4. PICK W : W = <<y>>
      OBVIOUS
    <3>5. W \in Opt(Receivers)
      BY <3>3, <3>4 DEF Opt
    <3>6. U(s) = [s EXCEPT !.writer = W]
      BY <2>2, <3>1, <3>2, <3>4
    <3> HIDE DEF U
    <3>7. /\ U(s) \in Sessions /\ U(s).app = s.app /\ U(s).src = s.src /\ U(s).reader = s.reader
          /\ U(s).users = s.users
      BY <2>1, <3>5, <3>6 DEF Sessions
    <3> QED
      BY <2>2, <3>7
  <2>3. CASE ~(opening /\ s.writer # <<>> /\ s.writer[1].to = w.to)
    BY <2>1, <2>3
  <2> QED
    BY <2>2, <2>3
<1>6. LET s == sess[n][i] IN
        /\ S(s) \in Sessions /\ S(s).app = s.app /\ S(s).src = s.src /\ S(s).reader = s.reader
        /\ S(s).users = s.users \cup {c} /\ (last => S(s).writer = <<>>)
  <2>1. PICK s, W, V : s = sess[n][i] /\ W = (IF last THEN <<>> ELSE <<w>>) /\ V = s.users \cup {c}
    OBVIOUS
  <2>2. s \in Sessions /\ V \in SUBSET Users /\ W \in Opt(Receivers)
    BY <1>3, <2>1, SessionFields DEF Opt
  <2>3. PICK x : x = S(s)
    OBVIOUS
  <2>4. x = [s EXCEPT !.writer = W, !.users = V]
    BY <2>1, <2>3
  <2>5. x \in Sessions /\ x.app = s.app /\ x.src = s.src /\ x.reader = s.reader /\ x.users = V /\ x.writer = W
    BY <2>2, <2>4 DEF Sessions
  <2> HIDE DEF S
  <2> QED
    BY <2>1, <2>3, <2>5
<1> HIDE DEF U, S
<1>7. PICK f : f = [j \in Ids |-> IF j # i THEN U(sess[n][j]) ELSE S(sess[n][i])]
  OBVIOUS
<1>8. f \in [Ids -> Sessions] /\ \A j \in Ids : f[j] = IF j # i THEN U(sess[n][j]) ELSE S(sess[n][i])
  BY <1>5, <1>6, <1>7
<1>9. sess' = [sess EXCEPT ![n] = f]
  BY <1>4, <1>7
<1>10. /\ sess' \in [Nodes -> [Ids -> Sessions]] /\ sess'[n] = f
       /\ \A m \in Nodes : m # n => sess'[m] = sess[m]
  BY <1>8, <1>9 DEF NodeTyped
<1> QED
  BY <1>4, <1>5, <1>6, <1>8, <1>10 DEF NodeTyped

\* What a client links, and the text of it.
LEMMA CurrentFacts ==
  ASSUME ClientTyped, NEW c \in Users
  PROVE  /\ Current(c) \in Binaries /\ out[c] \in Nat /\ Work(c).tests \in Nat /\ Work(c).lib \in BOOLEAN
         /\ Current(c) \in DOMAIN disk[c] => Text(c) \in Seq(Chunks) /\ Len(Text(c)) \in Nat
<1>1. Work(c).dir \in Dirs /\ app[c] \in Nat /\ Work(c).tests \in Nat /\ Work(c).lib \in BOOLEAN
  BY WorkFacts
<1>2. LinksAt(c)
  BY DEF ClientTyped, ClientAt
<1>3. PICK d, k, o : d = Work(c).dir /\ k = app[c] /\ o = out[c]
  OBVIOUS
<1>4. o \in Nat
  BY <1>1, <1>2, <1>3 DEF LinksAt
<1>5. <<d, k, o>> \in Binaries
  BY <1>1, <1>3, <1>4 DEF Binaries
<1>6. Current(c) = <<d, k, o>>
  BY <1>3 DEF Current, Binary, Work
<1>7. Current(c) \in DOMAIN disk[c] => Text(c) \in Seq(Chunks)
  BY <1>2 DEF LinksAt, Text
<1> QED
  BY <1>1, <1>3, <1>4, <1>5, <1>6, <1>7

\* A round of the loop that sends a binary.
LEMMA SendFacts ==
  ASSUME ClientTyped, NodeTyped, NEW c \in Users, NEW h \in Hosts(c), Send(c, h),
         NEW n, n = Node(c, h), NEW i, i = Id(c, h)
  PROVE  /\ n \in Nodes /\ i \in Ids /\ phase[c] = "send" /\ task[c][h] \in {"queued", "sending"} /\ up[n]
         /\ UNCHANGED <<in, phase, app, share, local, writer, have, fresh, out, again, disk, up, restarts, cwd, opts, made, busy, cut>>
         /\ DOMAIN bins' = Nodes /\ sess' \in [Nodes -> [Ids -> Sessions]]
         /\ \A m \in Nodes : m # n => sess'[m] = sess[m]
         /\ \A j \in Ids : /\ sess'[n][j].app = sess[n][j].app /\ sess'[n][j].src = sess[n][j].src
                           /\ sess'[n][j].reader = sess[n][j].reader
                           /\ j # i => /\ sess'[n][j].users = sess[n][j].users
                                       /\ sess[n][j].writer = <<>> => sess'[n][j] = sess[n][j]
         /\ sess'[n][i].users = sess[n][i].users \cup {c}
         /\ TaskStep(c, h) /\ DOMAIN sent' = Users
         /\ \/ sent[c][h] # Len(Text(c)) /\ task'[c][h] \in {"sending", "threw"}
            \/ sent[c][h] = Len(Text(c)) /\ task'[c][h] \in {"end", "threw"} /\ sess'[n][i].writer = <<>>
         /\ \A x \in Users : x # c => sent'[x] = sent[x]
         /\ sent'[c][h] = sent[c][h] + 1 /\ DOMAIN sent'[c] = Hosts(c)
         /\ \A g \in Hosts(c) : g # h => sent'[c][g] = sent[c][g]
         /\ Meets(c, n, i)
<1>1. n \in Nodes /\ i \in Ids /\ DOMAIN task = Users /\ DOMAIN sent = Users /\ DOMAIN sent[c] = Hosts(c)
  BY InputFacts DEF ClientTyped, ClientAt, LinksAt
<1>2. PICK last, data, file : /\ last = (sent[c][h] = Len(Text(c))) /\ file = Current(c)
                              /\ data = IF last THEN <<>> ELSE <<Text(c)[sent[c][h] + 1]>>
  OBVIOUS
<1>3. last \in BOOLEAN
  BY <1>2
<1>4. file \in Binaries
  BY <1>2, CurrentFacts
<1>5. Received(n, i, c, file, data, last)
  BY <1>2 DEF Send, ReadAll
<1>6. PICK got \in BOOLEAN : task' = Set(task, c, h, After(got, IF last THEN "end" ELSE "sending"))
  BY <1>2 DEF Send, ReadAll
<1>7. PICK v : v = After(got, IF last THEN "end" ELSE "sending")
  OBVIOUS
<1>8. v \in TaskNames /\ v \in (IF last THEN {"end", "threw"} ELSE {"sending", "threw"})
  BY <1>7 DEF After, TaskNames
<1>9. TaskStep(c, h) /\ task'[c][h] = v
  BY <1>6, <1>7, <1>8, TaskSet
<1>10. /\ phase[c] = "send" /\ task[c][h] \in {"queued", "sending"} /\ up[n] /\ Meets(c, n, i)
       /\ UNCHANGED <<in, phase, app, share, local, writer, have, fresh, out, again, disk, up, restarts, cwd, opts, made, busy>>
       /\ sent' = Set(sent, c, h, sent[c][h] + 1)
  BY DEF Send
<1>11. /\ DOMAIN sent' = Users /\ DOMAIN sent'[c] = Hosts(c) /\ sent'[c][h] = sent[c][h] + 1
       /\ \A x \in Users : x # c => sent'[x] = sent[x]
       /\ \A g \in Hosts(c) : g # h => sent'[c][g] = sent[c][g]
  BY <1>1, <1>10, SetFacts
<1>12. cut' = cut
  BY <1>10 DEF Meets
<1>13. /\ DOMAIN bins' = Nodes /\ sess' \in [Nodes -> [Ids -> Sessions]]
       /\ \A m \in Nodes : m # n => sess'[m] = sess[m]
       /\ \A j \in Ids : /\ sess'[n][j].app = sess[n][j].app /\ sess'[n][j].src = sess[n][j].src
                         /\ sess'[n][j].reader = sess[n][j].reader
                         /\ j # i => /\ sess'[n][j].users = sess[n][j].users
                                     /\ sess[n][j].writer = <<>> => sess'[n][j] = sess[n][j]
       /\ sess'[n][i].users = sess[n][i].users \cup {c}
       /\ last => sess'[n][i].writer = <<>>
  BY <1>1, <1>3, <1>4, <1>5, ReceivedFacts
<1>14. \/ sent[c][h] # Len(Text(c)) /\ task'[c][h] \in {"sending", "threw"}
       \/ sent[c][h] = Len(Text(c)) /\ task'[c][h] \in {"end", "threw"} /\ sess'[n][i].writer = <<>>
  BY <1>2, <1>8, <1>9, <1>13
<1> QED
  BY <1>1, <1>9, <1>10, <1>11, <1>12, <1>13, <1>14

\* A node dies ...
LEMMA DieFacts ==
  ASSUME ClientTyped, NodeTyped, NEW n \in Nodes, Die(n)
  PROVE  /\ UNCHANGED <<in, phase, app, share, local, writer, have, fresh, shipping, restarts, cwd, opts, made, bins, disturbed>>
         /\ up' \in [Nodes -> BOOLEAN] /\ ~up'[n] /\ \A m \in Nodes : m # n => up'[m] = up[m]
         /\ sess' \in [Nodes -> [Ids -> Sessions]] /\ \A i \in Ids : sess'[n][i] = NoSession
         /\ \A m \in Nodes : m # n => sess'[m] = sess[m] /\ busy'[m] = busy[m]
         /\ busy' \in [Nodes -> SUBSET Requests] /\ busy'[n] = {}
         /\ DOMAIN task' = Users /\ cut' \subseteq Users
         /\ \A c \in Users : /\ task'[c] \in [Hosts(c) -> TaskNames]
                             /\ \A h \in Hosts(c) : task'[c][h] =
                                  IF Node(c, h) = n /\ task[c][h] = "wait" THEN "threw" ELSE task[c][h]
<1>1. /\ UNCHANGED <<in, phase, app, share, local, writer, have, fresh, shipping, restarts, cwd, opts, made, bins, disturbed>>
      /\ up' = [up EXCEPT ![n] = FALSE] /\ sess' = [sess EXCEPT ![n] = [i \in Ids |-> NoSession]]
      /\ busy' = [busy EXCEPT ![n] = {}]
      /\ cut' = cut \cup {c \in Users : \E h \in Hosts(c) :
                           Node(c, h) = n /\ phase[c] = "send" /\ task[c][h] = "sending"}
      /\ task' = [c \in Users |-> [h \in Hosts(c) |->
                    IF Node(c, h) = n /\ task[c][h] = "wait" THEN "threw" ELSE task[c][h]]]
  BY DEF Die
<1>2. up' \in [Nodes -> BOOLEAN] /\ ~up'[n] /\ (\A m \in Nodes : m # n => up'[m] = up[m])
      /\ busy' \in [Nodes -> SUBSET Requests] /\ busy'[n] = {} /\ \A m \in Nodes : m # n => busy'[m] = busy[m]
  BY <1>1 DEF NodeTyped
<1>3. NoSession \in Sessions
  <2>1. <<>> \in Opt(Readers) /\ <<>> \in Opt(Receivers) /\ <<>> \in Seq(Files)
    BY DEF Opt
  <2> QED
    BY <2>1 DEF NoSession, Sessions
<1>4. PICK f : f = [i \in Ids |-> NoSession]
  OBVIOUS
<1>5. f \in [Ids -> Sessions] /\ (\A i \in Ids : f[i] = NoSession) /\ sess' = [sess EXCEPT ![n] = f]
  BY <1>1, <1>3, <1>4
<1>6. sess' \in [Nodes -> [Ids -> Sessions]] /\ sess'[n] = f /\ \A m \in Nodes : m # n => sess'[m] = sess[m]
  BY <1>5 DEF NodeTyped
<1>7. DOMAIN task' = Users /\ \A c \in Users : /\ task'[c] \in [Hosts(c) -> TaskNames]
                             /\ \A h \in Hosts(c) : task'[c][h] =
                                  IF Node(c, h) = n /\ task[c][h] = "wait" THEN "threw" ELSE task[c][h]
  <2>1. DOMAIN task' = Users
    BY <1>1
  <2>2. SUFFICES ASSUME NEW c \in Users
                 PROVE  /\ task'[c] \in [Hosts(c) -> TaskNames]
                        /\ \A h \in Hosts(c) : task'[c][h] =
                             IF Node(c, h) = n /\ task[c][h] = "wait" THEN "threw" ELSE task[c][h]
    BY <2>1
  <2>3. task[c] \in [Hosts(c) -> TaskNames]
    BY DEF ClientTyped, ClientAt
  <2>4. task'[c] = [h \in Hosts(c) |-> IF Node(c, h) = n /\ task[c][h] = "wait" THEN "threw" ELSE task[c][h]]
    BY <1>1
  <2> QED
    BY <2>3, <2>4 DEF TaskNames
<1>8. cut' \subseteq Users
  BY <1>1 DEF ClientTyped, ClientAt
<1> QED
  BY <1>1, <1>2, <1>5, <1>6, <1>7, <1>8

\* ... and is started again.
LEMMA RestartFacts ==
  ASSUME NodeTyped, NEW n \in Nodes, Restart(n)
  PROVE  /\ UNCHANGED <<in, client, sess, made, bins, busy, history>>
         /\ restarts' \in Nat /\ ~up[n]
         /\ up' \in [Nodes -> BOOLEAN] /\ up'[n] /\ \A m \in Nodes : m # n => up'[m] = up[m] /\ cwd'[m] = cwd[m] /\ opts'[m] = opts[m]
         /\ cwd' \in [Nodes -> Dirs] /\ opts' \in [Nodes -> Users \cup {"none"}]
BY InputsAssumption DEF Restart, NodeTyped

-----------------------------------------------------------------------------
(* Types, and where the pool threads can be.                               *)

\* What depends on the input only.
LEMMA InputKept ==
  ASSUME in' = in
  PROVE  /\ Users' = Users /\ Sessions' = Sessions /\ Requests' = Requests
         /\ \A c : Hosts(c)' = Hosts(c) /\ Threads(c)' = Threads(c) /\ Objects(c)' = Objects(c)
         /\ \A c, h : Node(c, h)' = Node(c, h) /\ Id(c, h)' = Id(c, h)
<1>1. Users' = Users
  BY DEF Users
<1>2. \A c : Hosts(c)' = Hosts(c) /\ Threads(c)' = Threads(c) /\ Objects(c)' = Objects(c)
  BY DEF Hosts, Threads, Objects, Object
<1>3. \A c, h : Node(c, h)' = Node(c, h) /\ Id(c, h)' = Id(c, h)
  BY DEF Node, Id
<1> QED
  BY <1>1, <1>2, <1>3 DEF Sessions, Requests

\* ... or on the batch, too.
LEMMA BatchKept ==
  ASSUME in' = in, NEW c, app'[c] = app[c]
  PROVE  /\ Work(c)' = Work(c) /\ Size(c)' = Size(c) /\ Rest(c)' = Rest(c)
         /\ \A h, size : Part(c, h, size)' = Part(c, h, size)
         /\ phase'[c] = phase[c] => \A h : Tasks(c, h)' = Tasks(c, h)
<1>1. Work(c)' = Work(c) /\ Threads(c)' = Threads(c)
  BY InputKept DEF Work
<1>2. Size(c)' = Size(c)
  BY <1>1 DEF Size
<1>3. \A h, size : Part(c, h, size)' = Part(c, h, size)
  BY DEF Part, Object
<1>4. Rest(c)' = Rest(c)
  BY <1>1, <1>2 DEF Rest, Object
<1>5. phase'[c] = phase[c] => \A h : Tasks(c, h)' = Tasks(c, h)
  BY <1>1, <1>2 DEF Tasks
<1> QED
  BY <1>1, <1>2, <1>3, <1>4, <1>5

\* What is linked, and the text of it, stay while the binary does.
LEMMA CurrentKept ==
  ASSUME NEW c, in' = in, app'[c] = app[c], out'[c] = out[c], disk'[c] = disk[c]
  PROVE  /\ Current(c)' = Current(c) /\ Text(c)' = Text(c) /\ Work(c)' = Work(c)
         /\ again'[c] = again[c] /\ sent'[c] = sent[c] => LinksAt(c)' = LinksAt(c)
<1>1. Current(c)' = Current(c) /\ Work(c)' = Work(c) /\ Hosts(c)' = Hosts(c)
  BY InputKept DEF Current, Binary, Work
<1> QED
  BY <1>1 DEF Text, LinksAt

\* The count of what is sent is right elsewhere, and stays so while nothing
\* is sent.
LEMMA SendingKept ==
  ASSUME NEW c
  PROVE  /\ phase'[c] # "send" => Sending(c)'
         /\ /\ Sending(c) /\ in' = in /\ phase'[c] = phase[c] /\ app'[c] = app[c] /\ out'[c] = out[c]
            /\ disk'[c] = disk[c] /\ sent'[c] = sent[c]
            /\ phase[c] = "send" => \A h \in Hosts(c) : task'[c][h] \in {"queued", "sending"} =>
                                                       task[c][h] \in {"queued", "sending"}
            => Sending(c)'
<1>1. CASE phase'[c] # "send"
  BY <1>1 DEF Sending
<1>2. ASSUME in' = in, app'[c] = app[c], out'[c] = out[c], disk'[c] = disk[c]
      PROVE  Hosts(c)' = Hosts(c) /\ Current(c)' = Current(c) /\ Text(c)' = Text(c)
  BY <1>2, CurrentKept, InputKept
<1> QED
  BY <1>1, <1>2 DEF Sending

\* Nothing but client c changes, among clients.
ClientStep(c) ==
  /\ in' = in
  /\ OneClient(c, phase, phase') /\ OneClient(c, app, app') /\ OneClient(c, task, task')
  /\ OneClient(c, share, share') /\ OneClient(c, local, local') /\ OneClient(c, writer, writer')
  /\ OneClient(c, have, have') /\ OneClient(c, fresh, fresh')
  /\ OneClient(c, out, out') /\ OneClient(c, again, again') /\ OneClient(c, disk, disk')
  /\ OneClient(c, sent, sent')

LEMMA ClientStepKept ==
  ASSUME ClientTyped, InStep, NEW c \in Users, ClientStep(c), ClientAt(c)', InStepAt(c)',
         disturbed' \subseteq Users, cut' \subseteq Users
  PROVE  ClientTyped' /\ InStep'
<1>1. \A x \in Users : x # c => ClientAt(x)'
  <2> SUFFICES ASSUME NEW x \in Users, x # c
               PROVE  ClientAt(x)'
    OBVIOUS
  <2>1. ClientAt(x)
    BY DEF ClientTyped
  <2>2. /\ phase'[x] = phase[x] /\ app'[x] = app[x] /\ task'[x] = task[x] /\ share'[x] = share[x]
        /\ local'[x] = local[x] /\ writer'[x] = writer[x] /\ in' = in
        /\ out'[x] = out[x] /\ again'[x] = again[x] /\ disk'[x] = disk[x] /\ sent'[x] = sent[x]
    BY DEF ClientStep, OneClient
  <2>3. Hosts(x)' = Hosts(x) /\ Objects(x)' = Objects(x)
    BY <2>2, InputKept
  <2>4. LinksAt(x)' = LinksAt(x)
    BY <2>2, CurrentKept
  <2> QED
    BY <2>1, <2>2, <2>3, <2>4 DEF ClientAt
<1>2. \A x \in Users : x # c => InStepAt(x)'
  <2> SUFFICES ASSUME NEW x \in Users, x # c
               PROVE  InStepAt(x)'
    OBVIOUS
  <2>1. InStepAt(x)
    BY DEF InStep
  <2>2. phase'[x] = phase[x] /\ app'[x] = app[x] /\ task'[x] = task[x] /\ in' = in
        /\ out'[x] = out[x] /\ disk'[x] = disk[x] /\ sent'[x] = sent[x]
    BY DEF ClientStep, OneClient
  <2>3. Hosts(x)' = Hosts(x) /\ \A h : Tasks(x, h)' = Tasks(x, h)
    BY <2>2, InputKept, BatchKept
  <2>4. Current(x)' = Current(x) /\ Text(x)' = Text(x) /\ Work(x)' = Work(x)
    BY <2>2, CurrentKept
  <2> QED
    BY <2>1, <2>2, <2>3, <2>4 DEF InStepAt, Sending
<1>3. ClientTyped'
  BY <1>1, InputKept DEF ClientTyped, ClientStep, OneClient
<1>4. InStep'
  BY <1>2, InputKept DEF InStep, ClientStep
<1> QED
  BY <1>3, <1>4

\* The node's part of a step in which nothing of the node changes.
LEMMA NodeKept ==
  ASSUME NodeTyped, in' = in, UNCHANGED node
  PROVE  NodeTyped'
BY InputKept DEF NodeTyped, node

-----------------------------------------------------------------------------
(* The client's own steps.                                                 *)

\* A request that fails before it is handled.
LEMMA UnansweredFacts ==
  ASSUME ClientTyped, NEW c \in Users, NEW h \in Hosts(c), Unanswered(c, h)
  PROVE  /\ ClientStep(c) /\ UNCHANGED <<in, phase, app, share, local, writer, have, fresh, shipping, node, history>>
         /\ phase[c] \in {"ping", "pool", "send"} /\ task[c][h] \in {"queued", "download", "sending"}
         /\ TaskStep(c, h) /\ task'[c][h] = "threw"
<1>1. TaskStep(c, h) /\ task'[c][h] = "threw"
  BY TaskSet DEF Unanswered, TaskNames
<1> QED
  BY <1>1 DEF Unanswered, ClientTyped, ClientStep, OneClient, TaskStep

LEMMA KilledFacts ==
  ASSUME ClientTyped, NEW c \in Users, Killed(c)
  PROVE  /\ ClientStep(c) /\ UNCHANGED <<in, app, task, share, local, writer, have, fresh, shipping, node, history>>
         /\ phase[c] \notin Ended /\ phase'[c] = "failed"
BY DEF Killed, ClientTyped, ClientStep, OneClient

LEMMA PingedFacts ==
  ASSUME ClientTyped, NEW c \in Users, Pinged(c)
  PROVE  /\ ClientStep(c) /\ UNCHANGED <<in, app, task, share, local, writer, have, fresh, shipping, node, history>>
         /\ phase[c] = "ping" /\ Settled(c)
         /\ phase'[c] = IF Threw(c) THEN "failed" ELSE "split"
BY DEF Pinged, ClientTyped, ClientStep, OneClient

LEMMA SplitFacts ==
  ASSUME ClientTyped, NEW c \in Users, Split(c)
  PROVE  /\ ClientStep(c) /\ UNCHANGED <<in, app, writer, have, fresh, shipping, node, history>>
         /\ phase[c] = "split" /\ phase'[c] = "pool"
         /\ share'[c] = [h \in Hosts(c) |-> IF h <= Threads(c) THEN Part(c, h, Size(c)) ELSE <<>>]
         /\ task'[c] = [h \in Hosts(c) |-> IF h <= Threads(c) /\ Size(c) > 0 THEN "queued" ELSE "none"]
         /\ local'[c] = Rest(c)
BY DEF Split, Size, Rest, ClientTyped, ClientStep, OneClient

LEMMA LocalCompileFacts ==
  ASSUME ClientTyped, NEW c \in Users, LocalCompile(c)
  PROVE  /\ ClientStep(c) /\ UNCHANGED <<in, app, task, share, writer, fresh, shipping, node, history>>
         /\ phase[c] = "pool" /\ local[c] # {}
         /\ \/ /\ have'[c] = [o \in DOMAIN have[c] \cup local[c] |-> IF o \in local[c] THEN Whole(o, c) ELSE have[c][o]]
               /\ local'[c] = {} /\ phase' = phase
            \/ phase'[c] = "failed" /\ UNCHANGED <<have, local>>
BY DEF LocalCompile, ClientTyped, ClientStep, OneClient

LEMMA JoinFacts ==
  ASSUME ClientTyped, NEW c \in Users, Join(c)
  PROVE  /\ ClientStep(c) /\ UNCHANGED <<in, app, task, share, local, writer, have, fresh, shipping, node, history>>
         /\ phase[c] = "pool" /\ local[c] = {} /\ Settled(c)
         /\ phase'[c] = IF Threw(c) THEN "failed" ELSE "link"
BY DEF Join, ClientTyped, ClientStep, OneClient

LEMMA LinkFacts ==
  ASSUME ClientTyped, NEW c \in Users, Link(c)
  PROVE  /\ ClientStep(c) /\ UNCHANGED <<in, app, share, local, writer, have, fresh, out, again, node, history>>
         /\ phase[c] = "link" /\ phase'[c] = "send"
         /\ task'[c] = [h \in Hosts(c) |-> "queued"] /\ sent'[c] = [h \in Hosts(c) |-> 0]
         /\ \E text \in {Whole(Current(c), c)} \cup Left(c, Current(c)) : disk'[c] = Put(disk[c], Current(c), text)
BY DEF Link, Post, ClientTyped, ClientStep, OneClient

\* After the sending: a failure; the library again; a test; and the next
\* application, or the end.
LEMMA SentFacts ==
  ASSUME ClientTyped, NEW c \in Users, Sent(c)
  PROVE  /\ ClientStep(c) /\ UNCHANGED <<in, share, local, writer, have, fresh, disk, node, history>>
         /\ phase[c] = "send" /\ Settled(c)
         /\ \/ /\ phase'[c] = "failed" /\ UNCHANGED <<app, task, shipping>>
            \/ /\ ~Threw(c) /\ ~LinkFailed(c) /\ phase'[c] = "send" /\ UNCHANGED <<app, out>> /\ again'[c] = TRUE
               /\ task'[c] = [h \in Hosts(c) |-> "queued"] /\ sent'[c] = [h \in Hosts(c) |-> 0]
            \/ /\ ~Threw(c) /\ ~LinkFailed(c) /\ out[c] < Work(c).tests
               /\ phase'[c] = "link" /\ out'[c] = out[c] + 1 /\ again'[c] = FALSE /\ UNCHANGED <<app, task, sent>>
            \/ /\ ~Threw(c) /\ ~LinkFailed(c) /\ out[c] = Work(c).tests /\ app[c] = Len(in[c].work)
               /\ phase'[c] = "done" /\ UNCHANGED <<app, task, shipping>>
            \/ /\ ~Threw(c) /\ ~LinkFailed(c) /\ out[c] = Work(c).tests /\ app[c] # Len(in[c].work)
               /\ phase'[c] = "split" /\ app'[c] = app[c] + 1 /\ out'[c] = 0 /\ again'[c] = FALSE
               /\ UNCHANGED <<task, sent>>
<1>1. CASE SentFails(c)
  BY <1>1 DEF SentFails, ClientTyped, ClientStep, OneClient
<1>2. CASE SendAgain(c)
  BY <1>2 DEF SendAgain, SentAll, Post, ClientTyped, ClientStep, OneClient
<1>3. CASE NextTest(c)
  BY <1>3 DEF NextTest, SentAll, ClientTyped, ClientStep, OneClient
<1>4. CASE NextApp(c)
  BY <1>4 DEF NextApp, SentAll, ClientTyped, ClientStep, OneClient
<1> QED
  BY <1>1, <1>2, <1>3, <1>4 DEF Sent

-----------------------------------------------------------------------------
(* Objects and the parts of a batch.                                       *)

LEMMA ObjectFacts ==
  ASSUME in \in Inputs, NEW c \in Users
  PROVE  /\ \A k \in DOMAIN in[c].work : \A i \in 1..in[c].work[k].n :
              /\ Object(c, k, i) \in Objects(c) /\ Object(c, k, i) \in Files
              /\ Object(c, k, i)[1] = in[c].work[k].dir
         /\ \A o \in Objects(c) : \E k \in DOMAIN in[c].work : \E i \in 1..in[c].work[k].n : o = Object(c, k, i)
         /\ \A k, i, l, j : Object(c, k, i) = Object(c, l, j) => k = l /\ i = j
<1>1. \A k \in DOMAIN in[c].work : k \in Nat /\ in[c].work[k].dir \in Dirs /\ in[c].work[k].n \in Nat
  BY InputFacts
<1>2. \A k \in DOMAIN in[c].work : \A i \in 1..in[c].work[k].n : Object(c, k, i) \in Objects(c)
  BY DEF Objects
<1>3. \A k \in DOMAIN in[c].work : \A i \in 1..in[c].work[k].n : Object(c, k, i) \in Files
  <2> TAKE k \in DOMAIN in[c].work
  <2> TAKE i \in 1..in[c].work[k].n
  <2> PICK d : d = in[c].work[k].dir
    OBVIOUS
  <2>1. d \in Dirs /\ k \in Nat /\ i \in Nat
    BY <1>1
  <2>2. <<d, k, i>> \in Files
    BY <2>1 DEF Files
  <2> QED
    BY <2>2 DEF Object
<1>4. \A k, i : Object(c, k, i)[1] = in[c].work[k].dir
  BY DEF Object
<1>5. \A o \in Objects(c) : \E k \in DOMAIN in[c].work : \E i \in 1..in[c].work[k].n : o = Object(c, k, i)
  BY DEF Objects
<1>6. \A k, i, l, j : Object(c, k, i) = Object(c, l, j) => k = l /\ i = j
  BY DEF Object
<1> QED
  BY <1>2, <1>3, <1>4, <1>5, <1>6

\* The part of host h is its own.
LEMMA PartIndex ==
  ASSUME NEW T \in Nat, NEW S \in Nat, NEW h \in Nat, h >= 1, h <= T, NEW j \in 1..S
  PROVE  /\ (h - 1) * S + j \in 1..(T * S) /\ (h - 1) * S + j > (h - 1) * S /\ (h - 1) * S + j <= h * S
<1>1. (h - 1) * S \in Nat /\ h * S \in Nat /\ T * S \in Nat /\ h * S = (h - 1) * S + S
  OBVIOUS
<1>2. h * S <= T * S
  OBVIOUS
<1> QED
  BY <1>1, <1>2

LEMMA PartFacts ==
  ASSUME ClientTyped, NEW c \in Users, NEW h \in Hosts(c), h <= Threads(c)
  PROVE  /\ Part(c, h, Size(c)) \in Seq(Files) /\ Len(Part(c, h, Size(c))) = Size(c)
         /\ \A j \in 1..Size(c) : /\ (h - 1) * Size(c) + j \in 1..Work(c).n
                                  /\ (h - 1) * Size(c) + j \in 1..(Threads(c) * Size(c))
                                  /\ Part(c, h, Size(c))[j] = Object(c, app[c], (h - 1) * Size(c) + j)
                                  /\ Part(c, h, Size(c))[j] \in Objects(c)
                                  /\ Part(c, h, Size(c))[j][1] = Work(c).dir
<1>1. /\ Size(c) \in Nat /\ Threads(c) \in Nat /\ (Threads(c) + 1) * Size(c) <= Work(c).n /\ Work(c).n \in Nat
      /\ h \in Nat /\ h >= 1 /\ in \in Inputs /\ app[c] \in DOMAIN in[c].work /\ Work(c) = in[c].work[app[c]]
  BY WorkFacts, InputFacts DEF ClientTyped, Work
<1>2. PICK T, S, N : T = Threads(c) /\ S = Size(c) /\ N = Work(c).n
  OBVIOUS
<1>3. T * S <= N
  <2>1. (T + 1) * S = T * S + S
    BY <1>1, <1>2
  <2> QED
    BY <1>1, <1>2, <2>1
<1>4. \A j \in 1..S : (h - 1) * S + j \in 1..(T * S) /\ (h - 1) * S + j \in 1..N
  <2> TAKE j \in 1..S
  <2>1. (h - 1) * S + j \in 1..(T * S)
    BY <1>1, <1>2, PartIndex
  <2>2. T * S \in Nat
    BY <1>1, <1>2
  <2> QED
    BY <1>1, <1>2, <1>3, <2>1, <2>2
<1>5. \A j \in 1..S : LET o == Object(c, app[c], (h - 1) * S + j)
                      IN  o \in Files /\ o \in Objects(c) /\ o[1] = Work(c).dir
  BY <1>1, <1>2, <1>4, ObjectFacts
<1>6. Part(c, h, S) = [j \in 1..S |-> Object(c, app[c], (h - 1) * S + j)]
  BY DEF Part
<1>7. Part(c, h, S) \in [1..S -> Files]
  BY <1>5, <1>6
<1>8. Part(c, h, S) \in Seq(Files) /\ Len(Part(c, h, S)) = S
  BY <1>1, <1>2, <1>7
<1> QED
  BY <1>2, <1>4, <1>5, <1>6, <1>8

LEMMA RestFacts ==
  ASSUME ClientTyped, NEW c \in Users
  PROVE  Rest(c) \subseteq Objects(c)
<1>1. /\ Size(c) \in Nat /\ Threads(c) \in Nat /\ Work(c).n \in Nat
      /\ in \in Inputs /\ app[c] \in DOMAIN in[c].work /\ Work(c) = in[c].work[app[c]]
  BY WorkFacts DEF ClientTyped, Work
<1>2. PICK p \in Nat : p = Threads(c) * Size(c)
  BY <1>1
<1>3. Rest(c) = {Object(c, app[c], i) : i \in (p + 1)..Work(c).n}
  BY <1>2 DEF Rest
<1> QED
  BY <1>1, <1>2, <1>3, ObjectFacts

-----------------------------------------------------------------------------
(* Types, and where the pool threads can be, after each step.              *)

Typed == ClientTyped /\ NodeTyped /\ InStep

\* What the place of a pool thread tells of the main thread.
LEMMA TaskPhases ==
  ASSUME Typed, NEW c \in Users, NEW h \in Hosts(c)
  PROVE  /\ phase[c] \in PhaseNames /\ task[c][h] \in TaskNames
         /\ task[c][h] \in {"wait", "download"} => phase[c] \in {"pool", "failed"}
         /\ task[c][h] = "sending" => phase[c] \in {"send", "failed"}
         /\ task[c][h] \in {"queued", "threw"} => phase[c] \in {"ping", "pool", "send", "failed"}
         /\ phase[c] \in {"ping", "pool"} /\ task[c][h] # "none" => h <= Threads(c)
         /\ phase[c] = "ping" /\ h <= Threads(c) => task[c][h] \in {"queued", "end", "threw"}
         /\ phase[c] = "pool" /\ task[c][h] # "none" => Size(c) > 0
         /\ phase[c] = "pool" /\ task[c][h] = "none" => ~(h <= Threads(c) /\ Size(c) > 0)
         /\ phase[c] \in {"split", "link", "done"} => task[c][h] \in {"none", "end"}
<1>1. phase[c] \in PhaseNames /\ task[c][h] \in TaskNames /\ task[c][h] \in Tasks(c, h)
  BY DEF Typed, ClientTyped, ClientAt, InStep, InStepAt
<1>2. CASE phase[c] = "ping"
  BY <1>1, <1>2 DEF Tasks
<1>3. CASE phase[c] = "pool"
  BY <1>1, <1>3 DEF Tasks
<1>4. CASE phase[c] = "send"
  BY <1>1, <1>4 DEF Tasks
<1>5. CASE phase[c] = "failed"
  BY <1>1, <1>5
<1>6. CASE phase[c] \in {"split", "link", "done"}
  BY <1>1, <1>6 DEF Tasks
<1> QED
  BY <1>1, <1>2, <1>3, <1>4, <1>5, <1>6 DEF PhaseNames

\* A step of the client that changes task, phase or sent only.
LEMMA ThreadTyped ==
  ASSUME Typed, NEW c \in Users, ClientStep(c), UNCHANGED <<share, local, writer, have, fresh, node, history>>,
         phase'[c] \in PhaseNames, app'[c] \in DOMAIN in[c].work, task'[c] \in [Hosts(c) -> TaskNames],
         LinksAt(c)', InStepAt(c)'
  PROVE  Typed'
<1>1. in' = in /\ Hosts(c)' = Hosts(c) /\ Objects(c)' = Objects(c) /\ Users' = Users
  BY InputKept DEF ClientStep
<1>2. ClientAt(c) /\ disturbed' \subseteq Users /\ cut' \subseteq Users
  BY DEF Typed, ClientTyped, history
<1>3. ClientAt(c)'
  BY <1>1, <1>2 DEF ClientAt
<1>4. ClientTyped' /\ InStep'
  BY <1>2, <1>3, ClientStepKept DEF Typed
<1>5. NodeTyped'
  BY <1>1, NodeKept DEF Typed
<1> QED
  BY <1>4, <1>5 DEF Typed

LEMMA UnansweredTyped ==
  ASSUME Typed, NEW c \in Users, NEW h \in Hosts(c), Unanswered(c, h)
  PROVE  Typed'
<1>1. /\ ClientStep(c) /\ UNCHANGED <<in, phase, app, share, local, writer, have, fresh, shipping, node, history>>
      /\ phase[c] \in {"ping", "pool", "send"} /\ task[c][h] \in {"queued", "download", "sending"}
      /\ TaskStep(c, h) /\ task'[c][h] = "threw"
  BY UnansweredFacts DEF Typed
<1>2. ClientAt(c) /\ InStepAt(c)
  BY DEF Typed, ClientTyped, InStep
<1>3. \A g : Tasks(c, g)' = Tasks(c, g)
  BY <1>1, BatchKept
<1>4. "threw" \in Tasks(c, h)
  BY <1>1, <1>2 DEF InStepAt, Tasks
<1>5. InStepAt(c)'
  BY <1>1, <1>2, <1>3, <1>4, InputKept, SendingKept DEF InStepAt, TaskStep
<1> QED
  BY <1>1, <1>2, <1>5, ThreadTyped, CurrentKept DEF ClientAt, TaskStep

LEMMA KilledTyped ==
  ASSUME Typed, NEW c \in Users, Killed(c)
  PROVE  Typed'
<1>1. /\ ClientStep(c) /\ UNCHANGED <<in, app, task, share, local, writer, have, fresh, shipping, node, history>>
      /\ phase'[c] = "failed"
  BY KilledFacts DEF Typed
<1>2. ClientAt(c) /\ InStepAt(c)
  BY DEF Typed, ClientTyped, InStep
<1>3. InStepAt(c)'
  BY <1>1, <1>2, InputKept, SendingKept DEF InStepAt, Tasks, ClientAt
<1> QED
  BY <1>1, <1>2, <1>3, ThreadTyped, CurrentKept DEF ClientAt, PhaseNames

\* Threads that have come to an end without a throw.
LEMMA SettledFacts ==
  ASSUME Typed, NEW c \in Users, Settled(c), ~Threw(c)
  PROVE  \A h \in Hosts(c) : task[c][h] \in {"none", "end"}
BY DEF Settled, Threw

LEMMA PingedTyped ==
  ASSUME Typed, NEW c \in Users, Pinged(c)
  PROVE  Typed'
<1>1. /\ ClientStep(c) /\ UNCHANGED <<in, app, task, share, local, writer, have, fresh, shipping, node, history>>
      /\ phase[c] = "ping" /\ Settled(c)
      /\ phase'[c] = IF Threw(c) THEN "failed" ELSE "split"
  BY PingedFacts DEF Typed
<1>2. ClientAt(c) /\ InStepAt(c)
  BY DEF Typed, ClientTyped, InStep
<1>3. InStepAt(c)'
  BY <1>1, <1>2, InputKept, SettledFacts, SendingKept DEF InStepAt, Tasks, ClientAt
<1> QED
  BY <1>1, <1>2, <1>3, ThreadTyped, CurrentKept DEF ClientAt, PhaseNames

LEMMA JoinTyped ==
  ASSUME Typed, NEW c \in Users, Join(c)
  PROVE  Typed'
<1>1. /\ ClientStep(c) /\ UNCHANGED <<in, app, task, share, local, writer, have, fresh, shipping, node, history>>
      /\ phase[c] = "pool" /\ local[c] = {} /\ Settled(c)
      /\ phase'[c] = IF Threw(c) THEN "failed" ELSE "link"
  BY JoinFacts DEF Typed
<1>2. ClientAt(c) /\ InStepAt(c)
  BY DEF Typed, ClientTyped, InStep
<1>3. InStepAt(c)'
  BY <1>1, <1>2, InputKept, SettledFacts, SendingKept DEF InStepAt, Tasks, ClientAt
<1> QED
  BY <1>1, <1>2, <1>3, ThreadTyped, CurrentKept DEF ClientAt, PhaseNames

\* The text of a binary that was linked, or tried.
LEMMA TextTyped ==
  ASSUME ClientTyped, NEW c \in Users, NEW text \in {Whole(Current(c), c)} \cup Left(c, Current(c))
  PROVE  text \in Seq(Chunks)
<1>1. PICK b \in Binaries : b = Current(c)
  BY CurrentFacts
<1>2. c \in Clients /\ Packets \in Nat
  BY InputFacts, InputsAssumption DEF ClientTyped
<1>3. Whole(b, c) \in Seq(Chunks)
  <2>1. \A k \in 1..Packets : Chunk(b, k, c) \in Chunks
    BY <1>2 DEF Chunk, Chunks
  <2>2. Whole(b, c) \in [1..Packets -> Chunks]
    BY <2>1 DEF Whole
  <2> QED
    BY <1>2, <2>2
<1>4. Old(b) \in Seq(Chunks)
  BY DEF Old, Chunk, Chunks
<1>5. <<>> \in Seq(Chunks)
  OBVIOUS
<1>6. text = Whole(b, c) \/ text = Old(b) \/ text = <<>>
  BY <1>1 DEF Left
<1> QED
  BY <1>3, <1>4, <1>5, <1>6

\* All hosts are to be sent to again.
LEMMA PostTyped ==
  ASSUME ClientTyped, NEW c \in Users, in' = in, Current(c)' \in DOMAIN disk'[c], Text(c)' \in Seq(Chunks),
         task'[c] = [h \in Hosts(c) |-> "queued"], sent'[c] = [h \in Hosts(c) |-> 0]
  PROVE  /\ task'[c] \in [Hosts(c) -> TaskNames] /\ \A h \in Hosts(c) : task'[c][h] = "queued"
         /\ DOMAIN sent'[c] = Hosts(c) /\ \A h \in Hosts(c) : sent'[c][h] \in Nat
         /\ Sending(c)'
<1>1. Hosts(c)' = Hosts(c) /\ Len(Text(c))' \in Nat
  BY InputKept
<1>2. \A h \in Hosts(c) : task'[c][h] = "queued" /\ sent'[c][h] = 0
  OBVIOUS
<1> QED
  BY <1>1, <1>2 DEF TaskNames, Sending

LEMMA LinkTyped ==
  ASSUME Typed, NEW c \in Users, Link(c)
  PROVE  Typed'
<1>1. /\ ClientStep(c) /\ UNCHANGED <<in, app, share, local, writer, have, fresh, out, again, node, history>>
      /\ phase[c] = "link" /\ phase'[c] = "send"
      /\ task'[c] = [h \in Hosts(c) |-> "queued"] /\ sent'[c] = [h \in Hosts(c) |-> 0]
  BY LinkFacts DEF Typed
<1>2. ClientAt(c) /\ InStepAt(c) /\ Hosts(c)' = Hosts(c)
  BY <1>1, InputKept DEF Typed, ClientTyped, InStep
<1>3. PICK text \in {Whole(Current(c), c)} \cup Left(c, Current(c)) : disk'[c] = Put(disk[c], Current(c), text)
  BY LinkFacts DEF Typed
<1>4. text \in Seq(Chunks)
  BY <1>3, TextTyped DEF Typed
<1>5. Current(c)' = Current(c) /\ Work(c)' = Work(c)
  BY <1>1 DEF Current, Binary, Work
<1>6. /\ DOMAIN disk'[c] = DOMAIN disk[c] \cup {Current(c)} /\ disk'[c][Current(c)] = text
      /\ \A b \in DOMAIN disk[c] : b # Current(c) => disk'[c][b] = disk[c][b]
  <2> PICK f, b : f = disk[c] /\ b = Current(c)
    OBVIOUS
  <2>1. /\ DOMAIN Put(f, b, text) = DOMAIN f \cup {b} /\ Put(f, b, text)[b] = text
        /\ \A y \in DOMAIN f : y # b => Put(f, b, text)[y] = f[y]
    BY DEF Put
  <2> QED
    BY <1>3, <2>1
<1>7. Current(c)' \in DOMAIN disk'[c] /\ Text(c)' \in Seq(Chunks)
  BY <1>4, <1>5, <1>6 DEF Text
<1>8. /\ task'[c] \in [Hosts(c) -> TaskNames] /\ \A h \in Hosts(c) : task'[c][h] = "queued"
      /\ DOMAIN sent'[c] = Hosts(c) /\ \A h \in Hosts(c) : sent'[c][h] \in Nat
      /\ Sending(c)'
  BY <1>1, <1>7, PostTyped DEF Typed
<1>9. \A b \in DOMAIN disk'[c] : disk'[c][b] \in Seq(Chunks)
  BY <1>2, <1>4, <1>6 DEF ClientAt, LinksAt
<1>10. LinksAt(c)'
  BY <1>1, <1>2, <1>5, <1>8, <1>9 DEF ClientAt, LinksAt
<1>11. InStepAt(c)'
  BY <1>1, <1>2, <1>8 DEF InStepAt, Tasks
<1>12. phase'[c] \in PhaseNames /\ app'[c] \in DOMAIN in[c].work
  BY <1>1, <1>2 DEF ClientAt, PhaseNames
<1> QED
  BY <1>1, <1>8, <1>10, <1>11, <1>12, ThreadTyped

LEMMA SentTyped ==
  ASSUME Typed, NEW c \in Users, Sent(c)
  PROVE  Typed'
<1>1. /\ ClientStep(c) /\ UNCHANGED <<in, share, local, writer, have, fresh, disk, node, history>>
      /\ phase[c] = "send" /\ Settled(c)
  BY SentFacts DEF Typed
<1>2. /\ ClientAt(c) /\ InStepAt(c) /\ LinksAt(c) /\ Sending(c) /\ Hosts(c)' = Hosts(c)
      /\ task[c] \in [Hosts(c) -> TaskNames] /\ app[c] \in DOMAIN in[c].work
  BY <1>1, InputKept DEF Typed, ClientTyped, InStep, InStepAt, ClientAt
<1>3. out[c] \in Nat /\ Work(c).tests \in Nat /\ Current(c) \in DOMAIN disk[c] /\ Text(c) \in Seq(Chunks)
  BY <1>1, <1>2, CurrentFacts DEF Typed, Sending
<1>4. CASE phase'[c] = "failed" /\ UNCHANGED <<app, task, shipping>>
  <2>1. InStepAt(c)' /\ LinksAt(c)'
    BY <1>1, <1>2, <1>4, SendingKept, CurrentKept DEF InStepAt, Tasks
  <2> QED
    BY <1>1, <1>2, <1>4, <2>1, ThreadTyped DEF PhaseNames
<1>5. CASE /\ phase'[c] = "send" /\ UNCHANGED <<app, out>> /\ again'[c] = TRUE
           /\ task'[c] = [h \in Hosts(c) |-> "queued"] /\ sent'[c] = [h \in Hosts(c) |-> 0]
  <2>1. Current(c)' = Current(c) /\ Text(c)' = Text(c) /\ Work(c)' = Work(c)
    BY <1>1, <1>5, CurrentKept
  <2>2. /\ task'[c] \in [Hosts(c) -> TaskNames] /\ \A h \in Hosts(c) : task'[c][h] = "queued"
        /\ DOMAIN sent'[c] = Hosts(c) /\ \A h \in Hosts(c) : sent'[c][h] \in Nat
        /\ Sending(c)'
    BY <1>1, <1>3, <1>5, <2>1, PostTyped DEF Typed
  <2>3. InStepAt(c)' /\ LinksAt(c)'
    BY <1>1, <1>2, <1>5, <2>1, <2>2 DEF InStepAt, Tasks, LinksAt
  <2> QED
    BY <1>1, <1>2, <1>5, <2>2, <2>3, ThreadTyped DEF PhaseNames
<1>6. CASE /\ ~Threw(c) /\ out[c] < Work(c).tests /\ phase'[c] = "link" /\ out'[c] = out[c] + 1
           /\ again'[c] = FALSE /\ UNCHANGED <<app, task, sent>>
  <2>1. Work(c)' = Work(c)
    BY <1>1, <1>6 DEF Work
  <2>2. LinksAt(c)'
    <3>1. out'[c] \in 0..Work(c)'.tests
      BY <1>3, <1>6, <2>1
    <3> QED
      BY <1>1, <1>2, <1>6, <3>1 DEF LinksAt
  <2>3. InStepAt(c)'
    BY <1>1, <1>2, <1>6, SendingKept, SettledFacts DEF InStepAt, Tasks
  <2> QED
    BY <1>1, <1>2, <1>6, <2>2, <2>3, ThreadTyped DEF PhaseNames
<1>7. CASE ~Threw(c) /\ app[c] = Len(in[c].work) /\ phase'[c] = "done" /\ UNCHANGED <<app, task, shipping>>
  <2>1. InStepAt(c)' /\ LinksAt(c)'
    BY <1>1, <1>2, <1>7, SendingKept, CurrentKept, SettledFacts DEF InStepAt, Tasks
  <2> QED
    BY <1>1, <1>2, <1>7, <2>1, ThreadTyped DEF PhaseNames
<1>8. CASE /\ ~Threw(c) /\ app[c] # Len(in[c].work) /\ phase'[c] = "split" /\ app'[c] = app[c] + 1
           /\ out'[c] = 0 /\ again'[c] = FALSE /\ UNCHANGED <<task, sent>>
  <2>1. app'[c] \in DOMAIN in[c].work
    <3>1. DOMAIN in[c].work = 1..Len(in[c].work) /\ Len(in[c].work) \in Nat
      BY InputFacts DEF Typed, ClientTyped
    <3> QED
      BY <1>2, <1>8, <3>1
  <2>2. Work(c)'.tests \in Nat
    BY <1>1, <2>1, InputFacts DEF Typed, ClientTyped, Work
  <2>3. LinksAt(c)'
    <3>1. out'[c] \in 0..Work(c)'.tests
      BY <1>8, <2>2
    <3> QED
      BY <1>1, <1>2, <1>8, <3>1 DEF LinksAt
  <2>4. InStepAt(c)'
    BY <1>1, <1>2, <1>8, SendingKept, SettledFacts DEF InStepAt, Tasks
  <2> QED
    BY <1>1, <1>2, <1>8, <2>1, <2>3, <2>4, ThreadTyped DEF PhaseNames
<1> QED
  BY <1>4, <1>5, <1>6, <1>7, <1>8, SentFacts DEF Typed

LEMMA SplitTyped ==
  ASSUME Typed, NEW c \in Users, Split(c)
  PROVE  Typed'
<1>1. /\ ClientStep(c) /\ UNCHANGED <<in, app, writer, have, fresh, shipping, node, history>>
      /\ phase[c] = "split" /\ phase'[c] = "pool"
      /\ share'[c] = [h \in Hosts(c) |-> IF h <= Threads(c) THEN Part(c, h, Size(c)) ELSE <<>>]
      /\ task'[c] = [h \in Hosts(c) |-> IF h <= Threads(c) /\ Size(c) > 0 THEN "queued" ELSE "none"]
      /\ local'[c] = Rest(c)
  BY SplitFacts DEF Typed
<1>2. ClientAt(c) /\ InStepAt(c) /\ Hosts(c)' = Hosts(c) /\ Size(c)' = Size(c) /\ Threads(c)' = Threads(c)
      /\ Objects(c)' = Objects(c)
  BY <1>1, InputKept, BatchKept DEF Typed, ClientTyped, InStep
<1>3. \A h \in Hosts(c) : /\ share'[c][h] \in Seq(Files)
                          /\ \A j \in DOMAIN share'[c][h] : share'[c][h][j] \in Objects(c)
  <2> TAKE h \in Hosts(c)
  <2>1. CASE h <= Threads(c)
    <3>1. share'[c][h] = Part(c, h, Size(c))
      BY <1>1, <2>1
    <3>2. DOMAIN Part(c, h, Size(c)) = 1..Size(c)
      BY DEF Part
    <3> QED
      BY <2>1, <3>1, <3>2, PartFacts DEF Typed
  <2>2. CASE ~(h <= Threads(c))
    BY <1>1, <2>2
  <2> QED
    BY <2>1, <2>2
<1>4. share'[c] \in [Hosts(c) -> Seq(Files)]
  BY <1>1, <1>3
<1>5. task'[c] \in [Hosts(c) -> TaskNames]
      /\ \A h \in Hosts(c) : task'[c][h] = IF h <= Threads(c) /\ Size(c) > 0 THEN "queued" ELSE "none"
  BY <1>1 DEF TaskNames
<1>6. local'[c] \subseteq Objects(c)
  BY <1>1, RestFacts DEF Typed
<1>7. ClientAt(c)'
  BY <1>1, <1>2, <1>3, <1>4, <1>5, <1>6, CurrentKept DEF ClientAt, PhaseNames
<1>8. InStepAt(c)'
  BY <1>1, <1>2, <1>5, SendingKept DEF InStepAt, Tasks
<1>9. ClientTyped' /\ InStep'
  BY <1>1, <1>7, <1>8, ClientStepKept DEF Typed, ClientTyped, history
<1> QED
  BY <1>1, <1>9, NodeKept DEF Typed

LEMMA LocalCompileTyped ==
  ASSUME Typed, NEW c \in Users, LocalCompile(c)
  PROVE  Typed'
<1>1. /\ ClientStep(c) /\ UNCHANGED <<in, app, task, share, writer, fresh, shipping, node, history>>
      /\ phase[c] = "pool"
      /\ \/ local'[c] = {} /\ phase' = phase
         \/ phase'[c] = "failed" /\ UNCHANGED <<have, local>>
  BY LocalCompileFacts DEF Typed
<1>2. ClientAt(c) /\ InStepAt(c) /\ Hosts(c)' = Hosts(c) /\ Objects(c)' = Objects(c)
      /\ (phase' = phase => \A g : Tasks(c, g)' = Tasks(c, g))
  BY <1>1, InputKept, BatchKept DEF Typed, ClientTyped, InStep
<1>3. ClientAt(c)'
  BY <1>1, <1>2, CurrentKept DEF ClientAt, PhaseNames
<1>4. InStepAt(c)'
  <2>1. CASE phase' = phase
    BY <1>1, <1>2, <2>1, SendingKept DEF InStepAt
  <2>2. CASE phase'[c] = "failed"
    BY <1>1, <1>2, <2>2, SendingKept DEF InStepAt, Tasks, ClientAt
  <2> QED
    BY <1>1, <2>1, <2>2
<1>5. ClientTyped' /\ InStep'
  BY <1>1, <1>3, <1>4, ClientStepKept DEF Typed, ClientTyped, history
<1> QED
  BY <1>1, <1>5, NodeKept DEF Typed

LEMMA SetupTyped ==
  ASSUME Typed, NEW c \in Users, NEW h \in Hosts(c), Setup(c, h)
  PROVE  Typed'
<1> PICK n, i : n = Node(c, h) /\ i = Id(c, h)
  OBVIOUS
<1>1. /\ n \in Nodes /\ phase[c] = "ping" /\ task[c][h] = "queued"
      /\ TaskStep(c, h) /\ task'[c][h] \in {"end", "threw"}
      /\ UNCHANGED <<in, phase, app, share, local, writer, have, fresh, shipping, up, restarts, made, bins, busy, cut>>
      /\ sess' \in [Nodes -> [Ids -> Sessions]]
      /\ cwd' \in [Nodes -> Dirs] /\ opts' \in [Nodes -> Users \cup {"none"}] /\ Meets(c, n, i)
  BY SetupFacts DEF Typed, SessStep
<1>2. ClientAt(c) /\ InStepAt(c) /\ Hosts(c)' = Hosts(c) /\ Objects(c)' = Objects(c)
      /\ \A g : Tasks(c, g)' = Tasks(c, g)
  BY <1>1, InputKept, BatchKept DEF Typed, ClientTyped, InStep
<1>3. disturbed' \subseteq Users /\ cut' \subseteq Users
  BY <1>1 DEF Meets, Others, Typed, ClientTyped
<1>4. ClientStep(c) /\ ClientAt(c)'
  BY <1>1, <1>2, CurrentKept DEF ClientStep, OneClient, TaskStep, ClientAt, Typed, ClientTyped
<1>5. InStepAt(c)'
  BY <1>1, <1>2, SendingKept DEF InStepAt, TaskStep, Tasks
<1>6. NodeTyped'
  BY <1>1, InputKept DEF Typed, NodeTyped
<1> QED
  BY <1>3, <1>4, <1>5, <1>6, ClientStepKept DEF Typed

LEMMA CompileStartTyped ==
  ASSUME Typed, NEW c \in Users, NEW h \in Hosts(c), CompileStart(c, h)
  PROVE  Typed'
<1> PICK n, i : n = Node(c, h) /\ i = Id(c, h)
  OBVIOUS
<1>1. /\ phase[c] = "pool" /\ task[c][h] = "queued" /\ TaskStep(c, h) /\ task'[c][h] = "wait"
      /\ UNCHANGED <<in, phase, app, share, local, writer, have, fresh, shipping, up, restarts,
                     opts, sess, made, bins, history>>
      /\ cwd' \in [Nodes -> Dirs] /\ busy' \in [Nodes -> SUBSET Requests]
  BY CompileStartFacts DEF Typed
<1>2. ClientAt(c) /\ InStepAt(c) /\ Hosts(c)' = Hosts(c) /\ Objects(c)' = Objects(c)
      /\ \A g : Tasks(c, g)' = Tasks(c, g)
  BY <1>1, InputKept, BatchKept DEF Typed, ClientTyped, InStep
<1>3. disturbed' \subseteq Users /\ cut' \subseteq Users
  BY <1>1 DEF history, Typed, ClientTyped
<1>4. ClientStep(c) /\ ClientAt(c)'
  BY <1>1, <1>2, CurrentKept DEF ClientStep, OneClient, TaskStep, ClientAt, Typed, ClientTyped
<1>5. InStepAt(c)'
  BY <1>1, <1>2, SendingKept DEF InStepAt, TaskStep, Tasks
<1>6. NodeTyped'
  BY <1>1, InputKept DEF Typed, NodeTyped
<1> QED
  BY <1>3, <1>4, <1>5, <1>6, ClientStepKept DEF Typed

LEMMA CompileEndTyped ==
  ASSUME Typed, BusyAwaited, NEW n \in Nodes, NEW r \in busy[n], CompileEnd(n, r)
  PROVE  Typed'
<1> PICK c, h, i : c = r.c /\ h = r.h /\ i = Id(c, h)
  OBVIOUS
<1>1. /\ c \in Users /\ h \in Hosts(c)
      /\ UNCHANGED <<in, phase, app, share, local, writer, have, fresh, shipping, up, restarts, opts, bins, history>>
      /\ busy' \in [Nodes -> SUBSET Requests] /\ cwd' \in [Nodes -> Dirs]
      /\ TaskStep(c, h)
      /\ IF phase[c] = "pool" THEN task'[c][h] \in {"download", "threw"} ELSE task' = task
      /\ \/ UNCHANGED <<made, sess>>
         \/ DOMAIN made' = Nodes /\ sess' \in [Nodes -> [Ids -> Sessions]]
  BY CompileEndFacts DEF Typed, SessStep
<1>2. task[c][h] = "wait"
  BY DEF BusyAwaited
<1>3. ClientAt(c) /\ InStepAt(c) /\ Hosts(c)' = Hosts(c) /\ Objects(c)' = Objects(c)
      /\ \A g : Tasks(c, g)' = Tasks(c, g)
  BY <1>1, InputKept, BatchKept DEF Typed, ClientTyped, InStep
<1>4. disturbed' \subseteq Users /\ cut' \subseteq Users
  BY <1>1 DEF history, Typed, ClientTyped
<1>5. ClientStep(c) /\ ClientAt(c)'
  BY <1>1, <1>3, CurrentKept DEF ClientStep, OneClient, TaskStep, ClientAt, Typed, ClientTyped
<1>6. InStepAt(c)'
  <2>1. task'[c][h] \in Tasks(c, h)
    BY <1>1, <1>2, <1>3, SendingKept DEF InStepAt, Tasks
  <2> QED
    BY <1>1, <1>2, <1>3, <2>1, SendingKept DEF InStepAt, TaskStep
<1>7. NodeTyped'
  BY <1>1, InputKept DEF Typed, NodeTyped
<1> QED
  BY <1>1, <1>4, <1>5, <1>6, <1>7, ClientStepKept DEF Typed

LEMMA DownloadTyped ==
  ASSUME Typed, NEW c \in Users, NEW h \in Hosts(c), Download(c, h)
  PROVE  Typed'
<1> PICK n, i, b : n = Node(c, h) /\ i = Id(c, h) /\ b = Blob(n, sess[n][i])
  OBVIOUS
<1>1. /\ phase[c] = "pool" /\ task[c][h] = "download"
      /\ UNCHANGED <<in, phase, app, share, local, shipping, up, restarts, cwd, opts, made, bins, busy, history>>
      /\ DownloadNode(n, i, b) /\ DownloadClient(c, h, b)
  BY DownloadFacts DEF Typed
<1>2. ClientAt(c) /\ InStepAt(c) /\ Hosts(c)' = Hosts(c) /\ Objects(c)' = Objects(c)
      /\ \A g : Tasks(c, g)' = Tasks(c, g)
  BY <1>1, InputKept, BatchKept DEF Typed, ClientTyped, InStep
<1>3. /\ TaskStep(c, h) /\ task'[c][h] \in {"download", "end", "threw"}
      /\ OneClient(c, writer, writer') /\ OneClient(c, have, have') /\ OneClient(c, fresh, fresh')
      /\ writer'[c] \in [Hosts(c) -> Opt(Targets)]
  BY <1>1 DEF DownloadClient
<1>4. disturbed' \subseteq Users /\ cut' \subseteq Users
  BY <1>1 DEF history, Typed, ClientTyped
<1>5. ClientStep(c) /\ ClientAt(c)'
  BY <1>1, <1>2, <1>3, CurrentKept DEF ClientStep, OneClient, TaskStep, ClientAt, Typed, ClientTyped
<1>6. InStepAt(c)'
  BY <1>1, <1>2, <1>3, SendingKept DEF InStepAt, TaskStep, Tasks
<1>7. NodeTyped'
  <2>1. sess' \in [Nodes -> [Ids -> Sessions]]
    BY <1>1 DEF DownloadNode, SessStep
  <2> QED
    BY <1>1, <2>1, InputKept DEF Typed, NodeTyped
<1> QED
  BY <1>4, <1>5, <1>6, <1>7, ClientStepKept DEF Typed

LEMMA SendTyped ==
  ASSUME Typed, NEW c \in Users, NEW h \in Hosts(c), Send(c, h)
  PROVE  Typed'
<1> PICK n, i : n = Node(c, h) /\ i = Id(c, h)
  OBVIOUS
<1>1. /\ phase[c] = "send" /\ task[c][h] \in {"queued", "sending"}
      /\ UNCHANGED <<in, phase, app, share, local, writer, have, fresh, out, again, disk, up, restarts, cwd, opts, made, busy, cut>>
      /\ DOMAIN bins' = Nodes /\ sess' \in [Nodes -> [Ids -> Sessions]]
      /\ TaskStep(c, h) /\ DOMAIN sent' = Users
      /\ \/ sent[c][h] # Len(Text(c)) /\ task'[c][h] \in {"sending", "threw"}
         \/ sent[c][h] = Len(Text(c)) /\ task'[c][h] \in {"end", "threw"}
      /\ \A x \in Users : x # c => sent'[x] = sent[x]
      /\ sent'[c][h] = sent[c][h] + 1 /\ DOMAIN sent'[c] = Hosts(c)
      /\ \A g \in Hosts(c) : g # h => sent'[c][g] = sent[c][g]
      /\ Meets(c, n, i)
  BY SendFacts DEF Typed
<1>2. ClientAt(c) /\ InStepAt(c) /\ Hosts(c)' = Hosts(c) /\ Objects(c)' = Objects(c)
      /\ \A g : Tasks(c, g)' = Tasks(c, g)
  BY <1>1, InputKept, BatchKept DEF Typed, ClientTyped, InStep
<1>3. disturbed' \subseteq Users /\ cut' \subseteq Users
  BY <1>1 DEF Meets, Others, Typed, ClientTyped
<1>4. Sending(c)' /\ LinksAt(c)'
  <2>1. /\ Current(c)' = Current(c) /\ Text(c)' = Text(c) /\ Work(c)' = Work(c)
        /\ Sending(c) /\ LinksAt(c) /\ Current(c) \in DOMAIN disk[c]
    BY <1>1, <1>2, CurrentKept DEF InStepAt, ClientAt, Sending
  <2>2. PICK L \in Nat : L = Len(Text(c))
    BY <2>1, CurrentFacts DEF Typed
  <2>3. /\ sent[c][h] \in Nat /\ sent[c][h] <= L
        /\ \A g \in Hosts(c) : /\ sent[c][g] \in Nat /\ sent[c][g] <= L + 1
                               /\ task[c][g] \in {"queued", "sending"} => sent[c][g] <= L
    BY <1>1, <2>1, <2>2 DEF Sending, LinksAt
  <2>4. \A g \in Hosts(c) : /\ sent'[c][g] \in Nat /\ sent'[c][g] <= L + 1
                            /\ task'[c][g] \in {"queued", "sending"} => sent'[c][g] <= L
    <3> TAKE g \in Hosts(c)
    <3>1. CASE g = h
      BY <1>1, <2>2, <2>3, <3>1
    <3>2. CASE g # h
      BY <1>1, <2>3, <3>2 DEF TaskStep
    <3> QED
      BY <3>1, <3>2
  <2> QED
    BY <1>1, <1>2, <2>1, <2>2, <2>4 DEF Sending, LinksAt
<1>5. ClientStep(c) /\ ClientAt(c)'
  <2>1. ClientStep(c)
    BY <1>1 DEF ClientStep, OneClient, TaskStep, Typed, ClientTyped
  <2>2. ClientAt(c)'
    BY <1>1, <1>2, <1>4 DEF TaskStep, ClientAt
  <2> QED
    BY <2>1, <2>2
<1>6. InStepAt(c)'
  <2>1. task'[c][h] \in Tasks(c, h)
    BY <1>1 DEF Tasks
  <2> QED
    BY <1>1, <1>2, <1>4, <2>1 DEF InStepAt, TaskStep
<1>7. NodeTyped'
  BY <1>1, InputKept DEF Typed, NodeTyped
<1> QED
  BY <1>3, <1>5, <1>6, <1>7, ClientStepKept DEF Typed

LEMMA DieTyped ==
  ASSUME Typed, NEW n \in Nodes, Die(n)
  PROVE  Typed'
<1>1. /\ UNCHANGED <<in, phase, app, share, local, writer, have, fresh, shipping, restarts, cwd, opts, made, bins, disturbed>>
      /\ up' \in [Nodes -> BOOLEAN] /\ sess' \in [Nodes -> [Ids -> Sessions]]
      /\ busy' \in [Nodes -> SUBSET Requests] /\ DOMAIN task' = Users /\ cut' \subseteq Users
      /\ \A c \in Users : /\ task'[c] \in [Hosts(c) -> TaskNames]
                          /\ \A h \in Hosts(c) : task'[c][h] =
                               IF Node(c, h) = n /\ task[c][h] = "wait" THEN "threw" ELSE task[c][h]
  BY DieFacts DEF Typed
<1>2. \A c \in Users : ClientAt(c)' /\ InStepAt(c)'
  <2> TAKE c \in Users
  <2>1. ClientAt(c) /\ InStepAt(c) /\ Hosts(c)' = Hosts(c) /\ Objects(c)' = Objects(c)
        /\ \A g : Tasks(c, g)' = Tasks(c, g)
    BY <1>1, InputKept, BatchKept DEF Typed, ClientTyped, InStep
  <2>2. ClientAt(c)'
    BY <1>1, <2>1, CurrentKept DEF ClientAt
  <2>3. \A h \in Hosts(c) : task[c][h] = "wait" => "threw" \in Tasks(c, h)
    <3> SUFFICES ASSUME NEW h \in Hosts(c), task[c][h] = "wait"
                 PROVE  "threw" \in Tasks(c, h)
      OBVIOUS
    <3>1. phase[c] \in {"pool", "failed"} /\ (phase[c] = "pool" => h <= Threads(c) /\ Size(c) > 0)
      BY TaskPhases
    <3>2. CASE phase[c] = "pool"
      BY <3>1, <3>2 DEF Tasks
    <3>3. CASE phase[c] = "failed"
      BY <3>3 DEF Tasks, TaskNames
    <3> QED
      BY <3>1, <3>2, <3>3
  <2>4. InStepAt(c)'
    BY <1>1, <2>1, <2>3, SendingKept DEF InStepAt
  <2> QED
    BY <2>2, <2>4
<1>3. ClientTyped' /\ InStep'
  BY <1>1, <1>2, InputKept DEF Typed, ClientTyped, InStep
<1>4. NodeTyped'
  BY <1>1, InputKept DEF Typed, NodeTyped
<1> QED
  BY <1>3, <1>4 DEF Typed

LEMMA RestartTyped ==
  ASSUME Typed, NEW n \in Nodes, Restart(n)
  PROVE  Typed'
<1>1. /\ UNCHANGED <<in, client, sess, made, bins, busy, history>>
      /\ restarts' \in Nat /\ up' \in [Nodes -> BOOLEAN]
      /\ cwd' \in [Nodes -> Dirs] /\ opts' \in [Nodes -> Users \cup {"none"}]
  BY RestartFacts DEF Typed
<1>2. \A c \in Users : ClientAt(c)' /\ InStepAt(c)'
  <2> TAKE c \in Users
  <2>1. ClientAt(c) /\ InStepAt(c) /\ Hosts(c)' = Hosts(c) /\ Objects(c)' = Objects(c)
        /\ \A g : Tasks(c, g)' = Tasks(c, g)
    BY <1>1, InputKept, BatchKept DEF Typed, ClientTyped, InStep, client
  <2> QED
    BY <1>1, <2>1, SendingKept, CurrentKept DEF ClientAt, InStepAt, client
<1>3. ClientTyped' /\ InStep'
  BY <1>1, <1>2, InputKept DEF Typed, ClientTyped, InStep, client, history
<1>4. NodeTyped'
  BY <1>1, InputKept DEF Typed, NodeTyped
<1> QED
  BY <1>3, <1>4 DEF Typed

-----------------------------------------------------------------------------
(* The client's own steps, seen from the nodes.                            *)

\* No client turns to a node, and none leaves what it waits for.
Quiet(c) ==
  /\ ClientStep(c) /\ UNCHANGED <<node, history>>
  /\ \A h \in Hosts(c) :
       /\ phase'[c] = "ping" /\ task'[c][h] = "queued" => phase[c] = "ping" /\ task[c][h] = "queued"
       /\ Placed(c, h)' => Placed(c, h)
       /\ task[c][h] = "wait" /\ phase[c] \in {"pool", "failed"} =>
            task'[c][h] = "wait" /\ phase'[c] \in {"pool", "failed"}
       /\ InPool(c, h) => InPool(c, h)'
       /\ InSend(c, h) => InSend(c, h)'

LEMMA UnansweredQuiet ==
  ASSUME Typed, NEW c \in Users, NEW h \in Hosts(c), Unanswered(c, h)
  PROVE  Quiet(c)
<1>1. /\ ClientStep(c) /\ UNCHANGED <<in, phase, app, share, local, writer, have, fresh, shipping, node, history>>
      /\ phase[c] \in {"ping", "pool", "send"} /\ task[c][h] \in {"queued", "download", "sending"}
      /\ TaskStep(c, h) /\ task'[c][h] = "threw"
  BY UnansweredFacts DEF Typed
<1>2. Hosts(c)' = Hosts(c) /\ Threads(c)' = Threads(c)
  BY <1>1, InputKept
<1>3. \A g \in Hosts(c) : g # h => task'[c][g] = task[c][g]
  BY <1>1 DEF TaskStep
<1>4. task[c][h] = "download" => phase[c] = "pool"
  BY <1>1, TaskPhases
<1>5. task[c][h] = "sending" => phase[c] = "send"
  BY <1>1, TaskPhases
<1> QED
  BY <1>1, <1>2, <1>3, <1>4, <1>5 DEF Quiet, Placed, InPool, InSend, Ended

LEMMA KilledQuiet ==
  ASSUME Typed, NEW c \in Users, Killed(c)
  PROVE  Quiet(c)
<1>1. /\ ClientStep(c) /\ UNCHANGED <<in, app, task, share, local, writer, have, fresh, shipping, node, history>>
      /\ phase'[c] = "failed"
  BY KilledFacts DEF Typed
<1> QED
  BY <1>1 DEF Quiet, Placed, InPool, InSend, Ended

LEMMA PingedQuiet ==
  ASSUME Typed, NEW c \in Users, Pinged(c)
  PROVE  Quiet(c)
<1>1. /\ ClientStep(c) /\ UNCHANGED <<in, app, task, share, local, writer, have, fresh, shipping, node, history>>
      /\ phase[c] = "ping" /\ Settled(c)
      /\ phase'[c] = IF Threw(c) THEN "failed" ELSE "split"
  BY PingedFacts DEF Typed
<1>2. Hosts(c)' = Hosts(c) /\ Threads(c)' = Threads(c)
  BY <1>1, InputKept
<1>3. \A h \in Hosts(c) : ~Threw(c) /\ h <= Threads(c) => task[c][h] = "end"
  <2> TAKE h \in Hosts(c)
  <2>1. h <= Threads(c) => task[c][h] \in {"queued", "end", "threw"}
    BY <1>1, TaskPhases
  <2>2. ~Threw(c) => task[c][h] \in {"none", "end"}
    BY <1>1, SettledFacts
  <2> QED
    BY <2>1, <2>2
<1> QED
  BY <1>1, <1>2, <1>3 DEF Quiet, Placed, InPool, InSend, Ended

LEMMA SplitQuiet ==
  ASSUME Typed, NEW c \in Users, Split(c)
  PROVE  Quiet(c)
<1>1. /\ ClientStep(c) /\ UNCHANGED <<in, app, writer, have, fresh, shipping, node, history>>
      /\ phase[c] = "split" /\ phase'[c] = "pool"
  BY SplitFacts DEF Typed
<1>2. Hosts(c)' = Hosts(c) /\ Threads(c)' = Threads(c)
  BY <1>1, InputKept
<1> QED
  BY <1>1, <1>2 DEF Quiet, Placed, InPool, InSend, Ended

LEMMA LocalCompileQuiet ==
  ASSUME Typed, NEW c \in Users, LocalCompile(c)
  PROVE  Quiet(c)
<1>1. /\ ClientStep(c) /\ UNCHANGED <<in, app, task, share, writer, fresh, shipping, node, history>>
      /\ phase[c] = "pool" /\ (phase'[c] = "failed" \/ phase'[c] = phase[c])
  BY LocalCompileFacts DEF Typed
<1>2. Hosts(c)' = Hosts(c) /\ Threads(c)' = Threads(c)
  BY <1>1, InputKept
<1> QED
  BY <1>1, <1>2 DEF Quiet, Placed, InPool, InSend, Ended

LEMMA JoinQuiet ==
  ASSUME Typed, NEW c \in Users, Join(c)
  PROVE  Quiet(c)
<1>1. /\ ClientStep(c) /\ UNCHANGED <<in, app, task, share, local, writer, have, fresh, shipping, node, history>>
      /\ phase[c] = "pool" /\ Settled(c)
      /\ phase'[c] = IF Threw(c) THEN "failed" ELSE "link"
  BY JoinFacts DEF Typed
<1>2. Hosts(c)' = Hosts(c) /\ Threads(c)' = Threads(c)
  BY <1>1, InputKept
<1>3. \A h \in Hosts(c) : ~Threw(c) => task[c][h] \in {"none", "end"}
  BY <1>1, SettledFacts
<1> QED
  BY <1>1, <1>2, <1>3 DEF Quiet, Placed, InPool, InSend, Ended

LEMMA LinkQuiet ==
  ASSUME Typed, NEW c \in Users, Link(c)
  PROVE  Quiet(c)
<1>1. /\ ClientStep(c) /\ UNCHANGED <<in, app, share, local, writer, have, fresh, out, again, node, history>>
      /\ phase[c] = "link" /\ phase'[c] = "send"
  BY LinkFacts DEF Typed
<1>2. Hosts(c)' = Hosts(c) /\ Threads(c)' = Threads(c)
  BY <1>1, InputKept
<1> QED
  BY <1>1, <1>2 DEF Quiet, Placed, InPool, InSend, Ended

LEMMA SentQuiet ==
  ASSUME Typed, NEW c \in Users, Sent(c)
  PROVE  Quiet(c)
<1>1. /\ ClientStep(c) /\ UNCHANGED <<in, share, local, writer, have, fresh, disk, node, history>>
      /\ phase[c] = "send" /\ Settled(c) /\ phase'[c] \in {"failed", "done", "split", "link", "send"}
      /\ phase'[c] # "failed" => ~Threw(c)
      /\ phase'[c] = "failed" => task' = task
  BY SentFacts DEF Typed
<1>2. Hosts(c)' = Hosts(c) /\ Threads(c)' = Threads(c)
  BY <1>1, InputKept
<1>3. \A h \in Hosts(c) : ~Threw(c) => task[c][h] \in {"none", "end"}
  BY <1>1, SettledFacts
<1> QED
  BY <1>1, <1>2, <1>3 DEF Quiet, Placed, InPool, InSend, Ended

-----------------------------------------------------------------------------
(* Sessions and requests, and who met whom.                                *)

LEMMA QuietKept ==
  ASSUME Typed, Known, NEW c \in Users, Quiet(c)
  PROVE  Known'
<1>1. /\ in' = in /\ sess' = sess /\ busy' = busy /\ up' = up /\ disturbed' = disturbed
      /\ Users' = Users /\ \A x : Hosts(x)' = Hosts(x) /\ Threads(x)' = Threads(x)
  BY InputKept DEF Quiet, ClientStep, node, history
<1>2. \A x, h : Node(x, h)' = Node(x, h) /\ Id(x, h)' = Id(x, h) /\ Sess(x, h)' = Sess(x, h)
  BY <1>1, InputKept DEF Sess
<1>3. \A x \in Users : \A h \in Hosts(x) :
        /\ phase'[x] = "ping" /\ task'[x][h] = "queued" => phase[x] = "ping" /\ task[x][h] = "queued"
        /\ Placed(x, h)' => Placed(x, h)
        /\ task[x][h] = "wait" /\ phase[x] \in {"pool", "failed"} =>
             task'[x][h] = "wait" /\ phase'[x] \in {"pool", "failed"}
        /\ InPool(x, h) => InPool(x, h)'
        /\ InSend(x, h) => InSend(x, h)'
  <2> TAKE x \in Users
  <2> TAKE h \in Hosts(x)
  <2>1. CASE x = c
    BY <2>1 DEF Quiet
  <2>2. CASE x # c
    <3>1. phase'[x] = phase[x] /\ task'[x] = task[x]
      BY <2>2 DEF Quiet, ClientStep, OneClient
    <3> QED
      BY <1>1, <3>1 DEF Placed, InPool, InSend
  <2> QED
    BY <2>1, <2>2
<1>4. \A x \in Users : \A n : Turned(x, n)' => Turned(x, n)
  BY <1>1, <1>2, <1>3 DEF Turned
<1>5. SessionsOwned'
  <2>1. SUFFICES ASSUME NEW n \in Nodes, NEW i \in Ids
                 PROVE  /\ sess[n][i].users = {} \/ ~up[n] => sess[n][i] = NoSession
                        /\ \A x \in sess[n][i].users : \E h \in Hosts(x) :
                             Node(x, h) = n /\ Id(x, h) = i /\ ~(phase'[x] = "ping" /\ task'[x][h] = "queued")
    BY <1>1, <1>2 DEF SessionsOwned
  <2>2. sess[n][i].users \subseteq Users
    BY SessionFields DEF Typed
  <2> QED
    BY <1>3, <2>2 DEF Known, SessionsOwned
<1>6. BusyAwaited'
  <2>1. SUFFICES ASSUME NEW n \in Nodes, NEW r \in busy[n]
                 PROVE  /\ up[n] /\ r.h \in Hosts(r.c) /\ r.h <= Threads(r.c) /\ Node(r.c, r.h) = n
                        /\ task'[r.c][r.h] = "wait" /\ phase'[r.c] \in {"pool", "failed"}
                        /\ Sess(r.c, r.h).users # {}
                        /\ \A q \in busy[n] : q.c = r.c /\ q.h = r.h => q = r
    BY <1>1, <1>2 DEF BusyAwaited
  <2>2. r.c \in Users
    BY DEF Typed, NodeTyped, Requests
  <2> QED
    BY <1>3, <2>2 DEF Known, BusyAwaited
<1>7. MeetAtNode' /\ MeetHandler'
  <2>1. MeetAtNode'
    BY <1>1, <1>4 DEF Known, Met, MeetAtNode
  <2>2. MeetHandler'
    BY <1>1, <1>4 DEF Known, Met, MeetHandler
  <2> QED
    BY <2>1, <2>2
<1>8. MeetInSession'
  BY <1>1, <1>2, <1>3 DEF Known, Met, MeetInSession
<1>9. MeetRequest' /\ MeetUsers'
  BY <1>1, <1>2 DEF Known, Met, MeetRequest, MeetUsers
<1>10. Lone'
  <2>1. SUFFICES ASSUME NEW x \in Users \ disturbed, NEW h \in Hosts(x)
                 PROVE  LoneSession(x, h)'
    BY <1>1 DEF Lone
  <2>2. LoneSession(x, h)
    BY DEF Known, Lone
  <2> QED
    BY <1>1, <1>2, <1>3, <2>2 DEF LoneSession
<1> QED
  BY <1>5, <1>6, <1>7, <1>8, <1>9, <1>10 DEF Known, Met

\* Those who have turned to a node, or are served by it, use it.
LEMMA OthersFacts ==
  ASSUME NEW n, NEW c, NEW x \in Users, x # c, Turned(x, n) \/ \E b \in busy[n] : b.c = x
  PROVE  x \in Others(n, c)
<1>1. CASE Turned(x, n)
  <2>1. PICK h \in Hosts(x) : Placed(x, h) /\ Node(x, h) = n
    BY <1>1 DEF Turned
  <2>2. phase[x] \notin Ended /\ (phase[x] = "ping" => task[x][h] # "queued")
    BY <2>1 DEF Placed
  <2> QED
    BY <2>1, <2>2 DEF Others
<1>2. CASE \E b \in busy[n] : b.c = x
  BY <1>2 DEF Others
<1> QED
  BY <1>1, <1>2

\* Every session has the hosts of its users, still.
UsersOwned == \A n \in Nodes, i \in Ids : \A c \in sess[n][i].users : \E h \in Hosts(c) :
                Node(c, h) = n /\ Id(c, h) = i /\ ~(phase[c] = "ping" /\ task[c][h] = "queued")

\* A client turns to session i of node n, by a set-up request or with a binary.
LEMMA MeetsKept ==
  ASSUME Typed, Known, NEW c \in Users, NEW h \in Hosts(c), NEW n, n = Node(c, h), NEW i, i = Id(c, h),
         UNCHANGED <<in, phase, up, busy>>, TaskStep(c, h), task[c][h] # "wait", task'[c][h] # "queued",
         n \in Nodes, i \in Ids, phase[c] # "ping" => phase[c] \notin Ended,
         sess'[n][i].users = sess[n][i].users \cup {c},
         \A m \in Nodes, j \in Ids : m # n \/ j # i => sess'[m][j].users = sess[m][j].users,
         Meets(c, n, i)
  PROVE  UsersOwned' /\ BusyAwaited' /\ Met' /\ disturbed \subseteq disturbed'
<1>1. /\ Users' = Users /\ \A x : Hosts(x)' = Hosts(x) /\ Threads(x)' = Threads(x)
      /\ \A x, g : Node(x, g)' = Node(x, g) /\ Id(x, g)' = Id(x, g)
      /\ \A x \in Users : \A g \in Hosts(x) : Node(x, g) \in Nodes /\ Id(x, g) \in Ids
      /\ \A g \in Hosts(c) : Node(c, g) = n /\ Id(c, g) = i => g = h
  BY InputKept, InputFacts DEF Typed, ClientTyped
<1>2. \A x \in Users : \A g \in Hosts(x) : (x # c \/ g # h) => task'[x][g] = task[x][g]
  BY DEF TaskStep
<1>3. \A x \in Users : \A g \in Hosts(x) : (x # c \/ g # h) /\ Placed(x, g)' => Placed(x, g)
  BY <1>1, <1>2 DEF Placed
<1>4. /\ disturbed \subseteq disturbed'
      /\ Others(n, c) # {} \/ sess[n][i].users \ {c} # {} => c \in disturbed' /\ Others(n, c) \subseteq disturbed'
  BY DEF Meets
<1>5. \A x \in Users : x # c /\ (Turned(x, n) \/ \E b \in busy[n] : b.c = x) => x \in disturbed' /\ c \in disturbed'
  BY <1>4, OthersFacts
<1>6. \A x \in Users, m \in Nodes : (x # c \/ m # n) /\ Turned(x, m)' => Turned(x, m)
  <2> SUFFICES ASSUME NEW x \in Users, NEW m \in Nodes, x # c \/ m # n, Turned(x, m)'
               PROVE  Turned(x, m)
    OBVIOUS
  <2>1. PICK g \in Hosts(x) : Placed(x, g)' /\ Node(x, g) = m
    BY <1>1 DEF Turned
  <2> QED
    BY <1>3, <2>1 DEF Turned
<1>7. UsersOwned'
  <2>1. SUFFICES ASSUME NEW m \in Nodes, NEW j \in Ids, NEW x \in sess'[m][j].users
                 PROVE  \E g \in Hosts(x) : Node(x, g) = m /\ Id(x, g) = j /\ ~(phase[x] = "ping" /\ task'[x][g] = "queued")
    BY <1>1 DEF UsersOwned
  <2>2. CASE x \in sess[m][j].users
    <3>1. x \in Users
      BY <2>2, SessionFields DEF Typed
    <3>2. PICK g \in Hosts(x) : Node(x, g) = m /\ Id(x, g) = j /\ ~(phase[x] = "ping" /\ task[x][g] = "queued")
      BY <2>2 DEF Known, SessionsOwned
    <3> QED
      BY <1>2, <3>1, <3>2
  <2>3. CASE x \notin sess[m][j].users
    <3>1. m = n /\ j = i /\ x = c
      BY <2>3
    <3> QED
      BY <3>1
  <2> QED
    BY <2>2, <2>3
<1>8. BusyAwaited'
  <2>1. SUFFICES ASSUME NEW m \in Nodes, NEW r \in busy[m]
                 PROVE  /\ up[m] /\ r.h \in Hosts(r.c) /\ r.h <= Threads(r.c) /\ Node(r.c, r.h) = m
                        /\ task'[r.c][r.h] = "wait" /\ phase[r.c] \in {"pool", "failed"}
                        /\ sess'[Node(r.c, r.h)][Id(r.c, r.h)].users # {}
                        /\ \A q \in busy[m] : q.c = r.c /\ q.h = r.h => q = r
    BY <1>1 DEF BusyAwaited, Sess
  <2>2. r.c \in Users
    BY DEF Typed, NodeTyped, Requests
  <2>3. Sess(r.c, r.h).users # {} /\ r.h \in Hosts(r.c)
    BY DEF Known, BusyAwaited
  <2>4. sess'[Node(r.c, r.h)][Id(r.c, r.h)].users # {}
    BY <1>1, <2>2, <2>3 DEF Sess
  <2> QED
    BY <1>2, <2>2, <2>4 DEF Known, BusyAwaited
<1>9. MeetAtNode'
  <2>1. SUFFICES ASSUME NEW m \in Nodes, NEW x \in Users, NEW y \in Users, x # y, Turned(x, m)', Turned(y, m)'
                 PROVE  x \in disturbed'
    BY <1>1 DEF MeetAtNode
  <2>2. CASE m = n /\ (x = c \/ y = c)
    BY <1>5, <1>6, <2>1, <2>2
  <2>3. CASE ~(m = n /\ (x = c \/ y = c))
    BY <1>4, <1>6, <2>1, <2>3 DEF Known, Met, MeetAtNode
  <2> QED
    BY <2>2, <2>3
<1>10. MeetHandler'
  <2>1. SUFFICES ASSUME NEW m \in Nodes, NEW x \in Users, NEW b \in busy[m], Turned(x, m)', b.c # x
                 PROVE  x \in disturbed'
    BY <1>1 DEF MeetHandler
  <2>2. b.c \in Users
    BY DEF Typed, NodeTyped, Requests
  <2>3. CASE m = n /\ x = c
    BY <1>5, <2>1, <2>2, <2>3
  <2>4. CASE ~(m = n /\ x = c)
    BY <1>4, <1>6, <2>1, <2>4 DEF Known, Met, MeetHandler
  <2> QED
    BY <2>3, <2>4
<1>11. MeetInSession'
  <2>1. SUFFICES ASSUME NEW x \in Users, NEW g \in Hosts(x), Placed(x, g)',
                        NEW U, U = sess'[Node(x, g)][Id(x, g)].users
                 PROVE  /\ x \notin disturbed' => U \subseteq {x}
                        /\ \A y \in Users : U = {y} /\ y # x => y \in disturbed'
    BY <1>1 DEF MeetInSession, Sess
  <2>2. CASE Node(x, g) = n /\ Id(x, g) = i
    <3>1. U = sess[n][i].users \cup {c}
      BY <2>1, <2>2
    <3>2. CASE x = c
      BY <1>4, <3>1, <3>2
    <3>3. CASE x # c
      <4>1. Turned(x, n)
        BY <1>3, <2>1, <2>2, <3>3 DEF Turned
      <4> QED
        BY <1>5, <3>1, <3>3, <4>1
    <3> QED
      BY <3>2, <3>3
  <2>3. CASE ~(Node(x, g) = n /\ Id(x, g) = i)
    <3>1. Placed(x, g) /\ U = Sess(x, g).users
      BY <1>1, <1>3, <2>1, <2>3 DEF Sess
    <3> QED
      BY <1>4, <3>1 DEF Known, Met, MeetInSession
  <2> QED
    BY <2>2, <2>3
<1>12. MeetRequest'
  <2>1. SUFFICES ASSUME NEW m \in Nodes, NEW r \in busy[m], NEW x \in Users,
                        sess'[Node(r.c, r.h)][Id(r.c, r.h)].users = {x}, x # r.c
                 PROVE  x \in disturbed'
    BY <1>1 DEF MeetRequest, Sess
  <2>2. r.c \in Users /\ r.h \in Hosts(r.c) /\ Node(r.c, r.h) = m
    BY DEF Typed, NodeTyped, Requests, Known, BusyAwaited
  <2>3. CASE Node(r.c, r.h) = n /\ Id(r.c, r.h) = i
    <3>1. x = c /\ m = n
      BY <2>1, <2>2, <2>3
    <3> QED
      BY <1>5, <2>1, <2>2, <3>1
  <2>4. CASE ~(Node(r.c, r.h) = n /\ Id(r.c, r.h) = i)
    <3>1. Sess(r.c, r.h).users = {x}
      BY <1>1, <2>1, <2>2, <2>4 DEF Sess
    <3> QED
      BY <1>4, <2>1, <3>1 DEF Known, Met, MeetRequest
  <2> QED
    BY <2>3, <2>4
<1>13. MeetUsers'
  <2>1. SUFFICES ASSUME NEW m \in Nodes, NEW j \in Ids, NEW x \in sess'[m][j].users, NEW y \in sess'[m][j].users, x # y
                 PROVE  sess'[m][j].users \cap disturbed' # {}
    BY <1>1 DEF MeetUsers
  <2>2. CASE m = n /\ j = i
    <3>1. sess[n][i].users \ {c} # {} /\ c \in sess'[m][j].users
      BY <2>1, <2>2
    <3> QED
      BY <1>4, <3>1
  <2>3. CASE ~(m = n /\ j = i)
    <3>1. sess'[m][j].users = sess[m][j].users
      BY <2>3
    <3> QED
      BY <1>4, <2>1, <3>1 DEF Known, Met, MeetUsers
  <2> QED
    BY <2>2, <2>3
<1> QED
  BY <1>4, <1>7, <1>8, <1>9, <1>10, <1>11, <1>12, <1>13 DEF Met

\* The place of a pool thread is all that changes, and not of a main thread in CREATE.
LEMMA SameClient ==
  ASSUME Typed, NEW c \in Users, NEW h \in Hosts(c), UNCHANGED <<in, phase>>, TaskStep(c, h), phase[c] # "ping"
  PROVE  /\ Users' = Users /\ \A x : Hosts(x)' = Hosts(x) /\ Threads(x)' = Threads(x)
         /\ \A x, g : Node(x, g)' = Node(x, g) /\ Id(x, g)' = Id(x, g)
         /\ \A x \in Users : \A g \in Hosts(x) : Node(x, g) \in Nodes /\ Id(x, g) \in Ids
         /\ \A g \in Hosts(c) : Node(c, g) = Node(c, h) /\ Id(c, g) = Id(c, h) => g = h
         /\ \A x \in Users : \A g \in Hosts(x) :
              /\ Placed(x, g)' = Placed(x, g)
              /\ (x # c \/ g # h) => task'[x][g] = task[x][g] /\ InPool(x, g)' = InPool(x, g) /\ InSend(x, g)' = InSend(x, g)
              /\ phase'[x] = "ping" /\ task'[x][g] = "queued" => phase[x] = "ping" /\ task[x][g] = "queued"
         /\ \A x \in Users : \A m : Turned(x, m)' = Turned(x, m)
<1>1. /\ Users' = Users /\ \A x : Hosts(x)' = Hosts(x) /\ Threads(x)' = Threads(x)
      /\ \A x, g : Node(x, g)' = Node(x, g) /\ Id(x, g)' = Id(x, g)
      /\ \A x \in Users : \A g \in Hosts(x) : Node(x, g) \in Nodes /\ Id(x, g) \in Ids
      /\ \A g \in Hosts(c) : Node(c, g) = Node(c, h) /\ Id(c, g) = Id(c, h) => g = h
  BY InputKept, InputFacts DEF Typed, ClientTyped
<1>2. \A x \in Users : \A g \in Hosts(x) : (x # c \/ g # h) => task'[x][g] = task[x][g]
  BY DEF TaskStep
<1>3. \A x \in Users : \A g \in Hosts(x) : Placed(x, g)' = Placed(x, g)
  BY <1>1, <1>2 DEF Placed
<1>4. \A x \in Users : \A g \in Hosts(x) : (x # c \/ g # h) => InPool(x, g)' = InPool(x, g) /\ InSend(x, g)' = InSend(x, g)
  BY <1>2 DEF InPool, InSend
<1>5. \A x \in Users : \A m : Turned(x, m)' = Turned(x, m)
  BY <1>1, <1>3 DEF Turned
<1> QED
  BY <1>1, <1>2, <1>3, <1>4, <1>5

LEMMA SetupMet ==
  ASSUME Typed, Known, NEW c \in Users, NEW h \in Hosts(c), Setup(c, h)
  PROVE  Known'
<1>1. PICK n, i : n = Node(c, h) /\ i = Id(c, h)
  OBVIOUS
<1>2. /\ n \in Nodes /\ i \in Ids /\ phase[c] = "ping" /\ task[c][h] = "queued" /\ up[n]
      /\ TaskStep(c, h) /\ task'[c][h] \in {"end", "threw"}
      /\ UNCHANGED <<in, phase, app, share, local, writer, have, fresh, shipping, up, restarts, made, bins, busy, cut>>
      /\ SessStep(n, i) /\ sess'[n][i].users = sess[n][i].users \cup {c}
      /\ sess'[n][i].src = sess[n][i].src /\ sess'[n][i].reader = sess[n][i].reader
      /\ sess'[n][i].writer = sess[n][i].writer
      /\ Meets(c, n, i)
  BY <1>1, SetupFacts DEF Typed
<1>3. \A m \in Nodes, j \in Ids : m # n \/ j # i => sess'[m][j] = sess[m][j]
  BY <1>2 DEF SessStep
<1>4. UsersOwned' /\ BusyAwaited' /\ Met' /\ disturbed \subseteq disturbed'
  BY <1>1, <1>2, <1>3, MeetsKept
<1>5. /\ Users' = Users /\ \A x : Hosts(x)' = Hosts(x)
      /\ \A x, g : Node(x, g)' = Node(x, g) /\ Id(x, g)' = Id(x, g)
      /\ \A x \in Users : \A g \in Hosts(x) : Node(x, g) \in Nodes /\ Id(x, g) \in Ids
      /\ \A g \in Hosts(c) : Node(c, g) = n /\ Id(c, g) = i => g = h
  BY <1>1, <1>2, InputKept, InputFacts DEF Typed, ClientTyped
<1>6. SessionsOwned'
  <2>1. \A m \in Nodes, j \in Ids : sess'[m][j].users = {} \/ ~up[m] => sess'[m][j] = NoSession
    BY <1>2, <1>3 DEF Known, SessionsOwned
  <2> QED
    BY <1>2, <1>4, <2>1 DEF SessionsOwned, UsersOwned
<1>7. c \notin sess[n][i].users
  BY <1>2, <1>5 DEF Known, SessionsOwned
<1>8. Lone'
  <2>1. SUFFICES ASSUME NEW x \in Users \ disturbed, NEW g \in Hosts(x)
                 PROVE  LoneSession(x, g)'
    BY <1>4, <1>5 DEF Lone
  <2>2. CASE Node(x, g) = n /\ Id(x, g) = i
    <3>1. SUFFICES ASSUME sess'[n][i].users = {x}
                   PROVE  sess'[n][i].src = <<>> /\ sess'[n][i].reader = <<>> /\ sess'[n][i].writer = <<>>
      BY <1>5, <2>2 DEF LoneSession, Sess
    <3>2. sess[n][i].users = {}
      BY <1>2, <1>7, <3>1
    <3>3. sess[n][i] = NoSession
      BY <1>2, <3>2 DEF Known, SessionsOwned
    <3> QED
      BY <1>2, <3>3 DEF NoSession
  <2>3. CASE ~(Node(x, g) = n /\ Id(x, g) = i)
    <3>1. Sess(x, g)' = Sess(x, g)
      BY <1>3, <1>5, <2>3 DEF Sess
    <3>2. LoneSession(x, g)
      BY DEF Known, Lone
    <3>3. task'[x][g] = task[x][g]
      BY <1>1, <1>2, <2>3 DEF TaskStep
    <3>4. InPool(x, g)' = InPool(x, g) /\ InSend(x, g)' = InSend(x, g)
      BY <1>2, <3>3 DEF InPool, InSend
    <3> QED
      BY <1>2, <1>5, <3>1, <3>2, <3>4 DEF LoneSession
  <2> QED
    BY <2>2, <2>3
<1> QED
  BY <1>4, <1>6, <1>8 DEF Known

LEMMA SendMet ==
  ASSUME Typed, Known, NEW c \in Users, NEW h \in Hosts(c), Send(c, h)
  PROVE  Known'
<1>1. PICK n, i : n = Node(c, h) /\ i = Id(c, h)
  OBVIOUS
<1>2. /\ n \in Nodes /\ i \in Ids /\ phase[c] = "send" /\ task[c][h] \in {"queued", "sending"} /\ up[n]
      /\ UNCHANGED <<in, phase, app, share, local, writer, have, fresh, out, again, disk, up, restarts, cwd, opts, made, busy, cut>>
      /\ \A m \in Nodes : m # n => sess'[m] = sess[m]
      /\ \A j \in Ids : /\ sess'[n][j].app = sess[n][j].app /\ sess'[n][j].src = sess[n][j].src
                        /\ sess'[n][j].reader = sess[n][j].reader
                        /\ j # i => /\ sess'[n][j].users = sess[n][j].users
                                    /\ sess[n][j].writer = <<>> => sess'[n][j] = sess[n][j]
      /\ sess'[n][i].users = sess[n][i].users \cup {c}
      /\ TaskStep(c, h)
      /\ \/ sent[c][h] # Len(Text(c)) /\ task'[c][h] \in {"sending", "threw"}
         \/ sent[c][h] = Len(Text(c)) /\ task'[c][h] \in {"end", "threw"} /\ sess'[n][i].writer = <<>>
      /\ Meets(c, n, i)
  BY <1>1, SendFacts DEF Typed
<1>3. UsersOwned' /\ BusyAwaited' /\ Met' /\ disturbed \subseteq disturbed'
  <2>1. \A m \in Nodes, j \in Ids : m # n \/ j # i => sess'[m][j].users = sess[m][j].users
    BY <1>2
  <2>2. task[c][h] # "wait" /\ task'[c][h] # "queued" /\ phase[c] \notin Ended
    BY <1>2 DEF Ended
  <2> QED
    BY <1>1, <1>2, <2>1, <2>2, MeetsKept
<1>4. /\ Users' = Users /\ \A x : Hosts(x)' = Hosts(x)
      /\ \A x, g : Node(x, g)' = Node(x, g) /\ Id(x, g)' = Id(x, g)
      /\ \A x \in Users : \A g \in Hosts(x) : Node(x, g) \in Nodes /\ Id(x, g) \in Ids
      /\ \A g \in Hosts(c) : Node(c, g) = n /\ Id(c, g) = i => g = h
      /\ \A x \in Users : \A g \in Hosts(x) :
           (x # c \/ g # h) => InPool(x, g)' = InPool(x, g) /\ InSend(x, g)' = InSend(x, g)
  BY <1>1, <1>2, SameClient
<1>5. SessionsOwned'
  <2>1. SUFFICES ASSUME NEW m \in Nodes, NEW j \in Ids, sess'[m][j].users = {} \/ ~up[m]
                 PROVE  sess'[m][j] = NoSession
    BY <1>2, <1>3 DEF SessionsOwned, UsersOwned
  <2>2. m # n \/ j # i
    BY <1>2, <2>1
  <2>3. sess[m][j].users = {} \/ ~up[m]
    BY <1>2, <2>1, <2>2
  <2>4. sess[m][j] = NoSession
    BY <2>3 DEF Known, SessionsOwned
  <2> QED
    BY <1>2, <2>2, <2>4 DEF NoSession
<1>6. Lone'
  <2>1. SUFFICES ASSUME NEW x \in Users \ disturbed, NEW g \in Hosts(x)
                 PROVE  LoneSession(x, g)'
    BY <1>3, <1>4 DEF Lone
  <2>2. LoneSession(x, g)
    BY DEF Known, Lone
  <2>3. CASE Node(x, g) = n /\ Id(x, g) = i
    <3>1. SUFFICES ASSUME sess'[n][i].users = {x}
                   PROVE  /\ sess'[n][i].src = <<>> /\ sess'[n][i].reader = <<>>
                          /\ sess'[n][i].writer # <<>> => InSend(x, g)'
      BY <1>4, <2>3 DEF LoneSession, Sess
    <3>2. x = c /\ g = h /\ sess[n][i].users \in {{}, {c}}
      BY <1>2, <1>4, <2>3, <3>1
    <3>3. sess[n][i].src = <<>> /\ sess[n][i].reader = <<>>
      <4>1. CASE sess[n][i].users = {}
        BY <1>2, <4>1 DEF Known, SessionsOwned, NoSession
      <4>2. CASE sess[n][i].users = {c}
        <5>1. ~InPool(c, h)
          BY <1>2 DEF InPool
        <5> QED
          BY <2>2, <2>3, <3>2, <4>2, <5>1 DEF LoneSession, Sess
      <4> QED
        BY <3>2, <4>1, <4>2
    <3>4. sess'[n][i].writer # <<>> => InSend(x, g)'
      BY <1>2, <3>2 DEF InSend
    <3> QED
      BY <1>2, <3>3, <3>4
  <2>4. CASE ~(Node(x, g) = n /\ Id(x, g) = i)
    <3>1. InPool(x, g)' = InPool(x, g) /\ InSend(x, g)' = InSend(x, g)
      BY <1>1, <1>4, <2>4
    <3>2. LET s == sess'[Node(x, g)][Id(x, g)]
              o == sess[Node(x, g)][Id(x, g)]
          IN  s.users = o.users /\ s.src = o.src /\ s.reader = o.reader /\ (o.writer = <<>> => s.writer = <<>>)
      BY <1>2, <1>4, <2>4
    <3> QED
      BY <1>2, <1>4, <2>2, <3>1, <3>2 DEF LoneSession, Sess
  <2> QED
    BY <2>3, <2>4
<1> QED
  BY <1>3, <1>5, <1>6 DEF Known

LEMMA CompileStartMet ==
  ASSUME Typed, Known, NEW c \in Users, NEW h \in Hosts(c), CompileStart(c, h)
  PROVE  Known'
<1>1. PICK n, i : n = Node(c, h) /\ i = Id(c, h)
  OBVIOUS
<1>2. /\ n \in Nodes /\ i \in Ids /\ phase[c] = "pool" /\ task[c][h] = "queued" /\ up[n]
      /\ sess[n][i].app # "none"
      /\ TaskStep(c, h) /\ task'[c][h] = "wait"
      /\ UNCHANGED <<in, phase, app, share, local, writer, have, fresh, shipping, up, restarts,
                     opts, sess, made, bins, history>>
      /\ \A m \in Nodes : m # n => busy'[m] = busy[m]
  BY <1>1, CompileStartFacts DEF Typed
<1>3. PICK r \in Requests : busy'[n] = busy[n] \cup {r} /\ r.c = c /\ r.h = h
  BY <1>1, CompileStartFacts DEF Typed
<1>4. /\ Users' = Users /\ \A x : Hosts(x)' = Hosts(x) /\ Threads(x)' = Threads(x)
      /\ \A x, g : Node(x, g)' = Node(x, g) /\ Id(x, g)' = Id(x, g) /\ Sess(x, g)' = Sess(x, g)
      /\ \A x \in Users : \A g \in Hosts(x) : Node(x, g) \in Nodes /\ Id(x, g) \in Ids
      /\ \A x \in Users : \A g \in Hosts(x) :
           /\ Placed(x, g)' = Placed(x, g)
           /\ (x # c \/ g # h) => task'[x][g] = task[x][g] /\ InPool(x, g)' = InPool(x, g) /\ InSend(x, g)' = InSend(x, g)
           /\ phase'[x] = "ping" /\ task'[x][g] = "queued" => phase[x] = "ping" /\ task[x][g] = "queued"
      /\ \A x \in Users : \A m : Turned(x, m)' = Turned(x, m)
  BY <1>2, SameClient DEF Sess
<1>5. /\ \A m \in Nodes : \A q \in busy'[m] : (q = r /\ m = n) \/ (q \in busy[m] /\ ~(q.c = c /\ q.h = h))
      /\ \A m \in Nodes : busy[m] \subseteq Requests
  <2>1. \A m \in Nodes : busy[m] \subseteq Requests
    BY DEF Typed, NodeTyped
  <2>2. \A m \in Nodes : \A q \in busy[m] : ~(q.c = c /\ q.h = h)
    BY <1>2 DEF Known, BusyAwaited
  <2>3. \A m \in Nodes : \A q \in busy'[m] : (q = r /\ m = n) \/ q \in busy[m]
    BY <1>2, <1>3
  <2> QED
    BY <2>1, <2>2, <2>3
<1>6. Placed(c, h) /\ Turned(c, n) /\ h <= Threads(c)
  <2>1. h <= Threads(c)
    BY <1>2, TaskPhases
  <2> QED
    BY <1>1, <1>2, <2>1 DEF Placed, Turned, Ended
<1>7. SessionsOwned'
  <2>1. SUFFICES ASSUME NEW m \in Nodes, NEW j \in Ids
                 PROVE  /\ sess[m][j].users = {} \/ ~up[m] => sess[m][j] = NoSession
                        /\ \A x \in sess[m][j].users : \E g \in Hosts(x) :
                             Node(x, g) = m /\ Id(x, g) = j /\ ~(phase'[x] = "ping" /\ task'[x][g] = "queued")
    BY <1>2, <1>4 DEF SessionsOwned
  <2>2. sess[m][j].users \subseteq Users
    BY SessionFields DEF Typed
  <2> QED
    BY <1>4, <2>2 DEF Known, SessionsOwned
<1>8. BusyAwaited'
  <2>1. SUFFICES ASSUME NEW m \in Nodes, NEW q \in busy'[m]
                 PROVE  /\ up[m] /\ q.h \in Hosts(q.c) /\ q.h <= Threads(q.c) /\ Node(q.c, q.h) = m
                        /\ task'[q.c][q.h] = "wait" /\ phase[q.c] \in {"pool", "failed"}
                        /\ Sess(q.c, q.h).users # {}
                        /\ \A p \in busy'[m] : p.c = q.c /\ p.h = q.h => p = q
    BY <1>2, <1>4 DEF BusyAwaited
  <2>2. CASE q = r /\ m = n
    <3>1. Sess(c, h).users # {}
      <4>1. sess[n][i] # NoSession
        BY <1>2 DEF NoSession
      <4> QED
        BY <1>1, <1>2, <4>1 DEF Known, SessionsOwned, Sess
    <3> QED
      BY <1>1, <1>2, <1>3, <1>5, <1>6, <2>2, <3>1
  <2>3. CASE q \in busy[m] /\ ~(q.c = c /\ q.h = h)
    <3>1. q.c \in Users /\ q.h \in Hosts(q.c)
      BY <1>5, <2>3 DEF Requests, Known, BusyAwaited
    <3>2. task'[q.c][q.h] = task[q.c][q.h]
      BY <1>4, <2>3, <3>1
    <3> QED
      BY <1>3, <1>5, <2>3, <3>2 DEF Known, BusyAwaited
  <2> QED
    BY <1>5, <2>2, <2>3
<1>9. MeetAtNode' /\ MeetInSession' /\ MeetUsers'
  <2>1. MeetAtNode'
    BY <1>2, <1>4 DEF Known, Met, MeetAtNode, history
  <2>2. MeetInSession'
    BY <1>2, <1>4 DEF Known, Met, MeetInSession, history
  <2>3. MeetUsers'
    BY <1>2, <1>4 DEF Known, Met, MeetUsers, history
  <2> QED
    BY <2>1, <2>2, <2>3
<1>10. MeetHandler'
  <2>1. SUFFICES ASSUME NEW m \in Nodes, NEW x \in Users, NEW q \in busy'[m], Turned(x, m), q.c # x
                 PROVE  x \in disturbed
    BY <1>2, <1>4 DEF MeetHandler, history
  <2>2. CASE q = r /\ m = n
    BY <1>3, <1>6, <2>1, <2>2 DEF Known, Met, MeetAtNode
  <2>3. CASE q \in busy[m]
    BY <2>1, <2>3 DEF Known, Met, MeetHandler
  <2> QED
    BY <1>5, <2>2, <2>3
<1>11. MeetRequest'
  <2>1. SUFFICES ASSUME NEW m \in Nodes, NEW q \in busy'[m], NEW x \in Users, Sess(q.c, q.h).users = {x}, x # q.c
                 PROVE  x \in disturbed
    BY <1>2, <1>4 DEF MeetRequest, history
  <2>2. CASE q = r /\ m = n
    BY <1>3, <1>6, <2>1, <2>2 DEF Known, Met, MeetInSession
  <2>3. CASE q \in busy[m]
    BY <2>1, <2>3 DEF Known, Met, MeetRequest
  <2> QED
    BY <1>5, <2>2, <2>3
<1>12. Lone'
  <2>1. SUFFICES ASSUME NEW x \in Users \ disturbed, NEW g \in Hosts(x)
                 PROVE  LoneSession(x, g)'
    BY <1>2, <1>4 DEF Lone, history
  <2>2. LoneSession(x, g)
    BY DEF Known, Lone
  <2>3. CASE x = c /\ g = h
    <3>1. ~InPool(c, h) /\ ~InSend(c, h)
      BY <1>2 DEF InPool, InSend
    <3> QED
      BY <1>4, <2>2, <2>3, <3>1 DEF LoneSession
  <2>4. CASE ~(x = c /\ g = h)
    <3>1. InPool(x, g)' = InPool(x, g) /\ InSend(x, g)' = InSend(x, g)
      BY <1>4, <2>4
    <3>2. \A q \in busy'[Node(x, g)] : q.c = x /\ q.h = g => q \in busy[Node(x, g)]
      BY <1>3, <1>4, <1>5, <2>4
    <3> QED
      BY <1>4, <2>2, <3>1, <3>2 DEF LoneSession
  <2> QED
    BY <2>3, <2>4
<1> QED
  BY <1>7, <1>8, <1>9, <1>10, <1>11, <1>12 DEF Known, Met

LEMMA CompileEndMet ==
  ASSUME Typed, Known, NEW n \in Nodes, NEW r \in busy[n], CompileEnd(n, r)
  PROVE  Known'
<1>1. PICK c, h, i : c = r.c /\ h = r.h /\ i = Id(c, h)
  OBVIOUS
<1>2. /\ r \in Requests /\ c \in Users /\ h \in Hosts(c) /\ i \in Ids /\ n = Node(c, h)
      /\ UNCHANGED <<in, phase, app, share, local, writer, have, fresh, shipping, up, restarts, opts, bins, history>>
      /\ busy'[n] = busy[n] \ {r} /\ \A m \in Nodes : m # n => busy'[m] = busy[m]
      /\ TaskStep(c, h)
      /\ IF phase[c] = "pool" THEN task'[c][h] \in {"download", "threw"} ELSE task' = task
      /\ \/ sess' = sess
         \/ /\ SessStep(n, i)
            /\ sess'[n][i].users = sess[n][i].users /\ sess'[n][i].app = sess[n][i].app
            /\ sess'[n][i].reader = sess[n][i].reader /\ sess'[n][i].writer = sess[n][i].writer
  BY <1>1, CompileEndFacts DEF Typed, Known
<1>3. /\ up[n] /\ task[c][h] = "wait" /\ phase[c] \in {"pool", "failed"} /\ Sess(c, h).users # {}
      /\ \A q \in busy[n] : q.c = c /\ q.h = h => q = r
  BY <1>1 DEF Known, BusyAwaited
<1>4. /\ Users' = Users /\ \A x : Hosts(x)' = Hosts(x) /\ Threads(x)' = Threads(x)
      /\ \A x, g : Node(x, g)' = Node(x, g) /\ Id(x, g)' = Id(x, g)
      /\ \A x \in Users : \A g \in Hosts(x) : Node(x, g) \in Nodes /\ Id(x, g) \in Ids
      /\ \A g \in Hosts(c) : Node(c, g) = n /\ Id(c, g) = i => g = h
      /\ \A x \in Users : \A g \in Hosts(x) :
           /\ Placed(x, g)' = Placed(x, g)
           /\ (x # c \/ g # h) => task'[x][g] = task[x][g] /\ InPool(x, g)' = InPool(x, g) /\ InSend(x, g)' = InSend(x, g)
           /\ phase'[x] = "ping" /\ task'[x][g] = "queued" => phase[x] = "ping" /\ task[x][g] = "queued"
      /\ \A x \in Users : \A m : Turned(x, m)' = Turned(x, m)
  BY <1>1, <1>2, <1>3, SameClient
<1>5. \A m \in Nodes : busy'[m] \subseteq busy[m] /\ busy[m] \subseteq Requests
  BY <1>2 DEF Typed, NodeTyped
<1>6. \A m \in Nodes, j \in Ids : /\ sess'[m][j].users = sess[m][j].users
                                  /\ m # n \/ j # i => sess'[m][j] = sess[m][j]
  BY <1>2 DEF SessStep
<1>7. \A x \in Users : \A g \in Hosts(x) : Sess(x, g)'.users = Sess(x, g).users
  BY <1>4, <1>6 DEF Sess
<1>8. SessionsOwned'
  <2>1. SUFFICES ASSUME NEW m \in Nodes, NEW j \in Ids
                 PROVE  /\ sess'[m][j].users = {} \/ ~up[m] => sess'[m][j] = NoSession
                        /\ \A x \in sess[m][j].users : \E g \in Hosts(x) :
                             Node(x, g) = m /\ Id(x, g) = j /\ ~(phase'[x] = "ping" /\ task'[x][g] = "queued")
    BY <1>2, <1>4, <1>6 DEF SessionsOwned
  <2>2. sess[m][j].users \subseteq Users
    BY SessionFields DEF Typed
  <2>3. \A x \in sess[m][j].users : \E g \in Hosts(x) :
          Node(x, g) = m /\ Id(x, g) = j /\ ~(phase'[x] = "ping" /\ task'[x][g] = "queued")
    BY <1>4, <2>2 DEF Known, SessionsOwned
  <2>4. sess'[m][j].users = {} \/ ~up[m] => sess'[m][j] = NoSession
    <3>1. sess[m][j].users = {} \/ ~up[m] => sess[m][j] = NoSession
      BY DEF Known, SessionsOwned
    <3>2. CASE m = n /\ j = i
      <4>1. sess[m][j].users # {} /\ up[m]
        BY <1>1, <1>2, <1>3, <3>2 DEF Sess
      <4> QED
        BY <1>6, <4>1
    <3>3. CASE m # n \/ j # i
      BY <1>6, <3>1, <3>3
    <3> QED
      BY <3>2, <3>3
  <2> QED
    BY <2>3, <2>4
<1>9. BusyAwaited'
  <2>1. SUFFICES ASSUME NEW m \in Nodes, NEW q \in busy'[m]
                 PROVE  /\ up[m] /\ q.h \in Hosts(q.c) /\ q.h <= Threads(q.c) /\ Node(q.c, q.h) = m
                        /\ task'[q.c][q.h] = "wait" /\ phase[q.c] \in {"pool", "failed"}
                        /\ Sess(q.c, q.h)'.users # {}
                        /\ \A p \in busy'[m] : p.c = q.c /\ p.h = q.h => p = q
    BY <1>2, <1>4 DEF BusyAwaited
  <2>2. q \in busy[m] /\ q.c \in Users /\ q.h \in Hosts(q.c)
    BY <1>5 DEF Requests, Known, BusyAwaited
  <2>3. ~(q.c = c /\ q.h = h)
    BY <1>1, <1>2, <1>3, <2>2 DEF Known, BusyAwaited
  <2>4. task'[q.c][q.h] = task[q.c][q.h] /\ Sess(q.c, q.h)'.users = Sess(q.c, q.h).users
    BY <1>4, <1>7, <2>2, <2>3
  <2> QED
    BY <1>5, <2>2, <2>4 DEF Known, BusyAwaited
<1>10. MeetAtNode' /\ MeetHandler'
  <2>1. MeetAtNode'
    BY <1>2, <1>4 DEF Known, Met, MeetAtNode, history
  <2>2. MeetHandler'
    BY <1>2, <1>4, <1>5 DEF Known, Met, MeetHandler, history
  <2> QED
    BY <2>1, <2>2
<1>11. MeetInSession' /\ MeetUsers'
  <2>1. MeetInSession'
    <3>1. SUFFICES ASSUME NEW x \in Users, NEW g \in Hosts(x), Placed(x, g)
                   PROVE  /\ x \notin disturbed => Sess(x, g)'.users \subseteq {x}
                          /\ \A y \in Users : Sess(x, g)'.users = {y} /\ y # x => y \in disturbed
      BY <1>2, <1>4 DEF MeetInSession, history
    <3> QED
      BY <1>7, <3>1 DEF Known, Met, MeetInSession
  <2>2. MeetUsers'
    BY <1>2, <1>6 DEF Known, Met, MeetUsers, history
  <2> QED
    BY <2>1, <2>2
<1>12. MeetRequest'
  <2>1. SUFFICES ASSUME NEW m \in Nodes, NEW q \in busy'[m], NEW x \in Users, Sess(q.c, q.h)'.users = {x}, x # q.c
                 PROVE  x \in disturbed
    BY <1>2, <1>4 DEF MeetRequest, history
  <2>2. q \in busy[m] /\ q.c \in Users /\ q.h \in Hosts(q.c)
    BY <1>5 DEF Requests, Known, BusyAwaited
  <2> QED
    BY <1>7, <2>1, <2>2 DEF Known, Met, MeetRequest
<1>13. Lone'
  <2>1. SUFFICES ASSUME NEW x \in Users \ disturbed, NEW g \in Hosts(x)
                 PROVE  LoneSession(x, g)'
    BY <1>2, <1>4 DEF Lone, history
  <2>2. LoneSession(x, g)
    BY DEF Known, Lone
  <2>3. CASE Node(x, g) = n /\ Id(x, g) = i
    <3>1. SUFFICES ASSUME sess[n][i].users = {x}
                   PROVE  /\ InPool(x, g)' /\ sess'[n][i].reader = <<>>
                          /\ sess'[n][i].writer # <<>> => InSend(x, g)'
                          /\ \A q \in busy'[n] : ~(q.c = x /\ q.h = g)
      BY <1>2, <1>4, <1>6, <2>3 DEF LoneSession, Sess
    <3>2. x = c
      <4>1. Sess(r.c, r.h).users = {x}
        BY <1>1, <1>2, <3>1 DEF Sess
      <4> QED
        BY <1>1, <2>1, <4>1 DEF Known, Met, MeetRequest
    <3>3. g = h
      BY <1>4, <2>3, <3>2
    <3>4. sess[n][i].reader = <<>> /\ (sess[n][i].writer # <<>> => InSend(c, h))
      BY <1>1, <1>2, <2>2, <2>3, <3>1, <3>2, <3>3 DEF LoneSession, Sess
    <3>5. InPool(c, h)' /\ (InSend(c, h) => InSend(c, h)')
      BY <1>2, <1>3 DEF InPool, InSend
    <3> QED
      BY <1>2, <1>3, <3>2, <3>3, <3>4, <3>5
  <2>4. CASE ~(Node(x, g) = n /\ Id(x, g) = i)
    <3>1. InPool(x, g)' = InPool(x, g) /\ InSend(x, g)' = InSend(x, g)
      BY <1>1, <1>2, <1>4, <2>4
    <3>2. Sess(x, g)' = Sess(x, g)
      BY <1>4, <1>6, <2>4 DEF Sess
    <3> QED
      BY <1>4, <1>5, <2>2, <3>1, <3>2 DEF LoneSession
  <2> QED
    BY <2>3, <2>4
<1> QED
  BY <1>8, <1>9, <1>10, <1>11, <1>12, <1>13 DEF Known, Met

\* Of a reader on the head of a session.
LEMMA ReaderHead ==
  ASSUME NEW n, NEW s, s.reader # <<>> => s.reader[1].of = Head(s.src)
  PROVE  Reader(n, s).of = Head(s.src)
BY DEF Reader

LEMMA DownloadMet ==
  ASSUME Typed, Known, NEW c \in Users, NEW h \in Hosts(c), Download(c, h)
  PROVE  Known'
<1>1. PICK n, i, b : n = Node(c, h) /\ i = Id(c, h) /\ b = Blob(n, sess[n][i])
  OBVIOUS
<1>2. /\ n \in Nodes /\ i \in Ids /\ phase[c] = "pool" /\ task[c][h] = "download" /\ up[n]
      /\ sess[n][i].src # <<>>
      /\ UNCHANGED <<in, phase, app, share, local, shipping, up, restarts, cwd, opts, made, bins, busy, history>>
      /\ DownloadNode(n, i, b) /\ DownloadClient(c, h, b)
  BY <1>1, DownloadFacts DEF Typed
<1>3. /\ TaskStep(c, h)
      /\ task'[c][h] \in {"threw", IF b.left > 0 THEN "download" ELSE "end"}
  BY <1>2 DEF DownloadClient
<1>4. /\ SessStep(n, i) /\ sess'[n][i].users = sess[n][i].users /\ sess'[n][i].writer = sess[n][i].writer
      /\ \/ /\ sess'[n][i].src = sess[n][i].src /\ b.left = Len(sess[n][i].src)
            /\ sess'[n][i].reader = <<[of |-> Reader(n, sess[n][i]).of, pos |-> Reader(n, sess[n][i]).pos + 1, void |-> FALSE]>>
         \/ /\ sess'[n][i].src = Tail(sess[n][i].src) /\ b.left = Len(Tail(sess[n][i].src))
            /\ sess'[n][i].reader = <<>>
  BY <1>2 DEF DownloadNode
<1>5. /\ Users' = Users /\ \A x : Hosts(x)' = Hosts(x) /\ Threads(x)' = Threads(x)
      /\ \A x, g : Node(x, g)' = Node(x, g) /\ Id(x, g)' = Id(x, g)
      /\ \A x \in Users : \A g \in Hosts(x) : Node(x, g) \in Nodes /\ Id(x, g) \in Ids
      /\ \A g \in Hosts(c) : Node(c, g) = n /\ Id(c, g) = i => g = h
      /\ \A x \in Users : \A g \in Hosts(x) :
           /\ Placed(x, g)' = Placed(x, g)
           /\ (x # c \/ g # h) => task'[x][g] = task[x][g] /\ InPool(x, g)' = InPool(x, g) /\ InSend(x, g)' = InSend(x, g)
           /\ phase'[x] = "ping" /\ task'[x][g] = "queued" => phase[x] = "ping" /\ task[x][g] = "queued"
      /\ \A x \in Users : \A m : Turned(x, m)' = Turned(x, m)
  BY <1>1, <1>2, <1>3, SameClient
<1>6. \A m \in Nodes, j \in Ids : /\ sess'[m][j].users = sess[m][j].users
                                  /\ m # n \/ j # i => sess'[m][j] = sess[m][j]
  BY <1>4 DEF SessStep
<1>7. \A x \in Users : \A g \in Hosts(x) : Sess(x, g)'.users = Sess(x, g).users
  BY <1>5, <1>6 DEF Sess
<1>8. SessionsOwned'
  <2>1. SUFFICES ASSUME NEW m \in Nodes, NEW j \in Ids
                 PROVE  /\ sess'[m][j].users = {} \/ ~up[m] => sess'[m][j] = NoSession
                        /\ \A x \in sess[m][j].users : \E g \in Hosts(x) :
                             Node(x, g) = m /\ Id(x, g) = j /\ ~(phase'[x] = "ping" /\ task'[x][g] = "queued")
    BY <1>2, <1>5, <1>6 DEF SessionsOwned
  <2>2. sess[m][j].users \subseteq Users
    BY SessionFields DEF Typed
  <2>3. \A x \in sess[m][j].users : \E g \in Hosts(x) :
          Node(x, g) = m /\ Id(x, g) = j /\ ~(phase'[x] = "ping" /\ task'[x][g] = "queued")
    BY <1>5, <2>2 DEF Known, SessionsOwned
  <2>4. sess[n][i].users # {}
    BY <1>2 DEF Known, SessionsOwned, NoSession
  <2>5. sess'[m][j].users = {} \/ ~up[m] => sess'[m][j] = NoSession
    BY <1>2, <1>6, <2>4 DEF Known, SessionsOwned
  <2> QED
    BY <2>3, <2>5
<1>9. \A m \in Nodes : \A q \in busy[m] : q.c \in Users /\ q.h \in Hosts(q.c) /\ ~(q.c = c /\ q.h = h)
  <2>1. \A m \in Nodes : \A q \in busy[m] : q.c \in Users /\ q.h \in Hosts(q.c)
    BY DEF Requests, Known, BusyAwaited, Typed, NodeTyped
  <2>2. \A m \in Nodes : \A q \in busy[m] : ~(q.c = c /\ q.h = h)
    BY <1>2 DEF Known, BusyAwaited
  <2> QED
    BY <2>1, <2>2
<1>10. BusyAwaited'
  <2>1. SUFFICES ASSUME NEW m \in Nodes, NEW q \in busy[m]
                 PROVE  /\ up[m] /\ q.h \in Hosts(q.c) /\ q.h <= Threads(q.c) /\ Node(q.c, q.h) = m
                        /\ task'[q.c][q.h] = "wait" /\ phase[q.c] \in {"pool", "failed"}
                        /\ Sess(q.c, q.h)'.users # {}
                        /\ \A p \in busy[m] : p.c = q.c /\ p.h = q.h => p = q
    BY <1>2, <1>5 DEF BusyAwaited
  <2>2. task'[q.c][q.h] = task[q.c][q.h] /\ Sess(q.c, q.h)'.users = Sess(q.c, q.h).users
    BY <1>5, <1>7, <1>9
  <2> QED
    BY <2>2 DEF Known, BusyAwaited
<1>11. MeetAtNode' /\ MeetHandler'
  <2>1. MeetAtNode'
    BY <1>2, <1>5 DEF Known, Met, MeetAtNode, history
  <2>2. MeetHandler'
    BY <1>2, <1>5 DEF Known, Met, MeetHandler, history
  <2> QED
    BY <2>1, <2>2
<1>12. MeetInSession' /\ MeetUsers'
  <2>1. MeetInSession'
    <3>1. SUFFICES ASSUME NEW x \in Users, NEW g \in Hosts(x), Placed(x, g)
                   PROVE  /\ x \notin disturbed => Sess(x, g)'.users \subseteq {x}
                          /\ \A y \in Users : Sess(x, g)'.users = {y} /\ y # x => y \in disturbed
      BY <1>2, <1>5 DEF MeetInSession, history
    <3> QED
      BY <1>7, <3>1 DEF Known, Met, MeetInSession
  <2>2. MeetUsers'
    BY <1>2, <1>6 DEF Known, Met, MeetUsers, history
  <2> QED
    BY <2>1, <2>2
<1>13. MeetRequest'
  <2>1. SUFFICES ASSUME NEW m \in Nodes, NEW q \in busy[m], NEW x \in Users, Sess(q.c, q.h)'.users = {x}, x # q.c
                 PROVE  x \in disturbed
    BY <1>2, <1>5 DEF MeetRequest, history
  <2> QED
    BY <1>7, <1>9, <2>1 DEF Known, Met, MeetRequest
<1>14. Lone'
  <2>1. SUFFICES ASSUME NEW x \in Users \ disturbed, NEW g \in Hosts(x)
                 PROVE  LoneSession(x, g)'
    BY <1>2, <1>5 DEF Lone, history
  <2>2. LoneSession(x, g)
    BY DEF Known, Lone
  <2>3. CASE Node(x, g) = n /\ Id(x, g) = i
    <3>1. SUFFICES ASSUME sess[n][i].users = {x}
                   PROVE  /\ sess'[n][i].src # <<>> \/ sess'[n][i].reader # <<>> => InPool(x, g)'
                          /\ sess'[n][i].writer = <<>>
                          /\ sess'[n][i].reader # <<>> => /\ sess'[n][i].src # <<>>
                                                          /\ sess'[n][i].reader[1].of = Head(sess'[n][i].src)
                                                          /\ ~sess'[n][i].reader[1].void
                          /\ \A q \in busy[n] : ~(q.c = x /\ q.h = g)
      BY <1>2, <1>5, <1>6, <2>3 DEF LoneSession, Sess
    <3>2. x = c
      <4>1. h <= Threads(c)
        BY <1>2, TaskPhases
      <4>2. Placed(c, h)
        BY <1>2, <4>1 DEF Placed, Ended
      <4> QED
        BY <1>1, <2>1, <3>1, <4>2 DEF Known, Met, MeetInSession, Sess
    <3>3. g = h
      BY <1>5, <2>3, <3>2
    <3>4. ~InSend(c, h)
      BY <1>2 DEF InSend
    <3>5. /\ sess[n][i].writer = <<>>
          /\ sess[n][i].reader # <<>> => sess[n][i].reader[1].of = Head(sess[n][i].src)
      BY <2>2, <2>3, <3>1, <3>2, <3>3, <3>4 DEF LoneSession, Sess
    <3>6. Reader(n, sess[n][i]).of = Head(sess[n][i].src)
      BY <3>5, ReaderHead
    <3>7. sess[n][i].src \in Seq(Files)
      BY <1>2, SessionFields DEF Typed
    <3>8. sess'[n][i].src # <<>> \/ sess'[n][i].reader # <<>> => InPool(c, h)'
      <4>1. sess'[n][i].src # <<>> \/ sess'[n][i].reader # <<>> => b.left > 0
        <5> PICK q : q = sess[n][i].src
          OBVIOUS
        <5>1. q \in Seq(Files) /\ q # <<>>
          BY <1>2, <3>7
        <5>2. Len(q) > 0 /\ Tail(q) \in Seq(Files)
          BY <5>1, SeqFacts
        <5>3. Tail(q) # <<>> => Len(Tail(q)) > 0
          BY <5>2, EmptySeq
        <5> QED
          BY <1>4, <5>2, <5>3
      <4> QED
        BY <1>2, <1>3, <4>1 DEF InPool
    <3>9. sess'[n][i].reader # <<>> => /\ sess'[n][i].src # <<>>
                                       /\ sess'[n][i].reader[1].of = Head(sess'[n][i].src)
                                       /\ ~sess'[n][i].reader[1].void
      <4> PICK o, q : o = Reader(n, sess[n][i]).of /\ q = Reader(n, sess[n][i]).pos + 1
        OBVIOUS
      <4>1. CASE sess'[n][i].src = sess[n][i].src /\ sess'[n][i].reader = <<[of |-> o, pos |-> q, void |-> FALSE]>>
        BY <1>2, <3>6, <4>1
      <4>2. CASE sess'[n][i].reader = <<>>
        BY <4>2
      <4> QED
        BY <1>4, <4>1, <4>2
    <3>10. sess'[n][i].writer = <<>> /\ \A q \in busy[n] : ~(q.c = x /\ q.h = g)
      BY <1>2, <1>4, <1>9, <3>2, <3>3, <3>5
    <3>11. InPool(x, g)' = InPool(c, h)'
      BY <3>2, <3>3
    <3> QED
      BY <3>8, <3>9, <3>10, <3>11
  <2>4. CASE ~(Node(x, g) = n /\ Id(x, g) = i)
    <3>1. InPool(x, g)' = InPool(x, g) /\ InSend(x, g)' = InSend(x, g)
      BY <1>1, <1>5, <2>4
    <3>2. Sess(x, g)' = Sess(x, g)
      BY <1>5, <1>6, <2>4 DEF Sess
    <3> QED
      BY <1>2, <1>5, <2>2, <3>1, <3>2 DEF LoneSession
  <2> QED
    BY <2>3, <2>4
<1> QED
  BY <1>8, <1>10, <1>11, <1>12, <1>13, <1>14 DEF Known, Met

LEMMA DieMet ==
  ASSUME Typed, Known, NEW n \in Nodes, Die(n)
  PROVE  Known'
<1>1. /\ UNCHANGED <<in, phase, app, share, local, writer, have, fresh, shipping, restarts, cwd, opts, made, bins, disturbed>>
      /\ \A m \in Nodes : m # n => up'[m] = up[m] /\ sess'[m] = sess[m] /\ busy'[m] = busy[m]
      /\ \A i \in Ids : sess'[n][i] = NoSession
      /\ busy'[n] = {}
      /\ \A c \in Users : \A h \in Hosts(c) : task'[c][h] =
                               IF Node(c, h) = n /\ task[c][h] = "wait" THEN "threw" ELSE task[c][h]
  BY DieFacts DEF Typed
<1>2. /\ Users' = Users /\ \A x : Hosts(x)' = Hosts(x) /\ Threads(x)' = Threads(x)
      /\ \A x, g : Node(x, g)' = Node(x, g) /\ Id(x, g)' = Id(x, g)
      /\ \A x \in Users : \A g \in Hosts(x) : Node(x, g) \in Nodes /\ Id(x, g) \in Ids
  BY <1>1, InputKept, InputFacts DEF Typed, ClientTyped
<1>3. NoSession.users = {}
  BY DEF NoSession
<1>4. /\ \A m \in Nodes, j \in Ids : (m = n /\ sess'[m][j] = NoSession) \/ (m # n /\ sess'[m][j] = sess[m][j])
      /\ \A m \in Nodes : busy'[m] \subseteq busy[m] /\ (busy'[m] # {} => m # n)
      /\ \A m \in Nodes : \A q \in busy[m] : q.c \in Users /\ q.h \in Hosts(q.c) /\ Node(q.c, q.h) = m
  <2>1. \A m \in Nodes, j \in Ids : (m = n /\ sess'[m][j] = NoSession) \/ (m # n /\ sess'[m][j] = sess[m][j])
    BY <1>1
  <2>2. \A m \in Nodes : busy'[m] \subseteq busy[m] /\ (busy'[m] # {} => m # n)
    BY <1>1
  <2>3. \A m \in Nodes : \A q \in busy[m] : q.c \in Users /\ q.h \in Hosts(q.c) /\ Node(q.c, q.h) = m
    BY DEF Requests, Known, BusyAwaited, Typed, NodeTyped
  <2> QED
    BY <2>1, <2>2, <2>3
<1>5. \A x \in Users : \A g \in Hosts(x) :
        /\ Placed(x, g)' = Placed(x, g)
        /\ phase'[x] = "ping" /\ task'[x][g] = "queued" => phase[x] = "ping" /\ task[x][g] = "queued"
        /\ Node(x, g) # n => task'[x][g] = task[x][g] /\ InPool(x, g)' = InPool(x, g) /\ InSend(x, g)' = InSend(x, g)
        /\ Node(x, g) # n => Sess(x, g)' = Sess(x, g)
        /\ Node(x, g) = n => Sess(x, g)'.users = {}
  <2> TAKE x \in Users
  <2> TAKE g \in Hosts(x)
  <2>1. task'[x][g] = (IF Node(x, g) = n /\ task[x][g] = "wait" THEN "threw" ELSE task[x][g])
    BY <1>1
  <2>2. Placed(x, g)' = Placed(x, g)
    BY <1>1, <1>2, <2>1 DEF Placed
  <2>3. Node(x, g) # n => InPool(x, g)' = InPool(x, g) /\ InSend(x, g)' = InSend(x, g)
    BY <1>1, <2>1 DEF InPool, InSend
  <2>4. /\ Node(x, g) # n => Sess(x, g)' = Sess(x, g)
        /\ Node(x, g) = n => Sess(x, g)'.users = {}
    BY <1>1, <1>2, <1>3 DEF Sess
  <2> QED
    BY <1>1, <2>1, <2>2, <2>3, <2>4
<1>6. \A x \in Users : \A m : Turned(x, m)' = Turned(x, m)
  BY <1>2, <1>5 DEF Turned
<1>7. SessionsOwned'
  <2>1. SUFFICES ASSUME NEW m \in Nodes, NEW j \in Ids
                 PROVE  /\ sess'[m][j].users = {} \/ ~up'[m] => sess'[m][j] = NoSession
                        /\ \A x \in sess'[m][j].users : \E g \in Hosts(x) :
                             Node(x, g) = m /\ Id(x, g) = j /\ ~(phase'[x] = "ping" /\ task'[x][g] = "queued")
    BY <1>2 DEF SessionsOwned
  <2>2. CASE m = n
    BY <1>1, <1>3, <2>2
  <2>3. CASE m # n
    <3>1. sess[m][j].users \subseteq Users
      BY SessionFields DEF Typed
    <3> QED
      BY <1>1, <1>5, <2>3, <3>1 DEF Known, SessionsOwned
  <2> QED
    BY <2>2, <2>3
<1>8. BusyAwaited'
  <2>1. SUFFICES ASSUME NEW m \in Nodes, NEW q \in busy'[m]
                 PROVE  /\ up'[m] /\ q.h \in Hosts(q.c) /\ q.h <= Threads(q.c) /\ Node(q.c, q.h) = m
                        /\ task'[q.c][q.h] = "wait" /\ phase[q.c] \in {"pool", "failed"}
                        /\ Sess(q.c, q.h)'.users # {}
                        /\ \A p \in busy'[m] : p.c = q.c /\ p.h = q.h => p = q
    BY <1>1, <1>2 DEF BusyAwaited
  <2>2. q \in busy[m] /\ m # n /\ q.c \in Users /\ q.h \in Hosts(q.c) /\ Node(q.c, q.h) = m
    BY <1>4
  <2>3. task'[q.c][q.h] = task[q.c][q.h] /\ Sess(q.c, q.h)' = Sess(q.c, q.h) /\ up'[m] = up[m]
    BY <1>1, <1>5, <2>2
  <2> QED
    BY <1>4, <2>2, <2>3 DEF Known, BusyAwaited
<1>9. MeetAtNode' /\ MeetHandler'
  <2>1. MeetAtNode'
    BY <1>1, <1>2, <1>6 DEF Known, Met, MeetAtNode
  <2>2. MeetHandler'
    BY <1>1, <1>2, <1>4, <1>6 DEF Known, Met, MeetHandler
  <2> QED
    BY <2>1, <2>2
<1>10. MeetInSession' /\ MeetUsers'
  <2>1. MeetInSession'
    <3>1. SUFFICES ASSUME NEW x \in Users, NEW g \in Hosts(x), Placed(x, g)
                   PROVE  /\ x \notin disturbed => Sess(x, g)'.users \subseteq {x}
                          /\ \A y \in Users : Sess(x, g)'.users = {y} /\ y # x => y \in disturbed
      BY <1>1, <1>2, <1>5 DEF MeetInSession
    <3> QED
      BY <1>5, <3>1 DEF Known, Met, MeetInSession
  <2>2. MeetUsers'
    BY <1>1, <1>2, <1>3, <1>4 DEF Known, Met, MeetUsers
  <2> QED
    BY <2>1, <2>2
<1>11. MeetRequest'
  <2>1. SUFFICES ASSUME NEW m \in Nodes, NEW q \in busy'[m], NEW x \in Users, Sess(q.c, q.h)'.users = {x}, x # q.c
                 PROVE  x \in disturbed
    BY <1>1, <1>2 DEF MeetRequest
  <2> QED
    BY <1>4, <1>5, <2>1 DEF Known, Met, MeetRequest
<1>12. Lone'
  <2>1. SUFFICES ASSUME NEW x \in Users \ disturbed, NEW g \in Hosts(x), Sess(x, g)'.users = {x}
                 PROVE  LoneSession(x, g)'
    BY <1>1, <1>2 DEF Lone, LoneSession
  <2>2. LoneSession(x, g) /\ Node(x, g) # n /\ Sess(x, g)' = Sess(x, g)
    BY <1>5, <2>1 DEF Known, Lone
  <2> QED
    BY <1>2, <1>4, <1>5, <2>2 DEF LoneSession
<1> QED
  BY <1>7, <1>8, <1>9, <1>10, <1>11, <1>12 DEF Known, Met

LEMMA RestartMet ==
  ASSUME Typed, Known, NEW n \in Nodes, Restart(n)
  PROVE  Known'
<1>1. /\ UNCHANGED <<in, client, sess, made, bins, busy, history>>
      /\ ~up[n] /\ \A m \in Nodes : m # n => up'[m] = up[m]
  BY RestartFacts DEF Typed
<1>2. /\ Users' = Users /\ \A x : Hosts(x)' = Hosts(x) /\ Threads(x)' = Threads(x)
      /\ \A x, g : /\ Node(x, g)' = Node(x, g) /\ Id(x, g)' = Id(x, g) /\ Sess(x, g)' = Sess(x, g)
                   /\ Placed(x, g)' = Placed(x, g) /\ InPool(x, g)' = InPool(x, g) /\ InSend(x, g)' = InSend(x, g)
  BY <1>1, InputKept DEF Sess, Placed, InPool, InSend, client
<1>3. \A x, m : Turned(x, m)' = Turned(x, m)
  BY <1>2 DEF Turned
<1>4. SessionsOwned'
  BY <1>1, <1>2 DEF Known, SessionsOwned, client
<1>5. BusyAwaited'
  BY <1>1, <1>2 DEF Known, BusyAwaited, client
<1>6. Met'
  <2>1. MeetAtNode' /\ MeetHandler'
    BY <1>1, <1>2, <1>3 DEF Known, Met, MeetAtNode, MeetHandler, history
  <2>2. MeetInSession' /\ MeetRequest' /\ MeetUsers'
    BY <1>1, <1>2 DEF Known, Met, MeetInSession, MeetRequest, MeetUsers, history
  <2> QED
    BY <2>1, <2>2 DEF Met
<1>7. Lone'
  <2>1. \A x, g : LoneSession(x, g) => LoneSession(x, g)'
    BY <1>1, <1>2 DEF LoneSession
  <2> QED
    BY <1>1, <1>2, <2>1 DEF Known, Lone, history
<1> QED
  BY <1>4, <1>5, <1>6, <1>7 DEF Known

-----------------------------------------------------------------------------
(* What every behaviour keeps.                                             *)

LEMMA InitTyped ==
  ASSUME Init
  PROVE  Typed
<1>1. in \in Inputs
  BY DEF Init
<1>2. \A c \in Users : ClientAt(c) /\ InStepAt(c)
  <2> TAKE c \in Users
  <2>1. /\ phase[c] = "ping" /\ app[c] = 1 /\ local[c] = {}
        /\ task[c] = [h \in Hosts(c) |-> IF h <= Threads(c) THEN "queued" ELSE "none"]
        /\ share[c] = [h \in Hosts(c) |-> <<>>] /\ writer[c] = [h \in Hosts(c) |-> <<>>]
        /\ sent[c] = [h \in Hosts(c) |-> 0] /\ out[c] = 0 /\ again[c] = FALSE /\ disk[c] = NoFiles
    BY DEF Init
  <2>2. 1 \in DOMAIN in[c].work
    <3>1. in[c].work # <<>> /\ DOMAIN in[c].work = 1..Len(in[c].work) /\ Len(in[c].work) \in Nat
      BY <1>1, InputFacts
    <3>2. PICK r : r = in[c]
      OBVIOUS
    <3>3. r.work \in Seq(Jobs)
      BY <1>1, <3>2, InputsAssumption DEF Users, Valid
    <3> QED
      BY <3>1, <3>2, <3>3, EmptySeq
  <2>3. share[c] \in [Hosts(c) -> Seq(Files)] /\ \A h \in Hosts(c) : share[c][h] = <<>>
    <3>1. <<>> \in Seq(Files)
      OBVIOUS
    <3> QED
      BY <2>1, <3>1
  <2>4. writer[c] \in [Hosts(c) -> Opt(Targets)]
    BY <2>1 DEF Opt
  <2>5. LinksAt(c)
    <3>1. Work(c).tests \in Nat
      BY <1>1, <2>1, <2>2, InputFacts DEF Work
    <3>2. DOMAIN disk[c] = {}
      BY <2>1 DEF NoFiles
    <3>3. DOMAIN sent[c] = Hosts(c) /\ \A h \in Hosts(c) : sent[c][h] \in Nat
      BY <2>1
    <3>4. out[c] \in 0..Work(c).tests
      BY <2>1, <3>1
    <3> QED
      BY <2>1, <3>2, <3>3, <3>4 DEF LinksAt
  <2>6. task[c] \in [Hosts(c) -> TaskNames] /\ \A h \in Hosts(c) : task[c][h] \in Tasks(c, h)
    BY <2>1 DEF TaskNames, Tasks
  <2>7. ClientAt(c)
    BY <2>1, <2>2, <2>3, <2>4, <2>5, <2>6 DEF ClientAt, PhaseNames
  <2>8. InStepAt(c)
    BY <2>1, <2>6 DEF InStepAt, Sending
  <2> QED
    BY <2>7, <2>8
<1>3. ClientTyped /\ InStep
  BY <1>1, <1>2 DEF ClientTyped, InStep, Init
<1>4. NodeTyped
  <2>1. NoSession \in Sessions
    <3>1. <<>> \in Opt(Readers) /\ <<>> \in Opt(Receivers) /\ <<>> \in Seq(Files)
      BY DEF Opt
    <3> QED
      BY <3>1 DEF NoSession, Sessions
  <2>2. PICK f : f = [i \in Ids |-> NoSession]
    OBVIOUS
  <2>3. f \in [Ids -> Sessions]
    BY <2>1, <2>2
  <2>4. sess = [n \in Nodes |-> f]
    BY <2>2 DEF Init
  <2>5. sess \in [Nodes -> [Ids -> Sessions]]
    BY <2>3, <2>4
  <2> QED
    BY <2>5, NoneElse DEF NodeTyped, Init
<1> QED
  BY <1>3, <1>4 DEF Typed

LEMMA InitMet ==
  ASSUME Init
  PROVE  Known
<1>1. /\ \A n \in Nodes, i \in Ids : sess[n][i] = NoSession
      /\ \A n \in Nodes : busy[n] = {} /\ up[n] = TRUE
      /\ NoSession.users = {}
  BY DEF Init, NoSession
<1>2. in \in Inputs /\ \A c \in Users : \A h \in Hosts(c) : Node(c, h) \in Nodes /\ Id(c, h) \in Ids
  BY InputFacts DEF Init
<1>3. \A c \in Users : \A h \in Hosts(c) : ~Placed(c, h) /\ Sess(c, h).users = {}
  BY <1>1, <1>2 DEF Init, Placed, Sess
<1>4. SessionsOwned
  BY <1>1 DEF SessionsOwned
<1>5. BusyAwaited /\ MeetHandler /\ MeetRequest
  BY <1>1 DEF BusyAwaited, MeetHandler, MeetRequest
<1>6. MeetAtNode /\ MeetInSession /\ MeetUsers
  BY <1>1, <1>3 DEF MeetAtNode, MeetInSession, MeetUsers, Turned
<1>7. Lone
  BY <1>3 DEF Lone, LoneSession
<1> QED
  BY <1>4, <1>5, <1>6, <1>7 DEF Known, Met

\* The client's own steps are quiet, and keep the types.
LEMMA OwnSteps ==
  ASSUME Typed, NEW c \in Users, Main(c) \/ Killed(c) \/ \E h \in Hosts(c) : Unanswered(c, h)
  PROVE  Quiet(c) /\ Typed'
<1>1. CASE Pinged(c)
  BY <1>1, PingedQuiet, PingedTyped
<1>2. CASE Split(c)
  BY <1>2, SplitQuiet, SplitTyped
<1>3. CASE LocalCompile(c)
  BY <1>3, LocalCompileQuiet, LocalCompileTyped
<1>4. CASE Join(c)
  BY <1>4, JoinQuiet, JoinTyped
<1>5. CASE Link(c)
  BY <1>5, LinkQuiet, LinkTyped
<1>6. CASE Sent(c)
  BY <1>6, SentQuiet, SentTyped
<1>7. CASE Killed(c)
  BY <1>7, KilledQuiet, KilledTyped
<1>8. CASE \E h \in Hosts(c) : Unanswered(c, h)
  BY <1>8, UnansweredQuiet, UnansweredTyped
<1> QED
  BY <1>1, <1>2, <1>3, <1>4, <1>5, <1>6, <1>7, <1>8 DEF Main

\* Steps that change nothing.
LEMMA StutterMet ==
  ASSUME Typed, Known, UNCHANGED vars
  PROVE  Typed' /\ Known'
<1>1. /\ UNCHANGED <<in, client, node, history>>
      /\ Users' = Users /\ \A x : Hosts(x)' = Hosts(x) /\ Threads(x)' = Threads(x) /\ Objects(x)' = Objects(x)
      /\ \A x, g : Node(x, g)' = Node(x, g) /\ Id(x, g)' = Id(x, g)
  BY InputKept DEF vars
<1>2. Typed'
  <2>1. \A c \in Users : ClientAt(c)' /\ InStepAt(c)'
    <3> TAKE c \in Users
    <3>1. ClientAt(c) /\ InStepAt(c) /\ \A g : Tasks(c, g)' = Tasks(c, g)
      BY <1>1, BatchKept DEF Typed, ClientTyped, InStep, client
    <3> QED
      BY <1>1, <3>1, SendingKept, CurrentKept DEF ClientAt, InStepAt, client
  <2>2. ClientTyped' /\ InStep'
    BY <1>1, <2>1 DEF Typed, ClientTyped, InStep, client, history
  <2> QED
    BY <1>1, <2>2, NodeKept DEF Typed
<1>3. Known'
  <2>1. /\ \A x, g : /\ Sess(x, g)' = Sess(x, g) /\ Placed(x, g)' = Placed(x, g)
                     /\ InPool(x, g)' = InPool(x, g) /\ InSend(x, g)' = InSend(x, g)
    BY <1>1 DEF Sess, Placed, InPool, InSend, client, node
  <2>2. \A x, m : Turned(x, m)' = Turned(x, m)
    BY <1>1, <2>1 DEF Turned
  <2>3. SessionsOwned' /\ BusyAwaited'
    BY <1>1, <2>1 DEF Known, SessionsOwned, BusyAwaited, client, node
  <2>4. MeetAtNode' /\ MeetHandler'
    BY <1>1, <2>2 DEF Known, Met, MeetAtNode, MeetHandler, history, node
  <2>5. MeetInSession' /\ MeetRequest' /\ MeetUsers'
    BY <1>1, <2>1 DEF Known, Met, MeetInSession, MeetRequest, MeetUsers, history, node
  <2>6. \A x, g : LoneSession(x, g) => LoneSession(x, g)'
    BY <1>1, <2>1 DEF LoneSession, node
  <2>7. Lone'
    BY <1>1, <2>6 DEF Known, Lone, history
  <2> QED
    BY <2>3, <2>4, <2>5, <2>7 DEF Known, Met
<1> QED
  BY <1>2, <1>3

LEMMA NextMet ==
  ASSUME Typed, Known, [Next]_vars
  PROVE  Typed' /\ Known'
<1>1. ASSUME NEW c \in Users, Main(c) \/ Killed(c) \/ \E h \in Hosts(c) : Unanswered(c, h)
      PROVE  Typed' /\ Known'
  BY <1>1, OwnSteps, QuietKept
<1>2. ASSUME NEW c \in Users, NEW h \in Hosts(c), Setup(c, h)
      PROVE  Typed' /\ Known'
  BY <1>2, SetupTyped, SetupMet
<1>3. ASSUME NEW c \in Users, NEW h \in Hosts(c), CompileStart(c, h)
      PROVE  Typed' /\ Known'
  BY <1>3, CompileStartTyped, CompileStartMet
<1>4. ASSUME NEW c \in Users, NEW h \in Hosts(c), Download(c, h)
      PROVE  Typed' /\ Known'
  BY <1>4, DownloadTyped, DownloadMet
<1>5. ASSUME NEW c \in Users, NEW h \in Hosts(c), Send(c, h)
      PROVE  Typed' /\ Known'
  BY <1>5, SendTyped, SendMet
<1>6. ASSUME NEW n \in Nodes, NEW r \in busy[n], CompileEnd(n, r)
      PROVE  Typed' /\ Known'
  BY <1>6, CompileEndTyped, CompileEndMet DEF Known
<1>7. ASSUME NEW n \in Nodes, Die(n)
      PROVE  Typed' /\ Known'
  BY <1>7, DieTyped, DieMet
<1>8. ASSUME NEW n \in Nodes, Restart(n)
      PROVE  Typed' /\ Known'
  BY <1>8, RestartTyped, RestartMet
<1>9. CASE UNCHANGED vars
  BY <1>9, StutterMet
<1> QED
  BY <1>1, <1>2, <1>3, <1>4, <1>5, <1>6, <1>7, <1>8, <1>9 DEF Next, Exchange, Handler, Finished

LEMMA AlwaysMet == Spec => [](Typed /\ Known)
<1>1. Init => Typed /\ Known
  BY InitTyped, InitMet
<1>2. (Typed /\ Known) /\ [Next]_vars => (Typed /\ Known)'
  BY NextMet
<1> QED
  BY <1>1, <1>2, PTL DEF Spec

-----------------------------------------------------------------------------
(* Sessions, nodes and requests are their client's own.                    *)

\* A host of a client that met nobody serves nobody else.
LEMMA AloneThere ==
  ASSUME Typed, Known, NEW c \in Users \ disturbed, NEW h \in Hosts(c), Placed(c, h), NEW n, n = Node(c, h)
  PROVE  /\ n \in Nodes /\ Turned(c, n)
         /\ \A x \in Users : x # c => ~Turned(x, n)
         /\ \A b \in busy[n] : b.c = c
         /\ Sess(c, h).users \subseteq {c}
         /\ Sess(c, h).src # <<>> => phase[c] = "pool" /\ task[c][h] \in {"download", "threw"}
<1>1. n \in Nodes /\ Id(c, h) \in Ids
  BY InputFacts DEF Typed, ClientTyped
<1>2. Turned(c, n)
  BY DEF Turned
<1>3. \A x \in Users : x # c => ~Turned(x, n)
  BY <1>1, <1>2 DEF Known, Met, MeetAtNode
<1>4. \A b \in busy[n] : b.c = c
  BY <1>1, <1>2 DEF Known, Met, MeetHandler
<1>5. Sess(c, h).users \subseteq {c}
  BY DEF Known, Met, MeetInSession
<1>6. ASSUME Sess(c, h).src # <<>>
      PROVE  phase[c] = "pool" /\ task[c][h] \in {"download", "threw"}
  <2>1. Sess(c, h).users # {}
    BY <1>1, <1>6 DEF Known, SessionsOwned, NoSession, Sess
  <2>2. Sess(c, h).users = {c}
    BY <1>5, <2>1
  <2>3. InPool(c, h)
    BY <1>6, <2>2 DEF Known, Lone, LoneSession
  <2> QED
    BY <2>3 DEF InPool, Placed, Ended
<1> QED
  BY <1>1, <1>2, <1>3, <1>4, <1>5, <1>6

\* Where nothing changed for a client.
LEMMA OwnKept ==
  ASSUME Typed, NEW c \in Users, NEW h \in Hosts(c), OwnNode(c, h), NEW n, n = Node(c, h),
         in' = in, phase'[c] = phase[c], app'[c] = app[c],
         cwd'[n] = cwd[n], opts'[n] = opts[n], busy'[n] = busy[n], made'[n] = made[n],
         \A i \in Ids : sess'[n][i].app = sess[n][i].app /\ sess'[n][i].src = sess[n][i].src,
         \A g \in Hosts(c) : Node(c, g) = n => task'[c][g] = task[c][g]
  PROVE  OwnNode(c, h)'
<1>1. /\ \A g : Node(c, g)' = Node(c, g) /\ Id(c, g)' = Id(c, g)
      /\ Hosts(c)' = Hosts(c) /\ Threads(c)' = Threads(c) /\ Work(c)' = Work(c)
  BY InputKept, BatchKept
<1>2. \A g \in Hosts(c) : Node(c, g) = n =>
        /\ Placed(c, g)' = Placed(c, g)
        /\ Sess(c, g)'.app = Sess(c, g).app /\ Sess(c, g)'.src = Sess(c, g).src
  BY <1>1, InputFacts DEF Sess, Placed, Typed, ClientTyped
<1>3. AtHome(c, h)' = AtHome(c, h) /\ Stuck(c, h)' = Stuck(c, h)
  <2>1. AtHome(c, h)' = AtHome(c, h)
    BY <1>1, <1>2 DEF AtHome
  <2>2. Stuck(c, h)' = Stuck(c, h)
    BY <1>1, <1>2 DEF Stuck
  <2> QED
    BY <2>1, <2>2
<1>4. AppMine(c, h) => AppMine(c, h)'
  BY <1>1, <1>2, <1>3 DEF AppMine
<1>5. SrcMine(c, h) => SrcMine(c, h)'
  BY <1>1, <1>2 DEF SrcMine
<1>6. ReqMine(c, h) => ReqMine(c, h)'
  BY <1>1, <1>2 DEF ReqMine
<1> QED
  BY <1>2, <1>4, <1>5, <1>6 DEF OwnNode

LEMMA SharedKept ==
  ASSUME Own, UNCHANGED <<in, phase, app, share>>
  PROVE  /\ \A c \in Users : Shared(c)'
         /\ (\A c \in Users \ disturbed' : \A h \in Hosts(c) : OwnNode(c, h)') => Own'
<1>1. Users' = Users /\ \A c : Hosts(c)' = Hosts(c) /\ Threads(c)' = Threads(c)
  BY InputKept
<1>2. \A c \in Users : Shared(c)'
  <2> TAKE c \in Users
  <2>1. Shared(c) /\ Size(c)' = Size(c) /\ \A h, size : Part(c, h, size)' = Part(c, h, size)
    BY BatchKept DEF Own
  <2> QED
    BY <1>1, <2>1 DEF Shared
<1> QED
  BY <1>1, <1>2 DEF Own

\* A set-up request, of a client that met nobody at the node.
LEMMA SetupOwn ==
  ASSUME Typed, Known, Own, NEW c \in Users, NEW h \in Hosts(c), Setup(c, h)
  PROVE  Own'
<1>1. PICK n, i : n = Node(c, h) /\ i = Id(c, h)
  OBVIOUS
<1>2. /\ n \in Nodes /\ i \in Ids /\ phase[c] = "ping" /\ task[c][h] = "queued" /\ up[n]
      /\ TaskStep(c, h) /\ task'[c][h] \in {"end", "threw"}
      /\ UNCHANGED <<in, phase, app, share, local, writer, have, fresh, shipping, up, restarts, made, bins, busy, cut>>
      /\ SessStep(n, i) /\ sess'[n][i].src = sess[n][i].src
      /\ \A m \in Nodes : m # n => cwd'[m] = cwd[m] /\ opts'[m] = opts[m]
      /\ \/ sess'[n][i].app = sess[n][i].app /\ cwd' = cwd /\ opts' = opts
         \/ /\ sess'[n][i].app \in {sess[n][i].app, SetupDir(c, n)}
            /\ cwd'[n] = SetupDir(c, n) /\ opts'[n] = c
      /\ Meets(c, n, i)
  BY <1>1, SetupFacts DEF Typed
<1>3. /\ \A x, g : Node(x, g)' = Node(x, g) /\ Id(x, g)' = Id(x, g)
      /\ Users' = Users /\ \A x : Hosts(x)' = Hosts(x) /\ Threads(x)' = Threads(x)
      /\ \A x \in Users : Work(x)' = Work(x)
      /\ \A x \in Users : \A g \in Hosts(x) : Node(x, g) \in Nodes /\ Id(x, g) \in Ids
      /\ \A g \in Hosts(c) : Node(c, g) = n /\ Id(c, g) = i => g = h
  BY <1>1, <1>2, InputKept, BatchKept, InputFacts DEF Typed, ClientTyped
<1>4. disturbed \subseteq disturbed'
  BY <1>2 DEF Meets
<1>5. ASSUME NEW x \in Users \ disturbed', NEW g \in Hosts(x), x # c \/ Node(x, g) # n
      PROVE  OwnNode(x, g)'
  <2>1. OwnNode(x, g)
    BY <1>4 DEF Own
  <2>2. CASE ~Placed(x, g)'
    BY <2>2 DEF OwnNode
  <2>3. CASE Placed(x, g)' /\ Node(x, g) # n
    <3>1. PICK m : m = Node(x, g)
      OBVIOUS
    <3>2. m \in Nodes /\ m # n
      BY <1>3, <2>3, <3>1
    <3>3. \A j \in Ids : sess'[m][j].app = sess[m][j].app /\ sess'[m][j].src = sess[m][j].src
      BY <1>2, <3>2 DEF SessStep
    <3>4. \A k \in Hosts(x) : Node(x, k) = m => task'[x][k] = task[x][k]
      BY <1>1, <1>2, <3>2 DEF TaskStep
    <3> QED
      BY <1>2, <2>1, <3>1, <3>2, <3>3, <3>4, OwnKept
  <2>4. CASE Placed(x, g)' /\ Node(x, g) = n /\ x # c
    <3>1. task'[x] = task[x]
      BY <1>2, <2>4 DEF TaskStep
    <3>2. Placed(x, g)
      BY <1>2, <1>3, <2>4, <3>1 DEF Placed
    <3>3. x \in Others(n, c)
      BY <2>4, <3>2, OthersFacts DEF Turned
    <3> QED
      BY <1>2, <3>3 DEF Meets
  <2> QED
    BY <1>5, <2>2, <2>3, <2>4
<1>6. ASSUME c \notin disturbed', NEW g \in Hosts(c), Node(c, g) = n, Placed(c, g)'
      PROVE  OwnNode(c, g)'
  <2>1. Others(n, c) = {} /\ sess[n][i].users \ {c} = {}
    BY <1>2, <1>6 DEF Meets
  <2>2. c \in Users \ disturbed
    BY <1>4, <1>6
  <2>3. busy[n] = {}
    <3> SUFFICES ASSUME NEW b \in busy[n]
                 PROVE  FALSE
      OBVIOUS
    <3>1. b.c \in Users /\ phase[b.c] \in {"pool", "failed"}
      BY <1>2 DEF Known, BusyAwaited, Typed, NodeTyped, Requests
    <3>2. b.c # c
      BY <1>2, <3>1
    <3>3. b.c \in Others(n, c)
      BY <3>1, <3>2, OthersFacts
    <3> QED
      BY <2>1, <3>3
  <2>4. sess[n][i] = NoSession
    <3>1. c \notin sess[n][i].users
      BY <1>2, <1>3 DEF Known, SessionsOwned
    <3>2. sess[n][i].users = {}
      BY <2>1, <3>1
    <3> QED
      BY <1>2, <3>2 DEF Known, SessionsOwned
  <2>5. ASSUME NEW k \in Hosts(c), Node(c, k) = n, Placed(c, k)', k # h
        PROVE  /\ Placed(c, k) /\ OwnNode(c, k) /\ Sess(c, k)' = Sess(c, k)
               /\ Sess(c, k).app # "none" => cwd[n] = Sess(c, k).app
    <3>1. Placed(c, k)
      BY <1>2, <1>3, <2>5 DEF Placed, TaskStep
    <3>2. OwnNode(c, k)
      BY <2>2 DEF Own
    <3>3. Sess(c, k)' = Sess(c, k)
      BY <1>2, <1>3, <2>5 DEF Sess, SessStep
    <3>4. ~Stuck(c, k)
      BY <1>2 DEF Stuck
    <3> QED
      BY <2>5, <3>1, <3>2, <3>3, <3>4 DEF OwnNode, AppMine, AtHome
  <2>6. ASSUME NEW k \in Hosts(c), Node(c, k) = n, Placed(c, k)', Sess(c, k)'.app # "none"
        PROVE  /\ Sess(c, k)'.app = cwd'[n] /\ opts'[n] = c
               /\ in[c].at => Sess(c, k)'.app = in[c].home
    <3>1. CASE k = h
      <4>1. Sess(c, k)' = sess'[n][i]
        BY <1>1, <1>3, <3>1 DEF Sess
      <4>2. sess'[n][i].app = SetupDir(c, n) /\ cwd'[n] = SetupDir(c, n) /\ opts'[n] = c
        BY <1>2, <2>4, <2>6, <4>1 DEF NoSession
      <4> QED
        BY <4>1, <4>2 DEF SetupDir
    <3>2. CASE k # h
      <4>1. /\ Placed(c, k) /\ OwnNode(c, k) /\ Sess(c, k)' = Sess(c, k)
            /\ cwd[n] = Sess(c, k).app
        BY <2>5, <2>6, <3>2
      <4>2. opts[n] = c /\ (in[c].at => Sess(c, k).app = in[c].home)
        BY <2>6, <4>1 DEF OwnNode, AppMine
      <4> QED
        BY <1>2, <4>1, <4>2 DEF SetupDir
    <3> QED
      BY <3>1, <3>2
  <2>7. AppMine(c, g)'
    <3>1. AtHome(c, g)' <=> cwd'[n] = Sess(c, g)'.app
      BY <1>2, <1>3, <1>6, <2>3 DEF AtHome
    <3> QED
      BY <1>2, <1>3, <1>6, <2>6, <3>1 DEF AppMine
  <2>8. SrcMine(c, g)'
    <3>1. CASE g = h
      <4>1. Sess(c, g)'.src = <<>>
        BY <1>1, <1>2, <1>3, <2>4, <3>1 DEF Sess, NoSession
      <4> QED
        BY <4>1 DEF SrcMine
    <3>2. CASE g # h
      <4>1. Placed(c, g) /\ OwnNode(c, g) /\ Sess(c, g)' = Sess(c, g)
        BY <1>6, <2>5, <3>2
      <4> QED
        BY <1>2, <1>3, <4>1 DEF OwnNode, SrcMine
    <3> QED
      BY <3>1, <3>2
  <2>9. ReqMine(c, g)'
    BY <1>2, <1>3, <1>6, <2>3 DEF ReqMine
  <2> QED
    BY <2>7, <2>8, <2>9 DEF OwnNode
<1>7. \A x \in Users \ disturbed' : \A g \in Hosts(x) : OwnNode(x, g)'
  <2> TAKE x \in Users \ disturbed'
  <2> TAKE g \in Hosts(x)
  <2>1. CASE x # c \/ Node(x, g) # n
    BY <1>5, <2>1
  <2>2. CASE x = c /\ Node(x, g) = n /\ Placed(x, g)'
    BY <1>6, <2>2
  <2>3. CASE ~Placed(x, g)'
    BY <2>3 DEF OwnNode
  <2> QED
    BY <2>1, <2>2, <2>3
<1> QED
  BY <1>2, <1>7, SharedKept

\* A packet of a binary says nothing of objects.
LEMMA SendOwn ==
  ASSUME Typed, Known, Own, NEW c \in Users, NEW h \in Hosts(c), Send(c, h)
  PROVE  Own'
<1>1. PICK n, i : n = Node(c, h) /\ i = Id(c, h)
  OBVIOUS
<1>2. /\ n \in Nodes /\ i \in Ids /\ phase[c] = "send" /\ task[c][h] \in {"queued", "sending"} /\ up[n]
      /\ UNCHANGED <<in, phase, app, share, local, writer, have, fresh, out, again, disk, up, restarts, cwd, opts, made, busy, cut>>
      /\ \A m \in Nodes : m # n => sess'[m] = sess[m]
      /\ \A j \in Ids : sess'[n][j].app = sess[n][j].app /\ sess'[n][j].src = sess[n][j].src
      /\ TaskStep(c, h) /\ Meets(c, n, i)
  BY <1>1, SendFacts DEF Typed
<1>3. /\ \A x, g : Node(x, g)' = Node(x, g) /\ Id(x, g)' = Id(x, g)
      /\ Users' = Users /\ \A x : Hosts(x)' = Hosts(x) /\ Threads(x)' = Threads(x)
      /\ \A x \in Users : Work(x)' = Work(x)
      /\ \A x \in Users : \A g \in Hosts(x) : Node(x, g) \in Nodes /\ Id(x, g) \in Ids
  BY <1>1, <1>2, InputKept, BatchKept, InputFacts DEF Typed, ClientTyped
<1>4. disturbed \subseteq disturbed'
  BY <1>2 DEF Meets
<1>5. \A x \in Users : phase[x] # "pool" \/ task'[x] = task[x]
  BY <1>2 DEF TaskStep
<1>6. ASSUME NEW x \in Users \ disturbed', NEW g \in Hosts(x)
      PROVE  OwnNode(x, g)'
  <2>1. OwnNode(x, g)
    BY <1>4 DEF Own
  <2>2. \A k \in Hosts(x) : Placed(x, k)' = Placed(x, k)
    BY <1>2, <1>3 DEF Placed, TaskStep
  <2>3. \A k \in Hosts(x) : Sess(x, k)'.app = Sess(x, k).app /\ Sess(x, k)'.src = Sess(x, k).src
    BY <1>2, <1>3 DEF Sess
  <2>4. AtHome(x, g)' = AtHome(x, g) /\ Stuck(x, g)' = Stuck(x, g)
    <3>1. AtHome(x, g)' = AtHome(x, g)
      BY <1>2, <1>3, <2>3 DEF AtHome
    <3>2. Stuck(x, g)' = Stuck(x, g)
      BY <1>2, <1>3, <1>5, <2>3 DEF Stuck
    <3> QED
      BY <3>1, <3>2
  <2>5. AppMine(x, g) => AppMine(x, g)'
    BY <1>2, <1>3, <2>2, <2>3, <2>4 DEF AppMine
  <2>6. (SrcMine(x, g) => SrcMine(x, g)') /\ (ReqMine(x, g) => ReqMine(x, g)')
    BY <1>2, <1>3, <2>3 DEF SrcMine, ReqMine
  <2> QED
    BY <2>1, <2>2, <2>5, <2>6 DEF OwnNode
<1> QED
  BY <1>2, <1>6, SharedKept

\* A node dies, and with it its sessions.
LEMMA DieOwn ==
  ASSUME Typed, Known, Own, NEW n \in Nodes, Die(n)
  PROVE  Own'
<1>1. /\ UNCHANGED <<in, phase, app, share, local, writer, have, fresh, shipping, restarts, cwd, opts, made, bins, disturbed>>
      /\ \A i \in Ids : sess'[n][i] = NoSession
      /\ \A m \in Nodes : m # n => sess'[m] = sess[m] /\ busy'[m] = busy[m]
      /\ busy'[n] = {}
      /\ \A c \in Users : \A h \in Hosts(c) : task'[c][h] =
           IF Node(c, h) = n /\ task[c][h] = "wait" THEN "threw" ELSE task[c][h]
  BY DieFacts DEF Typed
<1>2. /\ \A x, g : Node(x, g)' = Node(x, g) /\ Id(x, g)' = Id(x, g)
      /\ Users' = Users /\ \A x : Hosts(x)' = Hosts(x) /\ Threads(x)' = Threads(x)
      /\ \A x \in Users : \A g \in Hosts(x) : Node(x, g) \in Nodes /\ Id(x, g) \in Ids
  BY <1>1, InputKept, InputFacts DEF Typed, ClientTyped
<1>3. ASSUME NEW x \in Users \ disturbed, NEW g \in Hosts(x), Node(x, g) # n
      PROVE  OwnNode(x, g)'
  <2>1. PICK m : m = Node(x, g)
    OBVIOUS
  <2>2. m \in Nodes /\ m # n
    BY <1>2, <1>3, <2>1
  <2>3. OwnNode(x, g)
    BY DEF Own
  <2>4. \A k \in Hosts(x) : Node(x, k) = m => task'[x][k] = task[x][k]
    BY <1>1, <2>2
  <2> QED
    BY <1>1, <2>1, <2>2, <2>3, <2>4, OwnKept
<1>4. ASSUME NEW x \in Users, NEW g \in Hosts(x), Node(x, g) = n
      PROVE  OwnNode(x, g)'
  <2>1. Sess(x, g)' = NoSession /\ busy'[n] = {} /\ Node(x, g)' = n
    BY <1>1, <1>2, <1>4 DEF Sess
  <2> QED
    BY <2>1 DEF OwnNode, AppMine, SrcMine, ReqMine, NoSession
<1> QED
  BY <1>1, <1>3, <1>4, SharedKept

\* A node is started: it has no session.
LEMMA RestartOwn ==
  ASSUME Typed, Known, Own, NEW n \in Nodes, Restart(n)
  PROVE  Own'
<1>1. /\ UNCHANGED <<in, phase, app, share, task, sess, made, busy, disturbed>> /\ ~up[n]
      /\ \A m \in Nodes : m # n => cwd'[m] = cwd[m] /\ opts'[m] = opts[m]
  BY RestartFacts DEF Typed, client, history
<1>2. /\ \A x, g : Node(x, g)' = Node(x, g) /\ Id(x, g)' = Id(x, g)
      /\ Users' = Users /\ \A x : Hosts(x)' = Hosts(x) /\ Threads(x)' = Threads(x)
      /\ \A x \in Users : \A g \in Hosts(x) : Node(x, g) \in Nodes /\ Id(x, g) \in Ids
  BY <1>1, InputKept, InputFacts DEF Typed, ClientTyped
<1>3. ASSUME NEW x \in Users \ disturbed, NEW g \in Hosts(x), Node(x, g) # n
      PROVE  OwnNode(x, g)'
  <2>1. PICK m : m = Node(x, g)
    OBVIOUS
  <2>2. m \in Nodes /\ m # n
    BY <1>2, <1>3, <2>1
  <2>3. OwnNode(x, g)
    BY DEF Own
  <2> QED
    BY <1>1, <2>1, <2>2, <2>3, OwnKept
<1>4. ASSUME NEW x \in Users, NEW g \in Hosts(x), Node(x, g) = n
      PROVE  OwnNode(x, g)'
  <2>1. \A i \in Ids : sess[n][i] = NoSession
    BY <1>1 DEF Known, SessionsOwned
  <2>2. busy[n] = {}
    BY <1>1 DEF Known, BusyAwaited
  <2>3. Sess(x, g)' = NoSession /\ busy'[n] = {} /\ Node(x, g)' = n
    BY <1>1, <1>2, <1>4, <2>1, <2>2 DEF Sess
  <2> QED
    BY <2>3 DEF OwnNode, AppMine, SrcMine, ReqMine, NoSession
<1> QED
  BY <1>1, <1>3, <1>4, SharedKept

\* Compiling begins: the node leaves the directory of the session's application
\* only for another that the end of the request will not be found in.
LEMMA CompileStartOwn ==
  ASSUME Typed, Known, Own, NEW c \in Users, NEW h \in Hosts(c), CompileStart(c, h)
  PROVE  Own'
<1>1. PICK n, i : n = Node(c, h) /\ i = Id(c, h)
  OBVIOUS
<1>2. /\ n \in Nodes /\ i \in Ids /\ phase[c] = "pool" /\ task[c][h] = "queued" /\ up[n]
      /\ sess[n][i].app # "none"
      /\ TaskStep(c, h) /\ task'[c][h] = "wait"
      /\ UNCHANGED <<in, phase, app, share, local, writer, have, fresh, shipping, up, restarts,
                     opts, sess, made, bins, history>>
      /\ cwd'[n] = Work(c).dir
      /\ \A m \in Nodes : m # n => cwd'[m] = cwd[m] /\ busy'[m] = busy[m]
  BY <1>1, CompileStartFacts DEF Typed
<1>3. PICK r \in Requests : /\ busy'[n] = busy[n] \cup {r}
                            /\ r.c = c /\ r.h = h /\ r.app = sess[n][i].app
                            /\ r.saved = cwd[n] /\ r.by = opts[n]
  BY <1>1, CompileStartFacts DEF Typed
<1>4. /\ \A x, g : Node(x, g)' = Node(x, g) /\ Id(x, g)' = Id(x, g)
      /\ Users' = Users /\ \A x : Hosts(x)' = Hosts(x) /\ Threads(x)' = Threads(x)
      /\ \A x \in Users : Work(x)' = Work(x)
      /\ \A x \in Users : \A g \in Hosts(x) : Node(x, g) \in Nodes /\ Id(x, g) \in Ids
  BY <1>1, <1>2, InputKept, BatchKept, InputFacts DEF Typed, ClientTyped
<1>5. Placed(c, h) /\ Turned(c, n)
  BY <1>1, <1>2, TaskPhases DEF Placed, Turned, Ended
<1>6. disturbed' = disturbed
  BY <1>2 DEF history
<1>7. ASSUME NEW x \in Users \ disturbed, NEW g \in Hosts(x), Node(x, g) # n
      PROVE  OwnNode(x, g)'
  <2>1. PICK m : m = Node(x, g)
    OBVIOUS
  <2>2. m \in Nodes /\ m # n
    BY <1>4, <1>7, <2>1
  <2>3. OwnNode(x, g)
    BY DEF Own
  <2>4. \A k \in Hosts(x) : Node(x, k) = m => task'[x][k] = task[x][k]
    BY <1>1, <1>2, <2>2 DEF TaskStep
  <2> QED
    BY <1>2, <2>1, <2>2, <2>3, <2>4, OwnKept
<1>8. ASSUME NEW x \in Users \ disturbed, NEW g \in Hosts(x), Node(x, g) = n, x # c
      PROVE  OwnNode(x, g)'
  <2>1. ~Placed(x, g)
    BY <1>5, <1>8, AloneThere
  <2>2. ~Placed(x, g)'
    BY <1>2, <1>4, <1>8, <2>1 DEF Placed, TaskStep
  <2> QED
    BY <2>2 DEF OwnNode
<1>9. ASSUME c \notin disturbed, NEW g \in Hosts(c), Node(c, g) = n, Placed(c, g)'
      PROVE  OwnNode(c, g)'
  <2>1. \A k \in Hosts(c) : Placed(c, k)' = Placed(c, k) /\ Sess(c, k)' = Sess(c, k)
    BY <1>2, <1>4 DEF Placed, Sess
  <2>2. OwnNode(c, g) /\ OwnNode(c, h) /\ Placed(c, g)
    BY <1>9, <2>1 DEF Own
  <2>3. Sess(c, h).app = sess[n][i].app
    BY <1>1 DEF Sess
  <2>4. opts[n] = c
    BY <1>1, <1>2, <1>5, <2>2, <2>3 DEF OwnNode, AppMine
  <2>5. AppMine(c, g)'
    <3>1. SUFFICES ASSUME Sess(c, g).app # "none"
                   PROVE  AtHome(c, g)' \/ Stuck(c, g)'
      BY <1>2, <1>4, <1>9, <2>1, <2>2 DEF AppMine, OwnNode
    <3>2. CASE Sess(c, g).app = Work(c).dir
      <4>1. AtHome(c, g)
        BY <2>2, <3>1, <3>2 DEF OwnNode, AppMine, Stuck
      <4>2. AtHome(c, g)'
        BY <1>2, <1>3, <1>4, <1>9, <2>1, <3>2, <4>1 DEF AtHome
      <4> QED
        BY <4>2
    <3>3. CASE Sess(c, g).app # Work(c).dir
      <4>1. Stuck(c, g)'
        BY <1>1, <1>2, <1>4, <1>9, <2>1, <3>3 DEF Stuck
      <4> QED
        BY <4>1
    <3> QED
      BY <3>2, <3>3
  <2>6. SrcMine(c, g)'
    BY <1>2, <1>4, <2>1, <2>2 DEF OwnNode, SrcMine
  <2>7. ReqMine(c, g)'
    <3> SUFFICES ASSUME NEW q \in busy'[n], q.c = c, q.h = g
                 PROVE  Sess(c, g).app # "none" /\ q.app = Sess(c, g).app /\ q.by = c
      BY <1>4, <1>9, <2>1 DEF ReqMine
    <3>1. CASE q \in busy[n]
      BY <1>9, <2>2, <3>1 DEF OwnNode, ReqMine
    <3>2. CASE q = r
      BY <1>2, <1>3, <2>3, <2>4, <3>2
    <3> QED
      BY <1>3, <3>1, <3>2
  <2> QED
    BY <2>5, <2>6, <2>7 DEF OwnNode
<1>10. \A x \in Users \ disturbed' : \A g \in Hosts(x) : OwnNode(x, g)'
  <2> TAKE x \in Users \ disturbed'
  <2> TAKE g \in Hosts(x)
  <2>1. CASE Node(x, g) # n
    BY <1>6, <1>7, <2>1
  <2>2. CASE Node(x, g) = n /\ x # c
    BY <1>6, <1>8, <2>2
  <2>3. CASE x = c /\ Node(x, g) = n /\ Placed(x, g)'
    BY <1>6, <1>9, <2>3
  <2>4. CASE ~Placed(x, g)'
    BY <2>4 DEF OwnNode
  <2> QED
    BY <2>1, <2>2, <2>3, <2>4
<1> QED
  BY <1>2, <1>10, SharedKept

\* ... and ends, in the directory it began in.
LEMMA CompileEndOwn ==
  ASSUME Typed, Known, Own, NEW n \in Nodes, NEW r \in busy[n], CompileEnd(n, r)
  PROVE  Own'
<1>1. PICK c, h, i : c = r.c /\ h = r.h /\ i = Id(c, h)
  OBVIOUS
<1>2. /\ c \in Users /\ h \in Hosts(c) /\ i \in Ids /\ n = Node(c, h)
      /\ UNCHANGED <<in, phase, app, share, local, writer, have, fresh, shipping, up, restarts, opts, bins, history>>
      /\ busy'[n] = busy[n] \ {r} /\ cwd'[n] = r.saved
      /\ \A m \in Nodes : m # n => cwd'[m] = cwd[m] /\ busy'[m] = busy[m]
      /\ TaskStep(c, h)
      /\ IF phase[c] = "pool" THEN task'[c][h] \in {"download", "threw"} ELSE task' = task
      /\ \/ UNCHANGED <<made, sess>>
         \/ /\ r.app = Work(c).dir
            /\ made'[n] = MadeBy(made[n], share[c][h], r.by)
            /\ \A m \in Nodes : m # n => made'[m] = made[m]
            /\ SessStep(n, i) /\ sess'[n][i].src = share[c][h]
            /\ sess'[n][i].app = sess[n][i].app
  BY <1>1, CompileEndFacts DEF Typed, Known
<1>3. /\ \A x, g : Node(x, g)' = Node(x, g) /\ Id(x, g)' = Id(x, g)
      /\ Users' = Users /\ \A x : Hosts(x)' = Hosts(x) /\ Threads(x)' = Threads(x)
      /\ \A x \in Users : Work(x)' = Work(x)
      /\ \A x \in Users : \A g \in Hosts(x) : Node(x, g) \in Nodes /\ Id(x, g) \in Ids
      /\ \A g \in Hosts(c) : Node(c, g) = n /\ Id(c, g) = i => g = h
  <2>1. /\ \A x, g : Node(x, g)' = Node(x, g) /\ Id(x, g)' = Id(x, g)
        /\ Users' = Users /\ \A x : Hosts(x)' = Hosts(x) /\ Threads(x)' = Threads(x)
    BY <1>2, InputKept
  <2>2. \A x \in Users : Work(x)' = Work(x)
    BY <1>2, BatchKept
  <2>3. in \in Inputs
    BY DEF Typed, ClientTyped
  <2>4. \A x \in Users : \A g \in Hosts(x) : Node(x, g) \in Nodes /\ Id(x, g) \in Ids
    BY <2>3, InputFacts
  <2>5. \A g \in Hosts(c) : Node(c, g) = n /\ Id(c, g) = i => g = h
    BY <1>1, <1>2, <2>3, InputFacts
  <2> QED
    BY <2>1, <2>2, <2>4, <2>5
<1>4. disturbed' = disturbed
  BY <1>2 DEF history
<1>5. /\ phase[c] \in {"pool", "failed"} /\ task[c][h] = "wait" /\ h <= Threads(c)
  BY <1>1 DEF Known, BusyAwaited
<1>6. \A m \in Nodes : m # n => sess'[m] = sess[m] /\ made'[m] = made[m]
  <2> TAKE m \in Nodes
  <2>1. CASE UNCHANGED <<made, sess>>
    BY <2>1
  <2>2. CASE SessStep(n, i) /\ \A k \in Nodes : k # n => made'[k] = made[k]
    BY <2>2 DEF SessStep, Typed, NodeTyped
  <2> QED
    BY <1>2, <2>1, <2>2
<1>7. ASSUME NEW x \in Users \ disturbed, NEW g \in Hosts(x), Node(x, g) # n
      PROVE  OwnNode(x, g)'
  <2>1. PICK m : m = Node(x, g)
    OBVIOUS
  <2>2. m \in Nodes /\ m # n
    BY <1>3, <1>7, <2>1
  <2>3. OwnNode(x, g)
    BY DEF Own
  <2>4. \A k \in Hosts(x) : Node(x, k) = m => task'[x][k] = task[x][k]
    BY <1>2, <2>2 DEF TaskStep
  <2> QED
    BY <1>2, <1>6, <2>1, <2>2, <2>3, <2>4, OwnKept
<1>8. ASSUME NEW x \in Users \ disturbed, NEW g \in Hosts(x), Node(x, g) = n, x # c
      PROVE  OwnNode(x, g)'
  <2>1. ~Placed(x, g)
    BY <1>1, <1>8, AloneThere
  <2>2. ~Placed(x, g)'
    BY <1>2, <1>3, <1>8, <2>1 DEF Placed, TaskStep
  <2> QED
    BY <2>2 DEF OwnNode
<1>9. ASSUME c \notin disturbed, NEW g \in Hosts(c), Node(c, g) = n, Placed(c, g)'
      PROVE  OwnNode(c, g)'
  <2>1. phase[c] = "pool" /\ phase'[c] = "pool"
    BY <1>2, <1>5, <1>9 DEF Placed, Ended
  <2>2. \A k \in Hosts(c) : Placed(c, k)' = Placed(c, k)
    BY <1>2, <1>3, <2>1 DEF Placed
  <2>3. OwnNode(c, g) /\ OwnNode(c, h) /\ Placed(c, g) /\ Placed(c, h)
    BY <1>2, <1>5, <1>9, <2>1, <2>2 DEF Own, Placed, Ended
  <2>4. \A k \in Hosts(c) : Sess(c, k)'.app = Sess(c, k).app
    <3> TAKE k \in Hosts(c)
    <3>1. CASE UNCHANGED <<made, sess>>
      BY <1>3, <3>1 DEF Sess
    <3>2. CASE SessStep(n, i) /\ sess'[n][i].app = sess[n][i].app
      <4>1. CASE k = h
        BY <1>1, <1>2, <1>3, <3>2, <4>1 DEF Sess
      <4>2. CASE k # h
        <5>1. PICK m, j : m = Node(c, k) /\ j = Id(c, k)
          OBVIOUS
        <5>2. m \in Nodes /\ j \in Ids /\ (m # n \/ j # i)
          BY <1>2, <1>3, <4>2, <5>1
        <5>3. sess'[m][j] = sess[m][j]
          BY <3>2, <5>2 DEF SessStep
        <5> QED
          BY <1>3, <5>1, <5>3 DEF Sess
      <4> QED
        BY <4>1, <4>2
    <3> QED
      BY <1>2, <3>1, <3>2
  <2>5. r.app = Sess(c, h).app /\ r.by = c
    BY <1>1, <1>2, <2>3 DEF OwnNode, ReqMine
  <2>6. AppMine(c, g)'
    <3>1. SUFFICES ASSUME Sess(c, g).app # "none"
                   PROVE  AtHome(c, g)' \/ Stuck(c, g)'
      BY <1>2, <1>3, <1>9, <2>2, <2>3, <2>4 DEF AppMine, OwnNode
    <3>2. CASE AtHome(c, g)
      <4>1. AtHome(c, g)'
        BY <1>2, <1>3, <1>9, <2>4, <3>2 DEF AtHome
      <4> QED
        BY <4>1
    <3>3. CASE Stuck(c, g)
      <4>1. task'[c][h] \in {"wait", "download", "threw"}
        BY <1>2, <2>1
      <4>2. Work(c)'.dir # Sess(c, g)'.app
        BY <1>2, <1>3, <2>4, <3>3 DEF Stuck
      <4>3. Stuck(c, g)'
        BY <1>2, <1>3, <1>9, <2>1, <4>1, <4>2 DEF Stuck
      <4> QED
        BY <4>3
    <3> QED
      BY <1>9, <2>3, <3>1, <3>2, <3>3 DEF OwnNode, AppMine
  <2>7. SrcMine(c, g)'
    <3>1. CASE UNCHANGED <<made, sess>>
      <4>1. Sess(c, g)' = Sess(c, g)
        BY <1>3, <3>1 DEF Sess
      <4> QED
        BY <1>2, <1>3, <1>9, <2>3, <3>1, <4>1 DEF OwnNode, SrcMine
    <3>2. CASE /\ r.app = Work(c).dir
               /\ made'[n] = MadeBy(made[n], share[c][h], r.by)
               /\ SessStep(n, i) /\ sess'[n][i].src = share[c][h]
      <4>1. /\ \A o \in DOMAIN made[n] : o \in DOMAIN made'[n] /\ (made[n][o] = c => made'[n][o] = c)
            /\ \A j \in DOMAIN share[c][h] : share[c][h][j] \in DOMAIN made'[n] /\ made'[n][share[c][h][j]] = c
        BY <2>5, <3>2 DEF MadeBy
      <4>2. CASE g = h
        <5>1. Sess(c, g)'.src = share[c][h] /\ Sess(c, g)'.app = Work(c).dir
          BY <1>1, <1>2, <1>3, <2>4, <2>5, <3>2, <4>2 DEF Sess
        <5>2. share[c][h] = Part(c, h, Size(c))
          BY <1>2, <1>5, <2>1 DEF Own, Shared
        <5>3. \A j \in DOMAIN share[c][h] : share[c][h][j][1] = Work(c).dir
          <6>1. DOMAIN Part(c, h, Size(c)) = 1..Size(c)
            BY DEF Part
          <6> QED
            BY <1>2, <1>5, <5>2, <6>1, PartFacts DEF Typed
        <5> QED
          BY <1>2, <1>3, <1>9, <4>1, <5>1, <5>3 DEF SrcMine
      <4>3. CASE g # h
        <5>1. Sess(c, g)' = Sess(c, g)
          <6>1. PICK j : j = Id(c, g)
            OBVIOUS
          <6>2. j \in Ids /\ j # i
            BY <1>2, <1>3, <1>9, <4>3, <6>1
          <6>3. sess'[n][j] = sess[n][j]
            BY <1>2, <3>2, <6>2 DEF SessStep
          <6> QED
            BY <1>3, <1>9, <6>1, <6>3 DEF Sess
        <5>2. SrcMine(c, g)
          BY <2>3 DEF OwnNode
        <5>3. PICK s : s = Sess(c, g)
          OBVIOUS
        <5>4. s.src # <<>> =>
                /\ s.app = Work(c).dir
                /\ \A j \in DOMAIN s.src : /\ s.src[j][1] = Work(c).dir
                                           /\ s.src[j] \in DOMAIN made[n] /\ made[n][s.src[j]] = c
          BY <1>9, <5>2, <5>3 DEF SrcMine
        <5>5. s.src # <<>> =>
                /\ s.app = Work(c)'.dir
                /\ \A j \in DOMAIN s.src : /\ s.src[j][1] = Work(c)'.dir
                                           /\ s.src[j] \in DOMAIN made'[n] /\ made'[n][s.src[j]] = c
          BY <1>2, <1>3, <4>1, <5>4
        <5>6. Sess(c, g)' = s /\ Node(c, g)' = n
          BY <1>3, <1>9, <5>1, <5>3
        <5> QED
          BY <5>5, <5>6 DEF SrcMine
      <4> QED
        BY <4>2, <4>3
    <3> QED
      BY <1>2, <3>1, <3>2
  <2>8. ReqMine(c, g)'
    BY <1>2, <1>3, <1>9, <2>3, <2>4 DEF OwnNode, ReqMine
  <2> QED
    BY <2>6, <2>7, <2>8 DEF OwnNode
<1>10. \A x \in Users \ disturbed' : \A g \in Hosts(x) : OwnNode(x, g)'
  <2> TAKE x \in Users \ disturbed'
  <2> TAKE g \in Hosts(x)
  <2>1. CASE Node(x, g) # n
    BY <1>4, <1>7, <2>1
  <2>2. CASE Node(x, g) = n /\ x # c
    BY <1>4, <1>8, <2>2
  <2>3. CASE x = c /\ Node(x, g) = n /\ Placed(x, g)'
    BY <1>4, <1>9, <2>3
  <2>4. CASE ~Placed(x, g)'
    BY <2>4 DEF OwnNode
  <2> QED
    BY <2>1, <2>2, <2>3, <2>4
<1> QED
  BY <1>2, <1>10, SharedKept

\* A packet is fetched: not from a session that is stuck.
LEMMA DownloadOwn ==
  ASSUME Typed, Known, Own, NEW c \in Users, NEW h \in Hosts(c), Download(c, h)
  PROVE  Own'
<1>1. PICK n, i, b : n = Node(c, h) /\ i = Id(c, h) /\ b = Blob(n, sess[n][i])
  OBVIOUS
<1>2. /\ n \in Nodes /\ i \in Ids /\ phase[c] = "pool" /\ task[c][h] = "download"
      /\ sess[n][i].src # <<>>
      /\ UNCHANGED <<in, phase, app, share, local, shipping, up, restarts, cwd, opts, made, bins, busy, history>>
      /\ DownloadNode(n, i, b) /\ DownloadClient(c, h, b)
  BY <1>1, DownloadFacts DEF Typed
<1>3. /\ TaskStep(c, h)
      /\ SessStep(n, i) /\ sess'[n][i].app = sess[n][i].app
      /\ sess'[n][i].src \in {sess[n][i].src, Tail(sess[n][i].src)}
  BY <1>2 DEF DownloadClient, DownloadNode
<1>4. /\ \A x, g : Node(x, g)' = Node(x, g) /\ Id(x, g)' = Id(x, g)
      /\ Users' = Users /\ \A x : Hosts(x)' = Hosts(x) /\ Threads(x)' = Threads(x)
      /\ \A x \in Users : Work(x)' = Work(x)
      /\ \A x \in Users : \A g \in Hosts(x) : Node(x, g) \in Nodes /\ Id(x, g) \in Ids
      /\ \A g \in Hosts(c) : Node(c, g) = n /\ Id(c, g) = i => g = h
  BY <1>1, <1>2, InputKept, BatchKept, InputFacts DEF Typed, ClientTyped
<1>5. disturbed' = disturbed
  BY <1>2 DEF history
<1>6. Placed(c, h)
  BY <1>2, TaskPhases DEF Placed, Ended
<1>7. ASSUME NEW x \in Users \ disturbed, NEW g \in Hosts(x), Node(x, g) # n
      PROVE  OwnNode(x, g)'
  <2>1. PICK m : m = Node(x, g)
    OBVIOUS
  <2>2. m \in Nodes /\ m # n
    BY <1>4, <1>7, <2>1
  <2>3. OwnNode(x, g)
    BY DEF Own
  <2>4. \A k \in Hosts(x) : Node(x, k) = m => task'[x][k] = task[x][k]
    BY <1>1, <1>3, <2>2 DEF TaskStep
  <2>5. \A j \in Ids : sess'[m][j] = sess[m][j]
    BY <1>3, <2>2 DEF SessStep
  <2> QED
    BY <1>2, <2>1, <2>2, <2>3, <2>4, <2>5, OwnKept
<1>8. ASSUME NEW x \in Users \ disturbed, NEW g \in Hosts(x), Node(x, g) = n, x # c
      PROVE  OwnNode(x, g)'
  <2>1. Turned(c, n)
    BY <1>1, <1>6 DEF Turned
  <2>2. ~Placed(x, g)
    BY <1>8, <2>1, AloneThere
  <2>3. ~Placed(x, g)'
    BY <1>2, <1>3, <1>4, <1>8, <2>2 DEF Placed, TaskStep
  <2> QED
    BY <2>3 DEF OwnNode
<1>9. ASSUME c \notin disturbed, NEW g \in Hosts(c), Node(c, g) = n, Placed(c, g)'
      PROVE  OwnNode(c, g)'
  <2>1. \A k \in Hosts(c) : Placed(c, k)' = Placed(c, k)
    BY <1>2, <1>4 DEF Placed
  <2>2. OwnNode(c, g) /\ OwnNode(c, h) /\ Placed(c, g) /\ Placed(c, h)
    BY <1>6, <1>9, <2>1 DEF Own
  <2>3. ASSUME NEW k \in Hosts(c)
        PROVE  /\ Sess(c, k)'.app = Sess(c, k).app
               /\ k # h => Sess(c, k)' = Sess(c, k)
    <3>1. CASE k = h
      BY <1>1, <1>3, <1>4, <3>1 DEF Sess
    <3>2. CASE k # h
      <4>1. PICK m, j : m = Node(c, k) /\ j = Id(c, k)
        OBVIOUS
      <4>2. m \in Nodes /\ j \in Ids /\ (m # n \/ j # i)
        BY <1>4, <3>2, <4>1
      <4>3. sess'[m][j] = sess[m][j]
        BY <1>3, <4>2 DEF SessStep
      <4> QED
        BY <1>4, <3>2, <4>1, <4>3 DEF Sess
    <3> QED
      BY <3>1, <3>2
  <2>4. Sess(c, h).app = Work(c).dir
    BY <1>1, <1>2, <2>2 DEF OwnNode, SrcMine, Sess
  <2>5. AppMine(c, g)'
    <3>1. SUFFICES ASSUME Sess(c, g).app # "none"
                   PROVE  AtHome(c, g)' \/ Stuck(c, g)'
      BY <1>2, <1>4, <1>9, <2>1, <2>2, <2>3 DEF AppMine, OwnNode
    <3>2. Work(c).dir # "none"
      BY WorkFacts, NoneElse DEF Typed
    <3>3. Sess(c, g).app = Work(c).dir
      BY <1>1, <1>9, <2>2, <2>4, <3>1, <3>2 DEF OwnNode, AppMine
    <3>4. AtHome(c, g)
      BY <2>2, <3>1, <3>3 DEF OwnNode, AppMine, Stuck
    <3>5. AtHome(c, g)'
      BY <1>2, <1>4, <2>3, <3>4 DEF AtHome
    <3> QED
      BY <3>5
  <2>6. SrcMine(c, g)'
    <3>1. CASE g # h
      BY <1>2, <1>4, <2>2, <2>3, <3>1 DEF OwnNode, SrcMine
    <3>2. CASE g = h
      <4>1. PICK s, t : s = sess[n][i].src /\ t = sess'[n][i].src
        OBVIOUS
      <4>2. \A j \in DOMAIN s : s[j][1] = Work(c).dir /\ s[j] \in DOMAIN made[n] /\ made[n][s[j]] = c
        BY <1>1, <1>2, <2>2, <4>1 DEF OwnNode, SrcMine, Sess
      <4>3. \A j \in DOMAIN t : \E k \in DOMAIN s : t[j] = s[k]
        <5>1. s \in Seq(Files) /\ s # <<>> /\ t \in {s, Tail(s)}
          BY <1>2, <1>3, <4>1, SessionFields DEF Typed
        <5>2. Len(Tail(s)) \in Nat /\ Len(Tail(s)) = Len(s) - 1 /\ DOMAIN Tail(s) = 1..Len(Tail(s))
              /\ DOMAIN s = 1..Len(s) /\ Len(s) \in Nat
              /\ \A j \in 1..Len(Tail(s)) : Tail(s)[j] = s[j + 1]
          BY <5>1, SeqFacts
        <5>3. \A j \in 1..Len(Tail(s)) : j + 1 \in DOMAIN s
          BY <5>2
        <5> QED
          BY <5>1, <5>2, <5>3
      <4>4. \A j \in DOMAIN t : t[j][1] = Work(c).dir /\ t[j] \in DOMAIN made[n] /\ made[n][t[j]] = c
        BY <4>2, <4>3
      <4>5. Sess(c, g)'.src = t /\ Sess(c, g)'.app = Work(c).dir /\ Node(c, g)' = n
        BY <1>1, <1>4, <2>3, <2>4, <3>2, <4>1 DEF Sess
      <4> QED
        BY <1>2, <1>4, <4>4, <4>5 DEF SrcMine
    <3> QED
      BY <3>1, <3>2
  <2>7. ReqMine(c, g)'
    BY <1>2, <1>4, <2>2, <2>3 DEF OwnNode, ReqMine
  <2> QED
    BY <2>5, <2>6, <2>7 DEF OwnNode
<1>10. \A x \in Users \ disturbed' : \A g \in Hosts(x) : OwnNode(x, g)'
  <2> TAKE x \in Users \ disturbed'
  <2> TAKE g \in Hosts(x)
  <2>1. CASE Node(x, g) # n
    BY <1>5, <1>7, <2>1
  <2>2. CASE Node(x, g) = n /\ x # c
    BY <1>5, <1>8, <2>2
  <2>3. CASE x = c /\ Node(x, g) = n /\ Placed(x, g)'
    BY <1>5, <1>9, <2>3
  <2>4. CASE ~Placed(x, g)'
    BY <2>4 DEF OwnNode
  <2> QED
    BY <2>1, <2>2, <2>3, <2>4
<1> QED
  BY <1>2, <1>10, SharedKept

\* The client's own steps: a batch that is stuck can only fail, and the
\* application changes with no file left to fetch.
HeldBack(c) ==
  /\ Quiet(c)
  /\ phase[c] = "pool" /\ phase'[c] # "failed" => 
       \A h \in Hosts(c) : task[c][h] \in {"wait", "download", "threw"} =>
         phase'[c] = "pool" /\ task'[c][h] \in {"wait", "download", "threw"}
  /\ app'[c] # app[c] => phase[c] = "send"
  /\ phase'[c] = "pool" => /\ app'[c] = app[c]
                           /\ \/ phase[c] = "pool" /\ share'[c] = share[c]
                              \/ share'[c] = [h \in Hosts(c) |->
                                   IF h <= Threads(c) THEN Part(c, h, Size(c)) ELSE <<>>]

LEMMA OwnStepsHeldBack ==
  ASSUME Typed, NEW c \in Users, Main(c) \/ Killed(c) \/ \E h \in Hosts(c) : Unanswered(c, h)
  PROVE  HeldBack(c)
<1> USE DEF HeldBack
<1>1. Quiet(c)
  BY OwnSteps
<1>2. CASE Pinged(c)
  <2>1. phase[c] = "ping" /\ phase'[c] \in {"failed", "split"} /\ app' = app
    BY <1>2, PingedFacts DEF Typed
  <2> QED
    BY <1>1, <2>1
<1>3. CASE Split(c)
  <2>1. /\ app' = app /\ phase[c] = "split"
        /\ share'[c] = [h \in Hosts(c) |-> IF h <= Threads(c) THEN Part(c, h, Size(c)) ELSE <<>>]
    BY <1>3, SplitFacts DEF Typed
  <2> QED
    BY <1>1, <2>1
<1>4. CASE LocalCompile(c)
  <2>1. /\ phase[c] = "pool" /\ phase'[c] \in {"pool", "failed"} /\ UNCHANGED <<app, task, share>>
    BY <1>4, LocalCompileFacts DEF Typed
  <2> QED
    BY <1>1, <2>1
<1>5. CASE Join(c)
  <2>1. /\ phase[c] = "pool" /\ UNCHANGED <<app, task, share>> /\ Settled(c)
        /\ phase'[c] = IF Threw(c) THEN "failed" ELSE "link"
    BY <1>5, JoinFacts DEF Typed
  <2>2. phase'[c] = "failed" \/ \A h \in Hosts(c) : task[c][h] \in {"none", "end"}
    BY <2>1, SettledFacts
  <2> QED
    BY <1>1, <2>1, <2>2
<1>6. CASE Link(c)
  <2>1. phase[c] = "link" /\ phase'[c] = "send" /\ app' = app
    BY <1>6, LinkFacts DEF Typed
  <2> QED
    BY <1>1, <2>1
<1>7. CASE Sent(c)
  <2>1. phase[c] = "send" /\ phase'[c] \in {"failed", "done", "split", "link", "send"}
    BY <1>7, SentFacts DEF Typed
  <2> QED
    BY <1>1, <2>1
<1>8. CASE Killed(c)
  <2>1. phase'[c] = "failed" /\ app' = app
    BY <1>8, KilledFacts DEF Typed
  <2> QED
    BY <1>1, <2>1
<1>9. ASSUME NEW h \in Hosts(c), Unanswered(c, h)
      PROVE  HeldBack(c)
  <2>1. /\ UNCHANGED <<phase, app, share>> /\ phase[c] \in {"ping", "pool", "send"}
        /\ TaskStep(c, h) /\ task'[c][h] = "threw"
    BY <1>9, UnansweredFacts DEF Typed
  <2>2. \A g \in Hosts(c) : g # h => task'[c][g] = task[c][g]
    BY <2>1 DEF TaskStep
  <2> QED
    BY <1>1, <2>1, <2>2
<1> QED
  BY <1>2, <1>3, <1>4, <1>5, <1>6, <1>7, <1>8, <1>9 DEF Main

LEMMA QuietOwn ==
  ASSUME Typed, Known, Own, NEW c \in Users, HeldBack(c)
  PROVE  Own'
<1>1. /\ UNCHANGED <<in, up, cwd, opts, sess, made, busy, disturbed>>
      /\ Users' = Users /\ \A x : Hosts(x)' = Hosts(x) /\ Threads(x)' = Threads(x)
      /\ \A x, g : Node(x, g)' = Node(x, g) /\ Id(x, g)' = Id(x, g) /\ Sess(x, g)' = Sess(x, g)
      /\ \A x \in Users : x # c => /\ phase'[x] = phase[x] /\ app'[x] = app[x]
                                   /\ task'[x] = task[x] /\ share'[x] = share[x]
      /\ \A h \in Hosts(c) : Placed(c, h)' => Placed(c, h)
  BY InputKept DEF HeldBack, Quiet, ClientStep, OneClient, node, history, Sess
<1>2. \A x \in Users : Shared(x)'
  <2> TAKE x \in Users
  <2>1. Shared(x)
    BY DEF Own
  <2>2. CASE x # c
    <3>1. Size(x)' = Size(x) /\ \A h, size : Part(x, h, size)' = Part(x, h, size)
      BY <1>1, <2>2, BatchKept
    <3> QED
      BY <1>1, <2>1, <2>2, <3>1 DEF Shared
  <2>3. CASE x = c /\ phase'[c] # "pool"
    BY <2>3 DEF Shared
  <2>4. CASE x = c /\ phase'[c] = "pool"
    <3>1. Size(c)' = Size(c) /\ \A h, size : Part(c, h, size)' = Part(c, h, size)
      BY <1>1, <2>4, BatchKept DEF HeldBack
    <3>2. \A h \in Hosts(c) : share'[c][h] = IF h <= Threads(c) THEN Part(c, h, Size(c)) ELSE <<>>
      BY <2>1, <2>4 DEF HeldBack, Shared
    <3> QED
      BY <1>1, <2>4, <3>1, <3>2 DEF Shared
  <2> QED
    BY <2>2, <2>3, <2>4
<1>3. ASSUME NEW x \in Users \ disturbed, NEW g \in Hosts(x), x # c
      PROVE  OwnNode(x, g)'
  <2>1. OwnNode(x, g)
    BY DEF Own
  <2>2. PICK m : m = Node(x, g)
    OBVIOUS
  <2> QED
    BY <1>1, <1>3, <2>1, <2>2, OwnKept
<1>4. ASSUME c \notin disturbed, NEW g \in Hosts(c), Placed(c, g)'
      PROVE  OwnNode(c, g)'
  <2>1. Placed(c, g) /\ OwnNode(c, g)
    BY <1>1, <1>4 DEF Own
  <2>2. AtHome(c, g) => AtHome(c, g)'
    BY <1>1 DEF AtHome
  <2>3. Stuck(c, g) => Stuck(c, g)'
    <3> SUFFICES ASSUME Stuck(c, g)
                 PROVE  Stuck(c, g)'
      OBVIOUS
    <3>1. PICK k \in Hosts(c) : Node(c, k) = Node(c, g) /\ task[c][k] \in {"wait", "download", "threw"}
      BY DEF Stuck
    <3>2. phase[c] = "pool" /\ phase'[c] # "failed"
      BY <1>4 DEF Stuck, Placed, Ended
    <3>3. phase'[c] = "pool" /\ task'[c][k] \in {"wait", "download", "threw"} /\ app'[c] = app[c]
      BY <3>1, <3>2 DEF HeldBack
    <3>4. Work(c)' = Work(c)
      BY <1>1, <3>3, BatchKept
    <3> QED
      BY <1>1, <3>1, <3>3, <3>4 DEF Stuck
  <2>4. AppMine(c, g)'
    BY <1>1, <2>1, <2>2, <2>3 DEF OwnNode, AppMine
  <2>5. SrcMine(c, g)'
    <3> SUFFICES ASSUME Sess(c, g).src # <<>>
                 PROVE  SrcMine(c, g)'
      BY <1>1 DEF SrcMine
    <3>1. phase[c] = "pool"
      BY <1>4, <2>1, AloneThere
    <3>2. Work(c)' = Work(c)
      BY <1>1, <3>1, BatchKept DEF HeldBack
    <3> QED
      BY <1>1, <2>1, <3>2 DEF OwnNode, SrcMine
  <2>6. ReqMine(c, g)'
    BY <1>1, <2>1 DEF OwnNode, ReqMine
  <2> QED
    BY <2>4, <2>5, <2>6 DEF OwnNode
<1>5. \A x \in Users \ disturbed' : \A g \in Hosts(x) : OwnNode(x, g)'
  <2> TAKE x \in Users \ disturbed'
  <2> TAKE g \in Hosts(x)
  <2>1. CASE x # c
    BY <1>1, <1>3, <2>1
  <2>2. CASE x = c /\ Placed(x, g)'
    BY <1>1, <1>4, <2>2
  <2>3. CASE ~Placed(x, g)'
    BY <2>3 DEF OwnNode
  <2> QED
    BY <2>1, <2>2, <2>3
<1> QED
  BY <1>1, <1>2, <1>5 DEF Own

LEMMA InitOwn ==
  ASSUME Init
  PROVE  Own
<1>1. \A c \in Users : phase[c] = "ping"
  BY DEF Init
<1>2. \A c \in Users : \A h \in Hosts(c) : task[c][h] \in {"queued", "none"}
  BY DEF Init
<1>3. \A c \in Users : \A h \in Hosts(c) : ~Placed(c, h)
  BY <1>1, <1>2 DEF Placed
<1> QED
  BY <1>1, <1>3 DEF Own, Shared, OwnNode

LEMMA StutterOwn ==
  ASSUME Typed, Own, UNCHANGED vars
  PROVE  Own'
<1>1. UNCHANGED <<in, phase, app, task, share, cwd, opts, sess, made, busy, disturbed>>
  BY DEF vars, client, node, history
<1>2. ASSUME NEW x \in Users \ disturbed, NEW g \in Hosts(x)
      PROVE  OwnNode(x, g)'
  <2>1. OwnNode(x, g)
    BY DEF Own
  <2>2. PICK m : m = Node(x, g)
    OBVIOUS
  <2> QED
    BY <1>1, <2>1, <2>2, OwnKept
<1> QED
  BY <1>1, <1>2, SharedKept

LEMMA NextOwn ==
  ASSUME Typed, Known, Own, [Next]_vars
  PROVE  Own'
<1>1. ASSUME NEW c \in Users, Main(c) \/ Killed(c) \/ \E h \in Hosts(c) : Unanswered(c, h)
      PROVE  Own'
  BY <1>1, OwnStepsHeldBack, QuietOwn
<1>2. ASSUME NEW c \in Users, NEW h \in Hosts(c), Setup(c, h) \/ CompileStart(c, h) \/ Download(c, h) \/ Send(c, h)
      PROVE  Own'
  BY <1>2, SetupOwn, CompileStartOwn, DownloadOwn, SendOwn
<1>3. ASSUME NEW n \in Nodes, (\E r \in busy[n] : CompileEnd(n, r)) \/ Die(n) \/ Restart(n)
      PROVE  Own'
  BY <1>3, CompileEndOwn, DieOwn, RestartOwn
<1>4. CASE UNCHANGED vars
  BY <1>4, StutterOwn
<1> QED
  BY <1>1, <1>2, <1>3, <1>4 DEF Next, Exchange, Handler, Finished

-----------------------------------------------------------------------------
(* Packets, and the parts of a batch.                                      *)

\* An object arrives packet by packet.
LEMMA PrefixFacts ==
  ASSUME NEW o, NEW by
  PROVE  /\ Prefix(o, 0, by) = <<>> /\ Prefix(o, Packets, by) = Whole(o, by)
         /\ \A q \in Nat : /\ Prefix(o, q, by) \o <<>> = Prefix(o, q, by)
                           /\ Prefix(o, q, by) \o <<Chunk(o, q + 1, by)>> = Prefix(o, q + 1, by)
         /\ <<>> \o <<>> = Prefix(o, 0, by)
         /\ <<>> \o <<Chunk(o, 1, by)>> = Prefix(o, 1, by)
<1> PICK S : S = {Chunk(o, k, by) : k \in Nat}
  OBVIOUS
<1>1. \A q \in Nat : /\ Prefix(o, q, by) \in Seq(S) /\ Len(Prefix(o, q, by)) = q
                     /\ \A k \in 1..q : Prefix(o, q, by)[k] = Chunk(o, k, by)
  <2> TAKE q \in Nat
  <2>1. Prefix(o, q, by) = [k \in 1..q |-> Chunk(o, k, by)]
    BY DEF Prefix
  <2>2. Prefix(o, q, by) \in [1..q -> S]
    BY <2>1
  <2>3. Prefix(o, q, by) \in Seq(S) /\ Len(Prefix(o, q, by)) = q
    BY <2>2
  <2> QED
    BY <2>1, <2>3
<1>2. Prefix(o, 0, by) = <<>>
  <2>1. Len(Prefix(o, 0, by)) = 0 /\ Prefix(o, 0, by) \in Seq(S)
    BY <1>1
  <2> QED
    BY <2>1, EmptySeq
<1>3. Prefix(o, Packets, by) = Whole(o, by)
  BY DEF Prefix, Whole
<1>4. \A q \in Nat : Prefix(o, q, by) \o <<>> = Prefix(o, q, by)
  BY <1>1, ConcatEmptySeq
<1>5. \A q \in Nat : Prefix(o, q, by) \o <<Chunk(o, q + 1, by)>> = Prefix(o, q + 1, by)
  <2> TAKE q \in Nat
  <2>1. PICK e, s, t : e = Chunk(o, q + 1, by) /\ s = Prefix(o, q, by) /\ t = Prefix(o, q + 1, by)
    OBVIOUS
  <2>2. q + 1 \in Nat /\ e \in S
    BY <2>1
  <2>3. /\ s \in Seq(S) /\ Len(s) = q /\ \A k \in 1..q : s[k] = Chunk(o, k, by)
        /\ t \in Seq(S) /\ Len(t) = q + 1 /\ \A k \in 1..(q + 1) : t[k] = Chunk(o, k, by)
    BY <1>1, <2>1, <2>2
  <2>4. <<e>> \in Seq(S) /\ Len(<<e>>) = 1 /\ <<e>>[1] = e
    BY <2>2
  <2>5. /\ s \o <<e>> \in Seq(S) /\ Len(s \o <<e>>) = q + 1
        /\ \A k \in 1..(q + 1) : (s \o <<e>>)[k] = IF k <= q THEN s[k] ELSE <<e>>[k - q]
    BY <2>3, <2>4, ConcatProperties
  <2>6. \A k \in 1..(q + 1) : (s \o <<e>>)[k] = t[k]
    <3> TAKE k \in 1..(q + 1)
    <3>1. CASE k <= q
      BY <2>3, <2>5, <3>1
    <3>2. CASE k = q + 1
      BY <2>1, <2>3, <2>4, <2>5, <3>2
    <3>3. k <= q \/ k = q + 1
      OBVIOUS
    <3> QED
      BY <3>1, <3>2, <3>3
  <2>7. s \o <<e>> = t
    BY <2>3, <2>5, <2>6, SeqEqual
  <2> QED
    BY <2>1, <2>7
<1>6. <<>> \o <<>> = Prefix(o, 0, by)
  BY <1>2, <1>4
<1>7. <<>> \o <<Chunk(o, 1, by)>> = Prefix(o, 1, by)
  <2>1. 0 + 1 = 1
    OBVIOUS
  <2>2. Prefix(o, 0, by) \o <<Chunk(o, 0 + 1, by)>> = Prefix(o, 0 + 1, by)
    BY <1>5
  <2> QED
    BY <1>2, <2>1, <2>2
<1> QED
  BY <1>2, <1>3, <1>4, <1>5, <1>6, <1>7

\* The parts of a batch and the rest of it are disjoint ...
LEMMA PartsApart ==
  ASSUME ClientTyped, NEW c \in Users, NEW h \in Hosts(c), h <= Threads(c), NEW j \in 1..Size(c)
  PROVE  /\ \A k \in 1..Size(c) : k # j => Part(c, h, Size(c))[j] # Part(c, h, Size(c))[k]
         /\ \A g \in Hosts(c) : g # h /\ g <= Threads(c) => \A k \in 1..Size(c) :
              Part(c, h, Size(c))[j] # Part(c, g, Size(c))[k]
         /\ Part(c, h, Size(c))[j] \notin Rest(c)
         /\ \A k, i : Part(c, h, Size(c))[j] = Object(c, k, i) => k = app[c]
<1>1. /\ Size(c) \in Nat /\ Threads(c) \in Nat /\ Work(c).n \in Nat /\ in \in Inputs
      /\ \A g \in Hosts(c) : g \in Nat /\ g >= 1
  BY WorkFacts, InputFacts DEF ClientTyped
<1>2. PICK T, S : T = Threads(c) /\ S = Size(c)
  OBVIOUS
<1>3. \A g \in Hosts(c) : g <= T => \A k \in 1..S :
        /\ Part(c, g, S)[k] = Object(c, app[c], (g - 1) * S + k)
        /\ (g - 1) * S + k \in 1..(T * S) /\ (g - 1) * S + k > (g - 1) * S /\ (g - 1) * S + k <= g * S
  BY <1>1, <1>2, PartFacts, PartIndex
<1>4. \A k, i, l, m : Object(c, k, i) = Object(c, l, m) => k = l /\ i = m
  BY <1>1, ObjectFacts
<1>5. \A k \in 1..S : k # j => Part(c, h, S)[j] # Part(c, h, S)[k]
  <2> SUFFICES ASSUME NEW k \in 1..S, k # j
               PROVE  (h - 1) * S + j # (h - 1) * S + k
    BY <1>2, <1>3, <1>4
  <2>1. (h - 1) * S \in Int
    BY <1>1, <1>2
  <2> QED
    BY <1>2, <2>1
<1>6. ASSUME NEW g \in Hosts(c), g # h, g <= T, NEW k \in 1..S
      PROVE  Part(c, h, S)[j] # Part(c, g, S)[k]
  <2> SUFFICES (h - 1) * S + j # (g - 1) * S + k
    BY <1>2, <1>3, <1>4, <1>6
  <2>1. PICK a, b, d, e : a = (h - 1) * S /\ b = h * S /\ d = (g - 1) * S /\ e = g * S
    OBVIOUS
  <2>2. a \in Int /\ b \in Int /\ d \in Int /\ e \in Int /\ j \in Int /\ k \in Int
    BY <1>1, <1>2, <2>1
  <2>3. a + j > a /\ a + j <= b /\ d + k > d /\ d + k <= e
    BY <1>2, <1>3, <1>6, <2>1
  <2>4. b <= d \/ e <= a
    <3>1. CASE h < g
      <4>1. d - b = (g - 1 - h) * S /\ g - 1 - h \in Nat
        BY <1>1, <1>2, <2>1, <3>1
      <4>2. (g - 1 - h) * S >= 0
        BY <1>1, <1>2, <4>1
      <4> QED
        BY <2>2, <4>1, <4>2
    <3>2. CASE g < h
      <4>1. a - e = (h - 1 - g) * S /\ h - 1 - g \in Nat
        BY <1>1, <1>2, <2>1, <3>2
      <4>2. (h - 1 - g) * S >= 0
        BY <1>1, <1>2, <4>1
      <4> QED
        BY <2>2, <4>1, <4>2
    <3> QED
      BY <1>1, <1>6, <3>1, <3>2
  <2> QED
    BY <2>1, <2>2, <2>3, <2>4
<1>7. Part(c, h, S)[j] \notin Rest(c)
  <2> SUFFICES ASSUME NEW i \in (T * S + 1)..Work(c).n, Part(c, h, S)[j] = Object(c, app[c], i)
               PROVE  FALSE
    BY <1>2 DEF Rest
  <2>1. i = (h - 1) * S + j
    BY <1>2, <1>3, <1>4
  <2>2. i \in 1..(T * S) /\ T * S \in Nat
    BY <1>1, <1>2, <1>3, <2>1
  <2> QED
    BY <1>1, <2>2
<1>8. \A k, i : Part(c, h, S)[j] = Object(c, k, i) => k = app[c]
  BY <1>2, <1>3, <1>4
<1> QED
  BY <1>2, <1>5, <1>6, <1>7, <1>8

LEMMA Division ==
  ASSUME NEW x \in Nat, NEW S \in Nat, S > 0
  PROVE  /\ x \div S \in Nat
         /\ (x \div S) * S <= x /\ x < (x \div S) * S + S
OBVIOUS

\* ... and make up the batch.
LEMMA PartsCover ==
  ASSUME ClientTyped, NEW c \in Users, NEW i \in 1..Work(c).n
  PROVE  \/ Object(c, app[c], i) \in Rest(c)
         \/ \E h \in Hosts(c) : /\ h <= Threads(c)
                                /\ \E j \in 1..Size(c) : Object(c, app[c], i) = Part(c, h, Size(c))[j]
<1>1. /\ Size(c) \in Nat /\ Threads(c) \in Nat /\ Work(c).n \in Nat /\ in \in Inputs
      /\ Threads(c) <= Len(in[c].hosts) /\ Len(in[c].hosts) \in Nat /\ Hosts(c) = 1..Len(in[c].hosts)
  BY WorkFacts, InputFacts DEF ClientTyped
<1>2. PICK T, S : T = Threads(c) /\ S = Size(c)
  OBVIOUS
<1>3. CASE i > T * S
  <2>1. i \in (T * S + 1)..Work(c).n
    BY <1>1, <1>2, <1>3
  <2> QED
    BY <1>2, <2>1 DEF Rest
<1>4. CASE i <= T * S
  <2>1. S > 0
    BY <1>1, <1>2, <1>4
  <2>2. PICK q, j : q = (i - 1) \div S /\ j = i - q * S
    OBVIOUS
  <2>3. q \in Nat /\ j \in 1..S /\ i = q * S + j
    <3>1. i - 1 \in Nat
      OBVIOUS
    <3>2. q \in Nat /\ q * S <= i - 1 /\ i - 1 < q * S + S
      BY <1>1, <1>2, <2>1, <2>2, <3>1, Division
    <3>3. PICK p : p = q * S
      OBVIOUS
    <3>4. p \in Nat
      BY <1>1, <1>2, <3>2, <3>3
    <3>5. p <= i - 1 /\ i - 1 < p + S /\ j = i - p
      BY <2>2, <3>2, <3>3
    <3>6. S \in Nat /\ i \in Nat
      BY <1>1, <1>2
    <3>7. j \in 1..S /\ i = p + j
      BY <3>4, <3>5, <3>6
    <3> QED
      BY <3>2, <3>3, <3>7
  <2>4. q < T
    <3> SUFFICES ASSUME q >= T
                 PROVE  FALSE
      BY <1>1, <1>2, <2>3
    <3>1. (q - T) * S >= 0
      BY <1>1, <1>2, <2>3
    <3>2. (q - T) * S = q * S - T * S
      BY <1>1, <1>2, <2>3
    <3>3. q * S \in Nat /\ T * S \in Nat
      BY <1>1, <1>2, <2>3
    <3> QED
      BY <1>1, <1>2, <1>4, <2>3, <3>1, <3>2, <3>3
  <2>5. PICK h : h = q + 1
    OBVIOUS
  <2>6. h \in Hosts(c) /\ h <= T /\ i = (h - 1) * S + j
    BY <1>1, <1>2, <2>3, <2>4, <2>5
  <2>7. Part(c, h, S)[j] = Object(c, app[c], i)
    BY <1>2, <2>3, <2>6, PartFacts
  <2> QED
    BY <1>2, <2>3, <2>6, <2>7
<1> QED
  BY <1>1, <1>2, <1>3, <1>4

-----------------------------------------------------------------------------
(* Objects that arrived, objects on their way and those still to come.     *)

\* Of the client's object files, only those of O change.
Only(c, O) == \A o : o \notin O =>
  /\ (o \in DOMAIN fresh'[c] <=> o \in DOMAIN fresh[c])
  /\ o \in DOMAIN fresh[c] => fresh'[c][o] = fresh[c][o]
  /\ (o \in DOMAIN have'[c] <=> o \in DOMAIN have[c])
  /\ o \in DOMAIN have[c] => have'[c][o] = have[c][o]

LEMMA GoodKept ==
  ASSUME NEW c, NEW O, Only(c, O), NEW o, o \notin O, Good(c, o)
  PROVE  Good(c, o)'
<1>1. Result(c, o)' = Result(c, o)
  BY DEF Only, Result
<1> QED
  BY <1>1 DEF Good

\* The other batches ...
LEMMA BatchesKept ==
  ASSUME Typed, in' = in, NEW c \in Users, phase'[c] = phase[c], app'[c] = app[c],
         NEW O, Only(c, O), \A k, i : Object(c, k, i) \in O => k = app[c] /\ phase[c] = "pool",
         OthersBatches(c)
  PROVE  OthersBatches(c)'
<1>1. \A k, i : Object(c, k, i)' = Object(c, k, i)
  BY DEF Object
<1>2. ASSUME NEW k \in DOMAIN in[c].work, NEW i \in 1..in[c].work[k].n
      PROVE  /\ k < app[c] \/ (k = app[c] /\ phase[c] \in {"link", "send", "done"}) => Good(c, Object(c, k, i))'
             /\ k > app[c] \/ (k = app[c] /\ phase[c] \in {"ping", "split"}) => Object(c, k, i) \notin DOMAIN fresh'[c]
  <2>1. PICK o : o = Object(c, k, i)
    OBVIOUS
  <2>2. o \in O => k = app[c] /\ phase[c] = "pool"
    BY <2>1
  <2>3. /\ k < app[c] \/ (k = app[c] /\ phase[c] \in {"link", "send", "done"}) => Good(c, o)
        /\ k > app[c] \/ (k = app[c] /\ phase[c] \in {"ping", "split"}) => o \notin DOMAIN fresh[c]
    BY <2>1 DEF OthersBatches
  <2>4. o \notin O => (Good(c, o) => Good(c, o)') /\ (o \notin DOMAIN fresh[c] => o \notin DOMAIN fresh'[c])
    BY GoodKept DEF Only
  <2>5. Good(c, o)' => Good(c, Object(c, k, i))'
    BY <1>1, <2>1 DEF Good, Result
  <2>6. ~(k < app[c] /\ o \in O) /\ ~(k > app[c] /\ o \in O) /\ ~(phase[c] \in {"link", "send", "done", "ping", "split"} /\ o \in O)
    <3>1. CASE o \in O
      <4>1. k = app[c] /\ phase[c] = "pool"
        BY <2>2, <3>1
      <4>2. k \in Nat /\ ~(k < k) /\ ~(k > k)
        BY InputFacts DEF Typed, ClientTyped
      <4> QED
        BY <4>1, <4>2
    <3>2. CASE o \notin O
      BY <3>2
    <3> QED
      BY <3>1, <3>2
  <2> QED
    BY <2>1, <2>3, <2>4, <2>5, <2>6
<1> QED
  BY <1>1, <1>2 DEF OthersBatches

\* ... what the main thread keeps ...
LEMMA RestKept ==
  ASSUME in' = in, NEW c \in Users, phase'[c] = phase[c], app'[c] = app[c], local'[c] = local[c],
         NEW O, Only(c, O), \A o \in O : o \notin Rest(c), RestDone(c)
  PROVE  RestDone(c)'
<1>1. Rest(c)' = Rest(c)
  BY BatchKept
<1>2. \A o \in Rest(c) : o \notin O
  OBVIOUS
<1>3. ASSUME phase[c] = "pool", NEW o \in Rest(c)
      PROVE  /\ o \notin DOMAIN fresh'[c]
             /\ local[c] = {} => o \in DOMAIN have'[c] /\ have'[c][o] = Whole(o, c)
  <2>1. o \notin DOMAIN fresh[c] /\ (local[c] = {} => o \in DOMAIN have[c] /\ have[c][o] = Whole(o, c))
    BY <1>3 DEF RestDone
  <2>2. o \notin O
    BY <1>2
  <2> QED
    BY <2>1, <2>2 DEF Only
<1> QED
  BY <1>1, <1>3 DEF RestDone

\* ... and the part of a host.
LEMMA PartKept ==
  ASSUME Typed, in' = in, NEW c \in Users, NEW h \in Hosts(c), phase'[c] = phase[c],
         share'[c] = share[c], writer'[c][h] = writer[c][h],
         NEW O, Only(c, O), \A j \in DOMAIN share[c][h] : share[c][h][j] \notin O,
         task[c][h] \in {"download", "threw"} => task'[c][h] \in {"download", "threw"},
         phase[c] = "pool" =>
           /\ task'[c][h] \in {"queued", "wait"} => task[c][h] \in {"queued", "wait"}
           /\ task'[c][h] = "end" => task[c][h] = "end"
           /\ task'[c][h] = "download" /\ Sess(c, h)'.src # <<>> =>
                /\ task[c][h] = "download"
                /\ Sess(c, h)'.src = Sess(c, h).src /\ Sess(c, h)'.reader = Sess(c, h).reader,
         PartDone(c, h)
  PROVE  PartDone(c, h)'
<1>1. PICK f : f = share[c][h]
  OBVIOUS
<1>2. f \in Seq(Files) /\ DOMAIN f = 1..Len(f) /\ Len(f) \in Nat
  BY <1>1 DEF Typed, ClientTyped, ClientAt
<1>3. \A j \in DOMAIN f : f[j] \notin O
  BY <1>1
<1>4. \A j \in DOMAIN f : /\ Good(c, f[j]) => Good(c, f[j])'
                          /\ f[j] \notin DOMAIN fresh[c] => f[j] \notin DOMAIN fresh'[c]
  BY <1>3, GoodKept DEF Only
<1>5. ASSUME phase[c] = "pool", task'[c][h] = "download", Sess(c, h)'.src # <<>>
      PROVE  Progress(c, h)'
  <2>1. PICK s, w : s = Sess(c, h) /\ w = writer[c][h]
    OBVIOUS
  <2>2. Sess(c, h)'.src = s.src /\ Sess(c, h)'.reader = s.reader /\ task[c][h] = "download" /\ s.src # <<>>
    BY <1>5, <2>1
  <2>3. Progress(c, h)
    BY <1>5, <2>1, <2>2 DEF PartDone
  <2>4. PICK p \in 0..Len(f) :
          /\ p < Len(f) /\ Len(s.src) = Len(f) - p
          /\ \A j \in 1..Len(s.src) : s.src[j] = f[p + j]
          /\ \A j \in 1..p : Good(c, f[j])
          /\ \A j \in (p + 2)..Len(f) : f[j] \notin DOMAIN fresh[c]
          /\ Arriving(c, h, f[p + 1])
    BY <1>1, <2>1, <2>3 DEF Progress
  <2>5. PICK o : o = f[p + 1]
    OBVIOUS
  <2>6. o \notin O
    <3>1. p + 1 \in DOMAIN f
      <4>1. PICK l : l = Len(f)
        OBVIOUS
      <4>2. p < l /\ l \in Nat /\ DOMAIN f = 1..l /\ p \in 0..l
        BY <1>2, <2>4, <4>1
      <4> QED
        BY <4>2
    <3> QED
      BY <1>3, <2>5, <3>1
  <2>7. Arriving(c, h, o)
    <3>1. Arriving(c, h, f[p + 1])
      BY <2>4
    <3> QED
      BY <2>5, <3>1 DEF Arriving
  <2>8. Arriving(c, h, o)'
    <3>1. CASE s.reader = <<>> /\ w = <<>> /\ o \notin DOMAIN fresh[c]
      BY <2>1, <2>2, <2>6, <3>1 DEF Arriving, Only
    <3>2. CASE ~(s.reader = <<>> /\ w = <<>> /\ o \notin DOMAIN fresh[c])
      <4>1. PICK q \in 1..Packets, new \in BOOLEAN :
              /\ s.reader = <<[of |-> o, pos |-> q, void |-> FALSE]>> /\ w = <<[file |-> o, new |-> new]>>
              /\ IF new THEN o \in DOMAIN fresh[c] /\ fresh[c][o] = Prefix(o, q, c)
                 ELSE o \notin DOMAIN fresh[c] /\ o \in DOMAIN have[c] /\ have[c][o] = Prefix(o, q, c)
        BY <2>1, <2>7, <3>2 DEF Arriving
      <4>2. IF new THEN o \in DOMAIN fresh'[c] /\ fresh'[c][o] = Prefix(o, q, c)
            ELSE o \notin DOMAIN fresh'[c] /\ o \in DOMAIN have'[c] /\ have'[c][o] = Prefix(o, q, c)
        BY <2>6, <4>1 DEF Only
      <4> QED
        BY <2>1, <2>2, <4>1, <4>2 DEF Arriving
    <3> QED
      BY <3>1, <3>2
  <2>9. /\ \A j \in 1..p : Good(c, f[j])'
        /\ \A j \in (p + 2)..Len(f) : f[j] \notin DOMAIN fresh'[c]
    <3>1. \A j \in 1..p : j \in DOMAIN f
      BY <1>2
    <3>2. \A j \in (p + 2)..Len(f) : j \in DOMAIN f
      BY <1>2
    <3> QED
      BY <1>4, <2>4, <3>1, <3>2
  <2>10. share'[c][h] = f
    BY <1>1
  <2>11. \A j : Good(c, f[j])' => Good(c, share[c][h][j])'
    BY <1>1, <2>10 DEF Good, Result
  <2>12. Arriving(c, h, share[c][h][p + 1])'
    BY <1>1, <2>5, <2>8, <2>10 DEF Arriving
  <2> QED
    BY <1>1, <2>2, <2>4, <2>9, <2>10, <2>11, <2>12 DEF Progress
<1>6. ASSUME phase[c] = "pool", task'[c][h] \in {"queued", "wait"}
      PROVE  \A j \in DOMAIN f : f[j] \notin DOMAIN fresh'[c]
  BY <1>1, <1>4, <1>6 DEF PartDone
<1>7. ASSUME phase[c] = "pool", task'[c][h] = "end"
      PROVE  \A j \in DOMAIN share[c][h] : Good(c, share[c][h][j])'
  <2>1. \A j \in DOMAIN f : Good(c, f[j])'
    BY <1>1, <1>4, <1>7 DEF PartDone
  <2>2. \A j : Good(c, f[j])' => Good(c, share[c][h][j])'
    BY <1>1 DEF Good, Result
  <2> QED
    BY <1>1, <2>1, <2>2
<1>8. writer'[c][h] # <<>> => phase'[c] = "pool" /\ task'[c][h] \in {"download", "threw"}
  BY DEF PartDone
<1> QED
  BY <1>1, <1>5, <1>6, <1>7, <1>8 DEF PartDone

\* Where a step is one of the pool threads only, or of others.
LEMMA ObjectsKept ==
  ASSUME Typed, in' = in, NEW c \in Users, phase'[c] = phase[c], app'[c] = app[c], share'[c] = share[c],
         local'[c] = local[c], writer'[c] = writer[c], have'[c] = have[c], fresh'[c] = fresh[c],
         \A h \in Hosts(c) :
           /\ task[c][h] \in {"download", "threw"} => task'[c][h] \in {"download", "threw"}
           /\ phase[c] = "pool" =>
                /\ task'[c][h] \in {"queued", "wait"} => task[c][h] \in {"queued", "wait"}
                /\ task'[c][h] = "end" => task[c][h] = "end"
                /\ task'[c][h] = "download" /\ Sess(c, h)'.src # <<>> =>
                     /\ task[c][h] = "download"
                     /\ Sess(c, h)'.src = Sess(c, h).src /\ Sess(c, h)'.reader = Sess(c, h).reader,
         ObjectsAt(c)
  PROVE  ObjectsAt(c)'
<1>1. Only(c, {})
  BY DEF Only
<1>2. SUFFICES ASSUME phase[c] # "failed"
               PROVE  OthersBatches(c)' /\ RestDone(c)' /\ \A h \in Hosts(c) : PartDone(c, h)'
  BY InputKept DEF ObjectsAt
<1>3. OthersBatches(c) /\ RestDone(c) /\ \A h \in Hosts(c) : PartDone(c, h)
  BY <1>2 DEF ObjectsAt
<1>4. OthersBatches(c)'
  BY <1>1, <1>3, BatchesKept
<1>5. RestDone(c)'
  BY <1>1, <1>3, RestKept
<1>6. \A h \in Hosts(c) : PartDone(c, h)'
  BY <1>1, <1>3, PartKept
<1> QED
  BY <1>4, <1>5, <1>6

\* The steps of nodes, but for what a request and a download leave there.
LEMMA DieObjects ==
  ASSUME Typed, ObjectsDone, NEW n \in Nodes, Die(n)
  PROVE  ObjectsDone'
<1>1. /\ UNCHANGED <<in, phase, app, share, local, writer, have, fresh, disturbed>>
      /\ \A i \in Ids : sess'[n][i] = NoSession
      /\ \A m \in Nodes : m # n => sess'[m] = sess[m]
      /\ \A c \in Users : \A h \in Hosts(c) : task'[c][h] =
           IF Node(c, h) = n /\ task[c][h] = "wait" THEN "threw" ELSE task[c][h]
  BY DieFacts DEF Typed
<1>2. /\ Users' = Users /\ \A x, g : Node(x, g)' = Node(x, g) /\ Id(x, g)' = Id(x, g)
      /\ \A x \in Users : \A g \in Hosts(x) : Node(x, g) \in Nodes /\ Id(x, g) \in Ids
  BY <1>1, InputKept, InputFacts DEF Typed, ClientTyped
<1>3. ASSUME NEW x \in Users \ disturbed
      PROVE  ObjectsAt(x)'
  <2>1. ASSUME NEW h \in Hosts(x)
        PROVE  /\ task[x][h] \in {"download", "threw"} => task'[x][h] \in {"download", "threw"}
               /\ task'[x][h] \in {"queued", "wait"} => task[x][h] \in {"queued", "wait"}
               /\ task'[x][h] = "end" => task[x][h] = "end"
               /\ task'[x][h] = "download" => task[x][h] = "download"
               /\ Sess(x, h)'.src # <<>> => Sess(x, h)' = Sess(x, h)
    <3>1. task'[x][h] = IF Node(x, h) = n /\ task[x][h] = "wait" THEN "threw" ELSE task[x][h]
      BY <1>1
    <3>2. Sess(x, h)' = NoSession \/ Sess(x, h)' = Sess(x, h)
      BY <1>1, <1>2 DEF Sess
    <3> QED
      BY <3>1, <3>2 DEF NoSession
  <2>2. ObjectsAt(x)
    BY DEF ObjectsDone
  <2> QED
    BY <1>1, <2>1, <2>2, ObjectsKept
<1> QED
  BY <1>1, <1>2, <1>3 DEF ObjectsDone

LEMMA RestartObjects ==
  ASSUME Typed, ObjectsDone, NEW n \in Nodes, Restart(n)
  PROVE  ObjectsDone'
<1>1. UNCHANGED <<in, phase, app, task, share, local, writer, have, fresh, sess, disturbed>>
  BY RestartFacts DEF Typed, client, history
<1>2. Users' = Users /\ \A x, g : Sess(x, g)' = Sess(x, g)
  BY <1>1, InputKept DEF Sess
<1>3. ASSUME NEW x \in Users \ disturbed
      PROVE  ObjectsAt(x)'
  <2>1. ObjectsAt(x)
    BY DEF ObjectsDone
  <2> QED
    BY <1>1, <1>2, <2>1, ObjectsKept
<1> QED
  BY <1>1, <1>2, <1>3 DEF ObjectsDone

LEMMA StutterObjects ==
  ASSUME Typed, ObjectsDone, UNCHANGED vars
  PROVE  ObjectsDone'
<1>1. UNCHANGED <<in, phase, app, task, share, local, writer, have, fresh, sess, disturbed>>
  BY DEF vars, client, node, history
<1>2. Users' = Users /\ \A x, g : Sess(x, g)' = Sess(x, g)
  BY <1>1, InputKept DEF Sess
<1>3. ASSUME NEW x \in Users \ disturbed
      PROVE  ObjectsAt(x)'
  <2>1. ObjectsAt(x)
    BY DEF ObjectsDone
  <2> QED
    BY <1>1, <1>2, <2>1, ObjectsKept
<1> QED
  BY <1>1, <1>2, <1>3 DEF ObjectsDone

\* What happens to a client's thread, with no change to its objects: a
\* set-up, a request, a packet of a binary, no answer.
LEMMA ThreadObjects ==
  ASSUME Typed, ObjectsDone, NEW c \in Users, NEW h \in Hosts(c), TaskStep(c, h),
         UNCHANGED <<in, phase, app, share, local, writer, have, fresh>>, disturbed \subseteq disturbed',
         \A x \in Users : \A g \in Hosts(x) :
           Sess(x, g)'.src = Sess(x, g).src /\ Sess(x, g)'.reader = Sess(x, g).reader,
         task[c][h] \in {"download", "threw"} => task'[c][h] \in {"download", "threw"},
         phase[c] = "pool" => /\ task'[c][h] = "wait" => task[c][h] = "queued"
                              /\ task'[c][h] \in {"wait", "threw"}
  PROVE  ObjectsDone'
<1>1. Users' = Users
  BY InputKept
<1>2. ASSUME NEW x \in Users \ disturbed
      PROVE  ObjectsAt(x)'
  <2>1. ASSUME NEW g \in Hosts(x)
        PROVE  /\ task[x][g] \in {"download", "threw"} => task'[x][g] \in {"download", "threw"}
               /\ phase[x] = "pool" =>
                    /\ task'[x][g] \in {"queued", "wait"} => task[x][g] \in {"queued", "wait"}
                    /\ task'[x][g] = "end" => task[x][g] = "end"
                    /\ task'[x][g] = "download" => task[x][g] = "download"
    <3>1. CASE x = c /\ g = h
      BY <3>1
    <3>2. CASE ~(x = c /\ g = h)
      <4>1. task'[x][g] = task[x][g]
        BY <3>2 DEF TaskStep
      <4> QED
        BY <4>1
    <3> QED
      BY <3>1, <3>2
  <2>2. ObjectsAt(x)
    BY DEF ObjectsDone
  <2> QED
    BY <2>1, <2>2, ObjectsKept
<1> QED
  BY <1>1, <1>2 DEF ObjectsDone

LEMMA SetupObjects ==
  ASSUME Typed, ObjectsDone, NEW c \in Users, NEW h \in Hosts(c), Setup(c, h)
  PROVE  ObjectsDone'
<1>1. PICK n, i : n = Node(c, h) /\ i = Id(c, h)
  OBVIOUS
<1>2. /\ n \in Nodes /\ i \in Ids /\ phase[c] = "ping" /\ task[c][h] = "queued"
      /\ TaskStep(c, h) /\ UNCHANGED <<in, phase, app, share, local, writer, have, fresh>>
      /\ SessStep(n, i) /\ sess'[n][i].src = sess[n][i].src /\ sess'[n][i].reader = sess[n][i].reader
      /\ Meets(c, n, i)
  BY <1>1, SetupFacts DEF Typed
<1>3. disturbed \subseteq disturbed'
  BY <1>2 DEF Meets
<1>4. ASSUME NEW x \in Users, NEW g \in Hosts(x)
      PROVE  Sess(x, g)'.src = Sess(x, g).src /\ Sess(x, g)'.reader = Sess(x, g).reader
  <2>1. PICK m, j : m = Node(x, g) /\ j = Id(x, g)
    OBVIOUS
  <2>2. m \in Nodes /\ j \in Ids
    BY <2>1, InputFacts DEF Typed, ClientTyped
  <2>3. sess'[m][j].src = sess[m][j].src /\ sess'[m][j].reader = sess[m][j].reader
    BY <1>2, <2>2 DEF SessStep
  <2>4. Sess(x, g)' = sess'[m][j]
    BY <1>2, <2>1, InputKept DEF Sess
  <2> QED
    BY <2>1, <2>3, <2>4 DEF Sess
<1> QED
  BY <1>2, <1>3, <1>4, ThreadObjects

LEMMA SendObjects ==
  ASSUME Typed, ObjectsDone, NEW c \in Users, NEW h \in Hosts(c), Send(c, h)
  PROVE  ObjectsDone'
<1>1. PICK n, i : n = Node(c, h) /\ i = Id(c, h)
  OBVIOUS
<1>2. /\ n \in Nodes /\ i \in Ids /\ phase[c] = "send" /\ task[c][h] \in {"queued", "sending"}
      /\ TaskStep(c, h) /\ UNCHANGED <<in, phase, app, share, local, writer, have, fresh>>
      /\ \A m \in Nodes : m # n => sess'[m] = sess[m]
      /\ \A j \in Ids : sess'[n][j].src = sess[n][j].src /\ sess'[n][j].reader = sess[n][j].reader
      /\ Meets(c, n, i)
  BY <1>1, SendFacts DEF Typed
<1>3. disturbed \subseteq disturbed'
  BY <1>2 DEF Meets
<1>4. ASSUME NEW x \in Users, NEW g \in Hosts(x)
      PROVE  Sess(x, g)'.src = Sess(x, g).src /\ Sess(x, g)'.reader = Sess(x, g).reader
  <2>1. PICK m, j : m = Node(x, g) /\ j = Id(x, g)
    OBVIOUS
  <2>2. m \in Nodes /\ j \in Ids
    BY <2>1, InputFacts DEF Typed, ClientTyped
  <2>3. sess'[m][j].src = sess[m][j].src /\ sess'[m][j].reader = sess[m][j].reader
    BY <1>2, <2>2
  <2>4. Sess(x, g)' = sess'[m][j]
    BY <1>2, <2>1, InputKept DEF Sess
  <2> QED
    BY <2>1, <2>3, <2>4 DEF Sess
<1> QED
  BY <1>2, <1>3, <1>4, ThreadObjects

LEMMA CompileStartObjects ==
  ASSUME Typed, ObjectsDone, NEW c \in Users, NEW h \in Hosts(c), CompileStart(c, h)
  PROVE  ObjectsDone'
<1>1. /\ phase[c] = "pool" /\ task[c][h] = "queued" /\ TaskStep(c, h) /\ task'[c][h] = "wait"
      /\ UNCHANGED <<in, phase, app, share, local, writer, have, fresh, sess, disturbed>>
  BY CompileStartFacts DEF Typed, history
<1>2. \A x, g : Sess(x, g)' = Sess(x, g)
  BY <1>1, InputKept DEF Sess
<1> QED
  BY <1>1, <1>2, ThreadObjects

LEMMA UnansweredObjects ==
  ASSUME Typed, ObjectsDone, NEW c \in Users, NEW h \in Hosts(c), Unanswered(c, h)
  PROVE  ObjectsDone'
<1>1. /\ task[c][h] \in {"queued", "download", "sending"} /\ TaskStep(c, h) /\ task'[c][h] = "threw"
      /\ UNCHANGED <<in, phase, app, share, local, writer, have, fresh, sess, disturbed>>
  BY UnansweredFacts DEF Typed, node, history
<1>2. \A x, g : Sess(x, g)' = Sess(x, g)
  BY <1>1, InputKept DEF Sess
<1> QED
  BY <1>1, <1>2, ThreadObjects

\* The steps of the main thread touch no session.
LEMMA MainObjects ==
  ASSUME Typed, ObjectsDone, NEW c \in Users, ClientStep(c), UNCHANGED <<sess, disturbed>>,
         ObjectsAt(c) => ObjectsAt(c)'
  PROVE  ObjectsDone'
<1>1. in' = in /\ Users' = Users /\ \A x, g : Sess(x, g)' = Sess(x, g)
  BY InputKept DEF ClientStep, Sess
<1>2. ASSUME NEW x \in Users \ disturbed
      PROVE  ObjectsAt(x)'
  <2>1. ObjectsAt(x)
    BY DEF ObjectsDone
  <2>2. CASE x = c
    BY <2>1, <2>2
  <2>3. CASE x # c
    <3>1. /\ phase'[x] = phase[x] /\ app'[x] = app[x] /\ task'[x] = task[x] /\ share'[x] = share[x]
          /\ local'[x] = local[x] /\ writer'[x] = writer[x] /\ have'[x] = have[x] /\ fresh'[x] = fresh[x]
      BY <2>3 DEF ClientStep, OneClient
    <3> QED
      BY <1>1, <2>1, <3>1, ObjectsKept
  <2> QED
    BY <2>2, <2>3
<1> QED
  BY <1>1, <1>2 DEF ObjectsDone

\* Outside the pool no object is on its way.
LEMMA OutOfPool ==
  ASSUME NEW c \in Users, in' = in, phase'[c] # "pool", UNCHANGED <<have, fresh, writer>>,
         \A h \in Hosts(c) : writer[c][h] = <<>>, OthersBatches(c)'
  PROVE  ObjectsAt(c)'
<1>1. Hosts(c)' = Hosts(c)
  BY InputKept
<1>2. RestDone(c)'
  BY DEF RestDone
<1>3. \A h \in Hosts(c) : PartDone(c, h)'
  BY DEF PartDone
<1> QED
  BY <1>1, <1>2, <1>3 DEF ObjectsAt

LEMMA SameResults ==
  ASSUME NEW c \in Users, UNCHANGED <<in, have, fresh>>
  PROVE  \A k, i : /\ Object(c, k, i)' = Object(c, k, i)
                   /\ Good(c, Object(c, k, i))' = Good(c, Object(c, k, i))
BY DEF Object, Good, Result, Whole

LEMMA KilledObjects ==
  ASSUME Typed, ObjectsDone, NEW c \in Users, Killed(c)
  PROVE  ObjectsDone'
<1>1. ClientStep(c) /\ UNCHANGED <<sess, disturbed>> /\ phase'[c] = "failed"
  BY KilledFacts DEF Typed, node, history
<1>2. ObjectsAt(c)'
  BY <1>1 DEF ObjectsAt
<1> QED
  BY <1>1, <1>2, MainObjects

LEMMA PingedObjects ==
  ASSUME Typed, ObjectsDone, NEW c \in Users, Pinged(c)
  PROVE  ObjectsDone'
<1>1. /\ ClientStep(c) /\ UNCHANGED <<in, app, writer, have, fresh, sess, disturbed>>
      /\ phase[c] = "ping" /\ phase'[c] \in {"failed", "split"}
  BY PingedFacts DEF Typed, node, history
<1>2. ASSUME ObjectsAt(c), phase'[c] = "split"
      PROVE  ObjectsAt(c)'
  <2>1. OthersBatches(c) /\ \A h \in Hosts(c) : writer[c][h] = <<>>
    BY <1>1, <1>2 DEF ObjectsAt, PartDone
  <2>2. OthersBatches(c)'
    BY <1>1, <1>2, <2>1, SameResults DEF OthersBatches
  <2> QED
    BY <1>1, <1>2, <2>1, <2>2, OutOfPool
<1>3. ASSUME phase'[c] = "failed"
      PROVE  ObjectsAt(c)'
  BY <1>3 DEF ObjectsAt
<1> QED
  BY <1>1, <1>2, <1>3, MainObjects

LEMMA LinkObjects ==
  ASSUME Typed, ObjectsDone, NEW c \in Users, Link(c)
  PROVE  ObjectsDone'
<1>1. /\ ClientStep(c) /\ UNCHANGED <<in, app, writer, have, fresh, sess, disturbed>>
      /\ phase[c] = "link" /\ phase'[c] = "send"
  BY LinkFacts DEF Typed, node, history
<1>2. ASSUME ObjectsAt(c)
      PROVE  ObjectsAt(c)'
  <2>1. OthersBatches(c) /\ \A h \in Hosts(c) : writer[c][h] = <<>>
    BY <1>1, <1>2 DEF ObjectsAt, PartDone
  <2>2. OthersBatches(c)'
    BY <1>1, <1>2, <2>1, SameResults DEF OthersBatches
  <2> QED
    BY <1>1, <1>2, <2>1, <2>2, OutOfPool
<1> QED
  BY <1>1, <1>2, MainObjects

LEMMA SentObjects ==
  ASSUME Typed, ObjectsDone, NEW c \in Users, Sent(c)
  PROVE  ObjectsDone'
<1>1. /\ ClientStep(c) /\ UNCHANGED <<in, writer, have, fresh, sess, disturbed>>
      /\ phase[c] = "send" /\ app[c] \in Nat
      /\ \/ phase'[c] = "failed"
         \/ phase'[c] \in {"done", "link", "send"} /\ app'[c] = app[c]
         \/ phase'[c] = "split" /\ app'[c] = app[c] + 1
  BY SentFacts, WorkFacts DEF Typed, node, history
<1>2. ASSUME ObjectsAt(c), phase'[c] # "failed"
      PROVE  ObjectsAt(c)'
  <2>1. OthersBatches(c) /\ \A h \in Hosts(c) : writer[c][h] = <<>>
    BY <1>1, <1>2 DEF ObjectsAt, PartDone
  <2>2. \A k \in DOMAIN in[c].work : k \in Nat
    BY InputFacts DEF Typed, ClientTyped
  <2>3. OthersBatches(c)'
    <3>1. CASE phase'[c] \in {"done", "link", "send"} /\ app'[c] = app[c]
      BY <1>1, <2>1, <3>1, SameResults DEF OthersBatches
    <3>2. CASE phase'[c] = "split" /\ app'[c] = app[c] + 1
      <4> SUFFICES ASSUME NEW k \in DOMAIN in[c].work, NEW i \in 1..in[c].work[k].n
                   PROVE  /\ k < app[c] + 1 => Good(c, Object(c, k, i))
                          /\ k > app[c] + 1 \/ k = app[c] + 1 => Object(c, k, i) \notin DOMAIN fresh[c]
        BY <1>1, <3>2, SameResults DEF OthersBatches
      <4>1. /\ k < app[c] \/ k = app[c] => Good(c, Object(c, k, i))
            /\ k > app[c] => Object(c, k, i) \notin DOMAIN fresh[c]
        BY <1>1, <2>1 DEF OthersBatches
      <4>2. k \in Nat
        BY <2>2
      <4> QED
        BY <1>1, <4>1, <4>2
    <3> QED
      BY <1>1, <1>2, <3>1, <3>2
  <2> QED
    BY <1>1, <1>2, <2>1, <2>3, OutOfPool
<1>3. ASSUME phase'[c] = "failed"
      PROVE  ObjectsAt(c)'
  BY <1>3 DEF ObjectsAt
<1> QED
  BY <1>1, <1>2, <1>3, MainObjects

LEMMA SplitObjects ==
  ASSUME Typed, ObjectsDone, NEW c \in Users, Split(c)
  PROVE  ObjectsDone'
<1>1. /\ ClientStep(c) /\ UNCHANGED <<in, app, writer, have, fresh, sess, disturbed>>
      /\ phase[c] = "split" /\ phase'[c] = "pool"
      /\ share'[c] = [h \in Hosts(c) |-> IF h <= Threads(c) THEN Part(c, h, Size(c)) ELSE <<>>]
      /\ task'[c] = [h \in Hosts(c) |-> IF h <= Threads(c) /\ Size(c) > 0 THEN "queued" ELSE "none"]
      /\ local'[c] = Rest(c)
  BY SplitFacts DEF Typed, node, history
<1>2. Hosts(c)' = Hosts(c) /\ Rest(c)' = Rest(c)
  BY <1>1, InputKept, BatchKept
<1>3. ASSUME ObjectsAt(c)
      PROVE  ObjectsAt(c)'
  <2>1. OthersBatches(c) /\ \A h \in Hosts(c) : writer[c][h] = <<>>
    BY <1>1, <1>3 DEF ObjectsAt, PartDone
  <2>2. OthersBatches(c)'
    BY <1>1, <2>1, SameResults DEF OthersBatches
  <2>3. \A i \in 1..Work(c).n : Object(c, app[c], i) \notin DOMAIN fresh[c]
    <3>1. app[c] \in DOMAIN in[c].work
      BY WorkFacts DEF Typed
    <3> QED
      BY <1>1, <2>1, <3>1 DEF OthersBatches, Work
  <2>4. RestDone(c)'
    <3>1. \A o \in Rest(c) : o \notin DOMAIN fresh[c]
      <4>1. /\ Threads(c) \in Nat /\ Size(c) \in Nat /\ Work(c).n \in Nat
        BY WorkFacts DEF Typed
      <4>2. PICK p \in Nat : p = Threads(c) * Size(c)
        BY <4>1
      <4>3. \A i \in (p + 1)..Work(c).n : i \in 1..Work(c).n
        BY <4>1
      <4> QED
        BY <2>3, <4>2, <4>3 DEF Rest
    <3> QED
      BY <1>1, <1>2, <3>1 DEF RestDone
  <2>5. ASSUME NEW h \in Hosts(c)
        PROVE  PartDone(c, h)'
    <3>1. task'[c][h] \in {"queued", "none"}
      BY <1>1
    <3>2. task'[c][h] = "queued" => \A j \in DOMAIN share'[c][h] : share'[c][h][j] \notin DOMAIN fresh'[c]
      <4> SUFFICES ASSUME h <= Threads(c), NEW j \in DOMAIN Part(c, h, Size(c))
                   PROVE  Part(c, h, Size(c))[j] \notin DOMAIN fresh[c]
        BY <1>1
      <4>1. j \in 1..Size(c)
        BY DEF Part
      <4> QED
        BY <2>3, <4>1, PartFacts DEF Typed
    <3> QED
      BY <1>1, <2>1, <3>1, <3>2 DEF PartDone
  <2> QED
    BY <1>2, <2>2, <2>4, <2>5 DEF ObjectsAt
<1> QED
  BY <1>1, <1>3, MainObjects

\* The main thread compiles what it kept for itself.
LEMMA LocalCompileObjects ==
  ASSUME Typed, Own, ObjectsDone, NEW c \in Users, LocalCompile(c)
  PROVE  ObjectsDone'
<1>1. /\ ClientStep(c) /\ UNCHANGED <<in, app, task, share, writer, fresh, sess, disturbed>>
      /\ phase[c] = "pool" /\ local[c] # {}
      /\ \/ /\ have'[c] = [o \in DOMAIN have[c] \cup local[c] |-> IF o \in local[c] THEN Whole(o, c) ELSE have[c][o]]
            /\ local'[c] = {} /\ phase' = phase
         \/ phase'[c] = "failed"
  BY LocalCompileFacts DEF Typed, node, history
<1>2. /\ Hosts(c)' = Hosts(c) /\ Rest(c)' = Rest(c) /\ \A x, g : Sess(x, g)' = Sess(x, g)
  BY <1>1, InputKept, BatchKept DEF Sess
<1>3. ASSUME ObjectsAt(c), phase' = phase, local'[c] = {},
             have'[c] = [o \in DOMAIN have[c] \cup local[c] |-> IF o \in local[c] THEN Whole(o, c) ELSE have[c][o]]
      PROVE  ObjectsAt(c)'
  <2>1. OthersBatches(c) /\ RestDone(c) /\ \A h \in Hosts(c) : PartDone(c, h)
    BY <1>1, <1>3 DEF ObjectsAt
  <2>2. local[c] = Rest(c)
    BY <1>1, <2>1 DEF RestDone
  <2>3. PICK O : O = Rest(c)
    OBVIOUS
  <2>4. have'[c] = [o \in DOMAIN have[c] \cup O |-> IF o \in O THEN Whole(o, c) ELSE have[c][o]]
    BY <1>3, <2>2, <2>3
  <2>5. Only(c, O)
    BY <1>1, <2>4 DEF Only
  <2>6. OthersBatches(c)'
    <3>1. \A k, i : Object(c, k, i) \in O => k = app[c]
      BY <2>3, ObjectFacts DEF Rest, Typed, ClientTyped
    <3> QED
      BY <1>1, <1>3, <2>1, <2>5, <3>1, BatchesKept
  <2>7. RestDone(c)'
    <3>1. \A o \in O : o \notin DOMAIN fresh[c]
      BY <1>1, <2>1, <2>3 DEF RestDone
    <3> QED
      BY <1>1, <1>2, <1>3, <2>3, <2>4, <3>1 DEF RestDone
  <2>8. ASSUME NEW h \in Hosts(c)
        PROVE  PartDone(c, h)'
    <3>1. \A j \in DOMAIN share[c][h] : share[c][h][j] \notin O
      <4>1. share[c][h] = IF h <= Threads(c) THEN Part(c, h, Size(c)) ELSE <<>>
        BY <1>1 DEF Own, Shared
      <4>2. CASE h <= Threads(c)
        <5>1. DOMAIN Part(c, h, Size(c)) = 1..Size(c)
          BY DEF Part
        <5> QED
          BY <2>3, <4>1, <4>2, <5>1, PartsApart DEF Typed
      <4>3. CASE ~(h <= Threads(c))
        BY <4>1, <4>3
      <4> QED
        BY <4>2, <4>3
    <3> QED
      BY <1>1, <1>2, <1>3, <2>1, <2>5, <3>1, PartKept
  <2> QED
    BY <1>2, <2>6, <2>7, <2>8 DEF ObjectsAt
<1>4. ASSUME phase'[c] = "failed"
      PROVE  ObjectsAt(c)'
  BY <1>4 DEF ObjectsAt
<1> QED
  BY <1>1, <1>3, <1>4, MainObjects

\* The batch is complete when all have ended, and none threw.
LEMMA JoinObjects ==
  ASSUME Typed, Own, ObjectsDone, NEW c \in Users, Join(c)
  PROVE  ObjectsDone'
<1>1. /\ ClientStep(c) /\ UNCHANGED <<in, app, task, share, local, writer, have, fresh, sess, disturbed>>
      /\ phase[c] = "pool" /\ local[c] = {} /\ Settled(c)
      /\ phase'[c] = IF Threw(c) THEN "failed" ELSE "link"
  BY JoinFacts DEF Typed, node, history
<1>2. ASSUME ObjectsAt(c), ~Threw(c)
      PROVE  ObjectsAt(c)'
  <2>1. OthersBatches(c) /\ RestDone(c) /\ \A h \in Hosts(c) : PartDone(c, h)
    BY <1>1, <1>2 DEF ObjectsAt
  <2>2. \A h \in Hosts(c) : task[c][h] \in {"none", "end"}
    BY <1>1, <1>2, SettledFacts
  <2>3. \A h \in Hosts(c) : writer[c][h] = <<>>
    BY <2>1, <2>2 DEF PartDone
  <2>4. \A i \in 1..Work(c).n : Good(c, Object(c, app[c], i))
    <3> SUFFICES ASSUME NEW i \in 1..Work(c).n
                 PROVE  Good(c, Object(c, app[c], i))
      OBVIOUS
    <3>1. CASE Object(c, app[c], i) \in Rest(c)
      <4>1. PICK o : o = Object(c, app[c], i)
        OBVIOUS
      <4>2. o \notin DOMAIN fresh[c] /\ o \in DOMAIN have[c] /\ have[c][o] = Whole(o, c)
        BY <1>1, <2>1, <3>1, <4>1 DEF RestDone
      <4>3. Good(c, o)
        BY <4>2 DEF Good, Result
      <4> QED
        BY <4>1, <4>3
    <3>2. ASSUME NEW h \in Hosts(c), h <= Threads(c), NEW j \in 1..Size(c),
                 Object(c, app[c], i) = Part(c, h, Size(c))[j]
          PROVE  Good(c, Object(c, app[c], i))
      <4>1. share[c][h] = Part(c, h, Size(c))
        BY <1>1, <3>2 DEF Own, Shared
      <4>2. j \in DOMAIN share[c][h]
        BY <4>1 DEF Part
      <4>3. task[c][h] = "end"
        <5>1. Size(c) > 0
          BY WorkFacts DEF Typed
        <5> QED
          BY <1>1, <2>2, <3>2, <5>1, TaskPhases
      <4>4. Good(c, share[c][h][j])
        BY <1>1, <2>1, <4>2, <4>3 DEF PartDone
      <4> QED
        BY <3>2, <4>1, <4>4 DEF Good
    <3> QED
      BY <3>1, <3>2, PartsCover DEF Typed
  <2>5. OthersBatches(c)'
    <3>1. ASSUME NEW k \in DOMAIN in[c].work, NEW i \in 1..in[c].work[k].n
          PROVE  /\ k < app[c] \/ k = app[c] => Good(c, Object(c, k, i))
                 /\ k > app[c] => Object(c, k, i) \notin DOMAIN fresh[c]
      BY <2>1, <2>4 DEF OthersBatches, Work
    <3> QED
      BY <1>1, <1>2, <3>1, SameResults DEF OthersBatches
  <2> QED
    BY <1>1, <1>2, <2>3, <2>5, OutOfPool
<1>3. ASSUME phase'[c] = "failed"
      PROVE  ObjectsAt(c)'
  BY <1>3 DEF ObjectsAt
<1> QED
  BY <1>1, <1>2, <1>3, MainObjects

\* The end of a request leaves the objects of its host to be fetched, and no
\* reader of a file of another batch.
LEMMA CompileEndObjects ==
  ASSUME Typed, Known, Own, ObjectsDone, NEW n \in Nodes, NEW r \in busy[n], CompileEnd(n, r)
  PROVE  ObjectsDone'
<1>1. PICK c, h, i : c = r.c /\ h = r.h /\ i = Id(c, h)
  OBVIOUS
<1>2. /\ c \in Users /\ h \in Hosts(c) /\ i \in Ids /\ n = Node(c, h)
      /\ UNCHANGED <<in, phase, app, share, local, writer, have, fresh, disturbed>>
      /\ TaskStep(c, h)
      /\ IF phase[c] = "pool" THEN task'[c][h] \in {"download", "threw"} ELSE task' = task
      /\ \/ sess' = sess
         \/ /\ SessStep(n, i) /\ sess'[n][i].src = share[c][h]
            /\ sess'[n][i].reader = sess[n][i].reader
  BY <1>1, CompileEndFacts DEF Typed, Known, history
<1>3. /\ \A x, g : Node(x, g)' = Node(x, g) /\ Id(x, g)' = Id(x, g)
      /\ Users' = Users /\ \A x : Hosts(x)' = Hosts(x) /\ Threads(x)' = Threads(x)
      /\ \A x \in Users : \A g \in Hosts(x) : Node(x, g) \in Nodes /\ Id(x, g) \in Ids
      /\ \A g \in Hosts(c) : Node(c, g) = n /\ Id(c, g) = i => g = h
  BY <1>1, <1>2, InputKept, InputFacts DEF Typed, ClientTyped
<1>4. phase[c] \in {"pool", "failed"} /\ task[c][h] = "wait" /\ h <= Threads(c) /\ Sess(c, h).users # {}
  BY <1>1 DEF Known, BusyAwaited
<1>5. ASSUME NEW x \in Users, NEW g \in Hosts(x), Node(x, g) # n \/ Id(x, g) # i
      PROVE  Sess(x, g)' = Sess(x, g)
  <2>1. PICK m, j : m = Node(x, g) /\ j = Id(x, g)
    OBVIOUS
  <2>2. m \in Nodes /\ j \in Ids /\ (m # n \/ j # i)
    BY <1>3, <1>5, <2>1
  <2>3. sess'[m][j] = sess[m][j]
    BY <1>2, <2>2 DEF SessStep
  <2> QED
    BY <1>3, <2>1, <2>3 DEF Sess
<1>6. ASSUME NEW x \in Users \ disturbed, x # c
      PROVE  ObjectsAt(x)'
  <2>1. task'[x] = task[x]
    BY <1>2, <1>6 DEF TaskStep
  <2>2. ASSUME phase[x] = "pool", NEW g \in Hosts(x), task[x][g] = "download"
        PROVE  Sess(x, g)' = Sess(x, g)
    <3>1. Placed(x, g)
      BY <2>2, TaskPhases DEF Placed, Ended
    <3>2. Node(x, g) # n
      BY <1>1, <1>6, <3>1, AloneThere
    <3> QED
      BY <1>5, <3>2
  <2>3. ObjectsAt(x)
    BY DEF ObjectsDone
  <2> QED
    BY <1>2, <2>1, <2>2, <2>3, ObjectsKept
<1>7. ASSUME c \notin disturbed, phase[c] = "pool"
      PROVE  ObjectsAt(c)'
  <2>1. OthersBatches(c) /\ RestDone(c) /\ \A g \in Hosts(c) : PartDone(c, g)
    BY <1>2, <1>7 DEF ObjectsDone, ObjectsAt
  <2>2. Only(c, {})
    BY <1>2 DEF Only
  <2>3. OthersBatches(c)'
    BY <1>2, <2>1, <2>2, BatchesKept
  <2>4. RestDone(c)'
    BY <1>2, <2>1, <2>2, RestKept
  <2>5. ASSUME NEW g \in Hosts(c), g # h
        PROVE  PartDone(c, g)'
    <3>1. task'[c][g] = task[c][g]
      BY <1>2, <2>5 DEF TaskStep
    <3>2. Sess(c, g)' = Sess(c, g)
      BY <1>2, <1>3, <1>5, <2>5
    <3> QED
      BY <1>2, <2>1, <2>2, <3>1, <3>2, PartKept
  <2>6. PartDone(c, h)'
    <3>1. Placed(c, h)
      BY <1>2, <1>4, <1>7 DEF Placed, Ended
    <3>2. Sess(c, h).users = {c}
      BY <1>2, <1>4, <1>7, <3>1, AloneThere
    <3>3. Sess(c, h).src = <<>> /\ Sess(c, h).reader = <<>>
      BY <1>1, <1>2, <1>7, <3>2 DEF Known, Lone, LoneSession
    <3>4. writer[c][h] = <<>> /\ \A j \in DOMAIN share[c][h] : share[c][h][j] \notin DOMAIN fresh[c]
      BY <1>2, <1>4, <1>7, <2>1 DEF PartDone
    <3>5. ASSUME Sess(c, h)'.src # <<>>
          PROVE  Progress(c, h)'
      <4>1. Sess(c, h)' = sess'[n][i] /\ Sess(c, h) = sess[n][i]
        BY <1>1, <1>2, <1>3 DEF Sess
      <4>2. Sess(c, h)'.src = share[c][h] /\ Sess(c, h)'.reader = <<>>
        BY <1>2, <3>3, <3>5, <4>1
      <4>3. PICK f : f = share[c][h]
        OBVIOUS
      <4>4. f \in Seq(Files) /\ f # <<>>
        BY <1>2, <3>5, <4>2, <4>3 DEF Typed, ClientTyped, ClientAt
      <4>5. DOMAIN f = 1..Len(f) /\ Len(f) \in Nat /\ 0 < Len(f)
        BY <4>4, SeqFacts
      <4>6. PICK p : p = 0
        OBVIOUS
      <4>7. p \in 0..Len(f) /\ p < Len(f) /\ Len(f) = Len(f) - p
        BY <4>5, <4>6
      <4>8. (\A j \in 1..Len(f) : f[j] = f[p + j]) /\ (\A j \in 1..p : FALSE)
        BY <4>5, <4>6
      <4>9. \A j \in (p + 2)..Len(f) : f[j] \notin DOMAIN fresh'[c]
        <5>1. \A j \in (p + 2)..Len(f) : j \in DOMAIN f
          BY <4>5, <4>6
        <5> QED
          BY <1>2, <3>4, <4>3, <5>1
      <4>10. Arriving(c, h, f[p + 1])'
        <5>1. p + 1 \in DOMAIN f
          BY <4>5, <4>6
        <5>2. f[p + 1] \notin DOMAIN fresh'[c]
          BY <1>2, <3>4, <4>3, <5>1
        <5> QED
          BY <1>2, <3>4, <4>2, <5>2 DEF Arriving
      <4>11. share'[c][h] = f
        BY <1>2, <4>3
      <4>12. Arriving(c, h, share[c][h][p + 1])'
        BY <1>2, <4>3, <4>10, <4>11 DEF Arriving
      <4> QED
        BY <4>2, <4>3, <4>7, <4>8, <4>9, <4>11, <4>12 DEF Progress
    <3>6. task'[c][h] \in {"download", "threw"}
      BY <1>2, <1>7
    <3> QED
      BY <1>2, <3>4, <3>5, <3>6 DEF PartDone
  <2> QED
    BY <1>3, <2>3, <2>4, <2>5, <2>6 DEF ObjectsAt
<1>8. ASSUME phase[c] # "pool"
      PROVE  ObjectsAt(c)'
  BY <1>2, <1>4, <1>8 DEF ObjectsAt
<1> QED
  BY <1>2, <1>3, <1>6, <1>7, <1>8 DEF ObjectsDone

\* An object of which q packets have arrived, in the file beside the one that
\* exists or in its place.
Landed(c, o, q, new) ==
  IF new THEN o \in DOMAIN fresh[c] /\ fresh[c][o] = Prefix(o, q, c)
  ELSE o \notin DOMAIN fresh[c] /\ o \in DOMAIN have[c] /\ have[c][o] = Prefix(o, q, c)

\* The client's end of it, after q packets.
Landing(c, h, o, q, new) ==
  /\ WriterOf(c, h, o) = [file |-> o, new |-> new]
  /\ (writer[c][h] = <<>> <=> q = 0)
  /\ q = 0 => o \notin DOMAIN fresh[c] /\ (new <=> o \in DOMAIN have[c])
  /\ q > 0 => Landed(c, o, q, new)

\* Node and client agree on how much has arrived of the object at the head, and
\* on the file.
LEMMA InArrival ==
  ASSUME Typed, Known, Own, NEW c \in Users \ disturbed, NEW h \in Hosts(c), phase[c] = "pool", task[c][h] = "download",
         NEW n, n = Node(c, h), NEW s, s = Sess(c, h), s.src # <<>>, NEW o, o = Head(s.src), Arriving(c, h, o)
  PROVE  /\ made[n][o] = c
         /\ \E q \in 0..Packets, new \in BOOLEAN :
              /\ Reader(n, s).pos = q /\ ~Reader(n, s).void /\ Reader(n, s).of = o
              /\ Landing(c, h, o, q, new)
<1>1. n \in Nodes /\ Id(c, h) \in Ids /\ Packets \in Nat
  BY InputFacts, NoneElse DEF Typed, ClientTyped
<1>2. s.src \in Seq(Files)
  BY <1>1, SessionFields DEF Sess, Typed
<1>3. 1 \in DOMAIN s.src /\ o = s.src[1]
  BY <1>2, SeqFacts
<1>4. Placed(c, h)
  BY TaskPhases DEF Placed, Ended
<1>5. SrcMine(c, h) /\ AppMine(c, h)
  BY <1>4 DEF Own, OwnNode
<1>6. o[1] = Work(c).dir /\ o \in DOMAIN made[n] /\ made[n][o] = c /\ s.app = Work(c).dir
  BY <1>3, <1>5 DEF SrcMine
<1>7. cwd[n] = o[1]
  <2>1. Work(c).dir # "none"
    BY WorkFacts, NoneElse DEF Typed
  <2>2. ~Stuck(c, h)
    BY <1>6 DEF Stuck
  <2>3. AtHome(c, h)
    BY <1>5, <1>6, <2>1, <2>2 DEF AppMine
  <2> QED
    BY <1>6, <2>3 DEF AtHome
<1>8. CASE s.reader = <<>> /\ writer[c][h] = <<>> /\ o \notin DOMAIN fresh[c]
  <2>1. PICK v : v = (o \notin DOMAIN made[n] \/ cwd[n] # o[1])
    OBVIOUS
  <2>2. Reader(n, s).pos = 0 /\ ~Reader(n, s).void /\ Reader(n, s).of = o
    <3>1. Reader(n, s) = [of |-> o, pos |-> 0, void |-> v]
      BY <1>8, <2>1 DEF Reader
    <3>2. ~v
      BY <1>6, <1>7, <2>1
    <3> QED
      BY <3>1, <3>2
  <2>3. PICK new : new = (o \in DOMAIN have[c])
    OBVIOUS
  <2>4. /\ WriterOf(c, h, o) = [file |-> o, new |-> new] /\ new \in BOOLEAN
        /\ (new <=> o \in DOMAIN have[c])
    <3>1. WriterOf(c, h, o) = Target(c, o)
      BY <1>8 DEF WriterOf
    <3>2. Target(c, o) = [file |-> o, new |-> new]
      BY <2>3 DEF Target
    <3>3. new \in BOOLEAN
      BY <2>3
    <3>4. new <=> o \in DOMAIN have[c]
      BY <2>3
    <3> QED
      BY <3>1, <3>2, <3>3, <3>4
  <2>5. /\ Reader(n, s).pos = 0 /\ ~Reader(n, s).void /\ Reader(n, s).of = o
        /\ WriterOf(c, h, o) = [file |-> o, new |-> new]
        /\ (writer[c][h] = <<>> <=> 0 = 0)
        /\ 0 = 0 => o \notin DOMAIN fresh[c] /\ (new <=> o \in DOMAIN have[c])
    BY <1>8, <2>2, <2>4
  <2>6. 0 \in 0..Packets /\ ~(0 > 0)
    BY <1>1
  <2>7. PICK q : q = 0
    OBVIOUS
  <2>8. /\ Reader(n, s).pos = q /\ ~Reader(n, s).void /\ Reader(n, s).of = o
        /\ WriterOf(c, h, o) = [file |-> o, new |-> new]
        /\ (writer[c][h] = <<>> <=> q = 0)
        /\ q = 0 => o \notin DOMAIN fresh[c] /\ (new <=> o \in DOMAIN have[c])
        /\ q > 0 => Landed(c, o, q, new)
    BY <2>5, <2>6, <2>7
  <2>10. Landing(c, h, o, q, new)
    BY <2>8 DEF Landing
  <2>9. q \in 0..Packets /\ new \in BOOLEAN
    BY <2>4, <2>6, <2>7
  <2> QED
    BY <1>6, <2>8, <2>9, <2>10
<1>9. CASE ~(s.reader = <<>> /\ writer[c][h] = <<>> /\ o \notin DOMAIN fresh[c])
  <2>1. PICK q \in 1..Packets, new \in BOOLEAN :
          /\ s.reader = <<[of |-> o, pos |-> q, void |-> FALSE]>> /\ writer[c][h] = <<[file |-> o, new |-> new]>>
          /\ IF new THEN o \in DOMAIN fresh[c] /\ fresh[c][o] = Prefix(o, q, c)
             ELSE o \notin DOMAIN fresh[c] /\ o \in DOMAIN have[c] /\ have[c][o] = Prefix(o, q, c)
    BY <1>9 DEF Arriving
  <2>2. Reader(n, s) = [of |-> o, pos |-> q, void |-> FALSE]
    BY <2>1 DEF Reader
  <2>3. WriterOf(c, h, o) = [file |-> o, new |-> new] /\ writer[c][h] # <<>>
    BY <2>1 DEF WriterOf
  <2>4. Landed(c, o, q, new)
    BY <2>1 DEF Landed
  <2>5. q \in 0..Packets /\ q # 0
    BY <1>1
  <2>6. Reader(n, s).pos = q /\ ~Reader(n, s).void /\ Reader(n, s).of = o
    BY <2>2
  <2>7. Landing(c, h, o, q, new)
    BY <2>3, <2>4, <2>5 DEF Landing
  <2> QED
    BY <1>6, <2>5, <2>6, <2>7
<1> QED
  BY <1>8, <1>9

\* An answer that came adds its packet to that file, and to no other.
LEMMA OneMore ==
  ASSUME NEW c \in Users, NEW h \in Hosts(c), NEW b, DownloadClient(c, h, b), task'[c][h] # "threw",
         NEW q \in Nat, NEW new, Landing(c, h, b.file, q, new), NEW e \in Nat,
         \/ e = q + 1 /\ b.data = <<Chunk(b.file, q + 1, c)>>
         \/ e = q /\ b.data = <<>>
  PROVE  /\ Only(c, {b.file}) /\ Landed(c, b.file, e, new)'
         /\ task'[c][h] = IF b.left > 0 THEN "download" ELSE "end"
         /\ writer'[c][h] = IF b.last THEN <<>> ELSE <<WriterOf(c, h, b.file)>>
<1> DEFINE o == b.file
<1>0. /\ WriterOf(c, h, o) = [file |-> o, new |-> new]
      /\ (writer[c][h] = <<>> <=> q = 0)
      /\ q = 0 => o \notin DOMAIN fresh[c] /\ (new <=> o \in DOMAIN have[c])
      /\ q > 0 => Landed(c, o, q, new)
  BY DEF Landing
<1>1. PICK w : w = [file |-> o, new |-> new]
  OBVIOUS
<1>2. w.file = o /\ w.new = new /\ WriterOf(c, h, b.file) = w
  BY <1>0, <1>1
<1>3. PICK opening : opening = (writer[c][h] = <<>>)
  OBVIOUS
<1>4. /\ task'[c][h] = IF b.left > 0 THEN "download" ELSE "end"
      /\ writer'[c][h] = IF b.last THEN <<>> ELSE <<w>>
      /\ \/ new /\ fresh'[c] = Written(fresh[c], o, opening, b.data) /\ have' = have
         \/ ~new /\ have'[c] = Written(have[c], o, opening, b.data) /\ fresh' = fresh
  BY <1>2, <1>3 DEF DownloadClient
<1>5. /\ <<>> \o b.data = Prefix(o, e, c) \/ ~opening
      /\ Prefix(o, q, c) \o b.data = Prefix(o, e, c)
  <2>1. CASE e = q + 1 /\ b.data = <<Chunk(o, q + 1, c)>>
    <3>0. Prefix(o, q, c) \o <<Chunk(o, q + 1, c)>> = Prefix(o, q + 1, c)
      BY PrefixFacts
    <3>1. Prefix(o, q, c) \o b.data = Prefix(o, e, c)
      BY <2>1, <3>0
    <3>2. q = 0 => Prefix(o, q, c) = <<>>
      BY PrefixFacts
    <3> QED
      BY <1>0, <1>3, <3>1, <3>2
  <2>2. CASE e = q /\ b.data = <<>>
    <3>1. Prefix(o, q, c) \o b.data = Prefix(o, e, c)
      BY <2>2, PrefixFacts
    <3>2. q = 0 => Prefix(o, q, c) = <<>>
      BY PrefixFacts
    <3> QED
      BY <1>0, <1>3, <3>1, <3>2
  <2> QED
    BY <2>1, <2>2
<1>6. q > 0 \/ opening
  <2>1. q > 0 \/ q = 0
    OBVIOUS
  <2> QED
    BY <1>0, <1>3, <2>1
<1>7. CASE new /\ fresh'[c] = Written(fresh[c], o, opening, b.data) /\ have' = have
  <2>1. (IF opening THEN <<>> ELSE fresh[c][o]) \o b.data = Prefix(o, e, c)
    BY <1>0, <1>3, <1>5, <1>6, <1>7 DEF Landed
  <2>2. fresh'[c] = Put(fresh[c], o, Prefix(o, e, c))
    BY <1>7, <2>1 DEF Written
  <2>3. /\ DOMAIN fresh'[c] = DOMAIN fresh[c] \cup {o} /\ fresh'[c][o] = Prefix(o, e, c)
        /\ \A y \in DOMAIN fresh[c] : y # o => fresh'[c][y] = fresh[c][y]
    <3>1. PICK f, v, g : f = fresh[c] /\ v = Prefix(o, e, c) /\ g = Put(f, o, v)
      OBVIOUS
    <3>2. DOMAIN g = DOMAIN f \cup {o} /\ g[o] = v /\ \A y \in DOMAIN f : y # o => g[y] = f[y]
      <4>1. g = Put(f, o, v)
        BY <3>1
      <4> QED
        BY <4>1 DEF Put
    <3>3. fresh'[c] = g
      BY <2>2, <3>1
    <3>4. DOMAIN fresh'[c] = DOMAIN f \cup {o} /\ fresh'[c][o] = v /\ \A y \in DOMAIN f : y # o => fresh'[c][y] = f[y]
      BY <3>2, <3>3
    <3> QED
      BY <3>1, <3>4
  <2>4. Only(c, {o})
    BY <1>7, <2>3 DEF Only
  <2>5. Landed(c, o, e, new)'
    BY <1>7, <2>3 DEF Landed
  <2> QED
    BY <1>2, <1>4, <2>4, <2>5
<1>8. CASE ~new /\ have'[c] = Written(have[c], o, opening, b.data) /\ fresh' = fresh
  <2>1. (IF opening THEN <<>> ELSE have[c][o]) \o b.data = Prefix(o, e, c)
    BY <1>0, <1>3, <1>5, <1>6, <1>8 DEF Landed
  <2>2. have'[c] = Put(have[c], o, Prefix(o, e, c))
    BY <1>8, <2>1 DEF Written
  <2>3. /\ DOMAIN have'[c] = DOMAIN have[c] \cup {o} /\ have'[c][o] = Prefix(o, e, c)
        /\ \A y \in DOMAIN have[c] : y # o => have'[c][y] = have[c][y]
    <3>1. PICK f, v, g : f = have[c] /\ v = Prefix(o, e, c) /\ g = Put(f, o, v)
      OBVIOUS
    <3>2. DOMAIN g = DOMAIN f \cup {o} /\ g[o] = v /\ \A y \in DOMAIN f : y # o => g[y] = f[y]
      <4>1. g = Put(f, o, v)
        BY <3>1
      <4> QED
        BY <4>1 DEF Put
    <3>3. have'[c] = g
      BY <2>2, <3>1
    <3>4. DOMAIN have'[c] = DOMAIN f \cup {o} /\ have'[c][o] = v /\ \A y \in DOMAIN f : y # o => have'[c][y] = f[y]
      BY <3>2, <3>3
    <3> QED
      BY <3>1, <3>4
  <2>4. o \notin DOMAIN fresh[c]
    BY <1>0, <1>3, <1>6, <1>8 DEF Landed
  <2>5. Landed(c, o, e, new)'
    BY <1>8, <2>3, <2>4 DEF Landed
  <2>6. Only(c, {o})
    BY <1>8, <2>3 DEF Only
  <2> QED
    BY <1>2, <1>4, <2>5, <2>6
<1> QED
  BY <1>4, <1>7, <1>8

\* The session of the download before and after it, and the Blob.
Fetched(n, s, t, b) ==
  LET r == Reader(n, s) IN
  \/ /\ ~r.void /\ r.pos < Packets /\ t.src = s.src
     /\ t.reader = <<[of |-> r.of, pos |-> r.pos + 1, void |-> FALSE]>>
     /\ b.data = <<Chunk(r.of, r.pos + 1, made[n][r.of])>> /\ b.left = Len(s.src) /\ b.last = FALSE
  \/ /\ r.void \/ r.pos >= Packets
     /\ t.src = Tail(s.src) /\ t.reader = <<>>
     /\ b.data = <<>> /\ b.left = Len(Tail(s.src)) /\ b.last = TRUE

\* The client of the download: the object at the head gets a packet or is
\* complete; what has arrived of the others stays.
LEMMA DownloadOwnObjects ==
  ASSUME Typed, Known, Own, ObjectsDone, NEW c \in Users \ disturbed, NEW h \in Hosts(c),
         NEW n, n = Node(c, h), NEW s, s = Sess(c, h), NEW t, t = Sess(c, h)', NEW b,
         phase[c] = "pool", task[c][h] = "download", s.src # <<>>, task'[c][h] # "threw",
         UNCHANGED <<in, phase, app, share, local>>, TaskStep(c, h),
         \A g \in Hosts(c) : g # h => Sess(c, g)' = Sess(c, g) /\ writer'[c][g] = writer[c][g],
         b.file = Head(s.src), DownloadClient(c, h, b), Fetched(n, s, t, b)
  PROVE  ObjectsAt(c)'
<1>1. OthersBatches(c) /\ RestDone(c) /\ \A g \in Hosts(c) : PartDone(c, g)
  BY DEF ObjectsDone, ObjectsAt
<1>2. PICK f, S : f = share[c][h] /\ S = Size(c)
  OBVIOUS
<1>3. h <= Threads(c) /\ f = Part(c, h, S) /\ Len(f) = S /\ f \in Seq(Files) /\ DOMAIN f = 1..S /\ S \in Nat
  <2>1. h <= Threads(c)
    BY TaskPhases
  <2>2. share[c][h] = Part(c, h, Size(c))
    BY <2>1 DEF Own, Shared
  <2>3. f \in Seq(Files) /\ Len(f) = S
    BY <1>2, <2>1, <2>2, PartFacts DEF Typed
  <2> QED
    BY <1>2, <2>1, <2>2, <2>3
<1>4. PICK p \in 0..S :
        /\ p < S /\ Len(s.src) = S - p
        /\ \A j \in 1..Len(s.src) : s.src[j] = f[p + j]
        /\ \A j \in 1..p : Good(c, f[j])
        /\ \A j \in (p + 2)..S : f[j] \notin DOMAIN fresh[c]
        /\ Arriving(c, h, f[p + 1])
  <2>1. Progress(c, h)
    BY <1>1 DEF PartDone
  <2> QED
    BY <1>2, <1>3, <2>1 DEF Progress
<1>5. s.src \in Seq(Files)
  BY InputFacts, SessionFields DEF Sess, Typed, ClientTyped
<1>6. PICK o : o = f[p + 1]
  OBVIOUS
<1>7. p + 1 \in 1..S /\ o = Head(s.src) /\ b.file = o /\ Arriving(c, h, o)
  <2>1. p + 1 \in 1..S
    BY <1>3, <1>4
  <2>2. 1 \in 1..Len(s.src) /\ Head(s.src) = s.src[1]
    BY <1>5, SeqFacts
  <2>3. s.src[1] = f[p + 1]
    BY <1>4, <2>2
  <2>4. Arriving(c, h, f[p + 1])
    BY <1>4
  <2> QED
    BY <1>6, <2>1, <2>2, <2>3, <2>4 DEF Arriving
<1>8. made[n][o] = c
  BY <1>7, InArrival
<1>9. PICK q \in 0..Packets, new \in BOOLEAN :
        /\ Reader(n, s).pos = q /\ ~Reader(n, s).void /\ Reader(n, s).of = o
        /\ Landing(c, h, o, q, new)
  BY <1>7, InArrival
<1>10. Packets \in Nat /\ q \in Nat
  BY NoneElse
<1>11. PICK e \in Nat :
         \/ /\ q < Packets /\ e = q + 1 /\ t.src = s.src /\ t.reader = <<[of |-> o, pos |-> e, void |-> FALSE]>>
            /\ b.data = <<Chunk(o, q + 1, c)>> /\ b.left = Len(s.src) /\ b.last = FALSE
         \/ /\ q = Packets /\ e = q /\ t.src = Tail(s.src) /\ t.reader = <<>>
            /\ b.data = <<>> /\ b.left = Len(Tail(s.src)) /\ b.last = TRUE
  <2>1. PICK r : r = Reader(n, s)
    OBVIOUS
  <2>2. r.pos = q /\ ~r.void /\ r.of = o
    BY <1>9, <2>1
  <2>3. \/ /\ q < Packets /\ t.src = s.src /\ t.reader = <<[of |-> o, pos |-> q + 1, void |-> FALSE]>>
           /\ b.data = <<Chunk(o, q + 1, c)>> /\ b.left = Len(s.src) /\ b.last = FALSE
        \/ /\ q >= Packets /\ t.src = Tail(s.src) /\ t.reader = <<>>
           /\ b.data = <<>> /\ b.left = Len(Tail(s.src)) /\ b.last = TRUE
    <3>1. \/ /\ ~r.void /\ r.pos < Packets /\ t.src = s.src
             /\ t.reader = <<[of |-> r.of, pos |-> r.pos + 1, void |-> FALSE]>>
             /\ b.data = <<Chunk(r.of, r.pos + 1, made[n][r.of])>> /\ b.left = Len(s.src) /\ b.last = FALSE
          \/ /\ r.void \/ r.pos >= Packets
             /\ t.src = Tail(s.src) /\ t.reader = <<>>
             /\ b.data = <<>> /\ b.left = Len(Tail(s.src)) /\ b.last = TRUE
      BY <2>1 DEF Fetched
    <3> QED
      BY <1>8, <2>2, <3>1
  <2>4. q >= Packets => q = Packets
    BY <1>10
  <2>5. q + 1 \in Nat
    BY <1>10
  <2> QED
    BY <1>10, <2>3, <2>4, <2>5
<1>12. /\ Only(c, {o}) /\ Landed(c, o, e, new)'
       /\ task'[c][h] = IF b.left > 0 THEN "download" ELSE "end"
       /\ writer'[c][h] = IF b.last THEN <<>> ELSE <<[file |-> o, new |-> new]>>
  <2>1. \/ e = q + 1 /\ b.data = <<Chunk(o, q + 1, c)>>
        \/ e = q /\ b.data = <<>>
    BY <1>11
  <2>2. Landing(c, h, o, q, new)
    BY <1>9
  <2>3. c \in Users /\ b.file = o /\ q \in Nat /\ e \in Nat /\ new \in BOOLEAN
    BY <1>7, <1>9, <1>10, <1>11
  <2>4. Landing(c, h, b.file, q, new)
    BY <2>2, <2>3
  <2>5. \/ e = q + 1 /\ b.data = <<Chunk(b.file, q + 1, c)>>
        \/ e = q /\ b.data = <<>>
    BY <2>1, <2>3
  <2>6. /\ Only(c, {b.file}) /\ Landed(c, b.file, e, new)'
        /\ task'[c][h] = IF b.left > 0 THEN "download" ELSE "end"
        /\ writer'[c][h] = IF b.last THEN <<>> ELSE <<WriterOf(c, h, b.file)>>
    BY <2>3, <2>4, <2>5, OneMore
  <2>7. Only(c, {o}) /\ Landed(c, o, e, new)'
    BY <2>3, <2>6 DEF Only, Landed
  <2>8. WriterOf(c, h, b.file) = [file |-> o, new |-> new]
    BY <2>2, <2>3 DEF Landing
  <2> QED
    BY <2>6, <2>7, <2>8
<1>13. /\ \A j \in 1..S : f[j] = o => j = p + 1
       /\ \A g \in Hosts(c) : g # h => \A j \in DOMAIN share[c][g] : share[c][g][j] # o
       /\ o \notin Rest(c)
       /\ \A k, i : Object(c, k, i) = o => k = app[c]
  <2>1. /\ \A k \in 1..S : k # p + 1 => o # f[k]
        /\ \A g \in Hosts(c) : g # h /\ g <= Threads(c) => \A k \in 1..S : o # Part(c, g, S)[k]
        /\ o \notin Rest(c)
        /\ \A k, i : o = Object(c, k, i) => k = app[c]
    <3>1. PICK j : j = p + 1
      OBVIOUS
    <3>2. j \in 1..Size(c) /\ h <= Threads(c) /\ ClientTyped
      BY <1>2, <1>3, <1>7, <3>1 DEF Typed
    <3>3. /\ \A k \in 1..Size(c) : k # j => Part(c, h, Size(c))[j] # Part(c, h, Size(c))[k]
          /\ \A g \in Hosts(c) : g # h /\ g <= Threads(c) => \A k \in 1..Size(c) :
               Part(c, h, Size(c))[j] # Part(c, g, Size(c))[k]
          /\ Part(c, h, Size(c))[j] \notin Rest(c)
          /\ \A k, i : Part(c, h, Size(c))[j] = Object(c, k, i) => k = app[c]
      BY <3>2, PartsApart
    <3>4. f = Part(c, h, S) /\ o = f[j] /\ S = Size(c)
      BY <1>2, <1>3, <1>6, <3>1
    <3> QED
      BY <3>1, <3>3, <3>4
  <2>2. ASSUME NEW g \in Hosts(c), g # h, NEW j \in DOMAIN share[c][g]
        PROVE  share[c][g][j] # o
    <3>1. share[c][g] = IF g <= Threads(c) THEN Part(c, g, S) ELSE <<>>
      BY <1>2 DEF Own, Shared
    <3>2. CASE g <= Threads(c)
      <4>1. share[c][g] = Part(c, g, S)
        BY <3>1, <3>2
      <4>2. DOMAIN Part(c, g, S) = 1..S
        BY DEF Part
      <4>3. j \in 1..S
        BY <2>2, <4>1, <4>2
      <4>4. o # Part(c, g, S)[j]
        BY <2>1, <2>2, <3>2, <4>3
      <4> QED
        BY <4>1, <4>4
    <3>3. CASE ~(g <= Threads(c))
      BY <2>2, <3>1, <3>3
    <3> QED
      BY <3>2, <3>3
  <2> QED
    BY <2>1, <2>2
<1>14. OthersBatches(c)'
  <2>1. \A k, i : Object(c, k, i) \in {o} => k = app[c] /\ phase[c] = "pool"
    BY <1>13
  <2> QED
    BY <1>1, <1>12, <2>1, BatchesKept
<1>15. RestDone(c)'
  <2>1. \A x \in {o} : x \notin Rest(c)
    BY <1>13
  <2> QED
    BY <1>1, <1>12, <2>1, RestKept
<1>16. ASSUME NEW g \in Hosts(c), g # h
       PROVE  PartDone(c, g)'
  <2>1. task'[c][g] = task[c][g]
    BY <1>16 DEF TaskStep
  <2>2. \A j \in DOMAIN share[c][g] : share[c][g][j] \notin {o}
    BY <1>13, <1>16
  <2>3. Sess(c, g)' = Sess(c, g) /\ writer'[c][g] = writer[c][g]
    BY <1>16
  <2>4. PartDone(c, g)
    BY <1>1
  <2> QED
    BY <1>12, <2>1, <2>2, <2>3, <2>4, PartKept
<1>17. /\ \A j \in 1..p : Good(c, f[j])'
       /\ \A j \in (p + 2)..S : f[j] \notin DOMAIN fresh'[c]
  <2>1. ASSUME NEW j \in 1..p
        PROVE  Good(c, f[j])'
    <3>1. f[j] \notin {o}
      BY <1>3, <1>4, <1>13
    <3>2. PICK x : x = f[j]
      OBVIOUS
    <3>3. x \notin {o} /\ Good(c, x)
      BY <1>4, <3>1, <3>2
    <3>4. Good(c, x)'
      BY <1>12, <3>3, GoodKept
    <3> QED
      BY <3>2, <3>4
  <2>2. ASSUME NEW j \in (p + 2)..S
        PROVE  f[j] \notin DOMAIN fresh'[c]
    <3>1. f[j] \notin {o}
      BY <1>3, <1>4, <1>13
    <3> QED
      BY <1>4, <1>12, <3>1 DEF Only
  <2> QED
    BY <2>1, <2>2
<1>18. share'[c][h] = f
  BY <1>2
<1>19. CASE q < Packets
  <2>1. /\ e = q + 1 /\ t.src = s.src /\ t.reader = <<[of |-> o, pos |-> e, void |-> FALSE]>>
        /\ b.left = Len(s.src) /\ b.last = FALSE
    BY <1>10, <1>11, <1>19
  <2>2. Len(s.src) > 0 /\ e \in 1..Packets
    BY <1>3, <1>4, <1>10, <1>19, <2>1
  <2>3. task'[c][h] = "download" /\ writer'[c][h] = <<[file |-> o, new |-> new]>>
    BY <1>12, <2>1, <2>2
  <2>4. Arriving(c, h, o)'
    <3>1. Sess(c, h)'.reader = <<[of |-> o, pos |-> e, void |-> FALSE]>>
      BY <2>1
    <3>2. IF new THEN o \in DOMAIN fresh'[c] /\ fresh'[c][o] = Prefix(o, e, c)
          ELSE o \notin DOMAIN fresh'[c] /\ o \in DOMAIN have'[c] /\ have'[c][o] = Prefix(o, e, c)
      BY <1>12 DEF Landed
    <3> QED
      BY <2>2, <2>3, <3>1, <3>2 DEF Arriving
  <2>5. Progress(c, h)'
    <3>1. Sess(c, h)'.src = s.src
      BY <2>1
    <3>2. Arriving(c, h, share[c][h][p + 1])'
      BY <1>6, <1>18, <2>4 DEF Arriving
    <3>3. \A j \in 1..p : Good(c, share[c][h][j])'
      BY <1>17, <1>18 DEF Good, Result
    <3>4. /\ p \in 0..Len(f) /\ p < Len(f) /\ Len(s.src) = Len(f) - p
          /\ \A j \in 1..Len(s.src) : s.src[j] = f[p + j]
          /\ \A j \in (p + 2)..Len(f) : f[j] \notin DOMAIN fresh'[c]
      BY <1>3, <1>4, <1>17
    <3>5. PICK r : r = s.src
      OBVIOUS
    <3>6. /\ p \in 0..Len(f) /\ p < Len(f) /\ Len(r) = Len(f) - p
          /\ \A j \in 1..Len(r) : r[j] = f[p + j]
          /\ Sess(c, h)'.src = r
      BY <3>1, <3>4, <3>5
    <3> QED
      BY <1>18, <3>2, <3>3, <3>4, <3>6 DEF Progress
  <2>6. PartDone(c, h)'
    BY <2>3, <2>5 DEF PartDone
  <2> QED
    BY <1>14, <1>15, <1>16, <2>6, InputKept DEF ObjectsAt
<1>20. CASE q = Packets
  <2>1. /\ e = Packets /\ t.src = Tail(s.src) /\ t.reader = <<>>
        /\ b.left = Len(Tail(s.src)) /\ b.last = TRUE
    BY <1>10, <1>11, <1>20
  <2>2. writer'[c][h] = <<>> /\ task'[c][h] = IF Len(Tail(s.src)) > 0 THEN "download" ELSE "end"
    BY <1>12, <2>1
  <2>3. Len(Tail(s.src)) = S - (p + 1) /\ \A j \in 1..Len(Tail(s.src)) : Tail(s.src)[j] = f[(p + 1) + j]
    <3>1. Len(Tail(s.src)) = Len(s.src) - 1
      BY <1>5, SeqFacts
    <3>2. Len(Tail(s.src)) = S - (p + 1)
      BY <1>3, <1>4, <3>1
    <3>3. ASSUME NEW j \in 1..Len(Tail(s.src))
          PROVE  Tail(s.src)[j] = f[(p + 1) + j]
      <4>1. Tail(s.src)[j] = s.src[j + 1]
        BY <1>5, SeqFacts
      <4>2. j + 1 \in 1..Len(s.src) /\ p + (j + 1) = (p + 1) + j
        BY <1>3, <1>4, <3>2
      <4>3. s.src[j + 1] = f[p + (j + 1)]
        BY <1>4, <4>2
      <4> QED
        BY <4>1, <4>2, <4>3
    <3> QED
      BY <3>2, <3>3
  <2>4. Good(c, o)'
    <3>1. Prefix(o, e, c) = Whole(o, c)
      BY <2>1 DEF Prefix, Whole
    <3> QED
      BY <1>12, <3>1 DEF Landed, Good, Result
  <2>5. \A j \in 1..(p + 1) : Good(c, f[j])'
    <3>1. \A j \in 1..(p + 1) : j \in 1..p \/ j = p + 1
      BY <1>4
    <3> QED
      BY <1>6, <1>17, <2>4, <3>1
  <2>6. CASE Len(Tail(s.src)) > 0
    <3>1. p + 1 \in 0..S /\ p + 1 < S
      BY <1>3, <1>4, <2>3, <2>6
    <3>2. PICK x : x = f[(p + 1) + 1]
      OBVIOUS
    <3>3. x \notin DOMAIN fresh'[c]
      <4>1. (p + 1) + 1 \in (p + 2)..S
        BY <1>3, <1>4, <3>1
      <4> QED
        BY <1>17, <3>2, <4>1
    <3>4. Arriving(c, h, x)'
      BY <2>1, <2>2, <3>3 DEF Arriving
    <3>5. \A j \in ((p + 1) + 2)..S : f[j] \notin DOMAIN fresh'[c]
      <4>1. \A j \in ((p + 1) + 2)..S : j \in (p + 2)..S
        BY <1>3, <1>4
      <4> QED
        BY <1>17, <4>1
    <3>6. PICK l, r : l = p + 1 /\ r = Tail(s.src)
      OBVIOUS
    <3>7. /\ l \in 0..Len(f) /\ l < Len(f) /\ Len(r) = Len(f) - l /\ \A j \in 1..Len(r) : r[j] = f[l + j]
          /\ \A j \in (l + 2)..Len(f) : f[j] \notin DOMAIN fresh'[c]
          /\ x = f[l + 1]
      BY <1>3, <2>3, <3>1, <3>2, <3>5, <3>6
    <3>8. \A j \in 1..l : Good(c, f[j])'
      BY <2>5, <3>6
    <3>9. Sess(c, h)'.src = r
      BY <2>1, <3>6
    <3>10. Progress(c, h)'
      <4>1. Arriving(c, h, share[c][h][l + 1])'
        BY <1>18, <3>4, <3>7 DEF Arriving
      <4>2. \A j \in 1..l : Good(c, share[c][h][j])'
        BY <1>18, <3>8 DEF Good, Result
      <4> QED
        BY <1>18, <3>7, <3>9, <4>1, <4>2 DEF Progress
    <3>11. task'[c][h] = "download"
      BY <2>2, <2>6
    <3>12. PartDone(c, h)'
      BY <2>2, <3>10, <3>11 DEF PartDone
    <3> QED
      BY <1>14, <1>15, <1>16, <3>12, InputKept DEF ObjectsAt
  <2>7. CASE ~(Len(Tail(s.src)) > 0)
    <3>1. p + 1 = S
      <4>1. Len(Tail(s.src)) = S - (p + 1)
        BY <2>3
      <4>2. PICK l : l = Len(Tail(s.src))
        OBVIOUS
      <4> QED
        BY <1>3, <1>4, <2>7, <4>1, <4>2
    <3>2. task'[c][h] = "end"
      BY <2>2, <2>7
    <3>3. \A j \in DOMAIN share'[c][h] : Good(c, f[j])'
      BY <1>3, <1>18, <2>5, <3>1
    <3>4. \A j \in DOMAIN share'[c][h] : Good(c, share[c][h][j])'
      BY <1>18, <3>3 DEF Good, Result
    <3>5. PartDone(c, h)'
      BY <2>2, <3>2, <3>4 DEF PartDone
    <3> QED
      BY <1>14, <1>15, <1>16, <3>5, InputKept DEF ObjectsAt
  <2> QED
    BY <2>6, <2>7
<1> QED
  BY <1>10, <1>19, <1>20

\* A round of the loop that downloads.
LEMMA DownloadObjects ==
  ASSUME Typed, Known, Own, ObjectsDone, NEW c \in Users, NEW h \in Hosts(c), Download(c, h)
  PROVE  ObjectsDone'
<1>1. PICK n, i, b : n = Node(c, h) /\ i = Id(c, h) /\ b = Blob(n, sess[n][i])
  OBVIOUS
<1>2. /\ n \in Nodes /\ i \in Ids /\ phase[c] = "pool" /\ task[c][h] = "download" /\ sess[n][i].src # <<>>
      /\ UNCHANGED <<in, phase, app, share, local, made, disturbed>>
      /\ DownloadNode(n, i, b) /\ DownloadClient(c, h, b)
  BY <1>1, DownloadFacts DEF Typed, history
<1>3. /\ TaskStep(c, h) /\ SessStep(n, i)
      /\ OneClient(c, writer, writer') /\ OneClient(c, have, have') /\ OneClient(c, fresh, fresh')
      /\ \A g \in Hosts(c) : g # h => writer'[c][g] = writer[c][g]
  BY <1>2 DEF DownloadNode, DownloadClient
<1>4. /\ \A x, g : Node(x, g)' = Node(x, g) /\ Id(x, g)' = Id(x, g)
      /\ Users' = Users /\ \A x : Hosts(x)' = Hosts(x) /\ Threads(x)' = Threads(x)
      /\ \A x \in Users : \A g \in Hosts(x) : Node(x, g) \in Nodes /\ Id(x, g) \in Ids
      /\ \A g \in Hosts(c) : Node(c, g) = n /\ Id(c, g) = i => g = h
  BY <1>1, <1>2, InputKept, InputFacts DEF Typed, ClientTyped
<1>5. ASSUME NEW x \in Users, NEW g \in Hosts(x), Node(x, g) # n \/ Id(x, g) # i
      PROVE  Sess(x, g)' = Sess(x, g)
  <2>1. PICK m, j : m = Node(x, g) /\ j = Id(x, g)
    OBVIOUS
  <2>2. m \in Nodes /\ j \in Ids /\ (m # n \/ j # i)
    BY <1>4, <1>5, <2>1
  <2>3. sess'[m][j] = sess[m][j]
    BY <1>3, <2>2 DEF SessStep
  <2> QED
    BY <1>4, <2>1, <2>3 DEF Sess
<1>6. Placed(c, h) /\ Turned(c, n)
  <2>1. Placed(c, h)
    BY <1>2, TaskPhases DEF Placed, Ended
  <2> QED
    BY <1>1, <2>1 DEF Turned
<1>7. ASSUME NEW x \in Users \ disturbed, x # c
      PROVE  ObjectsAt(x)'
  <2>1. /\ task'[x] = task[x] /\ writer'[x] = writer[x] /\ have'[x] = have[x] /\ fresh'[x] = fresh[x]
    BY <1>3, <1>7 DEF TaskStep, OneClient
  <2>2. ASSUME phase[x] = "pool", NEW g \in Hosts(x), task[x][g] = "download"
        PROVE  Sess(x, g)' = Sess(x, g)
    <3>1. Placed(x, g)
      BY <2>2, TaskPhases DEF Placed, Ended
    <3>2. Node(x, g) # n
      BY <1>6, <1>7, <3>1, AloneThere
    <3> QED
      BY <1>5, <3>2
  <2>3. ObjectsAt(x)
    BY DEF ObjectsDone
  <2> QED
    BY <1>2, <2>1, <2>2, <2>3, ObjectsKept
<1>8. ASSUME c \notin disturbed
      PROVE  ObjectsAt(c)'
  <2>1. \A g \in Hosts(c) : g # h => Sess(c, g)' = Sess(c, g)
    BY <1>2, <1>4, <1>5
  <2>2. \A g \in Hosts(c) : g # h => task'[c][g] = task[c][g]
    BY <1>3 DEF TaskStep
  <2>3. CASE task'[c][h] = "threw"
    <3>1. writer' = writer /\ have' = have /\ fresh' = fresh
      BY <1>2, <2>3 DEF DownloadClient
    <3>2. ObjectsAt(c)
      BY <1>8 DEF ObjectsDone
    <3> QED
      BY <1>2, <2>1, <2>2, <2>3, <3>1, <3>2, ObjectsKept
  <2>4. CASE task'[c][h] # "threw"
    <3>1. PICK s, t : s = Sess(c, h) /\ t = Sess(c, h)'
      OBVIOUS
    <3>2. s = sess[n][i] /\ t = sess'[n][i]
      BY <1>1, <1>4, <3>1 DEF Sess
    <3>3. b.file = Head(s.src) /\ s.src # <<>> /\ Fetched(n, s, t, b)
      BY <1>2, <3>2 DEF DownloadNode, Fetched
    <3>4. c \in Users \ disturbed
      BY <1>8
    <3>5. /\ phase[c] = "pool" /\ task[c][h] = "download" /\ UNCHANGED <<in, phase, app, share, local>>
          /\ TaskStep(c, h) /\ DownloadClient(c, h, b)
          /\ \A g \in Hosts(c) : g # h => Sess(c, g)' = Sess(c, g) /\ writer'[c][g] = writer[c][g]
      BY <1>2, <1>3, <2>1
    <3> QED
      BY <1>1, <2>4, <3>1, <3>3, <3>4, <3>5, DownloadOwnObjects
  <2> QED
    BY <2>3, <2>4
<1>9. \A x \in Users \ disturbed : ObjectsAt(x)'
  BY <1>7, <1>8
<1> QED
  BY <1>2, <1>4, <1>9 DEF ObjectsDone

LEMMA InitObjects ==
  ASSUME Init
  PROVE  ObjectsDone
<1>1. in \in Inputs
  BY DEF Init
<1>2. ASSUME NEW c \in Users
      PROVE  ObjectsAt(c)
  <2>1. /\ phase[c] = "ping" /\ app[c] = 1 /\ fresh[c] = NoFiles
        /\ \A h \in Hosts(c) : writer[c][h] = <<>>
    BY DEF Init
  <2>2. DOMAIN fresh[c] = {}
    BY <2>1 DEF NoFiles
  <2>3. \A k \in DOMAIN in[c].work : k \in Nat /\ k >= 1
    BY <1>1, InputFacts
  <2>4. OthersBatches(c)
    BY <2>1, <2>2, <2>3 DEF OthersBatches
  <2>5. RestDone(c) /\ \A h \in Hosts(c) : PartDone(c, h)
    BY <2>1 DEF RestDone, PartDone
  <2> QED
    BY <2>4, <2>5 DEF ObjectsAt
<1> QED
  BY <1>2 DEF ObjectsDone

LEMMA NextObjects ==
  ASSUME Typed, Known, Own, ObjectsDone, [Next]_vars
  PROVE  ObjectsDone'
<1>1. ASSUME NEW c \in Users, Main(c) \/ Killed(c)
      PROVE  ObjectsDone'
  BY <1>1, PingedObjects, SplitObjects, LocalCompileObjects, JoinObjects, LinkObjects, SentObjects, KilledObjects
     DEF Main
<1>2. ASSUME NEW c \in Users, NEW h \in Hosts(c), Exchange(c, h)
      PROVE  ObjectsDone'
  BY <1>2, UnansweredObjects, SetupObjects, CompileStartObjects, DownloadObjects, SendObjects DEF Exchange
<1>3. ASSUME NEW n \in Nodes, (\E r \in busy[n] : CompileEnd(n, r)) \/ Die(n) \/ Restart(n)
      PROVE  ObjectsDone'
  BY <1>3, CompileEndObjects, DieObjects, RestartObjects
<1>4. CASE UNCHANGED vars
  BY <1>4, StutterObjects
<1> QED
  BY <1>1, <1>2, <1>3, <1>4 DEF Next, Handler, Finished

LEMMA AlwaysComplete == Spec => [](Typed /\ Known /\ Own /\ ObjectsDone)
<1>1. Init => Typed /\ Known /\ Own /\ ObjectsDone
  BY InitTyped, InitMet, InitOwn, InitObjects
<1>2. (Typed /\ Known /\ Own /\ ObjectsDone) /\ [Next]_vars => (Typed /\ Known /\ Own /\ ObjectsDone)'
  BY NextMet, NextOwn, NextObjects
<1> QED
  BY <1>1, <1>2, PTL DEF Spec

-----------------------------------------------------------------------------
(* Binaries on their way to the nodes.                                     *)

\* A binary is on a node: beside an older one, or alone.
Arrived(c, n, b) == \E new \in BOOLEAN : LET w == <<b, new>> IN
  w \in DOMAIN bins[n] /\ bins[n][w] = disk[c][b]

\* It is linked, if it has to be, and on every host.
Delivered(c, k, t) == LET b == Binary(c, k, t) IN
  /\ b \in DOMAIN disk[c] /\ (t = 0 => disk[c][b] = Whole(b, c))
  /\ \A h \in Hosts(c) : Arrived(c, Node(c, h), b)

\* The binaries before the current one.
Past(c, k, t) == k < app[c] \/ (k = app[c] /\ t < out[c])

\* The current one will be there, once a host that writes it comes to an end.
First(c, q) == [j \in 1..q |-> Text(c)[j]]
Receives(c, h, w) == task[c][h] = "sending" /\ Sess(c, h).writer = <<[to |-> w, linked |-> TRUE]>>
Underway(c, n) == \E new \in BOOLEAN : LET w == <<Current(c), new>> IN
  /\ w \in DOMAIN bins[n]
  /\ \/ bins[n][w] = Text(c)
     \/ \E g \in Hosts(c) : Node(c, g) = n /\ Receives(c, g, w)

\* Where the packets of the current one are.
InTransit(c, h) ==
  /\ task[c][h] = "queued" => sent[c][h] = 0
  /\ task[c][h] = "sending" => \E new, linked \in BOOLEAN : LET w == <<Current(c), new>> IN
       /\ Sess(c, h).writer = <<[to |-> w, linked |-> linked]>>
       /\ linked => /\ w \in DOMAIN bins[Node(c, h)]
                    /\ bins[Node(c, h)][w] = First(c, sent[c][h])
  /\ task[c][h] \in {"sending", "end"} => Underway(c, Node(c, h))

GoesOn(c)  == phase[c] \in {"split", "pool", "link"} \/ (phase[c] = "send" /\ ~Threw(c))
Shipped(c) ==
  /\ phase[c] = "ping" => app[c] = 1 /\ out[c] = 0
  /\ GoesOn(c) => \A k \in DOMAIN in[c].work : \A t \in 0..in[c].work[k].tests :
       Past(c, k, t) => Delivered(c, k, t)
  /\ GoesOn(c) /\ phase[c] = "send" => \A h \in Hosts(c) : InTransit(c, h)

\* Of the writers on one file of a node only the last to open it is linked to it.
OneWriter == \A n \in Nodes : \A i, j \in Ids :
  LET s == sess[n][i].writer
      t == sess[n][j].writer IN
  i # j /\ s # <<>> /\ t # <<>> /\ s[1].linked /\ t[1].linked => s[1].to # t[1].to
Shipping == OneWriter /\ \A c \in Users \ (disturbed \cup cut) : Shipped(c)

\* What is a writer of a session once another opened its file.
Unlink(t, w) == IF t # <<>> /\ t[1].to = w THEN <<[to |-> w, linked |-> FALSE]>> ELSE t

\* One file of a node is new or has grown.
PutOn(f, g, w, v) == DOMAIN g = DOMAIN f \cup {w} /\ g[w] = v /\ \A y \in DOMAIN f : y # w => g[y] = f[y]

\* A packet of a binary, as it comes to a node.
Opened(n, i, file, data, last) == \E new \in BOOLEAN : LET w == <<file, new>> IN
  /\ PutOn(bins[n], bins'[n], w, <<>> \o data)
  /\ sess'[n][i].writer = IF last THEN <<>> ELSE <<[to |-> w, linked |-> TRUE]>>
  /\ \A j \in Ids : j # i => sess'[n][j].writer = Unlink(sess[n][j].writer, w)
Appended(n, i, data, last) == \E x \in Receivers :
  /\ sess[n][i].writer = <<x>>
  /\ IF x.linked THEN PutOn(bins[n], bins'[n], x.to, bins[n][x.to] \o data) ELSE bins'[n] = bins[n]
  /\ sess'[n][i].writer = IF last THEN <<>> ELSE <<x>>
  /\ \A j \in Ids : j # i => sess'[n][j].writer = sess[n][j].writer

LEMMA ReceivedWrites ==
  ASSUME ClientTyped, NodeTyped, NEW n \in Nodes, NEW i \in Ids, NEW c \in Users, NEW file,
         NEW data, NEW last \in BOOLEAN, Received(n, i, c, file, data, last)
  PROVE  /\ \A m \in Nodes : m # n => bins'[m] = bins[m]
         /\ IF sess[n][i].writer = <<>> THEN Opened(n, i, file, data, last) ELSE Appended(n, i, data, last)
<1> PICK f, F : f = sess[n] /\ F = bins[n]
  OBVIOUS
<1> DEFINE opening == f[i].writer = <<>>
           w == IF opening THEN [to |-> <<file, <<file, FALSE>> \in DOMAIN F>>, linked |-> TRUE] ELSE f[i].writer[1]
           U(s) == IF opening /\ s.writer # <<>> /\ s.writer[1].to = w.to
                   THEN [s EXCEPT !.writer = <<[@[1] EXCEPT !.linked = FALSE]>>] ELSE s
           S(s) == [s EXCEPT !.writer = IF last THEN <<>> ELSE <<w>>, !.users = @ \cup {c}]
<1>1. /\ bins' = [bins EXCEPT ![n] = IF w.linked THEN Put(@, w.to, (IF opening THEN <<>> ELSE @[w.to]) \o data) ELSE @]
      /\ sess' = [sess EXCEPT ![n] = [j \in Ids |-> IF j # i THEN U(f[j]) ELSE S(f[i])]]
  BY DEF Received
<1>2. /\ sess \in [Nodes -> [Ids -> Sessions]] /\ DOMAIN bins = Nodes
      /\ \A j \in Ids : f[j] \in Sessions /\ f[j].writer \in Opt(Receivers)
  BY SessionFields DEF NodeTyped
<1>3. \A j \in Ids : S(f[j]).writer = IF last THEN <<>> ELSE <<w>>
  <2> TAKE j \in Ids
  <2>1. PICK s, W, V : s = f[j] /\ W = (IF last THEN <<>> ELSE <<w>>) /\ V = s.users \cup {c}
    OBVIOUS
  <2>2. s \in Sessions
    BY <1>2, <2>1
  <2>3. S(s) = [s EXCEPT !.writer = W, !.users = V]
    BY <2>1
  <2>4. [s EXCEPT !.writer = W, !.users = V].writer = W
    BY <2>2 DEF Sessions
  <2> QED
    BY <2>1, <2>3, <2>4
<1>4. \A j \in Ids : U(f[j]).writer = IF opening THEN Unlink(f[j].writer, w.to) ELSE f[j].writer
  <2> TAKE j \in Ids
  <2>1. PICK s : s = f[j]
    OBVIOUS
  <2>2. CASE opening /\ s.writer # <<>> /\ s.writer[1].to = w.to
    <3>1. PICK x \in Receivers : s.writer = <<x>>
      BY <1>2, <2>1, <2>2 DEF Opt
    <3>2. PICK y : y = [x EXCEPT !.linked = FALSE]
      OBVIOUS
    <3>3. y = [to |-> x.to, linked |-> FALSE]
      BY <3>1, <3>2 DEF Receivers
    <3>4. PICK W : W = <<y>>
      OBVIOUS
    <3>5. U(s) = [s EXCEPT !.writer = W]
      BY <2>2, <3>1, <3>2, <3>4
    <3>6. [s EXCEPT !.writer = W].writer = W
      BY <1>2, <2>1 DEF Sessions
    <3>7. x.to = w.to
      BY <2>2, <3>1
    <3>8. Unlink(s.writer, w.to) = W
      BY <2>2, <3>3, <3>4, <3>7 DEF Unlink
    <3> QED
      BY <2>1, <2>2, <3>5, <3>6, <3>8
  <2>3. CASE ~(opening /\ s.writer # <<>> /\ s.writer[1].to = w.to)
    BY <2>1, <2>3 DEF Unlink
  <2> QED
    BY <2>2, <2>3
<1> HIDE DEF U, S
<1>5. PICK g : g = [j \in Ids |-> IF j # i THEN U(f[j]) ELSE S(f[i])]
  OBVIOUS
<1>6. sess'[n] = g
  BY <1>1, <1>2, <1>5
<1>7. /\ sess'[n][i].writer = IF last THEN <<>> ELSE <<w>>
      /\ \A j \in Ids : j # i =>
           sess'[n][j].writer = IF opening THEN Unlink(f[j].writer, w.to) ELSE f[j].writer
  <2>1. \A j \in Ids : sess'[n][j] = IF j # i THEN U(f[j]) ELSE S(f[i])
    BY <1>5, <1>6
  <2>2. sess'[n][i] = S(f[i]) /\ \A j \in Ids : j # i => sess'[n][j] = U(f[j])
    BY <2>1
  <2>3. sess'[n][i].writer = IF last THEN <<>> ELSE <<w>>
    BY <1>3, <2>2
  <2>4. ASSUME NEW j \in Ids, j # i
        PROVE  sess'[n][j].writer = IF opening THEN Unlink(f[j].writer, w.to) ELSE f[j].writer
    BY <1>4, <2>2, <2>4
  <2> QED
    BY <2>3, <2>4
<1>8. PICK v : v = (IF opening THEN <<>> ELSE F[w.to]) \o data
  OBVIOUS
<1>9. /\ \A m \in Nodes : m # n => bins'[m] = bins[m]
      /\ bins'[n] = IF w.linked THEN Put(F, w.to, v) ELSE F
  BY <1>1, <1>2, <1>8
<1>10. w.linked => PutOn(F, bins'[n], w.to, v)
  <2>1. Put(F, w.to, v)[w.to] = v /\ DOMAIN Put(F, w.to, v) = DOMAIN F \cup {w.to}
        /\ \A y \in DOMAIN F : y # w.to => Put(F, w.to, v)[y] = F[y]
    BY DEF Put
  <2> QED
    BY <1>9, <2>1 DEF PutOn
<1>11. CASE opening
  <2>1. PICK new : new = (<<file, FALSE>> \in DOMAIN F)
    OBVIOUS
  <2>2. new \in BOOLEAN
    BY <2>1
  <2>3. PICK t : t = <<file, new>>
    OBVIOUS
  <2>4. w = [to |-> t, linked |-> TRUE]
    BY <1>11, <2>1, <2>3
  <2>5. w.to = t /\ w.linked
    BY <2>4
  <2>6. v = <<>> \o data
    BY <1>8, <1>11
  <2> HIDE DEF w
  <2>7. /\ PutOn(bins[n], bins'[n], t, <<>> \o data)
        /\ sess'[n][i].writer = IF last THEN <<>> ELSE <<[to |-> t, linked |-> TRUE]>>
        /\ \A j \in Ids : j # i => sess'[n][j].writer = Unlink(sess[n][j].writer, t)
    BY <1>7, <1>10, <1>11, <2>4, <2>5, <2>6
  <2>8. Opened(n, i, file, data, last)
    BY <2>2, <2>3, <2>7 DEF Opened
  <2> QED
    BY <1>9, <1>11, <2>8
<1>12. CASE ~opening
  <2>1. PICK x \in Receivers : f[i].writer = <<x>>
    BY <1>2, <1>12 DEF Opt
  <2>2. w = x
    BY <1>12, <2>1
  <2>3. v = F[x.to] \o data
    BY <1>8, <1>12, <2>2
  <2> HIDE DEF w
  <2>4. Appended(n, i, data, last)
    BY <1>7, <1>9, <1>10, <1>12, <2>1, <2>2, <2>3 DEF Appended
  <2> QED
    BY <1>9, <1>12, <2>4
<1> QED
  BY <1>11, <1>12

\* A round of the loop that sends.
Packet(c, h) == IF sent[c][h] = Len(Text(c)) THEN <<>> ELSE <<Text(c)[sent[c][h] + 1]>>

\* What has been sent of a binary grows by its packets, to all of it.
LEMMA FirstFacts ==
  ASSUME NEW c, Text(c) \in Seq(Chunks)
  PROVE  /\ <<>> \o <<>> = First(c, 0) /\ First(c, Len(Text(c))) = Text(c)
         /\ \A q \in 0..Len(Text(c)) : First(c, q) \o <<>> = First(c, q)
         /\ \A q \in Nat : q < Len(Text(c)) => First(c, q) \o <<Text(c)[q + 1]>> = First(c, q + 1)
         /\ Len(Text(c)) > 0 => <<>> \o <<Text(c)[1]>> = First(c, 1)
<1> PICK T, l : T = Text(c) /\ l = Len(T)
  OBVIOUS
<1>1. T \in Seq(Chunks) /\ l \in Nat /\ T \in [1..l -> Chunks]
  OBVIOUS
<1>2. ASSUME NEW q \in Nat, q <= l
      PROVE  /\ First(c, q) \in Seq(Chunks) /\ Len(First(c, q)) = q
             /\ \A j \in 1..q : First(c, q)[j] = T[j]
  <2>1. First(c, q) = [j \in 1..q |-> T[j]]
    BY DEF First
  <2>2. First(c, q) \in [1..q -> Chunks]
    BY <1>1, <1>2, <2>1
  <2> QED
    BY <2>1, <2>2
<1>3. First(c, l) = T
  <2>1. First(c, l) = [j \in 1..l |-> T[j]]
    BY DEF First
  <2> QED
    BY <1>1, <2>1
<1>4. <<>> \o <<>> = First(c, 0)
  <2>1. Len(First(c, 0)) = 0 /\ First(c, 0) \in Seq(Chunks)
    BY <1>1, <1>2
  <2> QED
    BY <2>1
<1>5. ASSUME NEW q \in Nat, q <= l
      PROVE  First(c, q) \o <<>> = First(c, q)
  BY <1>2, <1>5
<1>6. ASSUME NEW q \in Nat, q < l
      PROVE  First(c, q) \o <<T[q + 1]>> = First(c, q + 1)
  <2>1. PICK F, G, x : F = First(c, q) /\ G = First(c, q + 1) /\ x = T[q + 1]
    OBVIOUS
  <2>2. /\ F \in Seq(Chunks) /\ Len(F) = q /\ \A j \in 1..q : F[j] = T[j]
        /\ G \in Seq(Chunks) /\ Len(G) = q + 1 /\ \A j \in 1..(q + 1) : G[j] = T[j]
    <3>1. q <= l /\ q + 1 \in Nat /\ q + 1 <= l
      BY <1>1, <1>6
    <3>2. /\ First(c, q) \in Seq(Chunks) /\ Len(First(c, q)) = q
          /\ \A j \in 1..q : First(c, q)[j] = T[j]
      BY <1>2, <1>6, <3>1
    <3>3. /\ First(c, q + 1) \in Seq(Chunks) /\ Len(First(c, q + 1)) = q + 1
          /\ \A j \in 1..(q + 1) : First(c, q + 1)[j] = T[j]
      BY <1>2, <3>1
    <3> QED
      BY <2>1, <3>2, <3>3
  <2>3. x \in Chunks
    BY <1>1, <1>6, <2>1
  <2>4. F \o <<x>> \in Seq(Chunks) /\ Len(F \o <<x>>) = q + 1
        /\ \A j \in 1..(q + 1) : (F \o <<x>>)[j] = IF j <= q THEN F[j] ELSE x
    BY <2>2, <2>3
  <2>5. \A j \in 1..(q + 1) : (F \o <<x>>)[j] = G[j]
    BY <2>1, <2>2, <2>4
  <2>6. F \o <<x>> = G
    BY <2>2, <2>4, <2>5
  <2> QED
    BY <2>1, <2>6
<1>7. l > 0 => <<>> \o <<T[1]>> = First(c, 1)
  <2>1. SUFFICES ASSUME l > 0
                 PROVE  <<>> \o <<T[1]>> = First(c, 1)
    OBVIOUS
  <2>2. First(c, 0) = <<>>
    BY <1>4
  <2>3. First(c, 0) \o <<T[0 + 1]>> = First(c, 0 + 1)
    BY <1>1, <1>6, <2>1
  <2> QED
    BY <2>2, <2>3
<1> QED
  <2>1. \A q \in 0..l : First(c, q) \o <<>> = First(c, q)
    BY <1>1, <1>5
  <2> QED
    BY <1>3, <1>4, <1>6, <1>7, <2>1

LEMMA SendWrites ==
  ASSUME ClientTyped, NodeTyped, NEW c \in Users, NEW h \in Hosts(c), Send(c, h),
         NEW n, n = Node(c, h), NEW i, i = Id(c, h)
  PROVE  /\ \A m \in Nodes : m # n => bins'[m] = bins[m]
         /\ IF sess[n][i].writer = <<>>
            THEN Opened(n, i, Current(c), Packet(c, h), sent[c][h] = Len(Text(c)))
            ELSE Appended(n, i, Packet(c, h), sent[c][h] = Len(Text(c)))
<1>1. n \in Nodes /\ i \in Ids
  BY InputFacts DEF ClientTyped
<1>2. PICK last, file : last = (sent[c][h] = Len(Text(c))) /\ file = Current(c)
  OBVIOUS
<1>3. last \in BOOLEAN
  BY <1>2
<1>4. Received(n, i, c, file, Packet(c, h), last)
  BY <1>2 DEF Send, ReadAll, Packet
<1>5. /\ \A m \in Nodes : m # n => bins'[m] = bins[m]
      /\ IF sess[n][i].writer = <<>> THEN Opened(n, i, file, Packet(c, h), last) ELSE Appended(n, i, Packet(c, h), last)
  BY <1>1, <1>3, <1>4, ReceivedWrites
<1> QED
  BY <1>2, <1>5

\* When the last host came to its end the binary is on every node.
LEMMA AllArrived ==
  ASSUME Typed, Shipping, NEW c \in Users \ (disturbed \cup cut), phase[c] = "send", Settled(c), ~Threw(c),
         ~LinkFailed(c)
  PROVE  Delivered(c, app[c], out[c])
<1>1. \A g \in Hosts(c) : task[c][g] = "end"
  <2> TAKE g \in Hosts(c)
  <2>1. task[c][g] \in {"queued", "sending", "end", "threw"}
    BY DEF Typed, InStep, InStepAt, Tasks
  <2> QED
    BY <2>1 DEF Settled, Threw
<1>2. \A h \in Hosts(c) : Arrived(c, Node(c, h), Current(c))
  <2> TAKE h \in Hosts(c)
  <2>1. InTransit(c, h)
    BY DEF Shipping, Shipped, GoesOn
  <2>2. Underway(c, Node(c, h))
    BY <1>1, <2>1 DEF InTransit
  <2> QED
    BY <1>1, <2>2 DEF Underway, Arrived, Receives, Text
<1>3. Current(c) \in DOMAIN disk[c]
  BY DEF Typed, InStep, InStepAt, Sending
<1>4. out[c] = 0 => disk[c][Current(c)] = Whole(Current(c), c)
  BY DEF LinkFailed, Text
<1> QED
  BY <1>2, <1>3, <1>4 DEF Delivered, Current

\* Nothing happens to the binaries.
Steady == /\ in' = in /\ bins' = bins /\ disturbed \subseteq disturbed' /\ cut' = cut
          /\ \A n \in Nodes, i \in Ids : sess'[n][i].writer = sess[n][i].writer
Waits(c) == /\ phase'[c] = phase[c] /\ app'[c] = app[c] /\ out'[c] = out[c] /\ disk'[c] = disk[c]
            /\ phase[c] = "send" => task'[c] = task[c] /\ sent'[c] = sent[c]

\* What was delivered stays so while it stays on the disk and on the hosts.
LEMMA DeliveredKept ==
  ASSUME in' = in, NEW c, NEW k, NEW t, Delivered(c, k, t), NEW b, b = Binary(c, k, t),
         b \in DOMAIN disk'[c], disk'[c][b] = disk[c][b],
         \A h \in Hosts(c) : \A new \in BOOLEAN : <<b, new>> \in DOMAIN bins[Node(c, h)] =>
           /\ <<b, new>> \in DOMAIN bins'[Node(c, h)]
           /\ bins'[Node(c, h)][<<b, new>>] = bins[Node(c, h)][<<b, new>>]
  PROVE  Delivered(c, k, t)'
<1>1. Binary(c, k, t)' = b /\ Hosts(c)' = Hosts(c) /\ \A h : Node(c, h)' = Node(c, h)
  BY InputKept DEF Binary
<1>2. t = 0 => disk'[c][b] = Whole(b, c)
  BY DEF Delivered
<1>3. \A h \in Hosts(c) : \E new \in BOOLEAN :
        <<b, new>> \in DOMAIN bins'[Node(c, h)] /\ bins'[Node(c, h)][<<b, new>>] = disk'[c][b]
  <2> TAKE h \in Hosts(c)
  <2>1. PICK n : n = Node(c, h)
    OBVIOUS
  <2>2. Arrived(c, n, b)
    BY <2>1 DEF Delivered
  <2>3. PICK new \in BOOLEAN : <<b, new>> \in DOMAIN bins[n] /\ bins[n][<<b, new>>] = disk[c][b]
    BY <2>2 DEF Arrived
  <2>4. <<b, new>> \in DOMAIN bins'[n] /\ bins'[n][<<b, new>>] = disk'[c][b]
    BY <2>1, <2>3
  <2> QED
    BY <2>1, <2>4
<1> QED
  BY <1>1, <1>2, <1>3 DEF Delivered, Arrived

LEMMA ShippedKept ==
  ASSUME Typed, NEW c \in Users, Shipped(c), in' = in, Waits(c),
         GoesOn(c) => \A h \in Hosts(c) : /\ bins'[Node(c, h)] = bins[Node(c, h)]
                                          /\ sess'[Node(c, h)][Id(c, h)].writer = Sess(c, h).writer
  PROVE  Shipped(c)'
<1>1. /\ Hosts(c)' = Hosts(c) /\ \A h : Node(c, h)' = Node(c, h) /\ Id(c, h)' = Id(c, h)
  BY InputKept
<1>2. GoesOn(c)' = GoesOn(c)
  BY <1>1 DEF GoesOn, Waits, Threw
<1>3. phase'[c] = "ping" => app'[c] = 1 /\ out'[c] = 0
  BY DEF Shipped, Waits
<1>4. CASE ~GoesOn(c)
  BY <1>2, <1>3, <1>4 DEF Shipped
<1>5. CASE GoesOn(c)
  <2>1. ASSUME NEW k \in DOMAIN in[c].work, NEW t \in 0..in[c].work[k].tests, Past(c, k, t)'
        PROVE  Delivered(c, k, t)'
    <3>1. Past(c, k, t)
      BY <2>1 DEF Past, Waits
    <3>2. Delivered(c, k, t)
      BY <1>5, <3>1 DEF Shipped
    <3>3. PICK b : b = Binary(c, k, t)
      OBVIOUS
    <3>4. b \in DOMAIN disk'[c] /\ disk'[c][b] = disk[c][b]
      BY <3>2, <3>3 DEF Delivered, Waits
    <3> QED
      BY <1>5, <3>2, <3>3, <3>4, DeliveredKept
  <2>2. ASSUME phase[c] = "send", NEW h \in Hosts(c)
        PROVE  InTransit(c, h)'
    <3>1. InTransit(c, h)
      BY <1>5, <2>2 DEF Shipped
    <3>2. task'[c] = task[c] /\ sent'[c] = sent[c]
      BY <2>2 DEF Waits
    <3>3. PICK n, b, T : n = Node(c, h) /\ b = Current(c) /\ T = Text(c)
      OBVIOUS
    <3>4. /\ Node(c, h)' = n /\ Current(c)' = b /\ Text(c)' = T
          /\ bins'[n] = bins[n] /\ Sess(c, h)'.writer = Sess(c, h).writer
      BY <1>1, <1>5, <3>3, CurrentKept DEF Sess, Waits
    <3>5. \A w : \A g \in Hosts(c) : Receives(c, g, w)' = Receives(c, g, w)
      BY <1>1, <1>5, <3>2 DEF Receives, Sess
    <3>6. Underway(c, n)' = Underway(c, n)
      BY <1>1, <3>3, <3>4, <3>5 DEF Underway
    <3>7. task[c][h] \in {"sending", "end"} => Underway(c, Node(c, h))'
      BY <1>1, <3>1, <3>3, <3>4, <3>6 DEF InTransit
    <3>8. First(c, sent[c][h])' = First(c, sent[c][h])
      BY <3>2, <3>3, <3>4 DEF First
    <3> QED
      BY <3>1, <3>2, <3>3, <3>4, <3>7, <3>8 DEF InTransit
  <2>3. phase'[c] = phase[c]
    BY DEF Waits
  <2> QED
    BY <1>1, <1>3, <2>1, <2>2, <2>3 DEF Shipped
<1> QED
  BY <1>4, <1>5

LEMMA OneWriterKept ==
  ASSUME OneWriter, \A n \in Nodes, i \in Ids : sess'[n][i].writer = sess[n][i].writer
  PROVE  OneWriter'
<1> SUFFICES ASSUME NEW n \in Nodes, NEW i \in Ids, NEW j \in Ids, i # j,
                    sess'[n][i].writer # <<>>, sess'[n][j].writer # <<>>,
                    sess'[n][i].writer[1].linked, sess'[n][j].writer[1].linked
             PROVE  sess'[n][i].writer[1].to # sess'[n][j].writer[1].to
  BY DEF OneWriter
<1>1. sess'[n][i].writer = sess[n][i].writer /\ sess'[n][j].writer = sess[n][j].writer
  OBVIOUS
<1> QED
  BY <1>1 DEF OneWriter

\* A step of one client, or of none.
LEMMA SteadyShips ==
  ASSUME Typed, Shipping, Steady, NEW c, \A x \in Users : x # c => Waits(x),
         c \in Users \ (disturbed \cup cut) => Shipped(c)'
  PROVE  Shipping'
<1>1. OneWriter'
  BY OneWriterKept DEF Shipping, Steady
<1>2. ASSUME NEW x \in Users \ (disturbed \cup cut)
      PROVE  Shipped(x)'
  <2>1. CASE x = c
    BY <1>2, <2>1
  <2>2. CASE x # c
    <3>1. \A h \in Hosts(x) : Node(x, h) \in Nodes /\ Id(x, h) \in Ids
      BY InputFacts DEF Typed, ClientTyped
    <3> QED
      BY <1>2, <2>2, <3>1, ShippedKept DEF Shipping, Steady, Sess
  <2> QED
    BY <2>1, <2>2
<1>3. Users' = Users
  BY InputKept DEF Steady
<1> QED
  BY <1>1, <1>2, <1>3 DEF Shipping, Steady

\* ... for one that waits as well.
LEMMA SteadyAll ==
  ASSUME Typed, Shipping, Steady, \A x \in Users : Waits(x)
  PROVE  Shipping'
<1>1. ASSUME NEW x \in Users \ (disturbed \cup cut)
      PROVE  Shipped(x)'
  <2>1. \A h \in Hosts(x) : Node(x, h) \in Nodes /\ Id(x, h) \in Ids
    BY InputFacts DEF Typed, ClientTyped
  <2> QED
    BY <1>1, <2>1, ShippedKept DEF Shipping, Steady, Sess
<1> QED
  BY <1>1, SteadyShips

\* The binaries before the current one have other names.
LEMMA BinaryNames ==
  ASSUME NEW c, NEW k \in Nat, NEW t, app[c] \in Nat, out[c] \in Nat, t \in Nat, Past(c, k, t)
  PROVE  Binary(c, k, t) # Current(c)
<1>1. k # app[c] \/ t # out[c]
  BY DEF Past
<1> QED
  BY <1>1 DEF Binary, Current

\* From one phase to the next.
LEMMA PhaseShips ==
  ASSUME Typed, Shipping, NEW c \in Users, Main(c) \/ Killed(c) \/ \E h \in Hosts(c) : Unanswered(c, h)
  PROVE  Shipping'
<1>1. ClientStep(c) /\ UNCHANGED <<node, history>>
  BY OwnSteps DEF Quiet
<1>2. Steady /\ (\A x \in Users : x # c => Waits(x)) /\ sess' = sess /\ bins' = bins /\ in' = in
  BY <1>1 DEF Steady, Waits, ClientStep, OneClient, node, history
<1>3. /\ Hosts(c)' = Hosts(c) /\ \A h : Node(c, h)' = Node(c, h) /\ Id(c, h)' = Id(c, h)
  BY <1>2, InputKept
<1>4. ASSUME NEW k, NEW t, Delivered(c, k, t), NEW b, b = Binary(c, k, t), b \in DOMAIN disk'[c], disk'[c][b] = disk[c][b]
      PROVE  Delivered(c, k, t)'
  BY <1>2, <1>4, DeliveredKept
<1>5. SUFFICES ASSUME c \notin disturbed \cup cut
               PROVE  Shipped(c)'
  BY <1>2, SteadyShips
<1>6. Shipped(c)
  BY <1>5 DEF Shipping
<1>7. /\ app[c] \in Nat /\ out[c] \in Nat /\ \A k \in DOMAIN in[c].work : k \in Nat /\ k >= 1
      /\ out[c] <= in[c].work[app[c]].tests /\ in[c].work[app[c]].tests \in Nat
  BY WorkFacts, CurrentFacts, InputFacts DEF Typed, ClientTyped, ClientAt, LinksAt, Work
<1>8. CASE Killed(c)
  <2>1. phase'[c] = "failed"
    BY <1>8, KilledFacts DEF Typed
  <2> QED
    BY <2>1 DEF Shipped, GoesOn
<1>9. CASE \E h \in Hosts(c) : Unanswered(c, h)
  <2>1. PICK h \in Hosts(c) : Unanswered(c, h)
    BY <1>9
  <2>2. /\ phase' = phase /\ UNCHANGED <<app, out, disk>> /\ task'[c][h] = "threw" /\ phase[c] \in {"ping", "pool", "send"}
    BY <2>1, UnansweredFacts DEF Typed
  <2>3. CASE phase[c] = "send"
    BY <1>3, <2>2, <2>3 DEF Shipped, GoesOn, Threw
  <2>4. CASE phase[c] # "send"
    <3>1. Waits(c)
      BY <2>2, <2>4 DEF Waits
    <3> QED
      BY <1>2, <1>6, <3>1, ShippedKept DEF Sess
  <2> QED
    BY <2>3, <2>4
<1>10. CASE Pinged(c)
  <2>1. phase[c] = "ping" /\ app' = app /\ out' = out /\ phase'[c] \in {"failed", "split"}
    BY <1>10, PingedFacts DEF Typed
  <2>2. app'[c] = 1 /\ out'[c] = 0
    BY <1>6, <2>1 DEF Shipped
  <2>3. ASSUME NEW k \in DOMAIN in[c].work, NEW t \in 0..in[c].work[k].tests
        PROVE  ~Past(c, k, t)'
    BY <1>7, <2>2 DEF Past
  <2> QED
    BY <1>2, <2>1, <2>2, <2>3 DEF Shipped
<1>11. ASSUME phase[c] \in {"split", "pool", "link"}, phase'[c] \in {"pool", "link", "failed"},
              app'[c] = app[c], out'[c] = out[c], disk'[c] = disk[c]
       PROVE  Shipped(c)'
  <2>1. CASE phase'[c] = "failed"
    BY <2>1 DEF Shipped, GoesOn
  <2>2. CASE phase'[c] # "failed"
    <3>1. GoesOn(c)
      BY <1>11 DEF GoesOn
    <3>2. ASSUME NEW k \in DOMAIN in[c].work, NEW t \in 0..in[c].work[k].tests, Past(c, k, t)'
          PROVE  Delivered(c, k, t)'
      <4>1. Delivered(c, k, t)
        BY <1>6, <1>11, <3>1, <3>2 DEF Shipped, Past
      <4>2. PICK b : b = Binary(c, k, t)
        OBVIOUS
      <4>3. b \in DOMAIN disk'[c] /\ disk'[c][b] = disk[c][b]
        BY <1>11, <4>1, <4>2 DEF Delivered
      <4> QED
        BY <1>4, <4>1, <4>2, <4>3
    <3>3. phase'[c] # "ping" /\ phase'[c] # "send"
      BY <1>11
    <3> QED
      BY <1>2, <3>2, <3>3 DEF Shipped
  <2> QED
    BY <2>1, <2>2
<1>12. CASE Split(c)
  BY <1>11, <1>12, SplitFacts DEF Typed
<1>13. CASE LocalCompile(c)
  BY <1>11, <1>13, LocalCompileFacts DEF Typed
<1>14. CASE Join(c)
  BY <1>11, <1>14, JoinFacts DEF Typed
<1>15. CASE Link(c)
  <2>1. /\ phase[c] = "link" /\ app' = app /\ out' = out /\ phase'[c] = "send"
        /\ task'[c] = [h \in Hosts(c) |-> "queued"] /\ sent'[c] = [h \in Hosts(c) |-> 0]
        /\ \E text : disk'[c] = Put(disk[c], Current(c), text)
    BY <1>15, LinkFacts DEF Typed
  <2>2. PICK text : disk'[c] = Put(disk[c], Current(c), text)
    BY <2>1
  <2>3. \A h \in Hosts(c) : InTransit(c, h)'
    BY <2>1 DEF InTransit
  <2>4. ASSUME NEW k \in DOMAIN in[c].work, NEW t \in 0..in[c].work[k].tests, Past(c, k, t)'
        PROVE  Delivered(c, k, t)'
    <3>1. Past(c, k, t)
      BY <2>1, <2>4 DEF Past
    <3>2. Delivered(c, k, t)
      BY <1>6, <2>1, <3>1 DEF Shipped, GoesOn
    <3>3. PICK b : b = Binary(c, k, t)
      OBVIOUS
    <3>4. b # Current(c)
      BY <1>7, <3>1, <3>3, BinaryNames
    <3>5. b \in DOMAIN disk'[c] /\ disk'[c][b] = disk[c][b]
      BY <2>2, <3>2, <3>3, <3>4 DEF Delivered, Put
    <3> QED
      BY <1>4, <3>2, <3>3, <3>5
  <2>5. phase'[c] # "ping"
    BY <2>1
  <2> QED
    BY <1>2, <1>3, <2>3, <2>4, <2>5 DEF Shipped
<1>16. CASE Sent(c)
  <2>1. phase[c] = "send" /\ Settled(c) /\ disk' = disk
    BY <1>16, SentFacts DEF Typed
  <2>a. \/ phase'[c] \in {"failed", "done"}
        \/ /\ ~Threw(c) /\ ~LinkFailed(c) /\ phase'[c] = "send" /\ app' = app /\ out' = out
           /\ task'[c] = [h \in Hosts(c) |-> "queued"] /\ sent'[c] = [h \in Hosts(c) |-> 0]
        \/ /\ ~Threw(c) /\ ~LinkFailed(c) /\ phase'[c] = "link" /\ app' = app /\ out'[c] = out[c] + 1
        \/ /\ ~Threw(c) /\ ~LinkFailed(c) /\ phase'[c] = "split" /\ app'[c] = app[c] + 1 /\ out'[c] = 0
           /\ out[c] = in[c].work[app[c]].tests
    BY <1>16, SentFacts DEF Typed, Work
  <2>2. CASE phase'[c] \in {"failed", "done"}
    BY <2>2 DEF Shipped, GoesOn
  <2>3. CASE phase'[c] \notin {"failed", "done"}
    <3>1. GoesOn(c) /\ ~Threw(c) /\ ~LinkFailed(c) /\ phase'[c] # "ping"
      BY <2>1, <2>a, <2>3 DEF GoesOn
    <3>2. ASSUME NEW k \in DOMAIN in[c].work, NEW t \in 0..in[c].work[k].tests, Past(c, k, t)'
          PROVE  Delivered(c, k, t)'
      <4>1. Past(c, k, t) \/ (k = app[c] /\ t = out[c])
        <5>1. k \in Nat /\ t \in Nat /\ (k = app[c] => t <= in[c].work[app[c]].tests)
          BY <1>7, InputFacts DEF Typed, ClientTyped
        <5>2. k < app'[c] \/ (k = app'[c] /\ t < out'[c])
          BY <3>2 DEF Past
        <5>3. \/ app'[c] = app[c] /\ out'[c] = out[c]
              \/ app'[c] = app[c] /\ out'[c] = out[c] + 1
              \/ app'[c] = app[c] + 1 /\ out'[c] = 0 /\ out[c] = in[c].work[app[c]].tests
          BY <2>a, <2>3
        <5>4. k < app[c] \/ (k = app[c] /\ t < out[c]) \/ (k = app[c] /\ t = out[c])
          BY <1>7, <5>1, <5>2, <5>3
        <5> QED
          BY <5>4 DEF Past
      <4>2. Delivered(c, k, t)
        <5>1. CASE Past(c, k, t)
          BY <1>6, <3>1, <5>1 DEF Shipped
        <5>2. CASE k = app[c] /\ t = out[c]
          BY <1>5, <2>1, <3>1, <5>2, AllArrived
        <5> QED
          BY <4>1, <5>1, <5>2
      <4>3. PICK b : b = Binary(c, k, t)
        OBVIOUS
      <4>4. b \in DOMAIN disk'[c] /\ disk'[c][b] = disk[c][b]
        BY <2>1, <4>2, <4>3 DEF Delivered
      <4> QED
        BY <1>4, <4>2, <4>3, <4>4
    <3>3. phase'[c] = "send" => \A h \in Hosts(c) : InTransit(c, h)'
      BY <2>a DEF InTransit
    <3> QED
      BY <1>2, <1>3, <3>1, <3>2, <3>3 DEF Shipped
  <2> QED
    BY <2>2, <2>3
<1> QED
  BY <1>8, <1>9, <1>10, <1>12, <1>13, <1>14, <1>15, <1>16 DEF Main

\* Its own requests do nothing to the binaries but for those that send them.
LEMMA RequestShips ==
  ASSUME Typed, Shipping, NEW c \in Users, NEW h \in Hosts(c), Setup(c, h) \/ CompileStart(c, h) \/ Download(c, h)
  PROVE  Shipping'
<1> PICK n, i : n = Node(c, h) /\ i = Id(c, h)
  OBVIOUS
<1>1. CASE Setup(c, h)
  <2>1. /\ phase[c] = "ping" /\ TaskStep(c, h) /\ UNCHANGED <<in, phase, app, shipping, bins, cut>>
        /\ SessStep(n, i) /\ sess'[n][i].writer = sess[n][i].writer /\ Meets(c, n, i)
    BY <1>1, SetupFacts DEF Typed
  <2>2. Steady /\ \A x \in Users : Waits(x)
    BY <2>1 DEF Steady, Waits, SessStep, TaskStep, Meets
  <2> QED
    BY <2>2, SteadyAll
<1>2. CASE CompileStart(c, h)
  <2>1. phase[c] = "pool" /\ UNCHANGED <<in, phase, app, shipping, bins, sess, history>>
    BY <1>2 DEF CompileStart
  <2>2. TaskStep(c, h)
    BY <1>2, TaskSet DEF CompileStart, Typed, TaskNames
  <2>3. Steady /\ \A x \in Users : Waits(x)
    BY <2>1, <2>2 DEF Steady, Waits, TaskStep, history
  <2> QED
    BY <2>3, SteadyAll
<1>3. CASE Download(c, h)
  <2>1. PICK b : b = Blob(n, sess[n][i])
    OBVIOUS
  <2>2. /\ phase[c] = "pool" /\ UNCHANGED <<in, phase, app, shipping, bins, history>>
        /\ DownloadNode(n, i, b) /\ DownloadClient(c, h, b)
    BY <1>3, <2>1, DownloadFacts DEF Typed
  <2>3. TaskStep(c, h) /\ SessStep(n, i) /\ sess'[n][i].writer = sess[n][i].writer
    BY <2>2 DEF DownloadNode, DownloadClient
  <2>4. Steady /\ \A x \in Users : Waits(x)
    BY <2>2, <2>3 DEF Steady, Waits, SessStep, TaskStep, history
  <2> QED
    BY <2>4, SteadyAll
<1> QED
  BY <1>1, <1>2, <1>3

LEMMA CompileEndShips ==
  ASSUME Typed, Known, Shipping, NEW n \in Nodes, NEW r \in busy[n], CompileEnd(n, r)
  PROVE  Shipping'
<1>1. PICK c, h, i : c = r.c /\ h = r.h /\ i = Id(c, h)
  OBVIOUS
<1>2. /\ UNCHANGED <<in, phase, app, shipping, bins, history>> /\ c \in Users /\ h \in Hosts(c)
      /\ TaskStep(c, h) /\ (phase[c] # "pool" => task' = task)
      /\ (UNCHANGED sess \/ (SessStep(n, i) /\ sess'[n][i].writer = sess[n][i].writer))
  BY <1>1, CompileEndFacts DEF Typed, Known
<1>3. Steady /\ \A x \in Users : Waits(x)
  BY <1>2 DEF Steady, Waits, SessStep, TaskStep, history
<1> QED
  BY <1>3, SteadyAll

LEMMA RestartShips ==
  ASSUME Typed, Shipping, NEW n \in Nodes, Restart(n)
  PROVE  Shipping'
<1>1. UNCHANGED <<in, phase, app, task, shipping, bins, sess, history>>
  BY RestartFacts DEF Typed, client
<1>2. Steady /\ \A x \in Users : Waits(x)
  BY <1>1 DEF Steady, Waits, history
<1> QED
  BY <1>2, SteadyAll

LEMMA StutterShips ==
  ASSUME Typed, Shipping, UNCHANGED vars
  PROVE  Shipping'
<1>1. UNCHANGED <<in, phase, app, task, shipping, bins, sess, history>>
  BY DEF vars, client, node
<1>2. Steady /\ \A x \in Users : Waits(x)
  BY <1>1 DEF Steady, Waits, history
<1> QED
  BY <1>2, SteadyAll

\* A node that dies forgets its writers; whoever was sending to it is cut.
LEMMA DieShips ==
  ASSUME Typed, Shipping, NEW n \in Nodes, Die(n)
  PROVE  Shipping'
<1>1. /\ UNCHANGED <<in, phase, app, shipping, bins, disturbed>>
      /\ \A i \in Ids : sess'[n][i] = NoSession
      /\ \A m \in Nodes : m # n => sess'[m] = sess[m]
      /\ \A c \in Users : /\ task'[c] \in [Hosts(c) -> TaskNames]
                          /\ \A h \in Hosts(c) : task'[c][h] =
                               IF Node(c, h) = n /\ task[c][h] = "wait" THEN "threw" ELSE task[c][h]
  BY DieFacts DEF Typed
<1>2. cut' = cut \cup {c \in Users : \E h \in Hosts(c) :
                         Node(c, h) = n /\ phase[c] = "send" /\ task[c][h] = "sending"}
  BY DEF Die
<1>3. Users' = Users /\ \A c : Hosts(c)' = Hosts(c) /\ \A h : Node(c, h)' = Node(c, h) /\ Id(c, h)' = Id(c, h)
  BY <1>1, InputKept
<1>4. OneWriter'
  <2> SUFFICES ASSUME NEW m \in Nodes, NEW i \in Ids, NEW j \in Ids, i # j,
                      sess'[m][i].writer # <<>>, sess'[m][j].writer # <<>>,
                      sess'[m][i].writer[1].linked, sess'[m][j].writer[1].linked
               PROVE  sess'[m][i].writer[1].to # sess'[m][j].writer[1].to
    BY DEF OneWriter
  <2>1. m # n
    BY <1>1 DEF NoSession
  <2>2. sess'[m] = sess[m]
    BY <1>1, <2>1
  <2> QED
    BY <2>2 DEF Shipping, OneWriter
<1>5. ASSUME NEW c \in Users \ (disturbed \cup cut'), phase[c] = "send"
      PROVE  /\ task'[c] = task[c]
             /\ \A h \in Hosts(c) : Node(c, h) = n => task[c][h] # "sending"
  <2>1. \A h \in Hosts(c) : task[c][h] # "wait"
    <3> TAKE h \in Hosts(c)
    <3>1. task[c][h] \in {"queued", "sending", "end", "threw"}
      BY <1>5 DEF Typed, InStep, InStepAt, Tasks
    <3> QED
      BY <3>1
  <2>2. task[c] \in [Hosts(c) -> TaskNames]
    BY DEF Typed, ClientTyped, ClientAt
  <2>3. task'[c] = task[c]
    BY <1>1, <2>1, <2>2
  <2> QED
    BY <1>2, <1>5, <2>3
<1>6. ASSUME NEW c \in Users \ (disturbed \cup cut')
      PROVE  Shipped(c)'
  <2>1. Shipped(c)
    BY <1>2, <1>6 DEF Shipping
  <2>2. ASSUME GoesOn(c), NEW k \in DOMAIN in[c].work, NEW t \in 0..in[c].work[k].tests, Past(c, k, t)'
        PROVE  Delivered(c, k, t)'
    <3>1. Delivered(c, k, t)
      BY <1>1, <2>1, <2>2 DEF Shipped, Past
    <3>2. PICK b : b = Binary(c, k, t)
      OBVIOUS
    <3>3. b \in DOMAIN disk'[c] /\ disk'[c][b] = disk[c][b]
      BY <1>1, <3>1, <3>2 DEF Delivered
    <3> QED
      BY <1>1, <3>1, <3>2, <3>3, DeliveredKept
  <2>3. CASE phase[c] # "send"
    <3>1. GoesOn(c)' = GoesOn(c)
      BY <1>1, <2>3 DEF GoesOn
    <3> QED
      BY <1>1, <2>1, <2>2, <2>3, <3>1 DEF Shipped
  <2>4. CASE phase[c] = "send"
    <3>1. task'[c] = task[c] /\ \A h \in Hosts(c) : Node(c, h) = n => task[c][h] # "sending"
      BY <1>5, <1>6, <2>4
    <3>2. GoesOn(c)' = GoesOn(c)
      BY <1>1, <1>3, <3>1 DEF GoesOn, Threw
    <3>3. ASSUME GoesOn(c), NEW h \in Hosts(c)
          PROVE  InTransit(c, h)'
      <4>1. InTransit(c, h)
        BY <2>1, <2>4, <3>3 DEF Shipped
      <4>2. PICK m, b, T : m = Node(c, h) /\ b = Current(c) /\ T = Text(c)
        OBVIOUS
      <4>3. Node(c, h)' = m /\ Current(c)' = b /\ Text(c)' = T /\ m \in Nodes
        BY <1>1, <1>3, <4>2, CurrentKept, InputFacts DEF Typed, ClientTyped
      <4>4. task[c][h] = "sending" => Sess(c, h)' = Sess(c, h)
        BY <1>1, <1>3, <3>1, <4>2, <4>3 DEF Sess
      <4>5. \A w : \A g \in Hosts(c) : Node(c, g) = m /\ Receives(c, g, w) => Receives(c, g, w)'
        <5> TAKE w
        <5> TAKE g \in Hosts(c)
        <5>1. HAVE Node(c, g) = m /\ Receives(c, g, w)
        <5>2. m # n
          BY <3>1, <5>1 DEF Receives
        <5>3. Sess(c, g)' = Sess(c, g)
          BY <1>1, <1>3, <4>3, <5>1, <5>2 DEF Sess
        <5> QED
          BY <3>1, <5>1, <5>3 DEF Receives
      <4>6. Underway(c, m) => Underway(c, m)'
        BY <1>1, <1>3, <4>2, <4>3, <4>5 DEF Underway
      <4>7. task[c][h] \in {"sending", "end"} => Underway(c, Node(c, h))'
        BY <4>1, <4>2, <4>3, <4>6 DEF InTransit
      <4>8. sent' = sent /\ First(c, sent[c][h])' = First(c, sent[c][h])
        BY <1>1, <4>2, <4>3 DEF First
      <4> QED
        BY <1>1, <3>1, <4>1, <4>2, <4>3, <4>4, <4>7, <4>8 DEF InTransit
    <3> QED
      BY <1>1, <1>3, <2>1, <2>2, <2>4, <3>2, <3>3 DEF Shipped
  <2> QED
    BY <2>3, <2>4
<1> QED
  BY <1>1, <1>3, <1>4, <1>6 DEF Shipping

\* At the node a writer that was linked is the last on its file, or another is.
LEMMA SendOneWriter ==
  ASSUME NodeTyped, OneWriter, NEW n \in Nodes, NEW i \in Ids, NEW file, NEW data, NEW last \in BOOLEAN,
         \A m \in Nodes : m # n => sess'[m] = sess[m],
         IF sess[n][i].writer = <<>> THEN Opened(n, i, file, data, last) ELSE Appended(n, i, data, last)
  PROVE  OneWriter'
<1> DEFINE W(j) == sess[n][j].writer
           V(j) == sess'[n][j].writer
<1>1. SUFFICES ASSUME NEW j \in Ids, NEW k \in Ids, j # k, V(j) # <<>>, V(k) # <<>>, V(j)[1].linked, V(k)[1].linked
               PROVE  V(j)[1].to # V(k)[1].to
  <2>1. ASSUME NEW m \in Nodes, m # n, NEW j \in Ids, NEW k \in Ids, j # k,
               sess'[m][j].writer # <<>>, sess'[m][k].writer # <<>>,
               sess'[m][j].writer[1].linked, sess'[m][k].writer[1].linked
        PROVE  sess'[m][j].writer[1].to # sess'[m][k].writer[1].to
    <3>1. sess'[m] = sess[m]
      BY <2>1
    <3> QED
      BY <2>1, <3>1 DEF OneWriter
  <2> QED
    BY <1>1, <2>1 DEF OneWriter
<1>2. CASE W(i) = <<>>
  <2>a. PICK new \in BOOLEAN :
          /\ V(i) = (IF last THEN <<>> ELSE <<[to |-> <<file, new>>, linked |-> TRUE]>>)
          /\ \A g \in Ids : g # i => V(g) = Unlink(W(g), <<file, new>>)
    BY <1>2 DEF Opened
  <2>b. PICK w : w = <<file, new>>
    OBVIOUS
  <2>1. /\ V(i) = (IF last THEN <<>> ELSE <<[to |-> w, linked |-> TRUE]>>)
        /\ \A g \in Ids : g # i => V(g) = Unlink(W(g), w)
    BY <2>a, <2>b
  <2>2. ASSUME NEW g \in Ids, g # i, V(g) # <<>>, V(g)[1].linked
        PROVE  V(g) = W(g) /\ V(g)[1].to # w
    <3>1. V(g) = IF W(g) # <<>> /\ W(g)[1].to = w THEN <<[to |-> w, linked |-> FALSE]>> ELSE W(g)
      BY <2>1, <2>2 DEF Unlink
    <3>2. ~(W(g) # <<>> /\ W(g)[1].to = w)
      <4>1. SUFFICES ASSUME W(g) # <<>> /\ W(g)[1].to = w
                     PROVE  FALSE
        OBVIOUS
      <4>2. V(g)[1].linked = FALSE
        BY <3>1, <4>1
      <4> QED
        BY <2>2, <4>2
    <3>3. V(g) = W(g)
      BY <3>1, <3>2
    <3> QED
      BY <2>2, <3>2, <3>3
  <2>3. V(i) # <<>> => V(i)[1].to = w
    BY <2>1
  <2>4. CASE j # i /\ k # i
    <3>1. V(j) = W(j) /\ V(k) = W(k)
      BY <1>1, <2>2, <2>4
    <3> QED
      BY <1>1, <3>1 DEF OneWriter
  <2>5. CASE j = i
    BY <1>1, <2>2, <2>3, <2>5
  <2>6. CASE k = i
    BY <1>1, <2>2, <2>3, <2>6
  <2> QED
    BY <2>4, <2>5, <2>6
<1>3. CASE W(i) # <<>>
  <2>1. \A g \in Ids : V(g) \in {<<>>, W(g)}
    BY <1>3 DEF Appended
  <2>2. V(j) = W(j) /\ V(k) = W(k)
    BY <1>1, <2>1
  <2> QED
    BY <1>1, <2>2 DEF OneWriter
<1> QED
  BY <1>2, <1>3

\* Where a packet of client c goes: to the file w, if its writer is linked to it,
\* and no other writer is.
Delivers(c, h, w, linked) ==
  LET n == Node(c, h)
      o == Current(c)
      last == sent[c][h] = Len(Text(c))
      content == IF last THEN Text(c) ELSE First(c, sent[c][h] + 1) IN
  /\ IF linked THEN PutOn(bins[n], bins'[n], w, content)
     ELSE bins'[n] = bins[n] /\ Sess(c, h).writer = <<[to |-> w, linked |-> FALSE]>>
  /\ sess'[n][Id(c, h)].writer = IF last THEN <<>> ELSE <<[to |-> w, linked |-> linked]>>
  /\ \A j \in Ids : j # Id(c, h) =>
       /\ \/ sess'[n][j].writer = sess[n][j].writer
          \/ /\ linked /\ sess[n][j].writer # <<>> /\ sess[n][j].writer[1].to = w
             /\ sess'[n][j].writer = <<[to |-> w, linked |-> FALSE]>>
       /\ linked /\ sess'[n][j].writer # <<>> /\ sess'[n][j].writer[1].linked => sess'[n][j].writer[1].to # w

LEMMA SendDelivers ==
  ASSUME Typed, OneWriter, NEW c \in Users, NEW h \in Hosts(c), Send(c, h),
         task[c][h] = "queued" => Sess(c, h).writer = <<>> /\ sent[c][h] = 0,
         task[c][h] = "sending" => InTransit(c, h)
  PROVE  \E new, linked \in BOOLEAN : Delivers(c, h, <<Current(c), new>>, linked)
<1>1. PICK n, i, o, last, q : /\ n = Node(c, h) /\ i = Id(c, h) /\ o = Current(c)
                              /\ last = (sent[c][h] = Len(Text(c))) /\ q = sent[c][h]
  OBVIOUS
<1>2. /\ n \in Nodes /\ i \in Ids /\ task[c][h] \in {"queued", "sending"}
      /\ \A m \in Nodes : m # n => sess'[m] = sess[m]
  BY <1>1, SendFacts DEF Typed
<1>3. IF sess[n][i].writer = <<>> THEN Opened(n, i, o, Packet(c, h), last) ELSE Appended(n, i, Packet(c, h), last)
  BY <1>1, SendWrites DEF Typed
<1>a. Text(c) \in Seq(Chunks) /\ Len(Text(c)) \in Nat /\ phase[c] = "send" /\ Sending(c)
  BY SendFacts, CurrentFacts DEF Typed, InStep, InStepAt, Sending
<1>4. /\ Packet(c, h) = (IF last THEN <<>> ELSE <<Text(c)[q + 1]>>) /\ q \in Nat /\ last \in BOOLEAN
      /\ q <= Len(Text(c)) /\ (last <=> q = Len(Text(c)))
  <2>1. q \in Nat
    BY <1>1 DEF Typed, ClientTyped, ClientAt, LinksAt
  <2>2. q <= Len(Text(c))
    BY <1>1, <1>2, <1>a DEF Sending
  <2>3. last \in BOOLEAN
    BY <1>1
  <2>4. Packet(c, h) = IF last THEN <<>> ELSE <<Text(c)[q + 1]>>
    BY <1>1 DEF Packet
  <2> QED
    BY <1>1, <2>1, <2>2, <2>3, <2>4
<1>5. OneWriter'
  BY <1>2, <1>3, <1>4, SendOneWriter DEF Typed
<1>6. last => q = Len(Text(c))
  BY <1>1
<1>7. PICK C : C = IF last THEN Text(c) ELSE First(c, q + 1)
  OBVIOUS
<1>8. First(c, q) \o Packet(c, h) = C
  <2>1. CASE last
    <3>1. Packet(c, h) = <<>> /\ C = Text(c) /\ q = Len(Text(c))
      BY <1>4, <1>6, <1>7, <2>1
    <3>2. q \in 0..Len(Text(c)) /\ First(c, q) = Text(c)
      BY <1>a, <1>4, <3>1, FirstFacts
    <3>3. First(c, q) \o <<>> = First(c, q)
      BY <1>a, <3>2, FirstFacts
    <3> QED
      BY <3>1, <3>2, <3>3
  <2>2. CASE ~last
    <3>1. Packet(c, h) = <<Text(c)[q + 1]>> /\ C = First(c, q + 1) /\ q < Len(Text(c))
      BY <1>a, <1>4, <1>7, <2>2
    <3>2. First(c, q) \o <<Text(c)[q + 1]>> = First(c, q + 1)
      BY <1>a, <1>4, <3>1, FirstFacts
    <3> QED
      BY <3>1, <3>2
  <2> QED
    BY <2>1, <2>2
<1>9. CASE sess[n][i].writer = <<>>
  <2>1. task[c][h] = "queued" /\ q = 0
    <3>1. task[c][h] # "sending"
      <4>1. SUFFICES ASSUME task[c][h] = "sending"
                     PROVE  FALSE
        OBVIOUS
      <4>2. PICK v : Sess(c, h).writer = <<v>>
        BY <4>1 DEF InTransit
      <4>3. <<v>> = <<>>
        BY <1>1, <1>9, <4>2 DEF Sess
      <4> QED
        BY <4>3
    <3> QED
      BY <1>1, <1>2, <3>1
  <2>2. <<>> \o Packet(c, h) = C
    <3>1. <<>> = First(c, 0)
      BY <1>a, FirstFacts
    <3> QED
      BY <1>8, <2>1, <3>1
  <2>a. PICK new \in BOOLEAN :
          /\ PutOn(bins[n], bins'[n], <<o, new>>, <<>> \o Packet(c, h))
          /\ sess'[n][i].writer = (IF last THEN <<>> ELSE <<[to |-> <<o, new>>, linked |-> TRUE]>>)
          /\ \A j \in Ids : j # i => sess'[n][j].writer = Unlink(sess[n][j].writer, <<o, new>>)
    BY <1>3, <1>9 DEF Opened
  <2>b. PICK w : w = <<o, new>>
    OBVIOUS
  <2>3. /\ new \in BOOLEAN
        /\ w = <<o, new>> /\ PutOn(bins[n], bins'[n], w, <<>> \o Packet(c, h))
        /\ sess'[n][i].writer = (IF last THEN <<>> ELSE <<[to |-> w, linked |-> TRUE]>>)
        /\ \A j \in Ids : j # i => sess'[n][j].writer = Unlink(sess[n][j].writer, w)
    BY <2>a, <2>b
  <2>4. ASSUME NEW j \in Ids, j # i
        PROVE  /\ \/ sess'[n][j].writer = sess[n][j].writer
                  \/ /\ sess[n][j].writer # <<>> /\ sess[n][j].writer[1].to = w
                     /\ sess'[n][j].writer = <<[to |-> w, linked |-> FALSE]>>
               /\ sess'[n][j].writer # <<>> /\ sess'[n][j].writer[1].linked => sess'[n][j].writer[1].to # w
    <3>1. sess'[n][j].writer = Unlink(sess[n][j].writer, w)
      BY <2>3, <2>4
    <3>2. CASE sess[n][j].writer # <<>> /\ sess[n][j].writer[1].to = w
      <4>1. sess'[n][j].writer = <<[to |-> w, linked |-> FALSE]>>
        BY <3>1, <3>2 DEF Unlink
      <4>2. sess'[n][j].writer[1].linked = FALSE
        BY <4>1
      <4> QED
        BY <3>2, <4>1, <4>2
    <3>3. CASE ~(sess[n][j].writer # <<>> /\ sess[n][j].writer[1].to = w)
      BY <3>1, <3>3 DEF Unlink
    <3> QED
      BY <3>2, <3>3
  <2>5. PutOn(bins[n], bins'[n], w, C)
    BY <2>2, <2>3
  <2>6. Delivers(c, h, w, TRUE)
    BY <1>1, <1>7, <2>3, <2>4, <2>5 DEF Delivers
  <2> QED
    BY <1>1, <2>3, <2>6
<1>10. CASE sess[n][i].writer # <<>>
  <2>1. task[c][h] = "sending"
    BY <1>1, <1>2, <1>10 DEF Sess
  <2>2. PICK new, linked, w :
          /\ new \in BOOLEAN /\ linked \in BOOLEAN
          /\ w = <<o, new>> /\ sess[n][i].writer = <<[to |-> w, linked |-> linked]>>
          /\ linked => bins[n][w] = First(c, q)
    BY <1>1, <2>1 DEF InTransit, Sess
  <2>3. PICK x \in Receivers :
          /\ sess[n][i].writer = <<x>>
          /\ IF x.linked THEN PutOn(bins[n], bins'[n], x.to, bins[n][x.to] \o Packet(c, h)) ELSE bins'[n] = bins[n]
          /\ sess'[n][i].writer = IF last THEN <<>> ELSE <<x>>
          /\ \A j \in Ids : j # i => sess'[n][j].writer = sess[n][j].writer
    BY <1>3, <1>10 DEF Appended
  <2>4. x = [to |-> w, linked |-> linked]
    <3>1. <<x>>[1] = <<[to |-> w, linked |-> linked]>>[1]
      BY <2>2, <2>3
    <3> QED
      BY <3>1
  <2>5. x.to = w /\ x.linked = linked
    BY <2>4
  <2>6. IF linked THEN PutOn(bins[n], bins'[n], w, C)
        ELSE bins'[n] = bins[n] /\ Sess(c, h).writer = <<[to |-> w, linked |-> FALSE]>>
    <3>1. CASE linked
      BY <1>8, <2>2, <2>3, <2>5, <3>1
    <3>2. CASE ~linked
      BY <1>1, <2>2, <2>3, <2>5, <3>2 DEF Sess
    <3> QED
      BY <3>1, <3>2
  <2>7. sess'[n][i].writer = IF last THEN <<>> ELSE <<[to |-> w, linked |-> linked]>>
    BY <2>3, <2>4
  <2>8. ASSUME NEW j \in Ids, j # i, linked, sess'[n][j].writer # <<>>, sess'[n][j].writer[1].linked
        PROVE  sess'[n][j].writer[1].to # w
    <3>1. sess'[n][j].writer = sess[n][j].writer
      BY <2>3, <2>8
    <3>2. sess[n][i].writer[1].linked /\ sess[n][i].writer[1].to = w
      <4>1. sess[n][i].writer[1] = x
        BY <2>3
      <4> QED
        BY <2>5, <2>8, <4>1
    <3> QED
      BY <1>2, <1>10, <2>8, <3>1, <3>2 DEF OneWriter
  <2>9. Delivers(c, h, w, linked)
    BY <1>1, <1>7, <2>3, <2>6, <2>7, <2>8 DEF Delivers
  <2> QED
    BY <1>1, <2>2, <2>9
<1> QED
  BY <1>9, <1>10

\* For the client whose packet it is.
LEMMA SendOwnShips ==
  ASSUME Typed, Known, Shipping, NEW c \in Users, NEW h \in Hosts(c), Send(c, h), c \notin disturbed' \cup cut'
  PROVE  Shipped(c)'
<1>1. PICK n, i, o, last : n = Node(c, h) /\ i = Id(c, h) /\ o = Current(c) /\ last = (sent[c][h] = Len(Text(c)))
  OBVIOUS
<1>2. /\ n \in Nodes /\ i \in Ids /\ phase[c] = "send" /\ task[c][h] \in {"queued", "sending"}
      /\ UNCHANGED <<in, phase, app, out, disk, cut>>
      /\ \A m \in Nodes : m # n => sess'[m] = sess[m]
      /\ TaskStep(c, h) /\ Meets(c, n, i)
      /\ \/ ~last /\ task'[c][h] \in {"sending", "threw"}
         \/ last /\ task'[c][h] \in {"end", "threw"}
      /\ sent'[c][h] = sent[c][h] + 1 /\ \A g \in Hosts(c) : g # h => sent'[c][g] = sent[c][g]
  <2>1. /\ n \in Nodes /\ i \in Ids /\ phase[c] = "send" /\ task[c][h] \in {"queued", "sending"}
        /\ UNCHANGED <<in, phase, app, out, disk, cut>>
        /\ \A m \in Nodes : m # n => sess'[m] = sess[m]
        /\ TaskStep(c, h) /\ Meets(c, n, i)
    BY <1>1, SendFacts DEF Typed
  <2>2. /\ \/ sent[c][h] # Len(Text(c)) /\ task'[c][h] \in {"sending", "threw"}
           \/ sent[c][h] = Len(Text(c)) /\ task'[c][h] \in {"end", "threw"}
        /\ sent'[c][h] = sent[c][h] + 1 /\ \A g \in Hosts(c) : g # h => sent'[c][g] = sent[c][g]
    BY <1>1, SendFacts DEF Typed
  <2> QED
    BY <1>1, <2>1, <2>2
<1>3. /\ Hosts(c)' = Hosts(c) /\ \A g : Node(c, g)' = Node(c, g) /\ Id(c, g)' = Id(c, g)
      /\ Current(c)' = Current(c) /\ Text(c)' = Text(c) /\ \A q : First(c, q)' = First(c, q)
  BY <1>2, InputKept, CurrentKept DEF First
<1>4. \A g \in Hosts(c) : /\ Node(c, g) \in Nodes /\ Id(c, g) \in Ids
                          /\ g # h /\ Node(c, g) = n => Id(c, g) # i
  BY <1>1, InputFacts DEF Typed, ClientTyped
<1>5. CASE task'[c][h] = "threw"
  <2>1. ~GoesOn(c)'
    BY <1>2, <1>3, <1>5 DEF GoesOn, Threw
  <2> QED
    BY <1>2, <2>1 DEF Shipped
<1>6. CASE task'[c][h] # "threw"
  <2>1. c \notin disturbed \cup cut /\ sess[n][i].users \subseteq {c}
    BY <1>2 DEF Meets
  <2>2. Shipped(c) /\ OneWriter
    BY <2>1 DEF Shipping
  <2>3. CASE ~GoesOn(c)
    <3>1. PICK g \in Hosts(c) : task[c][g] = "threw"
      BY <1>2, <2>3 DEF GoesOn, Threw
    <3>2. task'[c][g] = "threw"
      BY <1>2, <3>1 DEF TaskStep
    <3>3. ~GoesOn(c)'
      BY <1>2, <1>3, <3>2 DEF GoesOn, Threw
    <3> QED
      BY <1>2, <3>3 DEF Shipped
  <2>4. CASE GoesOn(c)
    <3>1. \A g \in Hosts(c) : InTransit(c, g)
      BY <1>2, <2>2, <2>4 DEF Shipped
    <3>2. task[c][h] = "queued" => Sess(c, h).writer = <<>> /\ sent[c][h] = 0
      <4>1. ASSUME task[c][h] = "queued"
            PROVE  Sess(c, h).writer = <<>>
        <5>1. CASE Sess(c, h).users = {}
          <6>1. Sess(c, h) = NoSession
            BY <1>1, <1>2, <5>1 DEF Known, SessionsOwned, Sess
          <6> QED
            BY <6>1 DEF NoSession
        <5>2. CASE Sess(c, h).users = {c}
          <6>1. LoneSession(c, h) /\ ~InSend(c, h)
            BY <1>2, <2>1, <4>1 DEF Known, Lone, InSend
          <6> QED
            BY <5>2, <6>1 DEF LoneSession
        <5> QED
          BY <1>1, <2>1, <5>1, <5>2 DEF Sess
      <4> QED
        BY <3>1, <4>1 DEF InTransit
    <3>3. PICK new, linked \in BOOLEAN : Delivers(c, h, <<Current(c), new>>, linked)
      BY <2>2, <3>1, <3>2, SendDelivers
    <3>4. PICK w, C : w = <<o, new>> /\ C = IF last THEN Text(c) ELSE First(c, sent[c][h] + 1)
      OBVIOUS
    <3>5. /\ IF linked THEN PutOn(bins[n], bins'[n], w, C)
             ELSE bins'[n] = bins[n] /\ Sess(c, h).writer = <<[to |-> w, linked |-> FALSE]>>
          /\ sess'[n][i].writer = IF last THEN <<>> ELSE <<[to |-> w, linked |-> linked]>>
          /\ \A j \in Ids : j # i =>
               /\ \/ sess'[n][j].writer = sess[n][j].writer
                  \/ /\ linked /\ sess[n][j].writer # <<>> /\ sess[n][j].writer[1].to = w
                     /\ sess'[n][j].writer = <<[to |-> w, linked |-> FALSE]>>
               /\ linked /\ sess'[n][j].writer # <<>> /\ sess'[n][j].writer[1].linked => sess'[n][j].writer[1].to # w
      BY <1>1, <3>3, <3>4 DEF Delivers
    <3>6. \A y \in DOMAIN bins[n] : y \in DOMAIN bins'[n] /\ ((y = w /\ linked) \/ bins'[n][y] = bins[n][y])
      BY <3>5 DEF PutOn
    <3>7. \A m \in Nodes : m # n => bins'[m] = bins[m]
      BY <1>1, SendWrites DEF Typed
    <3>8. ASSUME NEW k \in DOMAIN in[c].work, NEW t \in 0..in[c].work[k].tests, Past(c, k, t)'
          PROVE  Delivered(c, k, t)'
      <4>1. Past(c, k, t)
        BY <1>2, <3>8 DEF Past
      <4>2. Delivered(c, k, t)
        BY <2>2, <2>4, <4>1 DEF Shipped
      <4>3. PICK b : b = Binary(c, k, t)
        OBVIOUS
      <4>4. /\ app[c] \in Nat /\ out[c] \in Nat /\ k \in Nat /\ in[c].work[k].tests \in Nat
        BY WorkFacts, CurrentFacts, InputFacts DEF Typed, ClientTyped
      <4>5. b # o
        BY <1>1, <4>1, <4>3, <4>4, BinaryNames
      <4>6. b \in DOMAIN disk'[c] /\ disk'[c][b] = disk[c][b]
        BY <1>2, <4>2, <4>3 DEF Delivered
      <4>7. ASSUME NEW g \in Hosts(c), NEW z \in BOOLEAN, NEW m, m = Node(c, g), <<b, z>> \in DOMAIN bins[m]
            PROVE  <<b, z>> \in DOMAIN bins'[m] /\ bins'[m][<<b, z>>] = bins[m][<<b, z>>]
        <5>1. <<b, z>> # w
          BY <3>4, <4>5
        <5>2. CASE m # n
          BY <1>4, <3>7, <4>7, <5>2
        <5>3. CASE m = n
          BY <3>6, <4>7, <5>1, <5>3
        <5> QED
          BY <5>2, <5>3
      <4> QED
        BY <1>2, <4>2, <4>3, <4>6, <4>7, DeliveredKept
    \* the other hosts
    <3>9. ASSUME NEW g \in Hosts(c), g # h, task[c][g] = "sending"
          PROVE  /\ task'[c][g] = "sending"
                 /\ \E z, l \in BOOLEAN : LET y == <<o, z>> IN
                      /\ Sess(c, g)'.writer = <<[to |-> y, linked |-> l]>>
                      /\ l => /\ y \in DOMAIN bins'[Node(c, g)]
                              /\ bins'[Node(c, g)][y] = First(c, sent[c][g])
      <4>1. task'[c][g] = "sending"
        BY <1>2, <3>9 DEF TaskStep
      <4>2. PICK z, l, y :
              /\ z \in BOOLEAN /\ l \in BOOLEAN
              /\ y = <<o, z>> /\ Sess(c, g).writer = <<[to |-> y, linked |-> l]>>
              /\ l => y \in DOMAIN bins[Node(c, g)] /\ bins[Node(c, g)][y] = First(c, sent[c][g])
        BY <1>1, <3>1, <3>9 DEF InTransit
      <4>3. CASE Node(c, g) # n
        <5>1. Sess(c, g)' = Sess(c, g) /\ bins'[Node(c, g)] = bins[Node(c, g)]
          BY <1>2, <1>3, <1>4, <3>7, <4>3 DEF Sess
        <5> QED
          BY <4>1, <4>2, <5>1
      <4>4. CASE Node(c, g) = n
        <5>1. PICK j, t, u : j = Id(c, g) /\ t = sess[n][j].writer /\ u = sess'[n][j].writer
          OBVIOUS
        <5>2. j \in Ids /\ j # i /\ t = <<[to |-> y, linked |-> l]>> /\ Sess(c, g)'.writer = u
          BY <1>3, <1>4, <3>9, <4>2, <4>4, <5>1 DEF Sess
        <5>3. /\ u = t \/ (linked /\ t[1].to = w /\ u = <<[to |-> w, linked |-> FALSE]>>)
              /\ linked /\ u # <<>> /\ u[1].linked => u[1].to # w
          BY <3>5, <5>1, <5>2
        <5>4. t[1].to = y /\ t[1].linked = l /\ t # <<>>
          BY <5>2
        <5>5. CASE u = t
          <6>1. l => y # w \/ ~linked
            BY <5>3, <5>4, <5>5
          <6>2. l => y \in DOMAIN bins'[n] /\ bins'[n][y] = First(c, sent[c][g])
            BY <3>6, <4>2, <4>4, <6>1
          <6> QED
            BY <4>1, <4>2, <4>4, <5>2, <5>5, <6>2
        <5>6. CASE u # t
          <6>1. y = w /\ u = <<[to |-> y, linked |-> FALSE]>>
            BY <5>3, <5>4, <5>6
          <6>2. PICK f : f = FALSE
            OBVIOUS
          <6>3. f \in BOOLEAN /\ Sess(c, g)'.writer = <<[to |-> y, linked |-> f]>> /\ ~f
            BY <5>2, <6>1, <6>2
          <6> QED
            BY <4>1, <4>2, <6>3
        <5> QED
          BY <5>5, <5>6
      <4> QED
        BY <4>3, <4>4
    <3>10. ASSUME NEW g \in Hosts(c), g # h, NEW y, Receives(c, g, y), ~(linked /\ y = w /\ Node(c, g) = n)
           PROVE  Receives(c, g, y)'
      <4>1. task[c][g] = "sending" /\ Sess(c, g).writer = <<[to |-> y, linked |-> TRUE]>>
        BY <3>10 DEF Receives
      <4>2. task'[c][g] = "sending"
        BY <3>9, <3>10, <4>1
      <4>3. Sess(c, g)'.writer = Sess(c, g).writer
        <5>1. CASE Node(c, g) # n
          BY <1>2, <1>3, <1>4, <5>1 DEF Sess
        <5>2. CASE Node(c, g) = n
          <6>1. PICK j, t, u : j = Id(c, g) /\ t = sess[n][j].writer /\ u = sess'[n][j].writer
            OBVIOUS
          <6>2. j \in Ids /\ j # i /\ t = Sess(c, g).writer /\ Sess(c, g)'.writer = u
            BY <1>3, <1>4, <3>10, <5>2, <6>1 DEF Sess
          <6>3. t[1].to = y
            BY <4>1, <6>2
          <6>4. u = t \/ (linked /\ t[1].to = w)
            BY <3>5, <6>1, <6>2
          <6> QED
            BY <3>10, <5>2, <6>2, <6>3, <6>4
        <5> QED
          BY <5>1, <5>2
      <4> QED
        BY <4>1, <4>2, <4>3 DEF Receives
    \* its node, as far as this packet goes
    <3>11. Sess(c, h)'.writer = IF last THEN <<>> ELSE <<[to |-> w, linked |-> linked]>>
      BY <1>1, <1>3, <3>5 DEF Sess
    <3>12. Underway(c, n) \/ linked
      <4>1. SUFFICES ASSUME ~linked
                     PROVE  Underway(c, n)
        OBVIOUS
      <4>2. task[c][h] = "sending"
        <5>1. PICK x : Sess(c, h).writer = <<x>>
          BY <3>5, <4>1
        <5>2. Sess(c, h).writer # <<>>
          BY <5>1
        <5> QED
          BY <1>2, <3>2, <5>2
      <4> QED
        BY <1>1, <3>1, <4>2 DEF InTransit
    <3>13. Underway(c, n) \/ linked => Underway(c, n)'
      <4>1. CASE linked
        <5>1. w \in DOMAIN bins'[n] /\ bins'[n][w] = C
          BY <3>5, <4>1 DEF PutOn
        <5>2. CASE last
          <6>1. bins'[n][w] = Text(c)
            BY <3>4, <5>1, <5>2
          <6> QED
            BY <1>1, <1>2, <1>3, <3>4, <5>1, <6>1 DEF Underway
        <5>3. CASE ~last
          <6>1. task'[c][h] = "sending" /\ linked = TRUE
            BY <1>2, <1>6, <4>1, <5>3
          <6>2. Receives(c, h, w)'
            BY <3>11, <5>3, <6>1 DEF Receives
          <6>3. \E g \in Hosts(c) : Node(c, g) = n /\ Receives(c, g, w)'
            BY <1>1, <6>2
          <6> QED
            BY <1>1, <1>2, <1>3, <3>4, <5>1, <6>3 DEF Underway
        <5> QED
          BY <5>2, <5>3
      <4>2. CASE ~linked /\ Underway(c, n)
        <5>1. PICK z, y :
                /\ z \in BOOLEAN
                /\ y = <<o, z>> /\ y \in DOMAIN bins[n]
                /\ bins[n][y] = Text(c) \/ \E g \in Hosts(c) : Node(c, g) = n /\ Receives(c, g, y)
          BY <1>1, <4>2 DEF Underway
        <5>2. bins'[n] = bins[n]
          BY <3>5, <4>2
        <5>3. ASSUME NEW g \in Hosts(c), Node(c, g) = n, Receives(c, g, y)
              PROVE  Receives(c, g, y)'
          <6>1. CASE g = h
            <7>1. PICK x, z1 : x = [to |-> y, linked |-> TRUE] /\ z1 = [to |-> w, linked |-> FALSE]
              OBVIOUS
            <7>2. x.linked = TRUE /\ z1.linked = FALSE
              BY <7>1
            <7>3. Sess(c, h).writer = <<x>> /\ Sess(c, h).writer = <<z1>>
              BY <3>5, <4>2, <5>3, <6>1, <7>1 DEF Receives
            <7>4. x = z1
              <8>1. <<x>>[1] = <<z1>>[1]
                BY <7>3
              <8> QED
                BY <8>1
            <7> QED
              BY <7>2, <7>4
          <6>2. CASE g # h
            BY <3>10, <4>2, <5>3, <6>2
          <6> QED
            BY <6>1, <6>2
        <5> QED
          BY <1>1, <1>2, <1>3, <5>1, <5>2, <5>3 DEF Underway
      <4> QED
        BY <4>1, <4>2
    <3>14. \A m \in Nodes : m # n /\ Underway(c, m) => Underway(c, m)'
      <4> TAKE m \in Nodes
      <4>1. HAVE m # n /\ Underway(c, m)
      <4>2. PICK z, y :
              /\ z \in BOOLEAN
              /\ y = <<o, z>> /\ y \in DOMAIN bins[m]
              /\ bins[m][y] = Text(c) \/ \E g \in Hosts(c) : Node(c, g) = m /\ Receives(c, g, y)
        BY <1>1, <4>1 DEF Underway
      <4>3. \A g \in Hosts(c) : Node(c, g) = m /\ Receives(c, g, y) => Receives(c, g, y)'
        BY <1>1, <3>10, <4>1
      <4>4. bins'[m] = bins[m]
        BY <3>7, <4>1
      <4> QED
        BY <1>1, <1>2, <1>3, <4>2, <4>3, <4>4 DEF Underway
    <3>15. InTransit(c, h)'
      <4>1. task'[c][h] = "end" => last
        BY <1>2
      <4>2. task'[c][h] = "sending" => ~last
        BY <1>2
      <4>3. ASSUME ~last
            PROVE  /\ Sess(c, h)'.writer = <<[to |-> w, linked |-> linked]>>
                   /\ linked => w \in DOMAIN bins'[n] /\ bins'[n][w] = First(c, sent'[c][h])
        BY <1>2, <3>4, <3>5, <3>11, <4>3 DEF PutOn
      <4>4. Underway(c, n)'
        BY <3>12, <3>13
      <4>5. Node(c, h)' = n /\ Current(c)' = o /\ app'[c] = app[c]
        BY <1>1, <1>2, <1>3
      <4>6. task'[c][h] # "queued"
        BY <1>2
      <4>7. First(c, sent[c][h])' = First(c, sent'[c][h])
        BY <1>3 DEF First
      <4> QED
        BY <3>4, <4>2, <4>3, <4>4, <4>5, <4>6, <4>7 DEF InTransit
    <3>16. ASSUME NEW g \in Hosts(c), g # h
           PROVE  InTransit(c, g)'
      <4>1. InTransit(c, g) /\ task'[c][g] = task[c][g] /\ sent'[c][g] = sent[c][g]
        BY <1>2, <3>1, <3>16 DEF TaskStep
      <4>2. PICK m : m = Node(c, g)
        OBVIOUS
      <4>3. Node(c, g)' = m /\ m \in Nodes /\ Current(c)' = o
        BY <1>1, <1>2, <1>3, <1>4, <4>2
      <4>4. Underway(c, m) => Underway(c, m)'
        BY <3>13, <3>14, <4>3
      <4>5. task'[c][g] = "sending" => \E z, l \in BOOLEAN : LET y == <<o, z>> IN
              /\ Sess(c, g)'.writer = <<[to |-> y, linked |-> l]>>
              /\ l => y \in DOMAIN bins'[m] /\ bins'[m][y] = First(c, sent'[c][g])
        BY <3>9, <3>16, <4>1, <4>2
      <4>6. First(c, sent[c][g])' = First(c, sent'[c][g])
        BY <1>3 DEF First
      <4> QED
        BY <4>1, <4>2, <4>3, <4>4, <4>5, <4>6 DEF InTransit
    <3> QED
      <4>1. \A g \in Hosts(c)' : InTransit(c, g)'
        BY <1>3, <3>15, <3>16
      <4>2. \A k \in DOMAIN in'[c].work : \A t \in 0..in'[c].work[k].tests : Past(c, k, t)' => Delivered(c, k, t)'
        BY <1>2, <3>8
      <4> QED
        BY <1>2, <4>1, <4>2 DEF Shipped
  <2> QED
    BY <2>3, <2>4
<1> QED
  BY <1>5, <1>6

\* ... and for the others: those it could meet are disturbed.
LEMMA SendShips ==
  ASSUME Typed, Known, Shipping, NEW c \in Users, NEW h \in Hosts(c), Send(c, h)
  PROVE  Shipping'
<1>1. PICK n, i : n = Node(c, h) /\ i = Id(c, h)
  OBVIOUS
<1>2. /\ n \in Nodes /\ i \in Ids /\ UNCHANGED <<in, phase, app, out, disk, cut>>
      /\ \A m \in Nodes : m # n => sess'[m] = sess[m] /\ bins'[m] = bins[m]
      /\ TaskStep(c, h) /\ Meets(c, n, i) /\ \A x \in Users : x # c => sent'[x] = sent[x]
  BY <1>1, SendFacts, SendWrites DEF Typed
<1>3. Users' = Users /\ disturbed \subseteq disturbed'
  BY <1>2, InputKept DEF Meets
<1>4. OneWriter'
  <2>1. (sent[c][h] = Len(Text(c))) \in BOOLEAN
    OBVIOUS
  <2>2. IF sess[n][i].writer = <<>>
        THEN Opened(n, i, Current(c), Packet(c, h), sent[c][h] = Len(Text(c)))
        ELSE Appended(n, i, Packet(c, h), sent[c][h] = Len(Text(c)))
    BY <1>1, SendWrites DEF Typed
  <2> QED
    BY <1>2, <2>1, <2>2, SendOneWriter DEF Typed, Shipping
<1>5. ASSUME NEW x \in Users, x # c, x \notin disturbed' \cup cut'
      PROVE  Shipped(x)'
  <2>1. Shipped(x) /\ Waits(x)
    BY <1>2, <1>3, <1>5 DEF Shipping, Waits, TaskStep
  <2>2. ASSUME GoesOn(x), NEW g \in Hosts(x)
        PROVE  Node(x, g) # n
    <3>1. x \notin Others(n, c)
      BY <1>2, <1>5 DEF Meets
    <3>2. phase[x] \notin Ended \cup {"ping"}
      BY <2>2 DEF GoesOn, Ended
    <3> QED
      BY <1>5, <2>2, <3>1, <3>2 DEF Others
  <2>3. \A g \in Hosts(x) : Node(x, g) \in Nodes
    BY InputFacts DEF Typed, ClientTyped
  <2>4. GoesOn(x) => \A g \in Hosts(x) : /\ bins'[Node(x, g)] = bins[Node(x, g)]
                                         /\ sess'[Node(x, g)][Id(x, g)].writer = Sess(x, g).writer
    BY <1>2, <2>2, <2>3 DEF Sess
  <2> QED
    BY <1>2, <2>1, <2>4, ShippedKept
<1> QED
  BY <1>3, <1>4, <1>5, SendOwnShips DEF Shipping

\* Nothing but the end of DistLinker::send ends a build well.
LEMMA OnlySentEnds ==
  ASSUME Typed, Known, [Next]_vars, NEW c \in Users, phase'[c] = "done", phase[c] # "done"
  PROVE  Sent(c)
<1>1. ASSUME NEW x \in Users, Main(x) \/ Killed(x) \/ \E h \in Hosts(x) : Unanswered(x, h)
      PROVE  Sent(c)
  <2>1. ClientStep(x)
    BY <1>1, OwnSteps DEF Quiet
  <2>2. x = c
    BY <2>1 DEF ClientStep, OneClient
  <2>3. CASE Killed(c)
    BY <2>3, KilledFacts DEF Typed
  <2>4. CASE \E h \in Hosts(c) : Unanswered(c, h)
    BY <2>4 DEF Unanswered
  <2>5. CASE Pinged(c)
    BY <2>5, PingedFacts DEF Typed
  <2>6. CASE Split(c)
    BY <2>6, SplitFacts DEF Typed
  <2>7. CASE LocalCompile(c)
    BY <2>7, LocalCompileFacts DEF Typed
  <2>8. CASE Join(c)
    BY <2>8, JoinFacts DEF Typed
  <2>9. CASE Link(c)
    BY <2>9, LinkFacts DEF Typed
  <2> QED
    BY <1>1, <2>2, <2>3, <2>4, <2>5, <2>6, <2>7, <2>8, <2>9 DEF Main
<1>2. ASSUME NEW x \in Users, NEW h \in Hosts(x), Setup(x, h) \/ CompileStart(x, h) \/ Download(x, h) \/ Send(x, h)
      PROVE  phase' = phase
  BY <1>2 DEF Setup, CompileStart, Download, Send
<1>3. ASSUME NEW n \in Nodes, (\E r \in busy[n] : CompileEnd(n, r)) \/ Die(n) \/ Restart(n)
      PROVE  phase' = phase
  BY <1>3 DEF CompileEnd, Die, Restart, client
<1>4. CASE UNCHANGED vars
  BY <1>4 DEF vars, client
<1> QED
  BY <1>1, <1>2, <1>3, <1>4 DEF Next, Exchange, Handler, Finished

LEMMA InitShips ==
  ASSUME Init
  PROVE  Shipping
<1>1. OneWriter
  BY DEF Init, OneWriter, NoSession
<1>2. \A c \in Users : phase[c] = "ping" /\ app[c] = 1 /\ out[c] = 0
  BY DEF Init
<1> QED
  BY <1>1, <1>2 DEF Shipping, Shipped, GoesOn

LEMMA NextShips ==
  ASSUME Typed, Known, Shipping, [Next]_vars
  PROVE  Shipping'
<1>1. ASSUME NEW c \in Users, Main(c) \/ Killed(c) \/ \E h \in Hosts(c) : Unanswered(c, h)
      PROVE  Shipping'
  BY <1>1, PhaseShips
<1>2. ASSUME NEW c \in Users, NEW h \in Hosts(c), Setup(c, h) \/ CompileStart(c, h) \/ Download(c, h) \/ Send(c, h)
      PROVE  Shipping'
  BY <1>2, RequestShips, SendShips
<1>3. ASSUME NEW n \in Nodes, (\E r \in busy[n] : CompileEnd(n, r)) \/ Die(n) \/ Restart(n)
      PROVE  Shipping'
  BY <1>3, CompileEndShips, DieShips, RestartShips
<1>4. CASE UNCHANGED vars
  BY <1>4, StutterShips
<1> QED
  BY <1>1, <1>2, <1>3, <1>4 DEF Next, Exchange, Handler, Finished

LEMMA AlwaysShips == Spec => [](Typed /\ Known /\ Shipping)
<1>1. Init => Typed /\ Known /\ Shipping
  BY InitTyped, InitMet, InitShips
<1>2. (Typed /\ Known /\ Shipping) /\ [Next]_vars => (Typed /\ Known /\ Shipping)'
  BY NextMet, NextShips
<1> QED
  BY <1>1, <1>2, PTL DEF Spec

-----------------------------------------------------------------------------
(* The theorems.                                                           *)

LEMMA OptLength ==
  ASSUME NEW S, NEW x \in Opt(S)
  PROVE  Len(x) <= 1
<1>1. CASE x = <<>>
  BY <1>1
<1>2. CASE x # <<>>
  <2>1. PICK y \in S : x = <<y>>
    BY <1>2 DEF Opt
  <2> QED
    BY <2>1
<1> QED
  BY <1>1, <1>2

\* The types of the state of clients and nodes, and: the reader a session has
\* open is on the first of the files it still has to send, whatever was left
\* behind by downloads that failed, batches that failed and nodes that died,
\* unless a client met another there (DownloadRequest::do_response_for).
THEOREM TypeCorrect == Spec => []TypeOK
<1>1. Typed /\ Known => TypeOK
  <2> SUFFICES ASSUME Typed, Known
               PROVE  TypeOK
    OBVIOUS
  <2>1. ASSUME NEW c \in Users
        PROVE  /\ phase[c] \in {"ping", "split", "pool", "link", "send"} \cup Ended
               /\ app[c] \in DOMAIN in[c].work
               /\ out[c] \in 0..Work(c).tests /\ again[c] \in BOOLEAN
               /\ local[c] \subseteq Objects(c)
               /\ \A h \in Hosts(c) :
                    /\ task[c][h] \in {"none", "queued", "wait", "download", "sending", "end", "threw"}
                    /\ \A j \in DOMAIN share[c][h] : share[c][h][j] \in Objects(c)
                    /\ Len(writer[c][h]) <= 1
                    /\ sent[c][h] \in Nat
                    /\ phase[c] = "send" => sent[c][h] <= Len(Text(c)) + 1
    <3>1. ClientAt(c) /\ Sending(c)
      BY DEF Typed, ClientTyped, InStep, InStepAt
    <3>2. ASSUME NEW h \in Hosts(c)
          PROVE  /\ task[c][h] \in TaskNames
                 /\ \A j \in DOMAIN share[c][h] : share[c][h][j] \in Objects(c)
                 /\ Len(writer[c][h]) <= 1
                 /\ sent[c][h] \in Nat
                 /\ phase[c] = "send" => sent[c][h] <= Len(Text(c)) + 1
      <4>1. /\ task[c][h] \in TaskNames /\ sent[c][h] \in Nat
            /\ phase[c] = "send" => sent[c][h] <= Len(Text(c)) + 1
        BY <3>1 DEF ClientAt, LinksAt, Sending
      <4>2. \A j \in DOMAIN share[c][h] : share[c][h][j] \in Objects(c)
        BY <3>1 DEF ClientAt
      <4>3. writer[c][h] \in Opt(Targets)
        BY <3>1 DEF ClientAt
      <4> QED
        BY <4>1, <4>2, <4>3, OptLength
    <3>3. /\ phase[c] \in PhaseNames /\ app[c] \in DOMAIN in[c].work /\ local[c] \subseteq Objects(c)
          /\ out[c] \in 0..Work(c).tests /\ again[c] \in BOOLEAN
      BY <3>1 DEF ClientAt, LinksAt
    <3> QED
      BY <3>2, <3>3 DEF PhaseNames, TaskNames, Ended
  <2>2. ASSUME NEW n \in Nodes
        PROVE  /\ up[n] \in BOOLEAN
               /\ cwd[n] \in Dirs
               /\ opts[n] \in Users \cup {"none"}
               /\ \A i \in Ids : /\ sess[n][i].users \subseteq Users
                                 /\ sess[n][i].app \in Dirs \cup {"none"}
                                 /\ Len(sess[n][i].reader) <= 1 /\ Len(sess[n][i].writer) <= 1
    <3>1. ASSUME NEW i \in Ids
          PROVE  /\ sess[n][i].users \subseteq Users
                 /\ sess[n][i].app \in Dirs \cup {"none"}
                 /\ Len(sess[n][i].reader) <= 1 /\ Len(sess[n][i].writer) <= 1
      BY SessionFields, OptLength DEF Typed
    <3> QED
      BY <3>1 DEF Typed, NodeTyped
  <2>3. disturbed \cup cut \subseteq Users
    BY DEF Typed, ClientTyped
  <2>4. ASSUME NEW n \in Nodes, NEW i \in Ids, sess[n][i].reader # <<>>, sess[n][i].users \cap disturbed = {}
        PROVE  /\ sess[n][i].src # <<>> /\ sess[n][i].reader[1].of = Head(sess[n][i].src)
               /\ ~sess[n][i].reader[1].void
    <3>1. sess[n][i].users # {}
      BY <2>4 DEF Known, SessionsOwned, NoSession
    <3>2. PICK c : c \in sess[n][i].users
      BY <3>1
    <3>3. c \in Users \ disturbed
      BY <2>4, <3>2, SessionFields DEF Typed
    <3>4. sess[n][i].users = {c}
      BY <2>4, <3>2 DEF Known, Met, MeetUsers
    <3>5. PICK h \in Hosts(c) : Node(c, h) = n /\ Id(c, h) = i
      BY <3>2 DEF Known, SessionsOwned
    <3>6. LoneSession(c, h)
      BY <3>3 DEF Known, Lone
    <3> QED
      BY <2>4, <3>4, <3>5, <3>6 DEF LoneSession, Sess
  <2> QED
    BY <2>1, <2>2, <2>3, <2>4 DEF TypeOK, ReaderOnHead
<1> QED
  BY <1>1, AlwaysMet, PTL

\* Whatever failed on the way of a batch that ended well, or of a set-up: no
\* session that only this client used has files to send, or a file open, when
\* the next begins (m_src_obj, m_binary_reader and m_binary_writer).
THEOREM LeftNothing == Spec => []Drained
<1>1. Typed /\ Known => Drained
  <2> SUFFICES ASSUME Typed, Known, NEW c \in Users \ disturbed, phase[c] \in {"split", "done"},
                      NEW h \in Hosts(c), Sess(c, h).users = {c}
               PROVE  Sess(c, h).src = <<>> /\ Sess(c, h).reader = <<>> /\ Sess(c, h).writer = <<>>
    BY DEF Drained, Sess
  <2>1. LoneSession(c, h)
    BY DEF Known, Lone
  <2>2. ~InPool(c, h) /\ ~InSend(c, h)
    BY DEF InPool, InSend
  <2> QED
    BY <2>1, <2>2 DEF LoneSession
<1> QED
  BY <1>1, AlwaysMet, PTL

\* A build that ends well has every object of every application, whole and
\* compiled with its own options: through answers lost before or after their
\* request was handled, nodes that die and start again between any two steps,
\* other clients on other nodes, and any number of sources, hosts and packets
\* (compile_lambda, DownloadRequest and Application::compile); for clients
\* whose use of a node met that of no other.
THEOREM EveryObjectWhole == Spec => []Complete
<1>1. Typed /\ Known /\ Own /\ ObjectsDone => Complete
  <2> SUFFICES ASSUME Typed, ObjectsDone, NEW c \in Users \ disturbed, phase[c] = "done", NEW o \in Objects(c)
               PROVE  Result(c, o) = Whole(o, c)
    BY DEF Complete
  <2>1. OthersBatches(c)
    BY DEF ObjectsDone, ObjectsAt
  <2>2. in \in Inputs /\ app[c] = Len(in[c].work)
    BY DEF Typed, ClientTyped, InStep, InStepAt
  <2>6. PICK k \in DOMAIN in[c].work : \E i \in 1..in[c].work[k].n : o = Object(c, k, i)
    BY <2>2, ObjectFacts
  <2>3. PICK i \in 1..in[c].work[k].n : o = Object(c, k, i)
    BY <2>6
  <2>4. k < app[c] \/ k = app[c]
    <3>1. DOMAIN in[c].work = 1..Len(in[c].work) /\ Len(in[c].work) \in Nat
      BY <2>2, InputFacts
    <3>2. PICK l : l = Len(in[c].work)
      OBVIOUS
    <3>3. k \in 1..l /\ l \in Nat
      BY <2>6, <3>1, <3>2
    <3> QED
      BY <2>2, <3>2, <3>3
  <2>5. Good(c, Object(c, k, i))
    BY <2>1, <2>6, <2>3, <2>4 DEF OthersBatches
  <2> QED
    BY <2>3, <2>5 DEF Good
<1> QED
  BY <1>1, AlwaysComplete, PTL

\* A build that ends well has left every binary it linked on every host, as it
\* is here, beside an older one or in its place, also where two hosts are one
\* node and write the same file; and those that have to link were linked, though
\* each was sent before anyone looked (DistLinker::send, post_lambda,
\* LinkRequest::do_response_for and checkErrors); for clients whose use of a node
\* met that of no other, and none of whose nodes died between two packets.
THEOREM EveryBinaryWhole == Spec => SentWhole
<1>1. ASSUME Typed, Known, Shipping, [Next]_vars, NEW c \in Users, phase'[c] = "done", phase[c] # "done",
             c \notin disturbed \cup cut, NEW k \in DOMAIN in[c].work, NEW t \in 0..in[c].work[k].tests
      PROVE  Delivered(c, k, t)
  <2>1. Sent(c)
    BY <1>1, OnlySentEnds
  <2>2. /\ phase[c] = "send" /\ Settled(c) /\ ~Threw(c) /\ ~LinkFailed(c)
        /\ app[c] = Len(in[c].work) /\ out[c] = Work(c).tests
    BY <1>1, <2>1, SentFacts DEF Typed
  <2>3. k < app[c] \/ k = app[c]
    <3>1. DOMAIN in[c].work = 1..Len(in[c].work) /\ Len(in[c].work) \in Nat
      BY <1>1, InputFacts DEF Typed, ClientTyped
    <3>2. PICK l : l = Len(in[c].work)
      OBVIOUS
    <3>3. k \in 1..l /\ l \in Nat
      BY <3>1, <3>2
    <3> QED
      BY <2>2, <3>2, <3>3
  <2>4. Past(c, k, t) \/ (k = app[c] /\ t = out[c])
    <3>1. CASE k < app[c]
      BY <3>1 DEF Past
    <3>2. CASE k = app[c]
      <4>1. t \in 0..out[c] /\ out[c] \in Nat
        BY <1>1, <2>2, <3>2, CurrentFacts DEF Typed, Work
      <4>2. t < out[c] \/ t = out[c]
        BY <4>1
      <4> QED
        BY <3>2, <4>2 DEF Past
    <3> QED
      BY <2>3, <3>1, <3>2
  <2>5. CASE k = app[c] /\ t = out[c]
    BY <1>1, <2>2, <2>5, AllArrived
  <2>6. CASE Past(c, k, t)
    BY <1>1, <2>2, <2>6 DEF Shipping, Shipped, GoesOn
  <2> QED
    BY <2>4, <2>5, <2>6
<1>2. Typed /\ Known /\ Shipping /\ [Next]_vars =>
        [\A c \in Users : phase'[c] = "done" /\ phase[c] # "done" /\ c \notin disturbed \cup cut =>
           \A k \in DOMAIN in[c].work : \A t \in 0..in[c].work[k].tests :
             LET b == Binary(c, k, t) IN
               /\ b \in DOMAIN disk[c] /\ (t = 0 => disk[c][b] = Whole(b, c))
               /\ \A h \in Hosts(c) : \E new \in BOOLEAN :
                    /\ <<b, new>> \in DOMAIN bins[Node(c, h)]
                    /\ bins[Node(c, h)][<<b, new>>] = disk[c][b]]_vars
  BY <1>1 DEF Delivered, Arrived
<1> QED
  BY <1>2, AlwaysShips, PTL DEF Spec, SentWhole
=============================================================================
