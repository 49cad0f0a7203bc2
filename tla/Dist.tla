-------------------------------- MODULE Dist --------------------------------
(***************************************************************************)
(* Distributed compilation: clients (mkn -n) hand part of each batch of    *)
(* sources to nodes (server.cpp) over HTTP and fetch the objects.          *)
(*                                                                         *)
(*   client: CREATE sends each node a SetupRequest; per application,       *)
(*     compile(vector) posts a CompileRequest per node from a pool thread, *)
(*     then DownloadRequests until files_left is 0, while the main thread  *)
(*     compiles the rest.  DistLinker sends what is linked to every host,  *)
(*     before anyone looks at what the linker said.                        *)
(*   node: one process whose threads share the working directory, the      *)
(*     options (AppVars) and the sessions, keyed by Host::session_id: the  *)
(*     name of the node and an address in the client's memory.             *)
(*                                                                         *)
(* An exchange may fail before or after its handler ran; a node may die    *)
(* and be started again; a client may be killed.  Where the code runs into *)
(* undefined behaviour (apps_vector()[0] or src_obj[0] of an empty vector, *)
(* a SetupRequest owned by Post and session) the process dies, which Die   *)
(* and Unanswered allow at any moment.  A directory stands for a project,  *)
(* an object for its packets, the options for the client that gave them.   *)
(* Nodes have their own copy of the sources: none are sent.                *)
(***************************************************************************)
EXTENDS Naturals, Sequences

CONSTANTS Clients, Nodes,
          Ids,       \* session identities
          Dirs,      \* project directories, and Home
          Home,      \* where nodes are started: no project
          Packets,   \* packets of data per object
          Restarts,  \* how often a dead node may be started again
          Inputs     \* the clients of one behaviour and what each is to do

(* An input is a function from some clients to records:                    *)
(*   hosts   the nodes of its settings, in order                           *)
(*   nodes   the number given to -n                                        *)
(*   ids     its session identity for each of hosts                        *)
(*   home    the directory of its root project                             *)
(*   at      whether it is run with -C home                                *)
(*   work    the applications to compile: directory, number of sources,    *)
(*           whether a library is linked, and how many tests               *)
(*   olds    whether objects and binaries of an earlier build exist        *)
(* Two entries for one node are two Hosts, at two addresses.               *)
Jobs == [dir : Dirs \ {Home}, n : Nat, lib : BOOLEAN, tests : Nat]
Valid(r) ==
  /\ r.hosts \in Seq(Nodes) /\ r.ids \in Seq(Ids) /\ DOMAIN r.hosts \subseteq DOMAIN r.ids
  /\ \A g, h \in DOMAIN r.hosts : g # h /\ r.hosts[g] = r.hosts[h] => r.ids[g] # r.ids[h]
  /\ r.nodes \in Nat /\ r.at \in BOOLEAN /\ r.olds \in BOOLEAN
  /\ r.home \in Dirs \ {Home} /\ r.work \in Seq(Jobs) \ {<<>>}

ASSUME InputsAssumption ==
  /\ Home \in Dirs /\ "none" \notin Dirs \cup Clients
  /\ Packets \in Nat /\ Restarts \in Nat
  /\ \A x \in Inputs : DOMAIN x \subseteq Clients /\ \A c \in DOMAIN x : Valid(x[c])

VARIABLES
  in,        \* the input
  phase,     \* main thread of each client
  app,       \* position in work
  task,      \* pool thread per host
  share,     \* remote_src_objs per host
  local,     \* sources the main thread still has to compile
  writer,    \* fw per host: <<>> or <<the file being written>>
  have,      \* the client's object files
  fresh,     \* its object files with ".new" appended
  out,       \* what of the application is linked: 0, or the number of a test
  again,     \* whether its library is sent for the second time
  disk,      \* its binaries: those that were linked, or tried
  sent,      \* packets of the binary sent per host
  up, restarts,
  cwd, opts, \* working directory and AppVars of each node
  sess,      \* sessions of each node
  made,      \* object files on the node, with the options they were made with
  bins,      \* binaries received, by name and whether ".new" is appended
  busy,      \* CompileRequests being handled
  disturbed, \* (history) clients whose use of a node met that of another
  cut        \* (history) clients whose node died between packets of a binary

shipping == <<out, again, disk, sent>>
client == <<phase, app, task, share, local, writer, have, fresh, shipping>>
node   == <<up, restarts, cwd, opts, sess, made, bins, busy>>
history == <<disturbed, cut>>
vars   == <<in, client, node, history>>

Users      == DOMAIN in
Hosts(c)   == DOMAIN in[c].hosts
Node(c, h) == in[c].hosts[h]
Id(c, h)   == in[c].ids[h]
Work(c)    == in[c].work[app[c]]
Ended      == {"done", "failed"}

\* The number of hosts used: the smaller of the two.
Threads(c) == IF Len(in[c].hosts) < in[c].nodes THEN Len(in[c].hosts)
                                                ELSE in[c].nodes

\* The object file of source i of application k; the name holds a hash of
\* the path of the source, but is relative to the project directory.
Object(c, k, i) == <<in[c].work[k].dir, k, i>>
Objects(c) == UNION {{Object(c, k, i) : i \in 1..in[c].work[k].n} : k \in DOMAIN in[c].work}

Chunk(o, k, by) == [of |-> o, k |-> k, by |-> by]
Whole(o, by)    == [k \in 1..Packets |-> Chunk(o, k, by)]
Old(o)          == <<Chunk(o, 0, "earlier")>>

\* users is a history variable: the clients the session has served.
NoSession == [users |-> {}, app |-> "none", src |-> <<>>, reader |-> <<>>, writer |-> <<>>]
NoFiles   == [o \in {} |-> <<>>]

Init == /\ in \in Inputs
        /\ phase = [c \in Users |-> "ping"]
        /\ app = [c \in Users |-> 1]
        /\ task = [c \in Users |->
                     [h \in Hosts(c) |-> IF h <= Threads(c) THEN "queued" ELSE "none"]]
        /\ share = [c \in Users |-> [h \in Hosts(c) |-> <<>>]]
        /\ local = [c \in Users |-> {}]
        /\ writer = [c \in Users |-> [h \in Hosts(c) |-> <<>>]]
        /\ have = [c \in Users |-> IF in[c].olds THEN [o \in Objects(c) |-> Old(o)]
                                                 ELSE NoFiles]
        /\ fresh = [c \in Users |-> NoFiles]
        /\ out = [c \in Users |-> 0]
        /\ again = [c \in Users |-> FALSE]
        /\ disk = [c \in Users |-> NoFiles]
        /\ sent = [c \in Users |-> [h \in Hosts(c) |-> 0]]
        /\ up = [n \in Nodes |-> TRUE]
        /\ restarts = 0
        /\ cwd = [n \in Nodes |-> Home]
        /\ opts = [n \in Nodes |-> "none"]
        /\ sess = [n \in Nodes |-> [i \in Ids |-> NoSession]]
        /\ made = [n \in Nodes |-> [o \in {} |-> "none"]]
        /\ bins = [n \in Nodes |-> NoFiles]
        /\ busy = [n \in Nodes |-> {}]
        /\ disturbed = {}
        /\ cut = {}

Set(f, c, h, v) == [f EXCEPT ![c][h] = v]
Put(f, x, v)    == [y \in DOMAIN f \cup {x} |-> IF y = x THEN v ELSE f[y]]

-----------------------------------------------------------------------------
(* The network and the processes.                                          *)

\* send() throws: the connection failed before the request was handled.
Unanswered(c, h) ==
  /\ phase[c] \in {"ping", "pool", "send"}
  /\ task[c][h] \in {"queued", "download", "sending"}
  /\ task' = Set(task, c, h, "threw")
  /\ UNCHANGED <<in, phase, app, share, local, writer, have, fresh, shipping, node, history>>

\* What the pool thread does after the answer, or without it.
After(got, next) == IF got THEN next ELSE "threw"

Die(n) ==
  /\ up[n]
  /\ \E c \in Users : \E h \in Hosts(c) : Node(c, h) = n
  /\ up' = [up EXCEPT ![n] = FALSE]
  /\ sess' = [sess EXCEPT ![n] = [i \in Ids |-> NoSession]]
  /\ busy' = [busy EXCEPT ![n] = {}]
  /\ task' = [c \in Users |-> [h \in Hosts(c) |->
                IF Node(c, h) = n /\ task[c][h] = "wait" THEN "threw" ELSE task[c][h]]]
  /\ cut' = cut \cup {c \in Users : \E h \in Hosts(c) :
                       Node(c, h) = n /\ phase[c] = "send" /\ task[c][h] = "sending"}
  /\ UNCHANGED <<in, phase, app, share, local, writer, have, fresh, shipping, restarts, cwd,
                 opts, made, bins, disturbed>>

Restart(n) ==
  /\ ~up[n]
  /\ restarts < Restarts
  /\ restarts' = restarts + 1
  /\ up' = [up EXCEPT ![n] = TRUE]
  /\ cwd' = [cwd EXCEPT ![n] = Home]
  /\ opts' = [opts EXCEPT ![n] = "none"]
  /\ UNCHANGED <<in, client, sess, made, bins, busy, history>>

Killed(c) ==
  /\ phase[c] \notin Ended
  /\ phase' = [phase EXCEPT ![c] = "failed"]
  /\ UNCHANGED <<in, app, task, share, local, writer, have, fresh, shipping, node, history>>

-----------------------------------------------------------------------------
(* The node.                                                               *)

\* Those who use node n, other than c: clients that have turned to it and not
\* come to an end, and those whose request is still being handled.
Others(n, c) ==
  {x \in Users \ {c} :
     \/ phase[x] \notin Ended /\ \E h \in Hosts(x) : Node(x, h) = n /\ task[x][h] # "queued"
     \/ phase[x] \notin Ended \cup {"ping"} /\ \E h \in Hosts(x) : Node(x, h) = n
     \/ \E b \in busy[n] : b.c = x}

\* Client c turns to session i of node n.
Meets(c, n, i) ==
  /\ disturbed' = disturbed \cup IF Others(n, c) # {} \/ sess[n][i].users \ {c} # {}
                                THEN Others(n, c) \cup {c} ELSE {}
  /\ UNCHANGED cut

\* SetupRequest::do_response_for.  CREATE moves the process to the project of
\* -C, or stays in whatever directory the process is in, then sets the
\* options, then the applications; it may fail on the way.  The client does
\* not look at the answer.
Setup(c, h) ==
  LET n == Node(c, h)
      i == Id(c, h)
      d == IF in[c].at THEN in[c].home ELSE cwd[n]
  IN
  /\ phase[c] = "ping"
  /\ task[c][h] = "queued"
  /\ up[n]
  /\ \E got, begun, created \in BOOLEAN :
       /\ created => begun /\ d # Home
       /\ task' = Set(task, c, h, After(got, "end"))
       /\ cwd' = [cwd EXCEPT ![n] = IF begun THEN d ELSE @]
       /\ opts' = [opts EXCEPT ![n] = IF begun THEN c ELSE @]
       /\ sess' = Set(sess, n, i, [sess[n][i] EXCEPT !.users = @ \cup {c},
                                                     !.app = IF created THEN d ELSE @])
  /\ Meets(c, n, i)
  /\ UNCHANGED <<in, phase, app, share, local, writer, have, fresh, shipping, up, restarts,
                 made, bins, busy>>

\* CompileRequest::do_response_for up to the end of PushDir: the first
\* application of the session is to compile, with the options of the process.
CompileStart(c, h) ==
  LET n == Node(c, h)
      s == sess[n][Id(c, h)]
  IN
  /\ phase[c] = "pool"
  /\ task[c][h] = "queued"
  /\ up[n]
  /\ s.app # "none"
  /\ busy' = [busy EXCEPT ![n] = @ \cup
                {[c |-> c, h |-> h, app |-> s.app, saved |-> cwd[n], by |-> opts[n]]}]
  /\ cwd' = [cwd EXCEPT ![n] = Work(c).dir]
  /\ task' = Set(task, c, h, "wait")
  /\ UNCHANGED <<in, phase, app, share, local, writer, have, fresh, shipping, up, restarts,
                 opts, sess, made, bins, history>>

\* ... and from there.  A unit is compiled in the directory of that
\* application, where the relative names of another project's files do not
\* exist.  If compiling throws, m_src_obj is not set; the client does not look.
MadeBy(f, names, by) ==
  [o \in DOMAIN f \cup {names[j] : j \in DOMAIN names} |->
     IF \E j \in DOMAIN names : names[j] = o THEN by ELSE f[o]]

CompileEnd(n, r) ==
  \E ok, got \in BOOLEAN :
    /\ r \in busy[n]
    /\ ok => r.app = Work(r.c).dir
    /\ busy' = [busy EXCEPT ![n] = @ \ {r}]
    /\ cwd' = [cwd EXCEPT ![n] = r.saved]
    /\ IF ok
       THEN LET names == share[r.c][r.h]
                i     == Id(r.c, r.h) IN
            /\ made' = [made EXCEPT ![n] = MadeBy(made[n], names, r.by)]
            /\ sess' = Set(sess, n, i, [sess[n][i] EXCEPT !.src = names])
       ELSE UNCHANGED <<made, sess>>
    /\ task' = IF phase[r.c] = "pool" /\ task[r.c][r.h] = "wait"
               THEN Set(task, r.c, r.h, After(got, "download")) ELSE task
    /\ UNCHANGED <<in, phase, app, share, local, writer, have, fresh, shipping, up, restarts,
                   opts, bins, history>>

\* The reader of a session: the one that is open, or one on the head of
\* m_src_obj.  Its name is relative to the directory the process is in now.
Reader(n, s) ==
  IF s.reader # <<>> THEN s.reader[1]
  ELSE [of |-> Head(s.src), pos |-> 0,
        void |-> Head(s.src) \notin DOMAIN made[n] \/ cwd[n] # Head(s.src)[1]]

\* Fault: the reader stays open.
NextFileRead(s) == [s EXCEPT !.src = Tail(@)]

\* Fault: the file stays at the head.
NextFileSame(s) == [s EXCEPT !.reader = <<>>]

\* A file has been read to its end.
NextFile(s) == [s EXCEPT !.reader = <<>>, !.src = Tail(@)]

\* DownloadRequest::do_response_for: the session after it, and the Blob.
Blob(n, s) ==
  LET r == Reader(n, s) IN
  IF ~r.void /\ r.pos < Packets
  THEN [s |-> [s EXCEPT !.reader = <<[r EXCEPT !.pos = @ + 1]>>],
        file |-> Head(s.src), data |-> <<Chunk(r.of, r.pos + 1, made[n][r.of])>>,
        left |-> Len(s.src), last |-> FALSE]
  ELSE [s |-> NextFile(s), file |-> Head(s.src), data |-> <<>>,
        left |-> Len(NextFile(s).src), last |-> TRUE]

\* LinkRequest::do_response_for: a packet of a binary goes to the writer of
\* the session, or to a new one beside the file that exists.  What was there
\* is removed first, so that another session still writing it writes to
\* nothing.
Received(n, i, c, file, data, last) ==
  LET opening == sess[n][i].writer = <<>>
      w == IF opening
           THEN [to |-> <<file, <<file, FALSE>> \in DOMAIN bins[n]>>, linked |-> TRUE]
           ELSE sess[n][i].writer[1]
      Unlinked(s) == IF opening /\ s.writer # <<>> /\ s.writer[1].to = w.to
                     THEN [s EXCEPT !.writer = <<[@[1] EXCEPT !.linked = FALSE]>>] ELSE s
      served == [sess[n][i] EXCEPT !.writer = IF last THEN <<>> ELSE <<w>>,
                                   !.users = @ \cup {c}]
  IN
  /\ bins' = [bins EXCEPT ![n] = IF w.linked
                THEN Put(@, w.to, (IF opening THEN <<>> ELSE @[w.to]) \o data) ELSE @]
  /\ sess' = [sess EXCEPT ![n] = [j \in Ids |->
                IF j # i THEN Unlinked(sess[n][j]) ELSE served]]

-----------------------------------------------------------------------------
(* The client.                                                             *)

\* Where the packets of a new file go: beside the object that exists.
Target(c, file) == [file |-> file, new |-> file \in DOMAIN have[c]]

\* BinaryWriter truncates what it opens.
Written(f, file, opening, data) == Put(f, file, (IF opening THEN <<>> ELSE f[file]) \o data)

\* Fault: the writer outlives its file.
WriterKept(b, w) == <<w>>

WriterAfter(b, w) == IF b.last THEN <<>> ELSE <<w>>

\* Fault: the loop ends with the first file.
MoreOfFile(b) == ~b.last

\* The loop goes on while files_left > 0.
More(b) == b.left > 0

\* One round of the loop of compile_lambda, with the node's half.
Download(c, h) ==
  LET n == Node(c, h)
      i == Id(c, h)
      b == Blob(n, sess[n][i])
      opening == writer[c][h] = <<>>
      w == IF opening THEN Target(c, b.file) ELSE writer[c][h][1]
  IN
  /\ phase[c] = "pool"
  /\ task[c][h] = "download"
  /\ up[n]
  /\ sess[n][i].src # <<>>
  /\ sess' = Set(sess, n, i, b.s)
  /\ \E got \in BOOLEAN :
       IF got
       THEN /\ task' = Set(task, c, h, IF More(b) THEN "download" ELSE "end")
            /\ writer' = Set(writer, c, h, WriterAfter(b, w))
            /\ IF w.new
               THEN /\ fresh' = [fresh EXCEPT ![c] = Written(@, w.file, opening, b.data)]
                    /\ UNCHANGED have
               ELSE /\ have' = [have EXCEPT ![c] = Written(@, w.file, opening, b.data)]
                    /\ UNCHANGED fresh
       ELSE /\ task' = Set(task, c, h, "threw")
            /\ UNCHANGED <<writer, have, fresh>>
  /\ UNCHANGED <<in, phase, app, share, local, shipping, up, restarts, cwd, opts, made, bins,
                 busy, history>>

\* finish().join(): after a throw (and the stop() that comes with it) tasks
\* that did not start need not.
Threw(c) == \E h \in Hosts(c) : task[c][h] = "threw"

Settled(c) == \A h \in Hosts(c) :
                \/ task[c][h] \in {"none", "end", "threw"}
                \/ task[c][h] = "queued" /\ Threw(c)

\* The end of CREATE.
Pinged(c) ==
  /\ phase[c] = "ping"
  /\ Settled(c)
  /\ phase' = [phase EXCEPT ![c] = IF Threw(c) THEN "failed" ELSE "split"]
  /\ UNCHANGED <<in, app, task, share, local, writer, have, fresh, shipping, node, history>>

\* remote_src_objs of host h.
Part(c, h, size) == [j \in 1..size |-> Object(c, app[c], (h - 1) * size + j)]

\* compile(vector): an equal part of the batch for each host, the rest for
\* this machine.
Split(c) ==
  LET t == Threads(c)
      divisor == Work(c).n \div (t + 1)
  IN
  /\ phase[c] = "split"
  /\ phase' = [phase EXCEPT ![c] = "pool"]
  /\ share' = [share EXCEPT ![c] = [h \in Hosts(c) |->
                 IF h <= t THEN Part(c, h, divisor) ELSE <<>>]]
  /\ task' = [task EXCEPT ![c] = [h \in Hosts(c) |->
                IF h <= t /\ divisor > 0 THEN "queued" ELSE "none"]]
  /\ local' = [local EXCEPT ![c] = {Object(c, app[c], i) : i \in (t * divisor + 1)..Work(c).n}]
  /\ UNCHANGED <<in, app, writer, have, fresh, shipping, node, history>>

\* compile(queue) on the rest, while the pool works: CompileBatch.
LocalCompile(c) ==
  /\ phase[c] = "pool"
  /\ local[c] # {}
  /\ \/ /\ have' = [have EXCEPT ![c] = [o \in DOMAIN @ \cup local[c] |->
                                         IF o \in local[c] THEN Whole(o, c) ELSE @[o]]]
        /\ local' = [local EXCEPT ![c] = {}]
        /\ UNCHANGED phase
     \/ /\ phase' = [phase EXCEPT ![c] = "failed"]
        /\ UNCHANGED <<have, local>>
  /\ UNCHANGED <<in, app, task, share, writer, fresh, shipping, node, history>>

\* finish().join(), rethrow().
Join(c) ==
  /\ phase[c] = "pool"
  /\ local[c] = {}
  /\ Settled(c)
  /\ phase' = [phase EXCEPT ![c] = IF Threw(c) THEN "failed" ELSE "link"]
  /\ UNCHANGED <<in, app, task, share, local, writer, have, fresh, shipping, node, history>>

\* A binary is sent under its absolute name.
Binary(c, k, t) == <<in[c].work[k].dir, k, t>>
Current(c)      == Binary(c, app[c], out[c])
Text(c)         == disk[c][Current(c)]

\* What a linker that fails leaves: an old binary or none.  A reader of none
\* reads nothing, or throws, which is Unanswered.
Left(c, b) == {<<>>} \cup IF in[c].olds THEN {Old(b)} ELSE {}

\* The start of DistLinker::send, which goes to all hosts, those over the
\* number of -n included.
Post(c) == /\ task' = [task EXCEPT ![c] = [h \in Hosts(c) |-> "queued"]]
           /\ sent' = [sent EXCEPT ![c] = [h \in Hosts(c) |-> 0]]

\* The linker, for the executable, the library or a test, and print(), which
\* sends what it left.  (Tests are linked together and sent one by one: the
\* files are different ones.)
Link(c) ==
  /\ phase[c] = "link"
  /\ phase' = [phase EXCEPT ![c] = "send"]
  /\ \E text \in {Whole(Current(c), c)} \cup Left(c, Current(c)) :
       disk' = [disk EXCEPT ![c] = Put(@, Current(c), text)]
  /\ Post(c)
  /\ UNCHANGED <<in, app, share, local, writer, have, fresh, out, again, node, history>>

ReadAll(c, h) == sent[c][h] = Len(Text(c))

\* One round of the loop of post_lambda: a packet, and in the end an empty one.
Send(c, h) ==
  LET n == Node(c, h)
      last == ReadAll(c, h)
  IN
  /\ phase[c] = "send"
  /\ task[c][h] \in {"queued", "sending"}
  /\ up[n]
  /\ Received(n, Id(c, h), c, Current(c),
              IF last THEN <<>> ELSE <<Text(c)[sent[c][h] + 1]>>, last)
  /\ Meets(c, n, Id(c, h))
  /\ \E got \in BOOLEAN :
       task' = Set(task, c, h, After(got, IF last THEN "end" ELSE "sending"))
  /\ sent' = Set(sent, c, h, sent[c][h] + 1)
  /\ UNCHANGED <<in, phase, app, share, local, writer, have, fresh, out, again, disk, up,
                 restarts, cwd, opts, made, busy>>

\* Fault: nobody looks at what the linker said, as for tests.
CheckNothing(c) == FALSE

\* checkErrors, which is not called for tests.
LinkFailed(c) == out[c] = 0 /\ Text(c) # Whole(Current(c), c)

\* The end of DistLinker::send: a library is sent again, then come the tests,
\* then the next application.
SentAll(c) ==
  /\ phase[c] = "send"
  /\ Settled(c)
  /\ ~Threw(c) /\ ~LinkFailed(c)

SentFails(c) ==
  /\ phase[c] = "send"
  /\ Settled(c)
  /\ Threw(c) \/ LinkFailed(c)
  /\ phase' = [phase EXCEPT ![c] = "failed"]
  /\ UNCHANGED <<in, app, task, share, local, writer, have, fresh, shipping, node, history>>

Once(c) == Work(c).lib /\ out[c] = 0 /\ ~again[c]

SendAgain(c) ==
  /\ SentAll(c)
  /\ Once(c)
  /\ again' = [again EXCEPT ![c] = TRUE]
  /\ Post(c)
  /\ UNCHANGED <<in, phase, app, share, local, writer, have, fresh, out, disk, node, history>>

NextTest(c) ==
  /\ SentAll(c)
  /\ ~Once(c) /\ out[c] < Work(c).tests
  /\ phase' = [phase EXCEPT ![c] = "link"]
  /\ out' = [out EXCEPT ![c] = @ + 1]
  /\ again' = [again EXCEPT ![c] = FALSE]
  /\ UNCHANGED <<in, app, task, share, local, writer, have, fresh, disk, sent, node, history>>

NextApp(c) ==
  /\ SentAll(c)
  /\ ~Once(c) /\ out[c] = Work(c).tests
  /\ IF app[c] = Len(in[c].work)
     THEN /\ phase' = [phase EXCEPT ![c] = "done"]
          /\ UNCHANGED <<app, out, again>>
     ELSE /\ phase' = [phase EXCEPT ![c] = "split"]
          /\ app' = [app EXCEPT ![c] = @ + 1]
          /\ out' = [out EXCEPT ![c] = 0]
          /\ again' = [again EXCEPT ![c] = FALSE]
  /\ UNCHANGED <<in, task, share, local, writer, have, fresh, disk, sent, node, history>>

Sent(c) == SentFails(c) \/ SendAgain(c) \/ NextTest(c) \/ NextApp(c)

-----------------------------------------------------------------------------
Exchange(c, h) == \/ Unanswered(c, h) \/ Setup(c, h) \/ CompileStart(c, h)
                  \/ Download(c, h) \/ Send(c, h)
Main(c)        == Pinged(c) \/ Split(c) \/ LocalCompile(c) \/ Join(c) \/ Link(c) \/ Sent(c)
Handler(n)     == \E r \in busy[n] : CompileEnd(n, r)
Finished       == /\ \A c \in Users : phase[c] \in Ended
                  /\ UNCHANGED vars

Next == \/ \E c \in Users : Main(c) \/ Killed(c) \/ \E h \in Hosts(c) : Exchange(c, h)
        \/ \E n \in Nodes : Handler(n) \/ Die(n) \/ Restart(n)
        \/ Finished

Spec == Init /\ [][Next]_vars

\* The places in the lists of hosts.
Places == UNION {UNION {DOMAIN x[c].hosts : c \in DOMAIN x} : x \in Inputs}

\* Every exchange ends, in an answer or an exception; every thread that can
\* run does; a compiler started on a node ends.
FairSpec == /\ Spec
            /\ \A c \in Clients : WF_vars(c \in Users /\ Main(c))
            /\ \A c \in Clients : \A h \in Places :
                 WF_vars(c \in Users /\ h \in Hosts(c) /\ Exchange(c, h))
            /\ \A n \in Nodes : WF_vars(Handler(n))

-----------------------------------------------------------------------------
(* Properties.                                                             *)

\* The packets a node sends under a name are those of that object: the open
\* reader is that of the first object of the list, but where clients met.
ReaderOnHead ==
  \A n \in Nodes, i \in Ids : LET s == sess[n][i] IN
    s.reader # <<>> /\ s.users \cap disturbed = {} =>
      s.src # <<>> /\ s.reader[1].of = Head(s.src) /\ ~s.reader[1].void

\* Types, and the reader at its place.
TypeOK ==
  /\ \A c \in Users :
       /\ phase[c] \in {"ping", "split", "pool", "link", "send"} \cup Ended
       /\ app[c] \in DOMAIN in[c].work
       /\ out[c] \in 0..Work(c).tests /\ again[c] \in BOOLEAN
       /\ local[c] \subseteq Objects(c)
       /\ \A h \in Hosts(c) :
            /\ task[c][h] \in {"none", "queued", "wait", "download", "sending", "end", "threw"}
            /\ \A j \in DOMAIN share[c][h] : share[c][h][j] \in Objects(c)
            /\ Len(writer[c][h]) <= 1
            /\ sent[c][h] \in Nat
            /\ phase[c] = "send" => sent[c][h] <= Len(Text(c)) + 1
  /\ \A n \in Nodes :
       /\ up[n] \in BOOLEAN
       /\ cwd[n] \in Dirs
       /\ opts[n] \in Users \cup {"none"}
       /\ \A i \in Ids : /\ sess[n][i].users \subseteq Users
                         /\ sess[n][i].app \in Dirs \cup {"none"}
                         /\ Len(sess[n][i].reader) <= 1 /\ Len(sess[n][i].writer) <= 1
  /\ disturbed \cup cut \subseteq Users
  /\ ReaderOnHead

\* What the build produced for an object: the file beside it if there is one.
Result(c, o) == IF o \in DOMAIN fresh[c] THEN fresh[c][o]
                ELSE IF o \in DOMAIN have[c] THEN have[c][o] ELSE <<>>

\* A build that ends well has every object, whole, compiled with its own
\* options, whatever exchanges failed, nodes died or clients were killed; as
\* long as no use of a node by another client met its own.
Complete ==
  \A c \in Users \ disturbed : phase[c] = "done" =>
    \A o \in Objects(c) : Result(c, o) = Whole(o, c)

\* Nothing of one batch is left in the sessions for the next to trip over.
Drained ==
  \A c \in Users \ disturbed : phase[c] \in {"split", "done"} =>
    \A h \in Hosts(c) : LET s == sess[Node(c, h)][Id(c, h)] IN
      s.users = {c} => s.src = <<>> /\ s.reader = <<>> /\ s.writer = <<>>

\* ... and on every host the binaries, as they are here, those that do not
\* have to link included, beside older ones if there are: a library sent twice
\* is no worse for it, and what a failed link sent is not the end of a good
\* build.  Except where a node died between two packets: started again, it
\* takes the rest of the binary for a new one, and the client sees nothing.
SentWhole ==
  [][\A c \in Users : phase'[c] = "done" /\ phase[c] # "done" /\ c \notin disturbed \cup cut =>
       \A k \in DOMAIN in[c].work : \A t \in 0..in[c].work[k].tests :
         LET b == Binary(c, k, t) IN
           /\ b \in DOMAIN disk[c] /\ (t = 0 => disk[c][b] = Whole(b, c))
           /\ \A h \in Hosts(c) : \E new \in BOOLEAN :
                /\ <<b, new>> \in DOMAIN bins[Node(c, h)]
                /\ bins[Node(c, h)][<<b, new>>] = disk[c][b]]_vars

\* Every client comes to an end: no download goes on for ever.
Terminates == \A c \in Clients : <>(c \in Users => phase[c] \in Ended)
=============================================================================
