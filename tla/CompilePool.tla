----------------------------- MODULE CompilePool -----------------------------
(***************************************************************************)
(* Application::compile (src/maiken/build/obj.cpp): the main thread hands  *)
(* one task per translation unit to a ThreadPool, joins it, and decides    *)
(* from the captured results whether the batch succeeded.                  *)
(*                                                                         *)
(* The pool itself is external (mkn.kul).  What compile() relies on is:    *)
(* any free thread may take any queued task as soon as it is queued;       *)
(* stop() lets running tasks end and starts no other; finish().join()      *)
(* returns when no task runs and none is left to start; a task that throws *)
(* runs the handler given to async() and leaves ctp.exception() set.       *)
(***************************************************************************)
EXTENDS Naturals

CONSTANTS N,        \* number of units in c_units
          Tmp,      \* the units whose object goes to buildDir()/tmp: main, tests
          Workers,  \* the pool's threads, AppVars::threads()
          Dump      \* TRUE when -D writes each command to a log file

ASSUME NAssumption       == N \in Nat
ASSUME TmpAssumption     == Tmp \subseteq 1..N
ASSUME WorkersAssumption == Workers # {}
ASSUME DumpAssumption    == Dump \in BOOLEAN

Units    == 1..N
\* What CompilationUnit::compile returns in cpc.exception(): nothing, a
\* mkn::kul::Exception (the compiler exited non-zero), a std::exception.
Outcomes == {"ok", "kul", "std"}

VARIABLES
  pc,       \* main thread
  nxt,      \* the next unit of c_units to pass to ctp.async
  pending,  \* tasks queued in the pool
  stopped,  \* ctp.stop() was called
  step,     \* per worker: where in the lambda it is
  unit,     \* per worker: its unit (meaningless when idle)
  result,   \* per worker: cpc.exception() of its unit
  cpcs,     \* captured results, guarded by mute while the pool runs
  thrown,   \* units whose task threw: ctp.exception() is set iff not empty
  built,    \* what the compiler left on disk for each unit
  head,     \* front of cQueue while the results are collected
  objects   \* objects and cacheFiles: the units handed to link and stamping

vars == <<pc, nxt, pending, stopped, step, unit, result, cpcs, thrown, built,
          head, objects>>

pool == <<pending, stopped, step, unit, result, cpcs, thrown, built>>

Init == /\ pc = "dispatch"
        /\ nxt = 1
        /\ pending = {}
        /\ stopped = FALSE
        /\ step = [w \in Workers |-> "idle"]
        /\ unit = [w \in Workers |-> 0]
        /\ result = [w \in Workers |-> "ok"]
        /\ cpcs = {}
        /\ thrown = {}
        /\ built = [u \in Units |-> "none"]
        /\ head = 1
        /\ objects = {}

-----------------------------------------------------------------------------
(* The main thread.                                                        *)

\* One round of the loop over c_units; it goes on after ctp.stop().
Async == /\ pc = "dispatch"
         /\ nxt <= N
         /\ pending' = pending \cup {nxt}
         /\ nxt' = nxt + 1
         /\ UNCHANGED <<pc, stopped, step, unit, result, cpcs, thrown, built,
                        head, objects>>

Finish == /\ pc = "dispatch"
          /\ nxt = N + 1
          /\ pc' = "join"
          /\ UNCHANGED <<nxt, head, objects, pool>>

\* Fault: the join looks at the threads only.
JoinIdle == /\ pc = "join"
            /\ \A w \in Workers : step[w] = "idle"
            /\ pc' = "verdict"
            /\ UNCHANGED <<nxt, head, objects, pool>>

\* Fault: the join waits for an empty queue even after stop().
JoinDrained == /\ pc = "join"
               /\ \A w \in Workers : step[w] = "idle"
               /\ pending = {}
               /\ pc' = "verdict"
               /\ UNCHANGED <<nxt, head, objects, pool>>

Join == /\ pc = "join"
        /\ \A w \in Workers : step[w] = "idle"
        /\ pending = {} \/ stopped
        /\ pc' = "verdict"
        /\ UNCHANGED <<nxt, head, objects, pool>>

\* Fault: the captured results are not looked at.
FailedThrownOnly == thrown # {}

\* ctp.exception(), then the first captured exception, end the call.
Failed == thrown # {} \/ \E r \in cpcs : r[2] # "ok"

Verdict == /\ pc = "verdict"
           /\ pc' = IF Failed THEN "error" ELSE "collect"
           /\ UNCHANGED <<nxt, head, objects, pool>>

\* Fault: the cQueue loop runs once too often.
CollectPast == /\ pc = "collect"
               /\ head <= N + 1
               /\ objects' = IF head \in Tmp THEN objects ELSE objects \cup {head}
               /\ head' = head + 1
               /\ UNCHANGED <<pc, nxt, pool>>

\* One round of the cQueue loop.
Collect == /\ pc = "collect"
           /\ head <= N
           /\ objects' = IF head \in Tmp THEN objects ELSE objects \cup {head}
           /\ head' = head + 1
           /\ UNCHANGED <<pc, nxt, pool>>

Return == /\ pc = "collect"
          /\ head = N + 1
          /\ pc' = "ok"
          /\ UNCHANGED <<nxt, head, objects, pool>>

-----------------------------------------------------------------------------
(* A pool thread.                                                          *)

Take(w) == /\ step[w] = "idle"
           /\ ~stopped
           /\ \E u \in pending : /\ pending' = pending \ {u}
                                 /\ unit' = [unit EXCEPT ![w] = u]
           /\ step' = [step EXCEPT ![w] = "compile"]
           /\ UNCHANGED <<pc, nxt, stopped, result, cpcs, thrown, built, head,
                          objects>>

\* Fault: a capture holds an exception for a compiler that only warned.
CompileWarns(w) == /\ step[w] = "compile"
                   /\ \E r \in Outcomes :
                        /\ result' = [result EXCEPT ![w] = r]
                        /\ built' = [built EXCEPT ![unit[w]] =
                                       IF r # "kul" THEN "ok" ELSE "bad"]
                   /\ step' = [step EXCEPT ![w] = "record"]
                   /\ UNCHANGED <<pc, nxt, pending, stopped, unit, cpcs, thrown,
                                  head, objects>>

\* c_unit.compile() returns a capture.
Compile(w) == /\ step[w] = "compile"
              /\ \E r \in Outcomes :
                   /\ result' = [result EXCEPT ![w] = r]
                   /\ built' = [built EXCEPT ![unit[w]] =
                                  IF r = "ok" THEN "ok" ELSE "bad"]
              /\ step' = [step EXCEPT ![w] = "record"]
              /\ UNCHANGED <<pc, nxt, pending, stopped, unit, cpcs, thrown,
                             head, objects>>

\* Fault: a capture that holds an exception is not kept.
RecordOk(w) == /\ step[w] = "record"
               /\ cpcs' = IF result[w] = "ok" THEN cpcs \cup {<<unit[w], "ok">>}
                          ELSE cpcs
               /\ step' = [step EXCEPT ![w] = "rethrow"]
               /\ UNCHANGED <<pc, nxt, pending, stopped, unit, result, thrown,
                              built, head, objects>>

\* cpcs.push_back(cpc), under the lock.
Record(w) == /\ step[w] = "record"
             /\ cpcs' = cpcs \cup {<<unit[w], result[w]>>}
             /\ step' = [step EXCEPT ![w] = "rethrow"]
             /\ UNCHANGED <<pc, nxt, pending, stopped, unit, result, thrown,
                            built, head, objects>>

\* The try block: only a mkn::kul::Exception stops the pool.
Rethrow(w) == /\ step[w] = "rethrow"
              /\ stopped' = (stopped \/ result[w] = "kul")
              /\ step' = [step EXCEPT ![w] = "idle"]
              /\ UNCHANGED <<pc, nxt, pending, unit, result, cpcs, thrown,
                             built, head, objects>>

\* Fault: the handler stops the pool and the exception is forgotten.
ThrowForgotten(w) == /\ \/ step[w] = "compile"
                        \/ step[w] = "record" /\ Dump
                     /\ stopped' = TRUE
                     /\ step' = [step EXCEPT ![w] = "idle"]
                     /\ UNCHANGED <<pc, nxt, pending, unit, result, cpcs, thrown,
                                    built, head, objects>>

\* The lambda throws: compile() itself did, or a log file of -D could not be
\* written.  async()'s second argument, lambex, runs.
Throw(w) == /\ \/ step[w] = "compile"
               \/ step[w] = "record" /\ Dump
            /\ thrown' = thrown \cup {unit[w]}
            /\ stopped' = TRUE
            /\ step' = [step EXCEPT ![w] = "idle"]
            /\ UNCHANGED <<pc, nxt, pending, unit, result, cpcs, built, head,
                           objects>>

-----------------------------------------------------------------------------
Main == Async \/ Finish \/ Join \/ Verdict \/ Collect \/ Return

Thread(w) == Take(w) \/ Compile(w) \/ Record(w) \/ Rethrow(w) \/ Throw(w)

Ended == pc \in {"ok", "error"}

\* The call has returned; nothing more happens.
Returned == Ended /\ UNCHANGED vars

Next == Main \/ (\E w \in Workers : Thread(w)) \/ Returned

Spec == Init /\ [][Next]_vars

\* The main thread keeps running, every started compiler process ends, and a
\* free pool thread looks at the queue: what the operating system's scheduler
\* gives every thread.
Fairness == WF_vars(Main) /\ \A w \in Workers : WF_vars(Thread(w))

FairSpec == Spec /\ Fairness

-----------------------------------------------------------------------------
(* Properties.                                                             *)

TypeOK ==
  /\ pc \in {"dispatch", "join", "verdict", "collect", "ok", "error"}
  /\ nxt \in 1..(N + 1)
  /\ pending \subseteq Units
  /\ stopped \in BOOLEAN
  /\ step \in [Workers -> {"idle", "compile", "record", "rethrow"}]
  /\ unit \in [Workers -> 0..N]
  /\ \A w \in Workers : step[w] # "idle" => unit[w] \in Units
  /\ result \in [Workers -> Outcomes]
  /\ cpcs \subseteq Units \X Outcomes
  /\ thrown \subseteq Units
  /\ built \in [Units -> {"none", "ok", "bad"}]
  /\ head \in 1..(N + 1)
  /\ objects \subseteq Units

\* compile() returns normally only if the compiler produced the object of
\* every unit of the batch, and then exactly the objects outside tmp are handed
\* on to link() and to the stamp file; no task was dropped by a stop, and no
\* failure was lost between the worker that saw it and the main thread.
ReturnsOnlyComplete ==
  pc = "ok" => /\ \A u \in Units : built[u] = "ok"
               /\ objects = Units \ Tmp

\* compile() throws only when some task failed: a batch in which every task
\* ran to its end without an exception is never reported as an error.
ErrorHasCause ==
  pc = "error" => \/ thrown # {}
                  \/ \E u \in Units : built[u] = "bad"

\* A std::exception in a capture is logged and the other units go on: when no
\* kul exception stopped the pool, every unit has been attempted before the
\* batch is judged, so one run reports all the failing files.
AttemptsAllUnlessStopped ==
  pc \in {"verdict", "collect", "ok", "error"} /\ ~stopped =>
    \A u \in Units : built[u] # "none"

(* Where every unit is while the batch runs; the induction behind the three *)
(* invariants above.                                                        *)
Busy(w)     == step[w] # "idle"
Captured(u) == \E r \in Outcomes : <<u, r>> \in cpcs
Left(r)     == IF r = "ok" THEN "ok" ELSE "bad"   \* what the compiler leaves

\* A unit handed to the pool is queued, in the hands of one worker, or accounted
\* for by its capture or its exception.
UnitsTracked == \A u \in Units : u < nxt =>
  \/ u \in pending
  \/ \E w \in Workers : Busy(w) /\ unit[w] = u
  \/ u \in thrown
  \/ Captured(u)

\* No unit is queued twice, taken twice, or both.
UnitsExclusive ==
  /\ \A u \in pending : u < nxt
  /\ \A w \in Workers : Busy(w) => unit[w] \in Units /\ unit[w] < nxt /\ unit[w] \notin pending
  /\ \A v, w \in Workers : Busy(v) /\ Busy(w) /\ unit[v] = unit[w] => v = w

\* Nothing is known of a unit before its compiler ran, and a capture tells
\* what the compiler left on disk.
Untouched(u) == built[u] = "none" /\ u \notin thrown /\ ~Captured(u)

ResultsTrue ==
  /\ \A u \in Units : u \in pending \/ nxt <= u => Untouched(u)
  /\ \A w \in Workers :
       /\ step[w] = "compile" => Untouched(unit[w])
       /\ step[w] = "record" => /\ built[unit[w]] = Left(result[w])
                                /\ unit[w] \notin thrown
                                /\ ~Captured(unit[w])
       /\ step[w] = "rethrow" => <<unit[w], result[w]>> \in cpcs
  /\ \A c \in cpcs : built[c[1]] = Left(c[2])

\* The pool is stopped for a cause the main thread will find.
StopHasCause == /\ stopped => Failed
                /\ thrown # {} => stopped

MainInStep ==
  /\ pc # "dispatch" => nxt = N + 1
  /\ pc \notin {"dispatch", "join"} => /\ \A w \in Workers : ~Busy(w)
                                       /\ pending = {} \/ stopped
  /\ pc \in {"collect", "ok"} => ~Failed
  /\ pc = "error" => Failed
  /\ pc = "ok" => head = N + 1
  /\ objects = (1..(head - 1)) \ Tmp

\* No unit is lost or run twice between the queue, the threads and the
\* results, and no stop goes without a recorded cause: the inductive invariant.
BatchAccounted == /\ UnitsTracked
                  /\ UnitsExclusive
                  /\ ResultsTrue
                  /\ StopHasCause
                  /\ MainInStep

\* Application::compile always returns or throws, whichever tasks fail and
\* however late the stop arrives.
Terminates == <>Ended

\* compile() keeps the promise CompileBatch states.
Batch == INSTANCE CompileBatch WITH
  faulty  <- thrown \cup {u \in Units : built[u] = "bad"},
  verdict <- IF Ended THEN pc ELSE "pending"

ImplementsBatch == Batch!BSpec
=============================================================================
