------------------------- MODULE CompilePool_proofs -------------------------
(***************************************************************************)
(* For every number of units, every set of pool threads and every choice   *)
(* of tmp units: Application::compile accounts for every unit, returns     *)
(* normally only when the batch is complete, throws only for a cause, and  *)
(* implements the abstract batch step by step.                             *)
(***************************************************************************)
EXTENDS CompilePool, TLAPS

USE NAssumption, TmpAssumption, WorkersAssumption, DumpAssumption
    DEF NAssumption, TmpAssumption, WorkersAssumption, DumpAssumption

IInv == TypeOK /\ BatchAccounted

-----------------------------------------------------------------------------
(* Type correctness.                                                       *)

\* The initial state is well typed.
LEMMA TypeInit == Init => TypeOK
<1> SUFFICES ASSUME Init
             PROVE  TypeOK
  OBVIOUS
<1>1. nxt \in 1..(N + 1) /\ head \in 1..(N + 1)
  BY DEF Init
<1>2. /\ step \in [Workers -> {"idle", "compile", "record", "rethrow"}]
      /\ unit \in [Workers -> 0..N]
      /\ \A w \in Workers : step[w] # "idle" => unit[w] \in Units
      /\ result \in [Workers -> Outcomes]
      /\ built \in [Units -> {"none", "ok", "bad"}]
  BY DEF Init, Outcomes
<1>3. /\ pending \subseteq Units
      /\ cpcs \subseteq Units \X Outcomes
      /\ thrown \subseteq Units
      /\ objects \subseteq Units
  BY DEF Init
<1> QED
  BY <1>1, <1>2, <1>3 DEF Init, TypeOK

\* Every step of compile() or of a pool thread keeps the types.
LEMMA TypeStep == TypeOK /\ [Next]_vars => TypeOK'
<1> SUFFICES ASSUME TypeOK, [Next]_vars
             PROVE  TypeOK'
  OBVIOUS
<1> USE DEF TypeOK, Units, Outcomes, pool
<1>1. CASE Async
  BY <1>1 DEF Async
<1>2. CASE Finish
  BY <1>2 DEF Finish
<1>3. CASE Join
  BY <1>3 DEF Join
<1>4. CASE Verdict
  BY <1>4 DEF Verdict
<1>5. CASE Collect
  BY <1>5 DEF Collect
<1>6. CASE Return
  BY <1>6 DEF Return
<1>7. ASSUME NEW w \in Workers, Take(w)
      PROVE  TypeOK'
  BY <1>7 DEF Take
<1>8. ASSUME NEW w \in Workers, Compile(w)
      PROVE  TypeOK'
  BY <1>8 DEF Compile
<1>9. ASSUME NEW w \in Workers, Record(w)
      PROVE  TypeOK'
  BY <1>9 DEF Record
<1>10. ASSUME NEW w \in Workers, Rethrow(w)
       PROVE  TypeOK'
  BY <1>10 DEF Rethrow
<1>11. ASSUME NEW w \in Workers, Throw(w)
       PROVE  TypeOK'
  BY <1>11 DEF Throw
<1>12. CASE UNCHANGED vars
  BY <1>12 DEF vars
<1> QED
  BY <1>1, <1>2, <1>3, <1>4, <1>5, <1>6, <1>7, <1>8, <1>9, <1>10, <1>11, <1>12
     DEF Next, Main, Thread, Returned

\* Every variable of compile() and of its pool keeps its type, for any batch.
THEOREM TypeCorrect == Spec => []TypeOK
  BY TypeInit, TypeStep, PTL DEF Spec

-----------------------------------------------------------------------------
(* The units are accounted for.                                            *)

\* Before the first unit is queued every unit is accounted for.
LEMMA InvInit == Init => IInv
<1> SUFFICES ASSUME Init
             PROVE  IInv
  OBVIOUS
<1>1. TypeOK
  BY TypeInit
<1>2. UnitsTracked /\ UnitsExclusive
  BY DEF Init, UnitsTracked, UnitsExclusive, Busy, Units
<1>3. ResultsTrue /\ StopHasCause
  BY DEF Init, ResultsTrue, StopHasCause, Untouched, Captured
<1>4. MainInStep
  BY DEF Init, MainInStep
<1> QED
  BY <1>1, <1>2, <1>3, <1>4 DEF IInv, BatchAccounted

(* What a step keeps, as long as it leaves the named variables alone.      *)
LEMMA PoolUnchanged ==
  ASSUME IInv, UNCHANGED <<nxt, pool>>
  PROVE  UnitsTracked' /\ UnitsExclusive' /\ ResultsTrue' /\ StopHasCause'
  BY DEF IInv, BatchAccounted, pool, UnitsTracked, UnitsExclusive, ResultsTrue,
         StopHasCause, Busy, Captured, Untouched, Failed

\* Queueing a unit: it was untouched, and is now pending.
LEMMA AsyncStep == ASSUME IInv, Async PROVE BatchAccounted'
<1> USE DEF IInv, BatchAccounted, Async
<1>0. /\ nxt \in Units /\ nxt \notin pending /\ nxt' = nxt + 1
      /\ \A u \in Units : u < nxt' <=> (u < nxt \/ u = nxt)
      /\ \A u \in Units : nxt' <= u => nxt <= u
  BY DEF TypeOK, Units, UnitsExclusive
<1>1. UnitsTracked'
  BY <1>0 DEF UnitsTracked, Busy, Captured
<1>2. UnitsExclusive'
  BY <1>0 DEF UnitsExclusive, Busy, TypeOK
<1>3. ResultsTrue'
  <2>1. \A u \in Units : u \in pending' \/ nxt' <= u => u \in pending \/ nxt <= u
    BY <1>0 DEF Units
  <2>2. \A u : Untouched(u)' <=> Untouched(u)
    BY DEF Untouched, Captured
  <2> QED
    BY <2>1, <2>2 DEF ResultsTrue, Captured
<1>4. StopHasCause'
  BY DEF StopHasCause, Failed
<1>5. MainInStep'
  BY DEF MainInStep, Failed, Busy
<1> QED
  BY <1>1, <1>2, <1>3, <1>4, <1>5

\* The main thread's other steps leave the pool alone.
LEMMA MainStep ==
  ASSUME IInv, Finish \/ Join \/ Verdict \/ Collect \/ Return
  PROVE  BatchAccounted'
<1>1. UNCHANGED <<nxt, pool>>
  BY DEF Finish, Join, Verdict, Collect, Return, pool
<1>2. UnitsTracked' /\ UnitsExclusive' /\ ResultsTrue' /\ StopHasCause'
  BY <1>1, PoolUnchanged
<1>3. MainInStep'
  <2> USE <1>1 DEF IInv, BatchAccounted, MainInStep, pool, Failed, Busy
  <2>1. CASE Finish
    BY <2>1 DEF Finish
  <2>2. CASE Join
    BY <2>2 DEF Join
  <2>3. CASE Verdict
    BY <2>3 DEF Verdict
  <2>4. CASE Collect
    <3>1. head \in 1..N /\ head' = head + 1
      BY <2>4 DEF Collect, TypeOK
    <3>2. 1..(head' - 1) = 1..(head - 1) \cup {head}
      BY <3>1
    <3>3. objects' = (1..(head' - 1)) \ Tmp
      BY <2>4, <3>2 DEF Collect
    <3> QED
      BY <2>4, <3>3 DEF Collect
  <2>5. CASE Return
    BY <2>5 DEF Return
  <2> QED
    BY <2>1, <2>2, <2>3, <2>4, <2>5
<1> QED
  BY <1>2, <1>3 DEF BatchAccounted

\* A unit taken from the queue is in one worker's hands and in no other's.
LEMMA TakeStep == ASSUME IInv, NEW w \in Workers, Take(w) PROVE BatchAccounted'
<1> USE DEF IInv, BatchAccounted
<1>0. PICK u \in pending : /\ pending' = pending \ {u}
                           /\ unit' = [unit EXCEPT ![w] = u]
  BY DEF Take
<1>1. /\ u \in Units /\ u < nxt
      /\ step[w] = "idle" /\ step' = [step EXCEPT ![w] = "compile"]
      /\ UNCHANGED <<pc, nxt, stopped, result, cpcs, thrown, built, head, objects>>
  BY DEF Take, TypeOK, UnitsExclusive
<1>2. UnitsTracked'
  BY <1>0, <1>1 DEF UnitsTracked, Busy, Captured, TypeOK
<1>3. UnitsExclusive'
  BY <1>0, <1>1 DEF UnitsExclusive, Busy, TypeOK
<1>4. ResultsTrue'
  BY <1>0, <1>1 DEF ResultsTrue, Untouched, Captured, TypeOK
<1>5. StopHasCause'
  BY <1>1 DEF StopHasCause, Failed
<1>6. MainInStep'
  BY <1>0, <1>1 DEF MainInStep, Failed, Busy, Take, TypeOK
<1> QED
  BY <1>2, <1>3, <1>4, <1>5, <1>6

\* What the compiler leaves on disk is what the worker's result says.
LEMMA CompileStep == ASSUME IInv, NEW w \in Workers, Compile(w) PROVE BatchAccounted'
<1> USE DEF IInv, BatchAccounted
<1>0. PICK r \in Outcomes : /\ result' = [result EXCEPT ![w] = r]
                            /\ built' = [built EXCEPT ![unit[w]] = Left(r)]
  BY DEF Compile, Left
<1>1. /\ step[w] = "compile" /\ step' = [step EXCEPT ![w] = "record"]
      /\ unit[w] \in Units /\ Untouched(unit[w])
      /\ UNCHANGED <<pc, nxt, pending, stopped, unit, cpcs, thrown, head, objects>>
  BY DEF Compile, TypeOK, ResultsTrue
<1>2. UnitsTracked'
  BY <1>1 DEF UnitsTracked, Busy, Captured, TypeOK
<1>3. UnitsExclusive'
  BY <1>1 DEF UnitsExclusive, Busy, TypeOK
<1>4. ResultsTrue'
  <2>1. \A u \in Units : u # unit[w] => built'[u] = built[u]
    BY <1>0, <1>1 DEF TypeOK
  <2>2. unit[w] \notin pending /\ unit[w] < nxt
    BY <1>1 DEF UnitsExclusive, Busy
  <2>3. \A u \in Units : u \in pending' \/ nxt' <= u => Untouched(u)'
    <3> SUFFICES ASSUME NEW u \in Units, u \in pending \/ nxt <= u
                 PROVE  Untouched(u)'
      BY <1>1
    <3>1. u # unit[w]
      BY <2>2 DEF Units, TypeOK
    <3> QED
      BY <2>1, <3>1, <1>1 DEF ResultsTrue, Untouched, Captured
  <2>4. \A v \in Workers : v # w /\ Busy(v) => unit[v] # unit[w] /\ unit[v] \in Units
    BY <1>1 DEF UnitsExclusive, Busy
  <2>5. \A v \in Workers :
          /\ step'[v] = "compile" => Untouched(unit[v])'
          /\ step'[v] = "record" => /\ built'[unit'[v]] = Left(result'[v])
                                    /\ unit'[v] \notin thrown'
                                    /\ ~Captured(unit[v])'
          /\ step'[v] = "rethrow" => <<unit'[v], result'[v]>> \in cpcs'
    <3> SUFFICES ASSUME NEW v \in Workers
                 PROVE  /\ step'[v] = "compile" => Untouched(unit[v])'
                        /\ step'[v] = "record" => /\ built'[unit'[v]] = Left(result'[v])
                                                  /\ unit'[v] \notin thrown'
                                                  /\ ~Captured(unit[v])'
                        /\ step'[v] = "rethrow" => <<unit'[v], result'[v]>> \in cpcs'
      OBVIOUS
    <3>1. CASE v = w
      BY <3>1, <1>0, <1>1 DEF TypeOK, Untouched, Captured, Left
    <3>2. CASE v # w
      <4>1. step'[v] = step[v] /\ unit'[v] = unit[v] /\ result'[v] = result[v]
        BY <3>2, <1>0, <1>1 DEF TypeOK
      <4>2. Busy(v) => built'[unit[v]] = built[unit[v]]
        BY <3>2, <2>1, <2>4
      <4> QED
        BY <4>1, <4>2, <1>1 DEF ResultsTrue, Untouched, Captured, Busy
    <3> QED
      BY <3>1, <3>2
  <2>6. \A c \in cpcs' : built'[c[1]] = Left(c[2])
    BY <2>1, <1>1 DEF ResultsTrue, Untouched, Captured, TypeOK
  <2> QED
    BY <2>3, <2>5, <2>6 DEF ResultsTrue
<1>5. StopHasCause'
  BY <1>1 DEF StopHasCause, Failed
<1>6. MainInStep'
  BY <1>1 DEF MainInStep, Failed, Busy, TypeOK
<1> QED
  BY <1>2, <1>3, <1>4, <1>5, <1>6

\* The capture pushed under the lock is that of the worker's unit.
LEMMA RecordStep == ASSUME IInv, NEW w \in Workers, Record(w) PROVE BatchAccounted'
<1> USE DEF IInv, BatchAccounted
<1>1. /\ step[w] = "record" /\ step' = [step EXCEPT ![w] = "rethrow"]
      /\ cpcs' = cpcs \cup {<<unit[w], result[w]>>}
      /\ unit[w] \in Units /\ result[w] \in Outcomes
      /\ built[unit[w]] = Left(result[w])
      /\ UNCHANGED <<pc, nxt, pending, stopped, unit, result, thrown, built, head, objects>>
  BY DEF Record, TypeOK, ResultsTrue
<1>2. /\ unit[w] \notin pending /\ unit[w] < nxt
      /\ \A v \in Workers : v # w /\ Busy(v) => unit[v] # unit[w]
  BY <1>1 DEF UnitsExclusive, Busy
<1>3. \A u \in Units : u # unit[w] => (Captured(u)' <=> Captured(u))
  BY <1>1 DEF Captured
<1>4. UnitsTracked'
  BY <1>1 DEF UnitsTracked, Busy, Captured, TypeOK
<1>5. UnitsExclusive'
  BY <1>1 DEF UnitsExclusive, Busy, TypeOK
<1>6. ResultsTrue'
  <2>1. \A u \in Units : u \in pending' \/ nxt' <= u => Untouched(u)'
    <3> SUFFICES ASSUME NEW u \in Units, u \in pending \/ nxt <= u
                 PROVE  Untouched(u)'
      BY <1>1
    <3>1. u # unit[w]
      BY <1>2 DEF Units, TypeOK
    <3> QED
      BY <3>1, <1>1, <1>3 DEF ResultsTrue, Untouched
  <2>2. ASSUME NEW v \in Workers
        PROVE  /\ step'[v] = "compile" => Untouched(unit[v])'
               /\ step'[v] = "record" => /\ built'[unit'[v]] = Left(result'[v])
                                         /\ unit'[v] \notin thrown'
                                         /\ ~Captured(unit[v])'
               /\ step'[v] = "rethrow" => <<unit'[v], result'[v]>> \in cpcs'
    <3>1. CASE v = w
      BY <3>1, <1>1 DEF TypeOK
    <3>2. CASE v # w
      <4>1. step'[v] = step[v]
        BY <3>2, <1>1 DEF TypeOK
      <4>2. Busy(v) => (Captured(unit[v])' <=> Captured(unit[v]))
        BY <3>2, <1>1, <1>2, <1>3 DEF TypeOK, Busy, Captured
      <4> QED
        BY <4>1, <4>2, <1>1 DEF ResultsTrue, Untouched, Busy
    <3> QED
      BY <3>1, <3>2
  <2>3. \A c \in cpcs' : built'[c[1]] = Left(c[2])
    BY <1>1 DEF ResultsTrue
  <2> QED
    BY <2>1, <2>2, <2>3 DEF ResultsTrue
<1>7. StopHasCause'
  BY <1>1 DEF StopHasCause, Failed
<1>8. MainInStep'
  BY <1>1 DEF MainInStep, Failed, Busy, TypeOK
<1> QED
  BY <1>4, <1>5, <1>6, <1>7, <1>8

\* A worker that stops the pool has its failure in cpcs already.
LEMMA RethrowStep == ASSUME IInv, NEW w \in Workers, Rethrow(w) PROVE BatchAccounted'
<1> USE DEF IInv, BatchAccounted
<1>1. /\ step[w] = "rethrow" /\ step' = [step EXCEPT ![w] = "idle"]
      /\ stopped' = (stopped \/ result[w] = "kul")
      /\ <<unit[w], result[w]>> \in cpcs
      /\ unit[w] \in Units /\ result[w] \in Outcomes
      /\ UNCHANGED <<pc, nxt, pending, unit, result, cpcs, thrown, built, head, objects>>
  BY DEF Rethrow, TypeOK, ResultsTrue
<1>2. UnitsTracked'
  BY <1>1 DEF UnitsTracked, Busy, Captured, TypeOK
<1>3. UnitsExclusive'
  BY <1>1 DEF UnitsExclusive, Busy, TypeOK
<1>4. ResultsTrue'
  BY <1>1 DEF ResultsTrue, Untouched, Captured, TypeOK
<1>5. StopHasCause'
  BY <1>1 DEF StopHasCause, Failed
<1>6. MainInStep'
  BY <1>1 DEF MainInStep, Failed, Busy, TypeOK
<1> QED
  BY <1>2, <1>3, <1>4, <1>5, <1>6

\* A task that throws is known to the pool.
LEMMA ThrowStep == ASSUME IInv, NEW w \in Workers, Throw(w) PROVE BatchAccounted'
<1> USE DEF IInv, BatchAccounted
<1>1. /\ Busy(w) /\ step' = [step EXCEPT ![w] = "idle"]
      /\ thrown' = thrown \cup {unit[w]} /\ stopped' = TRUE
      /\ unit[w] \in Units
      /\ UNCHANGED <<pc, nxt, pending, unit, result, cpcs, built, head, objects>>
  BY DEF Throw, TypeOK, Busy
<1>2. /\ unit[w] \notin pending /\ unit[w] < nxt
      /\ \A v \in Workers : v # w /\ Busy(v) => unit[v] # unit[w]
  BY <1>1 DEF UnitsExclusive
<1>3. \A v \in Workers : step'[v] = IF v = w THEN "idle" ELSE step[v]
  BY <1>1 DEF TypeOK
<1>4. UnitsTracked'
  BY <1>1, <1>3 DEF UnitsTracked, Busy, Captured
<1>5. UnitsExclusive'
  BY <1>1, <1>3 DEF UnitsExclusive, Busy
<1>6. ResultsTrue'
  <2>1. \A u \in Units : u # unit[w] => (Untouched(u)' <=> Untouched(u))
    BY <1>1 DEF Untouched, Captured
  <2>2. \A u \in Units : u \in pending' \/ nxt' <= u => Untouched(u)'
    <3> SUFFICES ASSUME NEW u \in Units, u \in pending \/ nxt <= u
                 PROVE  Untouched(u)'
      BY <1>1
    <3>1. u # unit[w]
      BY <1>2 DEF Units, TypeOK
    <3> QED
      BY <3>1, <2>1 DEF ResultsTrue
  <2>3. ASSUME NEW v \in Workers
        PROVE  /\ step'[v] = "compile" => Untouched(unit[v])'
               /\ step'[v] = "record" => /\ built'[unit'[v]] = Left(result'[v])
                                         /\ unit'[v] \notin thrown'
                                         /\ ~Captured(unit[v])'
               /\ step'[v] = "rethrow" => <<unit'[v], result'[v]>> \in cpcs'
    BY <1>1, <1>2, <1>3 DEF ResultsTrue, Untouched, Captured, Busy
  <2>4. \A c \in cpcs' : built'[c[1]] = Left(c[2])
    BY <1>1 DEF ResultsTrue
  <2> QED
    BY <2>2, <2>3, <2>4 DEF ResultsTrue
<1>7. StopHasCause'
  BY <1>1 DEF StopHasCause, Failed
<1>8. MainInStep'
  BY <1>1, <1>3 DEF MainInStep, Failed, Busy, Throw
<1> QED
  BY <1>4, <1>5, <1>6, <1>7, <1>8

\* The invariant is inductive: one case for each kind of step.
LEMMA InvStep == IInv /\ [Next]_vars => IInv'
<1> SUFFICES ASSUME IInv, [Next]_vars
             PROVE  IInv'
  OBVIOUS
<1>1. TypeOK'
  BY TypeStep DEF IInv
<1>2. BatchAccounted'
  <2>1. CASE UNCHANGED vars
    <3>1. UnitsTracked' /\ UnitsExclusive' /\ ResultsTrue' /\ StopHasCause'
      BY <2>1, PoolUnchanged DEF vars, pool
    <3>2. MainInStep'
      BY <2>1 DEF IInv, BatchAccounted, vars, MainInStep, Failed, Busy
    <3> QED
      BY <3>1, <3>2 DEF BatchAccounted
  <2> QED
    BY <2>1, AsyncStep, MainStep, TakeStep, CompileStep, RecordStep, RethrowStep, ThrowStep
       DEF Next, Main, Thread, Returned
<1> QED
  BY <1>1, <1>2 DEF IInv

\* The type invariant and the accounting of units hold together, always: the
\* inductive invariant the other theorems follow from.
THEOREM Invariance == Spec => []IInv
  BY InvInit, InvStep, PTL DEF Spec

\* No unit is lost or run twice, and no stop goes without a recorded cause.
THEOREM Accounted == Spec => []BatchAccounted
  BY Invariance, PTL DEF IInv

-----------------------------------------------------------------------------
(* What the caller may rely on.                                            *)

\* What holds of every state in which compile() has returned normally.
LEMMA OkComplete == IInv => ReturnsOnlyComplete
<1> SUFFICES ASSUME IInv, pc = "ok"
             PROVE  (\A u \in Units : built[u] = "ok") /\ objects = Units \ Tmp
  BY DEF ReturnsOnlyComplete
<1> USE DEF IInv, BatchAccounted
<1>1. /\ nxt = N + 1 /\ head = N + 1 /\ ~Failed
      /\ \A w \in Workers : ~Busy(w)
      /\ pending = {} \/ stopped
      /\ objects = (1..(head - 1)) \ Tmp
  BY DEF MainInStep
<1>2. pending = {} /\ thrown = {}
  BY <1>1 DEF StopHasCause, Failed
<1>3. \A u \in Units : Captured(u)
  BY <1>1, <1>2 DEF UnitsTracked, Units
<1>4. ASSUME NEW u \in Units
      PROVE  built[u] = "ok"
  <2>1. PICK r \in Outcomes : <<u, r>> \in cpcs
    BY <1>3 DEF Captured
  <2>2. r = "ok"
    BY <1>1, <2>1 DEF Failed
  <2> QED
    BY <2>1, <2>2 DEF ResultsTrue, Left
<1> QED
  BY <1>1, <1>4 DEF Units

\* Application::compile returns normally only if every unit was compiled, and
\* hands on exactly the objects that are not in tmp.
THEOREM ReturnSound == Spec => []ReturnsOnlyComplete
  BY Invariance, OkComplete, PTL

\* A verdict of failure comes from a unit whose task failed.
LEMMA ErrorCause == IInv => ErrorHasCause
<1> SUFFICES ASSUME IInv, pc = "error", thrown = {}
             PROVE  \E u \in Units : built[u] = "bad"
  BY DEF ErrorHasCause
<1>1. PICK c \in cpcs : c[2] # "ok"
  BY DEF IInv, BatchAccounted, MainInStep, Failed
<1>2. c[1] \in Units /\ built[c[1]] = "bad"
  BY <1>1 DEF IInv, BatchAccounted, ResultsTrue, Left, TypeOK
<1> QED
  BY <1>2

\* Application::compile throws only when the task of some unit failed.
THEOREM ErrorSound == Spec => []ErrorHasCause
  BY Invariance, ErrorCause, PTL

\* A pool that was not stopped is judged with an empty queue.
LEMMA NotStoppedComplete == IInv => AttemptsAllUnlessStopped
<1> SUFFICES ASSUME IInv, pc \in {"verdict", "collect", "ok", "error"}, ~stopped,
                    NEW u \in Units
             PROVE  built[u] # "none"
  BY DEF AttemptsAllUnlessStopped
<1> USE DEF IInv, BatchAccounted
<1>1. nxt = N + 1 /\ pending = {} /\ thrown = {} /\ \A w \in Workers : ~Busy(w)
  BY DEF MainInStep, StopHasCause
<1>2. Captured(u)
  BY <1>1 DEF UnitsTracked, Units
<1> QED
  BY <1>2 DEF Captured, ResultsTrue, Left

\* Unless a failure stopped the pool, every unit is attempted before the batch
\* is judged.
THEOREM AttemptsAll == Spec => []AttemptsAllUnlessStopped
  BY Invariance, NotStoppedComplete, PTL

-----------------------------------------------------------------------------
(* compile() implements the abstract batch.                                *)

Faulty == thrown \cup {u \in Units : built[u] = "bad"}

\* The initial state is one of CompileBatch.
LEMMA InitRefines == Init => Batch!BInit
  BY DEF Init, Batch!BInit, Ended, Units, Batch!Units

\* What the main thread sees as failure is a fault of the batch.
LEMMA FailedFaulty == IInv /\ Failed => Faulty # {}
<1> SUFFICES ASSUME IInv, Failed, thrown = {}
             PROVE  Faulty # {}
  BY DEF Faulty
<1>1. PICK c \in cpcs : c[2] # "ok"
  BY DEF Failed
<1>2. c[1] \in Units /\ built[c[1]] = "bad"
  BY <1>1 DEF IInv, BatchAccounted, ResultsTrue, Left, TypeOK
<1> QED
  BY <1>2 DEF Faulty

(* A step of the main thread before the end, or of a thread that reports   *)
(* what the disk already shows, changes nothing the caller can see.        *)
LEMMA StepRefines == IInv /\ IInv' /\ [Next]_vars => [Batch!BNext]_(Batch!bvars)
<1> SUFFICES ASSUME IInv, IInv', [Next]_vars
             PROVE  Batch!BNext \/ UNCHANGED Batch!bvars
  OBVIOUS
<1> USE DEF IInv, BatchAccounted, Batch!BNext, Batch!bvars, Ended
<1>0. Units = Batch!Units
  BY DEF Units, Batch!Units
<1>1. CASE Async \/ Finish \/ Join \/ Collect \/ UNCHANGED vars
  BY <1>1 DEF Async, Finish, Join, Collect, vars, pool
<1>2. CASE Verdict
  <2>1. CASE ~Failed
    BY <1>2, <2>1 DEF Verdict, pool
  <2>2. CASE Failed
    <3>1. Faulty # {}
      BY <2>2, FailedFaulty
    <3>2. pc = "verdict" /\ pc' = "error" /\ UNCHANGED <<built, thrown>>
      BY <1>2, <2>2 DEF Verdict, pool
    <3> QED
      BY <3>1, <3>2 DEF Batch!Fail, Faulty
  <2> QED
    BY <2>1, <2>2
<1>3. CASE Return
  <2>1. pc' = "ok" /\ pc = "collect" /\ UNCHANGED <<built, thrown>>
    BY <1>3 DEF Return, pool
  <2>2. \A u \in Units : built[u] = "ok"
    <3>1. ReturnsOnlyComplete'
      BY OkComplete, PTL
    <3> QED
      BY <2>1, <3>1 DEF ReturnsOnlyComplete
  <2>3. Faulty = {}
    BY <2>1, <2>2 DEF MainInStep, Failed, Faulty
  <2> QED
    BY <1>0, <2>1, <2>2, <2>3 DEF Batch!Succeed, Faulty
<1>4. ASSUME NEW w \in Workers, Take(w) \/ Record(w) \/ Rethrow(w)
      PROVE  UNCHANGED Batch!bvars
  BY <1>4 DEF Take, Record, Rethrow
<1>5. ASSUME NEW w \in Workers, Compile(w)
      PROVE  \E u \in Batch!Units : Batch!Attempt(u)
  <2>1. PICK u \in Units : u = unit[w]
    BY <1>5 DEF Compile, TypeOK
  <2>2. /\ built[u] = "none" /\ thrown' = thrown
        /\ pc' = pc /\ pc \in {"dispatch", "join"}
    BY <1>5, <2>1 DEF Compile, TypeOK, ResultsTrue, Untouched, MainInStep, Busy
  <2>3. PICK r \in {"ok", "bad"} : built' = [built EXCEPT ![u] = r]
    BY <1>5, <2>1 DEF Compile
  <2>4. Faulty' = IF r = "ok" THEN Faulty ELSE Faulty \cup {u}
    BY <2>2, <2>3 DEF Faulty, TypeOK
  <2>5. Batch!Attempt(u)
    BY <2>2, <2>3, <2>4 DEF Batch!Attempt, Faulty
  <2> QED
    BY <1>0, <2>5
<1>6. ASSUME NEW w \in Workers, Throw(w)
      PROVE  (\E u \in Batch!Units : Batch!Mishap(u)) \/ UNCHANGED Batch!bvars
  <2>1. PICK u \in Units : u = unit[w]
    BY <1>6 DEF Throw, TypeOK
  <2>2. pc' = pc /\ pc \in {"dispatch", "join"} /\ built' = built
    BY <1>6 DEF Throw, TypeOK, MainInStep, Busy
  <2>3. Faulty' = Faulty \cup {u}
    BY <1>6, <2>1, <2>2 DEF Throw, Faulty
  <2>4. CASE u \in Faulty
    BY <2>2, <2>3, <2>4 DEF Faulty
  <2>5. CASE u \notin Faulty
    <3>1. Batch!Mishap(u)
      BY <2>2, <2>3, <2>5 DEF Batch!Mishap, Faulty
    <3> QED
      BY <1>0, <3>1
  <2> QED
    BY <2>4, <2>5
<1>7. ASSUME NEW w \in Workers, Thread(w)
      PROVE  Batch!BNext \/ UNCHANGED Batch!bvars
  BY <1>7, <1>4, <1>5, <1>6 DEF Thread
<1> QED
  BY <1>1, <1>2, <1>3, <1>7 DEF Next, Main, Returned

\* Every behaviour of Application::compile is one of CompileBatch: a unit is
\* attempted at most once, and the verdict follows from the attempts.
THEOREM Refinement == Spec => Batch!BSafety
  BY InitRefines, StepRefines, Invariance, PTL DEF Spec, Batch!BSafety
=============================================================================
