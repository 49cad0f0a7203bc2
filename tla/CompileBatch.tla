---------------------------- MODULE CompileBatch ----------------------------
(***************************************************************************)
(* What Application::compile promises its caller about a batch of          *)
(* translation units, whatever the number of pool threads and the order in *)
(* which they run: units are attempted at most once, in any order; the     *)
(* call returns normally only if every unit was compiled, and throws only  *)
(* if the task of some unit failed.                                        *)
(***************************************************************************)
EXTENDS Naturals

CONSTANTS N        \* number of units handed over in sourceQueue

Units == 1..N

VARIABLES built,   \* per unit: not attempted, object written, compiler failed
          faulty,  \* units whose task failed, in the compiler or around it
          verdict  \* how the call ended

bvars == <<built, faulty, verdict>>

BInit == /\ built = [u \in Units |-> "none"]
         /\ faulty = {}
         /\ verdict = "pending"

\* The compiler ran on u.
Attempt(u) == /\ verdict = "pending"
              /\ built[u] = "none"
              /\ \/ built' = [built EXCEPT ![u] = "ok"] /\ faulty' = faulty
                 \/ built' = [built EXCEPT ![u] = "bad"] /\ faulty' = faulty \cup {u}
              /\ UNCHANGED verdict

\* The task of u failed outside the compiler: before it could be started, or
\* after it had ended.
Mishap(u) == /\ verdict = "pending"
             /\ u \notin faulty
             /\ faulty' = faulty \cup {u}
             /\ UNCHANGED <<built, verdict>>

Succeed == /\ verdict = "pending"
           /\ faulty = {}
           /\ \A u \in Units : built[u] = "ok"
           /\ verdict' = "ok"
           /\ UNCHANGED <<built, faulty>>

Fail == /\ verdict = "pending"
        /\ faulty # {}
        /\ verdict' = "error"
        /\ UNCHANGED <<built, faulty>>

BNext == \/ \E u \in Units : Attempt(u) \/ Mishap(u)
         \/ Succeed
         \/ Fail

BSafety == BInit /\ [][BNext]_bvars

BSpec == BSafety /\ WF_bvars(BNext)
=============================================================================
