------------------------------ MODULE TaskQueue ------------------------------
(***************************************************************************)
(* What easyrpc/base/thread_pool.hpp promises to its caller, without its   *)
(* threads: accepted tasks start in the order of their acceptance, a task  *)
(* starts at most once, and no task is lost before the queue is closed.    *)
(* Once it is closed no task starts any more: new tasks may be turned away *)
(* in silence, the running ones finish and then the waiting ones may be    *)
(* dropped.                                                                *)
(***************************************************************************)
EXTENDS Sequences, Functions

CONSTANT Task

VARIABLES waiting,    \* the accepted tasks that have not started, oldest first
          running,    \* the tasks some worker is executing
          finished,   \* the tasks that ran to their end
          discarded,  \* the tasks turned away or dropped by the shutdown
          closed      \* no further task may start

vars == <<waiting, running, finished, discarded, closed>>

Known == Range(waiting) \cup running \cup finished \cup discarded

Init == /\ waiting = <<>>
        /\ running = {}
        /\ finished = {}
        /\ discarded = {}
        /\ closed = FALSE

Accept(t) == /\ t \notin Known
             /\ waiting' = Append(waiting, t)
             /\ UNCHANGED <<running, finished, discarded, closed>>

Reject(t) == /\ closed
             /\ t \notin Known
             /\ discarded' = discarded \cup {t}
             /\ UNCHANGED <<waiting, running, finished, closed>>

Start == /\ ~closed
         /\ waiting # <<>>
         /\ waiting' = Tail(waiting)
         /\ running' = running \cup {Head(waiting)}
         /\ UNCHANGED <<finished, discarded, closed>>

Finish(t) == /\ t \in running
             /\ running' = running \ {t}
             /\ finished' = finished \cup {t}
             /\ UNCHANGED <<waiting, discarded, closed>>

Close == /\ closed' = TRUE
         /\ UNCHANGED <<waiting, running, finished, discarded>>

\* The queue is emptied only when nothing runs any more.
Discard == /\ closed
           /\ running = {}
           /\ discarded' = discarded \cup Range(waiting)
           /\ waiting' = <<>>
           /\ UNCHANGED <<running, finished, closed>>

Next == \/ \E t \in Task : Accept(t) \/ Reject(t) \/ Finish(t)
        \/ Start
        \/ Close
        \/ Discard

Spec == Init /\ [][Next]_vars
=============================================================================
