--------------------------- MODULE AbstractBarrier ---------------------------
(***************************************************************************)
(* What StartDetector::waitForAll promises its callers                     *)
(* (bricks/brick-shmem.h:250-285): a reentrant barrier.  A thread is       *)
(* either outside or inside; it enters on its own, and all the threads     *)
(* leave together, once every one of them has entered.                     *)
(***************************************************************************)
CONSTANT Threads

VARIABLE inside       \* the threads that are inside the barrier

Init == inside = {}

\* A thread that is outside calls in.
Enter(t) == /\ t \notin inside
            /\ inside' = inside \cup {t}

\* The barrier opens only when every thread has come.
Release == /\ inside = Threads
           /\ inside' = {}

Next == Release \/ \E t \in Threads : Enter(t)

Spec == Init /\ [][Next]_inside

=============================================================================
