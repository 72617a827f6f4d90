---------------------------- MODULE StartDetector ----------------------------
(***************************************************************************)
(* brick::shmem::StartDetector (bricks/brick-shmem.h:250-285), the         *)
(* spinning barrier on which the workers of a shared-memory search wait    *)
(* for one another before they start to look at the termination counter.   *)
(*                                                                         *)
(* Every access to one of the two atomics is a step.  The threads call     *)
(* waitForAll again and again, as DetectorWorker::main does                *)
(* (bricks/brick-shmem.h:602-605).                                         *)
(***************************************************************************)
EXTENDS Integers, FiniteSets

CONSTANT Threads              \* the threads that call waitForAll( peers )

\* waitForAll takes an unsigned short, and so do the two atomics.
MaxPeers == 65535

ASSUME ThreadsAssumption ==
  /\ IsFiniteSet(Threads)
  /\ Cardinality(Threads) \in 1 .. MaxPeers

VARIABLES
  counter,      \* Shared::counter, how many have arrived in this round
  leaveGuard,   \* Shared::leaveGuard, how many have still to leave it
  pc            \* the next access of each thread

vars == <<counter, leaveGuard, pc>>

Peers == Cardinality(Threads)

Width == MaxPeers + 1

At(label) == {t \in Threads : pc[t] = label}

Goto(t, from, to) == /\ pc[t] = from
                     /\ pc' = [pc EXCEPT ![t] = to]
-----------------------------------------------------------------------------
Init == /\ counter = 0
        /\ leaveGuard = 0
        /\ pc = [t \in Threads |-> "out"]

\* The call.
Call(t) == /\ Goto(t, "out", "guard")
           /\ UNCHANGED <<counter, leaveGuard>>

\* A wrong variant, for the mutant runs: the guard is not waited for.
PassGuard_NoWait(t) == /\ Goto(t, "guard", "arrive")
                       /\ UNCHANGED <<counter, leaveGuard>>

\* while ( shared.leaveGuard );
PassGuard(t) == /\ leaveGuard = 0
                /\ Goto(t, "guard", "arrive")
                /\ UNCHANGED <<counter, leaveGuard>>

\* if ( ++shared.counter == peers )
Arrive(t) == /\ counter' = (counter + 1) % Width
             /\ Goto(t, "arrive", IF counter' = Peers THEN "setGuard" ELSE "wait")
             /\ UNCHANGED leaveGuard

\* shared.leaveGuard = peers;
SetGuard(t) == /\ Goto(t, "setGuard", "reset")
               /\ leaveGuard' = Peers
               /\ UNCHANGED counter

\* shared.counter = 0;
Reset(t) == /\ Goto(t, "reset", "wait")
            /\ counter' = 0
            /\ UNCHANGED leaveGuard

\* A wrong variant: the counter is not waited for.
PassCounter_NoWait(t) == /\ Goto(t, "wait", "leave")
                         /\ UNCHANGED <<counter, leaveGuard>>

\* while ( shared.counter );
PassCounter(t) == /\ counter = 0
                  /\ Goto(t, "wait", "leave")
                  /\ UNCHANGED <<counter, leaveGuard>>

\* A wrong variant: a thread leaves without saying so.
Leave_NoDecrement(t) == /\ Goto(t, "leave", "out")
                        /\ UNCHANGED <<counter, leaveGuard>>

\* --shared.leaveGuard;
Leave(t) == /\ Goto(t, "leave", "out")
            /\ leaveGuard' = (leaveGuard - 1) % Width
            /\ UNCHANGED counter

WaitForAll(t) ==
  \/ Call(t)     \/ PassGuard(t) \/ Arrive(t)      \/ SetGuard(t)
  \/ Reset(t)    \/ PassCounter(t) \/ Leave(t)

Next == \E t \in Threads : WaitForAll(t)

Spec == Init /\ [][Next]_vars

\* The threads are scheduled by the operating system, and every worker of a
\* parallel section makes the call (divine/graph/visitor.h:441).
FairSpec == Spec /\ \A t \in Threads : WF_vars(WaitForAll(t))
-----------------------------------------------------------------------------
\* Neither atomic ever exceeds the number of threads: the decrement of
\* leaveGuard (bricks/brick-shmem.h:282) in particular never wraps around.
TypeOK == /\ counter \in 0 .. Peers
          /\ leaveGuard \in 0 .. Peers
          /\ pc \in [Threads -> {"out", "guard", "arrive", "setGuard",
                                 "reset", "wait", "leave"}]

\* The three phases of a round.
Gathering == /\ leaveGuard = 0
             /\ At("leave") = {} /\ At("reset") = {}
             /\ counter = Cardinality(At("wait") \cup At("setGuard"))
             /\ \A t \in At("setGuard") : /\ counter = Peers
                                         /\ \A u \in Threads \ {t} : pc[u] = "wait"

Opening == /\ leaveGuard = Peers
           /\ counter = Peers
           /\ \E t \in Threads : /\ pc[t] = "reset"
                                 /\ \A u \in Threads \ {t} : pc[u] = "wait"

Leaving == /\ counter = 0
           /\ leaveGuard # 0
           /\ leaveGuard = Cardinality(At("wait") \cup At("leave"))
           /\ \A t \in Threads : pc[t] \in {"out", "guard", "wait", "leave"}

\* Whatever the interleaving, the two counters count exactly the threads that
\* have arrived and those that have still to leave: a thread of the next round
\* is never counted in this one, although it can call in while the slower
\* ones are still leaving (bricks/brick-shmem.h:272-283).
RoundsDoNotMix == Gathering \/ Opening \/ Leaving

\* The threads that are in the barrier and that it still holds: those that
\* have arrived since the counter was last reset.
Held == IF counter = 0 THEN {}
        ELSE At("wait") \cup At("setGuard") \cup At("reset")

\* The two spinning atomics implement the abstract barrier: nobody gets out
\* of waitForAll before everybody has called it, in any round.
Abstract == INSTANCE AbstractBarrier WITH inside <- Held
ImplementsBarrier == Abstract!Spec

\* Nobody is left behind in the barrier, in any round: neither the thread that
\* arrives last nor one that overtakes the others and calls in again.
EveryoneGetsOut == \A t \in Threads : pc[t] = "guard" ~> pc[t] = "out"
=============================================================================
