------------------------------- MODULE Barrier -------------------------------
(***************************************************************************)
(* divine::Barrier (divine/toolkit/barrier.h), which detects that a group  *)
(* of threads that send messages to each other has come to an end, and the *)
(* part of Parallel and of the Local topology (divine/toolkit/parallel.h)  *)
(* through which a worker uses it: idle, submit, workWaiting.              *)
(*                                                                         *)
(* Each worker holds a mutex of its own whenever it is awake, and gives it *)
(* up only while it waits for its condition.  A worker with nothing to do  *)
(* takes the global mutex and tries to lock all the others out: if it can, *)
(* and no message is on its way, everything has ended.                     *)
(*                                                                         *)
(* The actions here constrain the variables declared here.  The module     *)
(* that extends this one adds what the workers do otherwise.               *)
(***************************************************************************)
EXTENDS Integers, Sequences, FiniteSets

CONSTANTS
  N,            \* how many workers there are
  MaxSpurious   \* a bound on how often a wait ends though nobody has notified it

ASSUME BarrierAssumption == N \in Nat \ {0} /\ MaxSpurious \in Nat

Workers == 1 .. N
NoOne == 0

VARIABLES
  inbox,       \* FifoMatrix::m_matrix: what each worker has sent to each
  busy,        \* Parallel::m_busy
  interrupt,   \* Parallel::m_interrupt
  registered,  \* the keys of m_mutexes and m_conditions, m_regd of them
  holder,      \* who holds the mutex of each worker
  global,      \* who holds m_globalMutex
  asleep,      \* m_sleeping
  sleeping,    \* Terminable::sleeping of each worker
  done,        \* m_done
  asked,       \* the workers that the loop of maybeIdle has been through
  failed,      \* a try_lock has failed: the local `done' of maybeIdle is false
  back,        \* where the worker continues if idle() returns false
  pc,          \* the next step of each worker
  spurious     \* how many waits have ended by themselves

lockVars == <<registered, holder, global>>
sleepVars == <<asleep, sleeping>>
loopVars == <<asked, failed>>
barrierVars == <<inbox, busy, interrupt, lockVars, sleepVars, done, loopVars, back, pc,
                 spurious>>

BarrierInit ==
  /\ inbox = [from \in Workers |-> [to \in Workers |-> <<>>]]
  /\ busy = [w \in Workers |-> TRUE]
  /\ interrupt = [w \in Workers |-> FALSE]
  /\ registered = {}
  /\ holder = [w \in Workers |-> NoOne]
  /\ global = NoOne
  /\ asleep = 0
  /\ sleeping = [w \in Workers |-> FALSE]
  /\ done = FALSE
  /\ asked = {}
  /\ failed = FALSE
  /\ back = [w \in Workers |-> "loop"]
  /\ pc = [w \in Workers |-> "register"]
  /\ spurious = 0

Goto(w, a, b) == /\ pc[w] = a
                 /\ pc' = [pc EXCEPT ![w] = b]

WorkWaiting(w) == \E from \in Workers : inbox[from][w] # <<>>

\* notify_one on the condition of some workers: one that is not waiting yet is
\* not reached.
Notified(p, ws) ==
  [v \in Workers |-> IF v \in ws /\ p[v] = "waiting" THEN "relock" ELSE p[v]]

-----------------------------------------------------------------------------
(* BarrierThread::init, Barrier::started.                                  *)

Register(w, next) ==
  /\ Goto(w, "register", next)
  /\ global = NoOne
  /\ registered' = registered \cup {w}
  /\ holder' = [holder EXCEPT ![w] = w]
  /\ UNCHANGED <<inbox, busy, interrupt, global, sleepVars, done, loopVars, back, spurious>>

\* Parallel::submit: the message is pushed, then the receiver is woken up if it
\* says that it sleeps.
Send(from, to, msg) == inbox' = [inbox EXCEPT ![from][to] = Append(@, msg)]

Wakeup(w, to, next) ==
  /\ pc[w] = "wakeup"
  /\ pc' = Notified([pc EXCEPT ![w] = next], IF sleeping[to] THEN {to} ELSE {})
  /\ UNCHANGED <<inbox, busy, interrupt, lockVars, sleepVars, done, loopVars, back, spurious>>

-----------------------------------------------------------------------------
(* Parallel::idle and Barrier::maybeIdle.                                  *)

\* idle() is called: the worker is not busy, and forgets that it was told to
\* interrupt the search.
GoIdle(w, from, caller) ==
  /\ Goto(w, from, "expect")
  /\ busy' = [busy EXCEPT ![w] = FALSE]
  /\ interrupt' = [interrupt EXCEPT ![w] = FALSE]
  /\ back' = [back EXCEPT ![w] = caller]
  /\ UNCHANGED <<inbox, lockVars, sleepVars, done, loopVars, spurious>>

\* idle() returns false.
NotYet(w) == /\ pc' = [pc EXCEPT ![w] = back[w]]
             /\ busy' = [busy EXCEPT ![w] = TRUE]

\* A wrong variant: it is not asked whether everyone has come.
Expect_NotAsked(w) ==
  /\ Goto(w, "expect", "global")
  /\ UNCHANGED <<inbox, busy, interrupt, lockVars, sleepVars, done, loopVars, back, spurious>>

\* m_regd < m_expect, without a lock.
Expect(w) ==
  /\ pc[w] = "expect"
  /\ IF Cardinality(registered) < N
     THEN NotYet(w)
     ELSE Goto(w, "expect", "global") /\ UNCHANGED busy
  /\ UNCHANGED <<inbox, interrupt, lockVars, sleepVars, done, loopVars, back, spurious>>

TakeGlobal(w) ==
  /\ Goto(w, "global", "lockout")
  /\ global = NoOne
  /\ global' = w
  /\ done' = FALSE
  /\ asked' = {w}
  /\ failed' = FALSE
  /\ UNCHANGED <<inbox, busy, interrupt, registered, holder, sleepVars, back, spurious>>

\* A wrong variant, for the mutant runs: that a worker is awake is ignored.
TryLock_Ignored(w) ==
  /\ pc[w] = "lockout"
  /\ \E v \in registered \ asked :
       /\ holder' = [holder EXCEPT ![v] = IF @ = NoOne THEN w ELSE @]
       /\ asked' = asked \cup {v}
  /\ UNCHANGED <<inbox, busy, interrupt, registered, global, sleepVars, done, failed, back,
                 pc, spurious>>

\* try_lock on the mutex of the next worker.
TryLock(w) ==
  /\ pc[w] = "lockout"
  /\ \E v \in registered \ asked :
       /\ IF holder[v] = NoOne
          THEN holder' = [holder EXCEPT ![v] = w] /\ UNCHANGED failed
          ELSE failed' = TRUE /\ UNCHANGED holder
       /\ asked' = asked \cup {v}
  /\ UNCHANGED <<inbox, busy, interrupt, registered, global, sleepVars, done, back, pc,
                 spurious>>

LockedOut(w) == {v \in Workers \ {w} : holder[v] = w}
Released(w) == [v \in Workers |-> IF v \in LockedOut(w) THEN NoOne ELSE holder[v]]

\* Nobody is awake, and there is no work left.
NoWorkLeft(w) == /\ ~failed
                 /\ \A v \in registered : (v = w \/ ~busy[v]) /\ ~WorkWaiting(v)

\* Barrier::done: the worker leaves, and idle() returns true.
Leave(w) ==
  /\ registered' = registered \ {w}
  /\ busy' = [busy EXCEPT ![w] = TRUE]
  /\ global' = NoOne

\* A wrong variant: nobody is told.
FoundDone_Silent(w) ==
  /\ pc[w] = "lockout" /\ registered \subseteq asked
  /\ NoWorkLeft(w)
  /\ done' = TRUE
  /\ pc' = [pc EXCEPT ![w] = "finished"]
  /\ holder' = [Released(w) EXCEPT ![w] = NoOne]
  /\ Leave(w)
  /\ UNCHANGED <<inbox, interrupt, sleepVars, loopVars, back, spurious>>

\* It is all over: the sleepers are notified.
FoundDone(w) ==
  /\ pc[w] = "lockout" /\ registered \subseteq asked
  /\ NoWorkLeft(w)
  /\ done' = TRUE
  /\ pc' = Notified([pc EXCEPT ![w] = "finished"], Workers \ {w})
  /\ holder' = [Released(w) EXCEPT ![w] = NoOne]
  /\ Leave(w)
  /\ UNCHANGED <<inbox, interrupt, sleepVars, loopVars, back, spurious>>

\* It is not: the locks are dropped, but for the global one.
NotDone(w) ==
  /\ registered \subseteq asked
  /\ ~NoWorkLeft(w)
  /\ Goto(w, "lockout", "notify")
  /\ holder' = Released(w)
  /\ asked' = {w}
  /\ UNCHANGED <<inbox, busy, interrupt, registered, global, sleepVars, done, failed, back,
                 spurious>>

\* Whoever sleeps with work waiting is woken up.
NotifyNext(w) ==
  /\ pc[w] = "notify"
  /\ \E v \in registered \ asked :
       /\ asked' = asked \cup {v}
       /\ pc' = Notified(pc, IF WorkWaiting(v) THEN {v} ELSE {})
  /\ UNCHANGED <<inbox, busy, interrupt, lockVars, sleepVars, done, failed, back, spurious>>

\* A wrong variant: the last one goes to bed too.
MaySleep_Last(w) == ~WorkWaiting(w)

\* A worker goes to bed unless it has work waiting, or is the last one awake.
MaySleep(w) == ~WorkWaiting(w) /\ asleep < N - 1

\* A wrong variant: the sleepers are not counted.
GoToBed_NotCounted(w) ==
  /\ registered \subseteq asked
  /\ MaySleep(w)
  /\ Goto(w, "notify", "wait")
  /\ sleeping' = [sleeping EXCEPT ![w] = TRUE]
  /\ global' = NoOne
  /\ UNCHANGED <<inbox, busy, interrupt, registered, holder, asleep, done, loopVars, back,
                 spurious>>

GoToBed(w) ==
  /\ registered \subseteq asked
  /\ MaySleep(w)
  /\ Goto(w, "notify", "wait")
  /\ asleep' = asleep + 1
  /\ sleeping' = [sleeping EXCEPT ![w] = TRUE]
  /\ global' = NoOne
  /\ UNCHANGED <<inbox, busy, interrupt, registered, holder, done, loopVars, back, spurious>>

StayUp(w) ==
  /\ pc[w] = "notify" /\ registered \subseteq asked
  /\ ~MaySleep(w)
  /\ NotYet(w)
  /\ global' = NoOne
  /\ UNCHANGED <<inbox, interrupt, registered, holder, sleepVars, done, loopVars, back,
                 spurious>>

\* condition( who ).wait( mutex( who ) ) gives up the mutex and waits at once,
Wait(w) ==
  /\ Goto(w, "wait", "waiting")
  /\ holder' = [holder EXCEPT ![w] = NoOne]
  /\ UNCHANGED <<inbox, busy, interrupt, registered, global, sleepVars, done, loopVars, back,
                 spurious>>

\* may end though nobody has notified it,
Spurious(w) ==
  /\ spurious < MaxSpurious
  /\ Goto(w, "waiting", "relock")
  /\ spurious' = spurious + 1
  /\ UNCHANGED <<inbox, busy, interrupt, lockVars, sleepVars, done, loopVars, back>>

\* and takes the mutex again before it returns.
Relock(w) ==
  /\ Goto(w, "relock", "wake")
  /\ holder[w] = NoOne
  /\ holder' = [holder EXCEPT ![w] = w]
  /\ UNCHANGED <<inbox, busy, interrupt, registered, global, sleepVars, done, loopVars, back,
                 spurious>>

\* With the global mutex again: it is over, or there may be work.
Woken(w) == /\ global = NoOne
            /\ asleep' = asleep - 1
            /\ sleeping' = [sleeping EXCEPT ![w] = FALSE]
            /\ UNCHANGED <<inbox, interrupt, done, loopVars, back, spurious>>

WakeDone(w) ==
  /\ done
  /\ Goto(w, "wake", "finished")
  /\ Woken(w)
  /\ holder' = [holder EXCEPT ![w] = NoOne]
  /\ Leave(w)

WakeWork(w) ==
  /\ pc[w] = "wake"
  /\ ~done
  /\ Woken(w)
  /\ NotYet(w)
  /\ UNCHANGED lockVars

-----------------------------------------------------------------------------
BarrierStates == {"expect", "global", "lockout", "notify", "wait", "waiting", "relock",
                  "wake", "finished"}

BarrierType ==
  /\ busy \in [Workers -> BOOLEAN]
  /\ interrupt \in [Workers -> BOOLEAN]
  /\ registered \subseteq Workers
  /\ holder \in [Workers -> Workers \cup {NoOne}]
  /\ global \in Workers \cup {NoOne}
  /\ asleep \in 0 .. N - 1
  /\ sleeping \in [Workers -> BOOLEAN]
  /\ done \in BOOLEAN
  /\ asked \subseteq Workers
  /\ failed \in BOOLEAN
  /\ back \in [Workers -> {"loop", "drain"}]
  /\ spurious \in 0 .. MaxSpurious

\* There are at least as many sleepers as have been locked out; the code says
\* so in an assertion (divine/toolkit/barrier.h:116).
SleepersCounted ==
  \A w \in Workers : pc[w] = "lockout" => Cardinality(LockedOut(w)) <= asleep

\* Not everyone is in bed: the last one stays up to find the end.
SomeoneIsUp == \E w \in Workers : pc[w] \notin {"wait", "waiting"}

\* Once idle() has told someone that it is over, nobody is at work, and no
\* message is on its way.
EndIsQuiet ==
  (\E w \in Workers : pc[w] = "finished") =>
     \A w \in Workers : /\ pc[w] \in {"relock", "wake", "finished"}
                        /\ ~WorkWaiting(w)

\* wakeup() reads the maps of the barrier without a lock, which is safe only if
\* nobody is registering or leaving then (divine/toolkit/barrier.h:57-60).
MapsAreStable(sender, to) == sleeping[to] => registered = Workers
=============================================================================
