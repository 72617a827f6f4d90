----------------------------- MODULE PosixThreads -----------------------------
(***************************************************************************)
(* The POSIX threads that a verified program runs on: threads, mutexes,    *)
(* condition variables and barriers of                                     *)
(* divine/llvm/userspace/pthread.cpp, driven by any program.               *)
(*                                                                         *)
(* A call is masked: nobody comes in between, but where it waits, where it *)
(* begins (PTHREAD_VISIBLE_FUN_BEGIN), and where it calls another one.     *)
(* What the interpreter does after a problem has been reported is left     *)
(* out: the search ends there.                                             *)
(*                                                                         *)
(* The program unlocks what it holds and uses one mutex with each          *)
(* condition.  It may join and detach one thread from several others,      *)
(* which the library means to allow (pthread.cpp:388-391), and lock or try *)
(* a mutex that it holds.  Other calls that return an error and change     *)
(* nothing are left out, and so is cancellation.                           *)
(***************************************************************************)
EXTENDS Integers, FiniteSets, FiniteSetsExt

CONSTANTS
  Mutexes, Conds, Barriers,
  Type,        \* pthread_mutex_t::type of each mutex
  NThreads,    \* pthread_barrier_t::nthreads of each barrier
  MaxSlots,    \* bound: threads at once
  MaxThreads,  \* bound: threads in all
  MaxLocks,    \* bound: the count of a recursive mutex
  Null

Slots == 0 .. MaxSlots - 1
Main == 0
Objects == Conds \cup Barriers   \* that a thread can sleep on

\* What a slot holds: the members of Thread.
Record == [gtid : Nat, detached : BOOLEAN, running : BOOLEAN,
           sleeping : Objects \cup {Null}, waiting_mutex : Mutexes \cup {Null}]

ASSUME ThreadsAssumption ==
  /\ Type \in [Mutexes -> {"normal", "recursive", "errorcheck"}]
  /\ NThreads \in [Barriers -> Nat \ {0}]
  /\ Null \notin Mutexes \cup Objects /\ Null \notin Record /\ Conds \cap Barriers = {}
  /\ MaxSlots \in Nat \ {0} /\ MaxThreads \in Nat \ {0} /\ MaxLocks \in Nat \ {0}

VARIABLES
  threads,        \* the slots: the Thread of each local ID, or Null
  thread_counter, \* the next global ID
  mutexes,        \* the owner (its global ID + 1, or 0) and the lock counter of each
  counter,        \* of each condition and barrier: the threads asleep on it
  bound,          \* pthread_cond_t::mutex
  call,           \* the call each thread is in
  problem         \* what has been reported

vars == <<threads, thread_counter, mutexes, counter, bound, call, problem>>

Gone == [name |-> "gone"]         \* no stack
Program == [name |-> "program"]   \* in the code of the program
Ending == [name |-> "ending"]
Creating(s, ready) == [name |-> "create", slot |-> s, ready |-> ready]
Entering(t) == [name |-> "entry", creator |-> t]
Joining(s) == [name |-> "join", slot |-> s, gtid |-> threads[s].gtid]
Reaping(s) == [name |-> "reap", slot |-> s]
Exiting(s) == [name |-> "exit", slot |-> s]
Locking(m) == [name |-> "lock", mutex |-> m]
Waiting(m, step) == [name |-> step, mutex |-> m]
Meeting(b) == [name |-> "barrier", barrier |-> b]

Thread(gtid, detached, running) ==
  [gtid |-> gtid, detached |-> detached, running |-> running, sleeping |-> Null,
   waiting_mutex |-> Null]

Init ==
  /\ threads = [s \in Slots |-> IF s = Main THEN Thread(0, TRUE, TRUE) ELSE Null]
  /\ thread_counter = 1
  /\ mutexes = [m \in Mutexes |-> [owner |-> 0, count |-> 0]]
  /\ counter = [o \in Objects |-> 0]
  /\ bound = [c \in Conds |-> Null]
  /\ call = [s \in Slots |-> IF s = Main THEN Program ELSE Gone]
  /\ problem = "none"

In(t, name) == problem = "none" /\ call[t].name = name
Goto(t, c) == call' = [call EXCEPT ![t] = c]
Running(s) == threads[s] # Null /\ threads[s].running

lockVars == <<mutexes, counter, bound>>
-----------------------------------------------------------------------------
(* Threads.                                                                *)

\* The interpreter gives a thread the place after the last one that lives.
NewSlot == Max({s \in Slots : call[s] # Gone}) + 1

\* A wrong variant, for the mutant runs: it does not wait for the new thread.
Create_NoWait(t, detached) ==
  /\ In(t, "program")
  /\ thread_counter < MaxThreads /\ NewSlot \in Slots
  /\ threads' = [threads EXCEPT ![NewSlot] = Thread(thread_counter, detached, FALSE)]
  /\ thread_counter' = thread_counter + 1
  /\ call' = [call EXCEPT ![NewSlot] = Entering(t)]
  /\ UNCHANGED <<lockVars, problem>>

Create(t, detached) ==
  /\ In(t, "program")
  /\ thread_counter < MaxThreads /\ NewSlot \in Slots
  /\ threads' = [threads EXCEPT ![NewSlot] = Thread(thread_counter, detached, FALSE)]
  /\ thread_counter' = thread_counter + 1
  /\ call' = [call EXCEPT ![t] = Creating(NewSlot, FALSE), ![NewSlot] = Entering(t)]
  /\ UNCHANGED <<lockVars, problem>>

\* The new thread lets its creator go on, and enters the program.
Start(s) ==
  /\ In(s, "entry")
  /\ threads' = [threads EXCEPT ![s].running = TRUE]
  /\ LET t == call[s].creator
     IN  call' = [call EXCEPT ![s] = Program,
                              ![t] = IF @ = Creating(s, FALSE) THEN Creating(s, TRUE) ELSE @]
  /\ UNCHANGED <<thread_counter, lockVars, problem>>

Created(t) ==
  /\ In(t, "create") /\ call[t].ready
  /\ Goto(t, Program)
  /\ UNCHANGED <<threads, thread_counter, lockVars, problem>>

Free(s) == /\ threads' = [threads EXCEPT ![s] = Null]
           /\ Goto(s, Gone)

\* A thread other than the first returns, or calls pthread_exit: it stays until
\* it is detached or joined.
Return(t) ==
  /\ t # Main /\ In(t, "program")
  /\ IF threads[t].detached THEN Free(t)
     ELSE /\ threads' = [threads EXCEPT ![t].running = FALSE]
          /\ Goto(t, Ending)
  /\ UNCHANGED <<thread_counter, lockVars, problem>>

End(t) ==
  /\ In(t, "ending") /\ threads[t].detached
  /\ Free(t)
  /\ UNCHANGED <<thread_counter, lockVars, problem>>

\* pthread_exit in the main thread waits for the others, one slot after the
\* other, and then takes everything down.
ExitFrom(first) ==
  LET busy == {s \in Slots : s >= first /\ Running(s)}
  IN  /\ IF busy = {} THEN call' = [s \in Slots |-> Gone]
                      ELSE Goto(Main, Exiting(Min(busy)))
      /\ UNCHANGED <<threads, thread_counter, lockVars, problem>>

Exit == In(Main, "program") /\ ExitFrom(1)
ExitNext == In(Main, "exit") /\ ~Running(call[Main].slot) /\ ExitFrom(call[Main].slot + 1)

\* The thread may be joined or detached, though another one may wait for its end.
Joinable(s) == threads[s] # Null /\ ~threads[s].detached

\* It may go, and is waited for until its slot is empty: if another thread is
\* created there before that is seen, then until that one has gone.
Reap(t, s) == /\ threads' = [threads EXCEPT ![s].detached = TRUE]
              /\ Goto(t, Reaping(s))
              /\ UNCHANGED problem

Join(t, s) ==
  /\ In(t, "program") /\ t # s /\ Joinable(s)
  /\ IF Running(s) THEN Goto(t, Joining(s)) /\ UNCHANGED <<threads, problem>>
                   ELSE Reap(t, s)
  /\ UNCHANGED <<thread_counter, lockVars>>

\* The slot is read again, without looking whether there is anything in it: the
\* thread may have been detached or joined by another one, have gone, and have
\* been followed by a later one.
Joined(t) ==
  /\ In(t, "join")
  /\ LET s == call[t].slot
     IN  IF threads[s] = Null
         THEN problem' = "dereference" /\ UNCHANGED <<threads, call>>
         ELSE /\ ~threads[s].running
              /\ IF threads[s].gtid = call[t].gtid /\ ~threads[s].detached
                 THEN Reap(t, s)
                 ELSE Goto(t, Program) /\ UNCHANGED <<threads, problem>>
  /\ UNCHANGED <<thread_counter, lockVars>>

Reaped(t) ==
  /\ In(t, "reap") /\ threads[call[t].slot] = Null
  /\ Goto(t, Program)
  /\ UNCHANGED <<threads, thread_counter, lockVars, problem>>

Detach(t, s) ==
  /\ In(t, "program") /\ Joinable(s)
  /\ threads' = [threads EXCEPT ![s].detached = TRUE]
  /\ IF Running(s) THEN UNCHANGED call ELSE Goto(t, Reaping(s))
  /\ UNCHANGED <<thread_counter, lockVars, problem>>
-----------------------------------------------------------------------------
(* Mutexes.                                                                *)

Me(t) == threads[t].gtid + 1
CanLock(t, m) == mutexes[m].owner \in {0, Me(t)}

Holder(m) == IF m = Null THEN -1 ELSE mutexes[m].owner - 1
ByGtid(g) == {s \in Slots : threads[s] # Null /\ threads[s].gtid = g}
Dead(g) == \A s \in ByGtid(g) : ~threads[s].running

\* _check_deadlock follows the owner of the mutex, the owner of the one it waits
\* for, and so on,
NextHolder(g) ==
  IF g = -1 \/ Dead(g) THEN -1
  ELSE Holder(threads[CHOOSE s \in ByGtid(g) : TRUE].waiting_mutex)

Holders(m) ==
  LET holder[i \in Slots] == IF i = 0 THEN Holder(m) ELSE NextHolder(holder[i - 1])
  IN  holder

\* until one comes that is not there, the same again, the caller ("cycle") or a
\* dead one ("dead"); `lastthread' is 0 to begin with.
DeadlockFound(m, gtid, what) ==
  LET holder == Holders(m)
      last(i) == IF i = 0 THEN 0 ELSE holder[i - 1]
      leaves(i) == holder[i] \in {-1, last(i)}
      found(i) == IF holder[i] = gtid THEN "cycle" ELSE IF Dead(holder[i]) THEN "dead" ELSE "none"
  IN  \E i \in Slots : /\ ~leaves(i) /\ found(i) = what
                       /\ \A j \in 0 .. i - 1 : ~leaves(j) /\ found(j) = "none"

Deadlock(m, gtid) == IF DeadlockFound(m, gtid, "cycle") THEN "cycle"
                     ELSE IF DeadlockFound(m, gtid, "dead") THEN "dead" ELSE "none"

\* A wrong variant: the mutex that was waited for stays where it was noted.
Acquire_Noted(t, m) ==
  /\ mutexes' = [mutexes EXCEPT ![m] = [owner |-> Me(t), count |-> @.count + 1]]
  /\ threads' = [threads EXCEPT ![t].waiting_mutex = m]
  /\ Goto(t, Program)
  /\ UNCHANGED problem

Acquire(t, m) ==
  /\ mutexes' = [mutexes EXCEPT ![m] = [owner |-> Me(t), count |-> @.count + 1]]
  /\ threads' = [threads EXCEPT ![t].waiting_mutex = Null]
  /\ Goto(t, Program)
  /\ UNCHANGED problem

\* _mutex_lock: its owner may lock a recursive mutex again, and no other.  That a
\* normal one is locked again is reported whether the call would wait or not.
MutexLock(t, m, wait) ==
  IF mutexes[m].owner = Me(t) /\ Type[m] = "errorcheck"
  THEN Goto(t, Program) /\ UNCHANGED <<threads, mutexes, problem>>
  ELSE IF mutexes[m].owner = Me(t) /\ Type[m] = "normal"
  THEN problem' = "again" /\ UNCHANGED <<threads, mutexes, call>>
  ELSE IF CanLock(t, m)
  THEN Acquire(t, m)
  ELSE IF wait
  THEN /\ threads' = [threads EXCEPT ![t].waiting_mutex = m]
       /\ Goto(t, Locking(m))
       /\ problem' = Deadlock(m, threads[t].gtid)
       /\ UNCHANGED mutexes
  ELSE UNCHANGED <<threads, mutexes, call, problem>>

\* pthread_mutex_lock and pthread_mutex_trylock.
MutexCall(t, m, wait) ==
  /\ In(t, "program")
  /\ mutexes[m].owner = Me(t) /\ Type[m] = "recursive" => mutexes[m].count < MaxLocks
  /\ MutexLock(t, m, wait)
  /\ UNCHANGED <<thread_counter, counter, bound>>

Lock(t, m) == MutexCall(t, m, TRUE)
TryLock(t, m) == MutexCall(t, m, FALSE)

\* A wrong variant: who waits does not look for a deadlock again.
LockAgain_Unchecked(t) ==
  /\ In(t, "lock") /\ CanLock(t, call[t].mutex)
  /\ Acquire(t, call[t].mutex)
  /\ UNCHANGED <<thread_counter, counter, bound>>

\* Who waits tries again, and looks for a deadlock each time.
LockAgain(t) ==
  /\ In(t, "lock")
  /\ LET m == call[t].mutex
     IN  IF CanLock(t, m) THEN Acquire(t, m)
         ELSE /\ Deadlock(m, threads[t].gtid) # "none"
              /\ problem' = Deadlock(m, threads[t].gtid)
              /\ UNCHANGED <<threads, mutexes, call>>
  /\ UNCHANGED <<thread_counter, counter, bound>>

Release(m) ==
  mutexes' = [mutexes EXCEPT ![m] = IF @.count = 1 THEN [owner |-> 0, count |-> 0]
                                    ELSE [owner |-> @.owner, count |-> @.count - 1]]

Unlock(t, m) ==
  /\ In(t, "program") /\ mutexes[m].owner = Me(t)
  /\ Release(m)
  /\ UNCHANGED <<threads, thread_counter, counter, bound, call, problem>>
-----------------------------------------------------------------------------
(* Condition variables and barriers.                                       *)

Sleepers(o) == {s \in Slots : threads[s] # Null /\ threads[s].sleeping = o}

FallAsleep(t, o) == /\ threads' = [threads EXCEPT ![t].sleeping = o]
                    /\ counter' = [counter EXCEPT ![o] = @ + 1]

\* _cond_signal: the n-th sleeper wakes up if n is in the choice.
WakeUp(o, chosen) ==
  LET rank(s) == Cardinality({u \in Sleepers(o) : u <= s})
      woken == {s \in Sleepers(o) : rank(s) \in chosen}
  IN  /\ threads' = [s \in Slots |-> IF s \in woken
                                     THEN [threads[s] EXCEPT !.sleeping = Null]
                                     ELSE threads[s]]
      /\ counter' = [counter EXCEPT ![o] = @ - Cardinality(woken)]
      /\ problem' = IF counter[o] = Cardinality(Sleepers(o)) THEN problem ELSE "internal"

\* The thread is asleep before it gives up the mutex,
CondWait(t, c, m) ==
  /\ In(t, "program") /\ mutexes[m].owner = Me(t)
  /\ bound[c] \in {Null, m}
  /\ FallAsleep(t, c)
  /\ bound' = [bound EXCEPT ![c] = m]
  /\ Goto(t, Waiting(m, "unlock"))
  /\ UNCHANGED <<thread_counter, mutexes, problem>>

\* which is a call of its own,
WaitUnlock(t) ==
  /\ In(t, "unlock")
  /\ Release(call[t].mutex)
  /\ Goto(t, Waiting(call[t].mutex, IF threads[t].sleeping = Null THEN "relock" ELSE "sleep"))
  /\ UNCHANGED <<threads, thread_counter, counter, bound, problem>>

Woken(t) ==
  /\ In(t, "sleep") /\ threads[t].sleeping = Null
  /\ Goto(t, Waiting(call[t].mutex, "relock"))
  /\ UNCHANGED <<threads, thread_counter, lockVars, problem>>

\* and so is to take it again.
Relock(t) ==
  /\ In(t, "relock")
  /\ MutexLock(t, call[t].mutex, TRUE)
  /\ UNCHANGED <<thread_counter, counter, bound>>

\* pthread_cond_signal wakes one or more, pthread_cond_broadcast all of them; the
\* last one takes the mutex with it.
Signal(t, c, chosen) ==
  /\ In(t, "program") /\ counter[c] > 0
  /\ WakeUp(c, chosen)
  /\ bound' = [bound EXCEPT ![c] = IF counter'[c] = 0 THEN Null ELSE @]
  /\ UNCHANGED <<thread_counter, mutexes, call>>

\* A wrong variant: a thread too many is waited for.
BarrierWait_TooMany(t, b) ==
  /\ In(t, "program")
  /\ IF counter[b] = NThreads[b]
     THEN WakeUp(b, 1 .. counter[b]) /\ UNCHANGED call
     ELSE FallAsleep(t, b) /\ Goto(t, Meeting(b)) /\ UNCHANGED problem
  /\ UNCHANGED <<thread_counter, mutexes, bound>>

BarrierWait(t, b) ==
  /\ In(t, "program")
  /\ IF counter[b] + 1 = NThreads[b]
     THEN WakeUp(b, 1 .. counter[b]) /\ UNCHANGED call
     ELSE FallAsleep(t, b) /\ Goto(t, Meeting(b)) /\ UNCHANGED problem
  /\ UNCHANGED <<thread_counter, mutexes, bound>>

Passed(t) ==
  /\ In(t, "barrier") /\ threads[t].sleeping = Null
  /\ Goto(t, Program)
  /\ UNCHANGED <<threads, thread_counter, lockVars, problem>>
-----------------------------------------------------------------------------
\* What the program may do next,
Call(t) ==
  \/ \E detached \in BOOLEAN : Create(t, detached)
  \/ Return(t)
  \/ \E s \in Slots : Join(t, s) \/ Detach(t, s)
  \/ \E m \in Mutexes : Lock(t, m) \/ TryLock(t, m) \/ Unlock(t, m)
  \/ \E c \in Conds, m \in Mutexes : CondWait(t, c, m)
  \/ \E c \in Conds : \E chosen \in SUBSET (1 .. counter[c]) \ {{}} : Signal(t, c, chosen)
  \/ \E b \in Barriers : BarrierWait(t, b)

\* and what comes by itself.
Continue(t) ==
  \/ Start(t) \/ Created(t) \/ End(t) \/ Joined(t) \/ Reaped(t)
  \/ LockAgain(t) \/ WaitUnlock(t) \/ Woken(t) \/ Relock(t) \/ Passed(t)

Next == Exit \/ ExitNext \/ \E t \in Slots : Call(t) \/ Continue(t)

Spec == Init /\ [][Next]_vars

\* The interpreter follows every thread that is in a call of the library.
FairSpec == Spec /\ \A t \in Slots : WF_vars(Continue(t))
-----------------------------------------------------------------------------
TypeOK ==
  /\ threads \in [Slots -> [gtid : 0 .. MaxThreads - 1, detached : BOOLEAN,
                            running : BOOLEAN, sleeping : Objects \cup {Null},
                            waiting_mutex : Mutexes \cup {Null}] \cup {Null}]
  /\ thread_counter \in 1 .. MaxThreads
  /\ mutexes \in [Mutexes -> [owner : 0 .. MaxThreads, count : 0 .. MaxLocks]]
  /\ \A m \in Mutexes : mutexes[m].owner = 0 <=> mutexes[m].count = 0
  /\ counter \in [Objects -> 0 .. MaxSlots]
  /\ \A b \in Barriers : counter[b] < NThreads[b]
  /\ \A c \in Conds : bound[c] \in Mutexes \cup {Null} /\ (bound[c] = Null <=> counter[c] = 0)
  /\ problem \in {"none", "again", "cycle", "dead", "dereference", "internal"}

\* The owners of the mutexes that the threads of a set wait for are in the set
\* themselves, or dead: none of them ever goes on.
Stuck(S, dead) ==
  /\ S # {}
  /\ \A t \in S : /\ call[t].name = "lock"
                  /\ LET g == Holder(call[t].mutex)
                     IN  ByGtid(g) \cap S # {} \/ (dead /\ g # -1 /\ Dead(g))

\* A cycle that is reported ("Mutex cycle closed", pthread.cpp:634-637) is one:
\* threads wait for each other's mutexes and none of them ever goes on, and if the
\* report is "locked by dead thread" (638-642), then they wait for it.  The count
\* of those who wait is that of those who sleep, which pthread.cpp:1088 asserts.
\* Nothing is said of "again", which a trylock may report, nor of "dereference".
DeadlocksAreReal ==
  /\ problem = "cycle" => \E S \in SUBSET Slots : Stuck(S, FALSE)
  /\ problem = "dead" => \E S \in SUBSET Slots : Stuck(S, TRUE)
  /\ problem # "internal"

\* Threads that wait for each other's mutexes are reported, although a search
\* that comes to the main thread first gives up (pthread.cpp:627-646).
DeadlocksAreReported ==
  (\E S \in SUBSET Slots : Stuck(S, FALSE)) ~> problem # "none"

\* The main thread does not take down the program while another thread runs, or
\* is about to (pthread.cpp:353-356: "join every other thread and exit").
MainLeavesLast ==
  [][call[Main] # Gone /\ call'[Main] = Gone =>
       \A s \in Slots \ {Main} : ~Running(s) /\ call[s].name # "entry"]_vars
=============================================================================
