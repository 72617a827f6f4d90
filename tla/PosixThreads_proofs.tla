-------------------------- MODULE PosixThreads_proofs --------------------------
(***************************************************************************)
(* Proofs about the POSIX threads of a verified program, for any number of *)
(* threads, mutexes, conditions and barriers.                              *)
(*                                                                         *)
(* The main thread leaves last.  pthread_exit goes once through the slots  *)
(* while the threads create others, in new slots and in those that have    *)
(* become empty behind its back.  The reason: whoever is new comes after   *)
(* its creator, which waits for it, and runs.  Nobody before the slot that *)
(* the main thread looks at runs, so that nobody new can come there.       *)
(*                                                                         *)
(* The cycles of mutexes that the library reports, and the waits for a     *)
(* dead thread, are deadlocks of the program.  The reason: each slot tells *)
(* which call its thread is in, the owner of a mutex is one thread and not *)
(* one that waits for it, and the counts are those of the sleepers.        *)
(***************************************************************************)
EXTENDS PosixThreads, FiniteSetTheorems, WellFoundedInduction, TLAPS

Frames ==
  [name : {"gone", "program", "ending"}]
  \cup [name : {"create"}, slot : Slots, ready : BOOLEAN]
  \cup [name : {"entry"}, creator : Slots]
  \cup [name : {"join"}, slot : Slots, gtid : Nat]
  \cup [name : {"reap", "exit"}, slot : Slots]
  \cup [name : {"lock", "unlock", "sleep", "relock"}, mutex : Mutexes]
  \cup [name : {"barrier"}, barrier : Barriers]

\* The calls that a thread which does not run is in.
Still == {"gone", "ending", "entry"}

Types ==
  /\ threads \in [Slots -> Record \cup {Null}]
  /\ call \in [Slots -> Frames]
  /\ thread_counter \in Nat

\* Who runs is in the program, or in a call.
RunningRun == \A s \in Slots : Running(s) <=> call[s].name \notin Still

\* Who is about to run has a creator that waits for it, in a slot before.
CreatorsWait ==
  \A s \in Slots : call[s].name = "entry" =>
    /\ threads[s] # Null
    /\ call[s].creator < s /\ call[call[s].creator] = Creating(s, FALSE)

\* Behind the slot that the main thread waits for nobody runs, or is about to.
NobodyBehind ==
  /\ call[Main].name \notin {"ending", "entry"}
  /\ \A s \in Slots \ {Main} : call[s].name # "exit"
  /\ call[Main].name = "exit" =>
       \A s \in 1 .. call[Main].slot - 1 : call[s].name \in {"gone", "ending"}

\* The inductive invariant; once the main thread has left, nobody is there.
ThreadsInv ==
  /\ Types
  /\ IF call[Main].name = "gone" THEN \A s \in Slots : call[s] = Gone
     ELSE RunningRun /\ CreatorsWait /\ NobodyBehind

-----------------------------------------------------------------------------
(* Least and greatest slots.                                               *)

LEMMA LeastOf ==
  ASSUME NEW S \in SUBSET Nat, S # {}
  PROVE  Min(S) \in S /\ \A y \in S : Min(S) <= y
  <1>1. PICK x \in S : \A y \in S : ~(<<y, x>> \in OpToRel(<, Nat))
    BY NatLessThanWellFounded, WFMin
  <1>2. ASSUME NEW y \in S PROVE x <= y
    <2>1. <<y, x>> \notin {p \in Nat \X Nat : p[1] < p[2]}
      BY <1>1 DEF OpToRel
    <2>2. ~(y < x)
      BY <2>1
    <2>. QED BY <2>2
  <1>. QED BY <1>2 DEF Min

LEMMA GreatestOf ==
  ASSUME NEW n \in Nat, NEW S \in SUBSET (0 .. n - 1), S # {}
  PROVE  Max(S) \in S /\ \A y \in S : Max(S) >= y
  <1> DEFINE R == {n - x : x \in S}
  <1>0. \A x \in S : x \in Nat /\ n - x \in Nat
    OBVIOUS
  <1>1. R \in SUBSET Nat /\ R # {}
    BY <1>0
  <1>2. Min(R) \in R /\ \A y \in R : Min(R) <= y
    <2> HIDE DEF R
    <2>. QED BY <1>1, LeastOf
  <1>3. PICK x \in S : Min(R) = n - x
    BY <1>2
  <1>4. ASSUME NEW y \in S PROVE x >= y
    <2>1. n - y \in R
      OBVIOUS
    <2>2. n - x <= n - y
      BY <1>2, <1>3, <2>1
    <2>. QED BY <1>0, <2>2
  <1>. QED BY <1>4 DEF Max

LEMMA SlotsAreNumbers == Slots \subseteq Nat /\ Main \in Slots /\ Main = 0
  BY ThreadsAssumption DEF Slots, Main

\* A new thread gets a slot after all those that live.
LEMMA NewSlotIsLast ==
  ASSUME Types, NEW t \in Slots, call[t].name # "gone", NewSlot \in Slots
  PROVE  t < NewSlot /\ call[NewSlot] = Gone
  <1> DEFINE live == {s \in Slots : call[s] # Gone}
  <1>1. live \in SUBSET (0 .. MaxSlots - 1) /\ t \in live /\ MaxSlots \in Nat
    BY ThreadsAssumption DEF Slots, Gone
  <1>2. Max(live) \in live /\ \A s \in live : Max(live) >= s
    <2> HIDE DEF live
    <2>. QED BY <1>1, GreatestOf
  <1>3. NewSlot = Max(live) + 1
    BY DEF NewSlot
  <1> HIDE DEF live
  <1>4. Max(live) \in Nat /\ t \in Nat
    <2>1. \A s \in live : s \in Nat
      BY <1>1
    <2>. QED BY <1>1, <1>2, <2>1
  <1>5. t < NewSlot /\ NewSlot \notin live
    BY <1>1, <1>2, <1>3, <1>4
  <1>. QED BY <1>5 DEF live

-----------------------------------------------------------------------------
LEMMA InitThreadsInv == Init => ThreadsInv
  <1> SUFFICES ASSUME Init PROVE ThreadsInv
    OBVIOUS
  <1>1. Thread(0, TRUE, TRUE) \in Record /\ Thread(0, TRUE, TRUE).running
    BY DEF Thread, Record
  <1>2. Program \in Frames /\ Gone \in Frames
    BY DEF Frames, Program, Gone
  <1>3. Types
    BY <1>1, <1>2 DEF Types, Init
  <1>4. call[Main] = Program /\ \A s \in Slots \ {Main} : call[s] = Gone
    BY SlotsAreNumbers DEF Init
  <1>5. RunningRun
    BY <1>1, <1>4, ThreadsAssumption DEF RunningRun, Running, Still, Init, Program, Gone
  <1>6. CreatorsWait /\ NobodyBehind
    <2>1. Program.name = "program" /\ Gone.name = "gone"
      BY DEF Program, Gone
    <2>2. \A s \in Slots : call[s].name \in {"program", "gone"}
      BY <1>4, <2>1
    <2>3. call[Main].name = "program"
      BY <1>4, <2>1
    <2>. QED BY <2>2, <2>3 DEF CreatorsWait, NobodyBehind
  <1>. QED BY <1>3, <1>4, <1>5, <1>6 DEF ThreadsInv, Program

-----------------------------------------------------------------------------
(* Most calls change neither who runs nor who is about to.                 *)

\* Nothing has changed that tells who is there, and who runs.
Alike == /\ threads' \in [Slots -> Record \cup {Null}]
         /\ \A s \in Slots : /\ Running(s)' <=> Running(s)
                             /\ threads[s] # Null => threads'[s] # Null

\* A thread that nobody waits for goes on to another call, or stays in the same.
Ordinary(t) ==
  /\ call[t].name \notin Still \cup {"exit"}
  /\ \A s \in Slots : call[t] # Creating(s, FALSE)
  /\ \/ call' = call
     \/ \E c \in Frames : /\ call' = [call EXCEPT ![t] = c]
                          /\ c.name \notin Still \cup {"create", "exit"}
  /\ Alike
  /\ thread_counter' = thread_counter

LEMMA OrdinaryStep ==
  ASSUME ThreadsInv, NEW t \in Slots, Ordinary(t)
  PROVE  ThreadsInv' /\ call'[Main].name # "gone"
  <1>1. call[Main].name # "gone"
    BY DEF ThreadsInv, Ordinary, Still, Gone
  <1>2. RunningRun /\ CreatorsWait /\ NobodyBehind /\ Types
    BY <1>1 DEF ThreadsInv
  <1>3. CASE call' = call
    BY <1>1, <1>2, <1>3 DEF ThreadsInv, Types, RunningRun, CreatorsWait, NobodyBehind, Ordinary,
                            Creating, Alike
  <1>4. ASSUME NEW c \in Frames, call' = [call EXCEPT ![t] = c],
               c.name \notin Still \cup {"create", "exit"}
        PROVE  ThreadsInv' /\ call'[Main].name # "gone"
    <2>1. /\ call'[t] = c /\ call' \in [Slots -> Frames]
          /\ \A s \in Slots : s # t => call'[s] = call[s]
      BY <1>2, <1>4 DEF Types
    <2>2. Types'
      BY <1>2, <2>1 DEF Ordinary, Alike, Types
    <2>3. RunningRun'
      BY <1>2, <1>4, <2>1 DEF Ordinary, Alike, RunningRun
    <2>4. CreatorsWait'
      <3> SUFFICES ASSUME NEW s \in Slots, call'[s].name = "entry"
                   PROVE  /\ threads'[s] # Null /\ call'[s].creator < s
                          /\ call'[call'[s].creator] = Creating(s, FALSE)'
        BY DEF CreatorsWait
      <3>1. s # t /\ call'[s] = call[s]
        BY <1>4, <2>1 DEF Still
      <3>2. call[s].creator \in Slots
        BY <1>2, <3>1 DEF Types, Frames
      <3>3. threads'[s] # Null /\ call[s].creator < s
            /\ call[call[s].creator] = Creating(s, FALSE)
        BY <1>2, <3>1 DEF CreatorsWait, Ordinary, Alike
      <3>4. call[s].creator # t
        BY <3>3 DEF Ordinary
      <3>. QED BY <2>1, <3>1, <3>2, <3>3, <3>4 DEF Creating
    <2>5. NobodyBehind' /\ call'[Main].name # "gone"
      <3>1. call[Main].name = "exit" => t # Main
        BY DEF Ordinary
      <3>2. call'[Main].name \notin Still
        BY <1>1, <1>2, <1>4, <2>1, SlotsAreNumbers DEF NobodyBehind, Still
      <3>3. \A s \in Slots \ {Main} : call'[s].name # "exit"
        BY <1>2, <1>4, <2>1 DEF NobodyBehind
      <3>4. ASSUME call'[Main].name = "exit", NEW s \in 1 .. call'[Main].slot - 1
            PROVE  call'[s].name \in {"gone", "ending"}
        <4>1. call'[Main] = call[Main] /\ call[Main].slot \in Slots
          BY <1>2, <1>4, <2>1, <3>4, SlotsAreNumbers DEF Types, Frames
        <4>2. s \in Slots /\ call[s].name \in {"gone", "ending"}
          BY <1>2, <3>4, <4>1, ThreadsAssumption DEF NobodyBehind, Slots
        <4>3. s # t
          BY <4>2 DEF Ordinary, Still
        <4>. QED BY <2>1, <4>2, <4>3
      <3>. QED BY <3>2, <3>3, <3>4 DEF NobodyBehind, Still
    <2>. QED BY <2>2, <2>3, <2>4, <2>5 DEF ThreadsInv
  <1>. QED BY <1>3, <1>4 DEF Ordinary

-----------------------------------------------------------------------------
(* The ordinary calls.                                                     *)

LEMMA WhoCalls ==
  ASSUME ThreadsInv, NEW t \in Slots, call[t].name # "gone"
  PROVE  /\ Types /\ RunningRun /\ CreatorsWait /\ NobodyBehind
         /\ call[Main].name # "gone"
         /\ call[t].name \notin Still => threads[t] \in Record /\ threads[t].running
  <1>1. call[Main].name # "gone"
    BY DEF ThreadsInv, Gone
  <1>2. Types /\ RunningRun /\ CreatorsWait /\ NobodyBehind
    BY <1>1 DEF ThreadsInv
  <1>. QED BY <1>1, <1>2 DEF RunningRun, Running, Types

\* A note in the slot of a thread does not make it run, or stop.
LEMMA NotesAreAlike ==
  ASSUME Types, NEW s \in Slots, threads[s] # Null
  PROVE  /\ threads' = threads => Alike
         /\ threads' = [threads EXCEPT ![s].detached = TRUE] => Alike
         /\ \A o \in Objects \cup {Null} :
              threads' = [threads EXCEPT ![s].sleeping = o] => Alike
         /\ \A m \in Mutexes \cup {Null} :
              threads' = [threads EXCEPT ![s].waiting_mutex = m] => Alike
  <1>1. threads[s] \in Record /\ threads \in [Slots -> Record \cup {Null}]
    BY DEF Types
  <1>2. ASSUME NEW r \in Record, r.running = threads[s].running,
               threads' = [threads EXCEPT ![s] = r]
        PROVE  Alike
    <2>1. threads' \in [Slots -> Record \cup {Null}] /\ threads'[s] = r
          /\ \A u \in Slots : u # s => threads'[u] = threads[u]
      BY <1>1, <1>2
    <2>2. r # Null
      BY ThreadsAssumption
    <2>. QED BY <1>2, <2>1, <2>2 DEF Alike, Running
  <1>3. threads' = threads => Alike
    BY <1>1 DEF Alike, Running
  <1>4. [threads[s] EXCEPT !.detached = TRUE] \in Record
        /\ [threads[s] EXCEPT !.detached = TRUE].running = threads[s].running
    BY <1>1 DEF Record
  <1>5. \A o \in Objects \cup {Null} :
          /\ [threads[s] EXCEPT !.sleeping = o] \in Record
          /\ [threads[s] EXCEPT !.sleeping = o].running = threads[s].running
    BY <1>1 DEF Record
  <1>6. \A m \in Mutexes \cup {Null} :
          /\ [threads[s] EXCEPT !.waiting_mutex = m] \in Record
          /\ [threads[s] EXCEPT !.waiting_mutex = m].running = threads[s].running
    BY <1>1 DEF Record
  <1>7. threads' = [threads EXCEPT ![s].detached = TRUE] => Alike
    BY <1>2, <1>4
  <1>8. \A o \in Objects \cup {Null} : threads' = [threads EXCEPT ![s].sleeping = o] => Alike
    BY <1>2, <1>5
  <1>9. \A m \in Mutexes \cup {Null} :
          threads' = [threads EXCEPT ![s].waiting_mutex = m] => Alike
    BY <1>2, <1>6
  <1>. QED BY <1>3, <1>7, <1>8, <1>9

\* What is left to show of a call that goes on to another.
LEMMA GoesOn ==
  ASSUME NEW t \in Slots, call[t].name \notin Still \cup {"exit", "create"}, Alike,
         thread_counter' = thread_counter,
         \/ call' = call
         \/ \E c \in Frames : Goto(t, c) /\ c.name \notin Still \cup {"create", "exit"}
  PROVE  Ordinary(t)
  BY DEF Ordinary, Alike, Goto, Creating

LEMMA CallsAreFrames ==
  /\ Program \in Frames /\ Program.name \notin Still \cup {"create", "exit"}
  /\ \A s \in Slots : Reaping(s) \in Frames /\ Reaping(s).name = "reap"
  /\ \A m \in Mutexes : Locking(m) \in Frames /\ Locking(m).name = "lock"
  /\ \A m \in Mutexes, step \in {"unlock", "sleep", "relock"} :
       Waiting(m, step) \in Frames /\ Waiting(m, step).name = step
  /\ \A b \in Barriers : Meeting(b) \in Frames /\ Meeting(b).name = "barrier"
  BY DEF Frames, Program, Reaping, Locking, Waiting, Meeting, Still

LEMMA JoinsAreOrdinary ==
  ASSUME ThreadsInv, NEW t \in Slots, NEW s \in Slots,
         Join(t, s) \/ Detach(t, s) \/ Joined(t) \/ Reaped(t)
  PROVE  Ordinary(t)
  <1>1. call[t].name \in {"program", "join", "reap"}
    BY DEF Join, Detach, Joined, Reaped, In
  <1>2. Types /\ threads[t] # Null /\ call[t].name \notin Still \cup {"exit", "create"}
    BY <1>1, WhoCalls, ThreadsAssumption DEF Still
  <1>3. ASSUME NEW u \in Slots, threads[u] # Null, Reap(t, u), thread_counter' = thread_counter
        PROVE  Ordinary(t)
    BY <1>2, <1>3, NotesAreAlike, CallsAreFrames, GoesOn DEF Reap, Still
  <1>4. CASE threads' = threads /\ thread_counter' = thread_counter /\ Goto(t, Program)
    BY <1>2, <1>4, NotesAreAlike, CallsAreFrames, GoesOn
  <1>5. CASE threads' = threads /\ thread_counter' = thread_counter /\ call' = call
    BY <1>2, <1>5, NotesAreAlike, GoesOn
  <1>6. CASE Join(t, s)
    <2>1. CASE Running(s)
      <3>1. threads[s] \in Record
        BY <1>2, <2>1 DEF Types, Running
      <3>2. Joining(s) \in Frames /\ Joining(s).name = "join"
        BY <3>1 DEF Joining, Frames, Record
      <3>3. Goto(t, Joining(s)) /\ threads' = threads /\ thread_counter' = thread_counter
        BY <1>6, <2>1 DEF Join
      <3>. QED BY <1>2, <3>2, <3>3, NotesAreAlike, GoesOn DEF Still
    <2>2. CASE ~Running(s)
      BY <1>3, <1>6, <2>2 DEF Join, Joinable
    <2>. QED BY <2>1, <2>2
  <1>7. CASE Detach(t, s)
    <2>1. Alike /\ thread_counter' = thread_counter
      BY <1>2, <1>7, NotesAreAlike DEF Detach, Joinable
    <2>. QED BY <1>2, <1>7, <2>1, CallsAreFrames, GoesOn DEF Detach, Still
  <1>8. CASE Joined(t)
    <2>1. call[t].slot \in Slots
      BY <1>2, <1>8 DEF Joined, In, Types, Frames
    <2>. QED BY <1>3, <1>4, <1>5, <1>8, <2>1 DEF Joined
  <1>9. CASE Reaped(t)
    BY <1>4, <1>9 DEF Reaped
  <1>. QED BY <1>6, <1>7, <1>8, <1>9

LEMMA LocksAreOrdinary ==
  ASSUME ThreadsInv, NEW t \in Slots,
         \/ \E m \in Mutexes : Lock(t, m) \/ TryLock(t, m) \/ Unlock(t, m)
         \/ LockAgain(t) \/ WaitUnlock(t) \/ Woken(t) \/ Relock(t)
  PROVE  Ordinary(t)
  <1>1. call[t].name \in {"program", "lock", "unlock", "sleep", "relock"}
    BY DEF Lock, TryLock, MutexCall, Unlock, LockAgain, WaitUnlock, Woken, Relock, In
  <1>2. Types /\ threads[t] # Null /\ call[t].name \notin Still \cup {"exit", "create"}
    BY <1>1, WhoCalls, ThreadsAssumption DEF Still
  <1>3. call[t].name # "program" => call[t].mutex \in Mutexes
    BY <1>1, <1>2 DEF Types, Frames
  <1>4. ASSUME NEW n \in Mutexes, Acquire(t, n), thread_counter' = thread_counter
        PROVE  Ordinary(t)
    BY <1>2, <1>4, NotesAreAlike, CallsAreFrames, GoesOn DEF Acquire
  <1>5. ASSUME NEW n \in Mutexes, NEW wait, MutexLock(t, n, wait), thread_counter' = thread_counter
        PROVE  Ordinary(t)
    <2>1. CASE Acquire(t, n)
      BY <1>4, <1>5, <2>1
    <2>2. CASE Goto(t, Program) /\ threads' = threads
      BY <1>2, <1>5, <2>2, NotesAreAlike, CallsAreFrames, GoesOn
    <2>3. CASE threads' = [threads EXCEPT ![t].waiting_mutex = n] /\ Goto(t, Locking(n))
      BY <1>2, <1>5, <2>3, NotesAreAlike, CallsAreFrames, GoesOn DEF Still
    <2>4. CASE call' = call /\ threads' = threads
      BY <1>2, <1>5, <2>4, NotesAreAlike, GoesOn
    <2>. QED BY <1>5, <2>1, <2>2, <2>3, <2>4 DEF MutexLock
  <1>6. ASSUME NEW step \in {"unlock", "sleep", "relock"}, threads' = threads,
               thread_counter' = thread_counter, Goto(t, Waiting(call[t].mutex, step)),
               call[t].name # "program"
        PROVE  Ordinary(t)
    BY <1>2, <1>3, <1>6, NotesAreAlike, CallsAreFrames, GoesOn DEF Still
  <1>7. CASE threads' = threads /\ thread_counter' = thread_counter /\ call' = call
    BY <1>2, <1>7, NotesAreAlike, GoesOn
  <1>8. ASSUME NEW m \in Mutexes, Lock(t, m) PROVE Ordinary(t)
    BY <1>5, <1>8 DEF Lock, MutexCall
  <1>9. ASSUME NEW m \in Mutexes, TryLock(t, m) PROVE Ordinary(t)
    BY <1>5, <1>9 DEF TryLock, MutexCall
  <1>10. ASSUME NEW m \in Mutexes, Unlock(t, m) PROVE Ordinary(t)
    BY <1>7, <1>10 DEF Unlock
  <1>11. CASE LockAgain(t)
    BY <1>3, <1>4, <1>7, <1>11 DEF LockAgain, In
  <1>12. CASE WaitUnlock(t)
    BY <1>6, <1>12 DEF WaitUnlock, In
  <1>13. CASE Woken(t)
    BY <1>6, <1>13 DEF Woken, In
  <1>14. CASE Relock(t)
    BY <1>3, <1>5, <1>14 DEF Relock, In
  <1>. QED BY <1>8, <1>9, <1>10, <1>11, <1>12, <1>13, <1>14

LEMMA SleepersAreOrdinary ==
  ASSUME ThreadsInv, NEW t \in Slots,
         \/ Passed(t)
         \/ \E c \in Conds, m \in Mutexes : CondWait(t, c, m)
         \/ \E c \in Conds : \E chosen : Signal(t, c, chosen)
         \/ \E b \in Barriers : BarrierWait(t, b)
  PROVE  Ordinary(t)
  <1>1. call[t].name \in {"program", "barrier"}
    BY DEF Passed, CondWait, Signal, BarrierWait, In
  <1>2. Types /\ threads[t] # Null /\ call[t].name \notin Still \cup {"exit", "create"}
    BY <1>1, WhoCalls, ThreadsAssumption DEF Still
  <1>3. ASSUME NEW o \in Objects, NEW chosen, WakeUp(o, chosen) PROVE Alike
    <2>1. PICK woken \in SUBSET Sleepers(o) :
            threads' = [s \in Slots |-> IF s \in woken
                                        THEN [threads[s] EXCEPT !.sleeping = Null]
                                        ELSE threads[s]]
      BY <1>3 DEF WakeUp
    <2>2. ASSUME NEW s \in Slots
          PROVE  /\ threads'[s] \in Record \cup {Null} /\ (Running(s)' <=> Running(s))
                 /\ threads[s] # Null => threads'[s] # Null
      <3>1. CASE s \in woken
        <4>1. threads[s] \in Record
          BY <1>2, <2>1, <3>1 DEF Types, Sleepers
        <4>2. threads'[s] = [threads[s] EXCEPT !.sleeping = Null]
          BY <2>1, <3>1
        <4>3. threads'[s] \in Record /\ threads'[s].running = threads[s].running
          BY <4>1, <4>2 DEF Record
        <4>. QED BY <4>1, <4>3, ThreadsAssumption DEF Running
      <3>2. CASE s \notin woken
        BY <1>2, <2>1, <3>2 DEF Types, Running
      <3>. QED BY <3>1, <3>2
    <2>. QED BY <2>1, <2>2 DEF Alike
  <1>4. CASE Passed(t)
    BY <1>2, <1>4, NotesAreAlike, CallsAreFrames, GoesOn DEF Passed
  <1>5. ASSUME NEW c \in Conds, NEW m \in Mutexes, CondWait(t, c, m) PROVE Ordinary(t)
    BY <1>2, <1>5, NotesAreAlike, CallsAreFrames, GoesOn DEF CondWait, FallAsleep, Objects, Still
  <1>6. ASSUME NEW c \in Conds, NEW chosen, Signal(t, c, chosen) PROVE Ordinary(t)
    BY <1>2, <1>3, <1>6, GoesOn DEF Signal, Objects
  <1>7. ASSUME NEW b \in Barriers, BarrierWait(t, b) PROVE Ordinary(t)
    <2>1. CASE WakeUp(b, 1 .. counter[b]) /\ call' = call
      BY <1>2, <1>3, <1>7, <2>1, GoesOn DEF BarrierWait, Objects
    <2>2. CASE FallAsleep(t, b) /\ Goto(t, Meeting(b))
      BY <1>2, <1>7, <2>2, NotesAreAlike, CallsAreFrames, GoesOn
         DEF BarrierWait, FallAsleep, Objects, Still
    <2>. QED BY <1>7, <2>1, <2>2 DEF BarrierWait
  <1>. QED BY <1>4, <1>5, <1>6, <1>7

-----------------------------------------------------------------------------
(* The steps that change who runs, or who is about to.                     *)

LEMMA CreatedIsOrdinary ==
  ASSUME ThreadsInv, NEW t \in Slots, Created(t)
  PROVE  Ordinary(t)
  <1>1. call[t].name = "create" /\ call[t].ready = TRUE /\ Types
    BY WhoCalls DEF Created, In, Types, Frames
  <1>2. \A s \in Slots : call[t] # Creating(s, FALSE)
    BY <1>1 DEF Creating
  <1>3. Alike
    BY <1>1 DEF Created, Alike, Types, Running
  <1>. QED BY <1>1, <1>2, <1>3, CallsAreFrames DEF Created, Ordinary, Goto, Still

LEMMA CreateKeeps ==
  ASSUME ThreadsInv, NEW t \in Slots, NEW detached \in BOOLEAN, Create(t, detached)
  PROVE  ThreadsInv' /\ call'[Main].name # "gone"
  <1> DEFINE u == NewSlot
  <1>1. call[t].name = "program" /\ u \in Slots
    BY DEF Create, In
  <1>2. /\ Types /\ RunningRun /\ CreatorsWait /\ NobodyBehind /\ call[Main].name # "gone"
        /\ threads[t].running /\ threads[t] \in Record
    BY <1>1, WhoCalls DEF Still
  <1>3. t < u /\ call[u] = Gone
    BY <1>1, <1>2, NewSlotIsLast
  <1>4. /\ call' = [call EXCEPT ![t] = Creating(u, FALSE), ![u] = Entering(t)]
        /\ threads' = [threads EXCEPT ![u] = Thread(thread_counter, detached, FALSE)]
        /\ thread_counter' = thread_counter + 1
    BY DEF Create
  <1> HIDE DEF u
  <1>5. t \in Nat /\ u \in Nat /\ t # u /\ u # Main /\ Main = 0 /\ Main \in Slots
    BY <1>1, <1>3, SlotsAreNumbers
  <1>6. /\ Thread(thread_counter, detached, FALSE) \in Record
        /\ Thread(thread_counter, detached, FALSE).running = FALSE
        /\ Creating(u, FALSE) \in Frames /\ Creating(u, FALSE).name = "create"
        /\ Entering(t) \in Frames /\ Entering(t).name = "entry" /\ Entering(t).creator = t
        /\ Gone.name = "gone"
    BY <1>1, <1>2 DEF Thread, Record, Creating, Entering, Frames, Types, Gone
  <1>7. /\ call' \in [Slots -> Frames]
        /\ call'[t] = Creating(u, FALSE) /\ call'[u] = Entering(t)
        /\ \A s \in Slots \ {t, u} : call'[s] = call[s]
    BY <1>1, <1>2, <1>4, <1>5, <1>6 DEF Types
  <1>8. /\ threads' \in [Slots -> Record \cup {Null}]
        /\ threads'[u] = Thread(thread_counter, detached, FALSE)
        /\ \A s \in Slots \ {u} : threads'[s] = threads[s]
    BY <1>1, <1>2, <1>4, <1>6 DEF Types
  <1>9. Types'
    <2>1. thread_counter' \in Nat
      BY <1>2, <1>4 DEF Types
    <2>. QED BY <1>7, <1>8, <2>1 DEF Types
  <1>10. RunningRun'
    <2> SUFFICES ASSUME NEW s \in Slots
                 PROVE  Running(s)' <=> call'[s].name \notin Still
      BY DEF RunningRun
    <2>1. CASE s = u
      BY <1>6, <1>7, <1>8, <2>1 DEF Running, Still
    <2>2. CASE s = t
      BY <1>2, <1>5, <1>6, <1>7, <1>8, <2>2, ThreadsAssumption DEF Running, Still
    <2>3. CASE s \notin {t, u}
      BY <1>2, <1>7, <1>8, <2>3 DEF Running, RunningRun
    <2>. QED BY <2>1, <2>2, <2>3
  <1>11. CreatorsWait'
    <2> SUFFICES ASSUME NEW s \in Slots, call'[s].name = "entry"
                 PROVE  /\ threads'[s] # Null /\ call'[s].creator < s
                        /\ call'[call'[s].creator] = Creating(s, FALSE)
      BY DEF CreatorsWait, Creating
    <2>1. CASE s = u
      BY <1>3, <1>6, <1>7, <1>8, <2>1, ThreadsAssumption
    <2>2. CASE s # u
      <3>1. s # t /\ call'[s] = call[s] /\ threads'[s] = threads[s]
        BY <1>6, <1>7, <1>8, <2>2
      <3>2. /\ threads[s] # Null /\ call[s].creator < s
            /\ call[call[s].creator] = Creating(s, FALSE) /\ call[s].creator \in Slots
        BY <1>2, <3>1 DEF CreatorsWait, Types, Frames
      <3>3. call[s].creator \notin {t, u}
        BY <1>1, <1>3, <1>6, <3>2 DEF Creating
      <3>. QED BY <1>7, <3>1, <3>2, <3>3
    <2>. QED BY <2>1, <2>2
  <1>12. NobodyBehind' /\ call'[Main].name # "gone"
    <2>1. call'[Main].name \notin {"ending", "entry", "gone"}
      BY <1>2, <1>5, <1>6, <1>7 DEF NobodyBehind
    <2>2. \A s \in Slots \ {Main} : call'[s].name # "exit"
      BY <1>2, <1>5, <1>6, <1>7 DEF NobodyBehind
    <2>3. ASSUME call'[Main].name = "exit", NEW s \in 1 .. call'[Main].slot - 1
          PROVE  call'[s].name \in {"gone", "ending"}
      <3>1. call'[Main] = call[Main] /\ call[Main].slot \in Slots /\ t # Main
        BY <1>2, <1>5, <1>6, <1>7, <2>3 DEF Types, Frames
      <3>2. s \in Slots /\ call[s].name \in {"gone", "ending"}
        BY <1>2, <2>3, <3>1, ThreadsAssumption DEF NobodyBehind, Slots
      <3>3. t \notin 1 .. call[Main].slot - 1
        BY <1>1, <1>2, <2>3, <3>1 DEF NobodyBehind
      <3>4. s < t
        <4>1. call[Main].slot \in Nat /\ s \in 1 .. call[Main].slot - 1
          BY <2>3, <3>1, SlotsAreNumbers
        <4>. QED BY <1>5, <3>1, <3>3, <4>1
      <3>5. s \notin {t, u}
        BY <1>3, <1>5, <3>2, <3>4, SlotsAreNumbers
      <3>. QED BY <1>7, <3>2, <3>5
    <2>. QED BY <2>1, <2>2, <2>3 DEF NobodyBehind
  <1>. QED BY <1>9, <1>10, <1>11, <1>12 DEF ThreadsInv

LEMMA StartKeeps ==
  ASSUME ThreadsInv, NEW s \in Slots, Start(s)
  PROVE  ThreadsInv' /\ call'[Main].name # "gone"
  <1> DEFINE t == call[s].creator
  <1>1. call[s].name = "entry"
    BY DEF Start, In
  <1>2. Types /\ RunningRun /\ CreatorsWait /\ NobodyBehind /\ call[Main].name # "gone"
    BY <1>1, WhoCalls
  <1>3. t \in Slots /\ t < s /\ call[t] = Creating(s, FALSE) /\ threads[s] \in Record
    BY <1>1, <1>2 DEF CreatorsWait, Types, Frames
  <1>4. threads' = [threads EXCEPT ![s].running = TRUE] /\ thread_counter' = thread_counter
    BY DEF Start
  <1>5. t # s /\ s # Main /\ Main \in Slots
    BY <1>1, <1>2, <1>3, SlotsAreNumbers DEF NobodyBehind
  <1>6. call' = [call EXCEPT ![s] = Program,
                             ![t] = IF @ = Creating(s, FALSE) THEN Creating(s, TRUE) ELSE @]
    BY DEF Start
  <1> HIDE DEF t
  <1>7. /\ Program \in Frames /\ Program.name = "program"
        /\ Creating(s, TRUE) \in Frames /\ Creating(s, TRUE).name = "create"
        /\ Creating(s, FALSE).name = "create" /\ Creating(s, FALSE).slot = s
    BY DEF Program, Creating, Frames
  <1>8. /\ call' \in [Slots -> Frames]
        /\ call'[s] = Program /\ call'[t] = Creating(s, TRUE)
        /\ \A u \in Slots \ {s, t} : call'[u] = call[u]
    BY <1>2, <1>3, <1>5, <1>6, <1>7 DEF Types
  <1>9. [threads[s] EXCEPT !.running = TRUE] \in Record
        /\ [threads[s] EXCEPT !.running = TRUE].running = TRUE
    BY <1>3 DEF Record
  <1>10. /\ threads' \in [Slots -> Record \cup {Null}]
         /\ threads'[s] = [threads[s] EXCEPT !.running = TRUE]
         /\ \A u \in Slots \ {s} : threads'[u] = threads[u]
    BY <1>2, <1>4, <1>9 DEF Types
  <1>11. Types'
    BY <1>2, <1>4, <1>8, <1>10 DEF Types
  <1>12. RunningRun'
    <2> SUFFICES ASSUME NEW u \in Slots
                 PROVE  Running(u)' <=> call'[u].name \notin Still
      BY DEF RunningRun
    <2>1. CASE u = s
      BY <1>7, <1>8, <1>9, <1>10, <2>1, ThreadsAssumption DEF Running, Still
    <2>2. CASE u = t
      BY <1>2, <1>3, <1>5, <1>7, <1>8, <1>10, <2>2 DEF Running, RunningRun, Still
    <2>3. CASE u \notin {s, t}
      BY <1>2, <1>8, <1>10, <2>3 DEF Running, RunningRun
    <2>. QED BY <2>1, <2>2, <2>3
  <1>13. CreatorsWait'
    <2> SUFFICES ASSUME NEW u \in Slots, call'[u].name = "entry"
                 PROVE  /\ threads'[u] # Null /\ call'[u].creator < u
                        /\ call'[call'[u].creator] = Creating(u, FALSE)
      BY DEF CreatorsWait, Creating
    <2>1. u \notin {s, t} /\ call'[u] = call[u] /\ threads'[u] = threads[u]
      BY <1>7, <1>8, <1>10
    <2>2. /\ threads[u] # Null /\ call[u].creator < u
          /\ call[call[u].creator] = Creating(u, FALSE) /\ call[u].creator \in Slots
      BY <1>2, <2>1 DEF CreatorsWait, Types, Frames
    <2>3. Creating(u, FALSE).name = "create" /\ Creating(u, FALSE).slot = u
      BY DEF Creating
    <2>4. call[u].creator \notin {s, t}
      BY <1>1, <1>3, <1>7, <2>1, <2>2, <2>3
    <2>. QED BY <1>8, <2>1, <2>2, <2>4
  <1>14. NobodyBehind' /\ call'[Main].name # "gone"
    <2>1. call'[Main].name \notin {"ending", "entry", "gone"}
      BY <1>2, <1>5, <1>7, <1>8 DEF NobodyBehind
    <2>2. \A u \in Slots \ {Main} : call'[u].name # "exit"
      BY <1>2, <1>7, <1>8 DEF NobodyBehind
    <2>3. ASSUME call'[Main].name = "exit", NEW u \in 1 .. call'[Main].slot - 1
          PROVE  call'[u].name \in {"gone", "ending"}
      <3>1. call'[Main] = call[Main] /\ call[Main].slot \in Slots
        BY <1>2, <1>5, <1>7, <1>8, <2>3 DEF Types, Frames
      <3>2. u \in Slots /\ call[u].name \in {"gone", "ending"}
        BY <1>2, <2>3, <3>1, ThreadsAssumption DEF NobodyBehind, Slots
      <3>3. u \notin {s, t}
        BY <1>1, <1>3, <1>7, <3>2
      <3>. QED BY <1>8, <3>2, <3>3
    <2>. QED BY <2>1, <2>2, <2>3 DEF NobodyBehind
  <1>. QED BY <1>11, <1>12, <1>13, <1>14 DEF ThreadsInv

\* A thread that is not the main one ends, and keeps its slot or not.
LEMMA EndKeeps ==
  ASSUME ThreadsInv, NEW t \in Slots, Return(t) \/ End(t)
  PROVE  ThreadsInv' /\ call'[Main].name # "gone"
  <1>1. call[t].name \in {"program", "ending"} /\ thread_counter' = thread_counter
    BY DEF Return, End, In
  <1>2. Types /\ RunningRun /\ CreatorsWait /\ NobodyBehind /\ call[Main].name # "gone"
    BY <1>1, WhoCalls
  <1>3. t # Main /\ Main \in Slots
    BY <1>2, SlotsAreNumbers DEF Return, End, In, NobodyBehind
  <1>4. Gone \in Frames /\ Gone.name = "gone" /\ Ending \in Frames /\ Ending.name = "ending"
    BY DEF Gone, Ending, Frames
  <1>5. /\ threads' \in [Slots -> Record \cup {Null}]
        /\ \A s \in Slots \ {t} : threads'[s] = threads[s]
        /\ ~Running(t)'
        /\ \E c \in {Gone, Ending} : call' = [call EXCEPT ![t] = c]
    <2>1. CASE Free(t)
      BY <1>2, <2>1 DEF Free, Goto, Types, Running
    <2>2. CASE threads' = [threads EXCEPT ![t].running = FALSE] /\ Goto(t, Ending) /\ Return(t)
      <3>1. threads[t] \in Record
        BY <2>2, WhoCalls DEF Return, In, Still
      <3>2. [threads[t] EXCEPT !.running = FALSE] \in Record
            /\ [threads[t] EXCEPT !.running = FALSE].running = FALSE
        BY <3>1 DEF Record
      <3>. QED BY <1>2, <2>2, <3>2 DEF Goto, Types, Running
    <2>. QED BY <2>1, <2>2 DEF Return, End
  <1>6. /\ call' \in [Slots -> Frames] /\ call'[t] \in {Gone, Ending}
        /\ \A s \in Slots \ {t} : call'[s] = call[s]
    BY <1>2, <1>4, <1>5 DEF Types
  <1>7. Types'
    BY <1>1, <1>2, <1>5, <1>6 DEF Types
  <1>8. RunningRun'
    <2> SUFFICES ASSUME NEW s \in Slots
                 PROVE  Running(s)' <=> call'[s].name \notin Still
      BY DEF RunningRun
    <2>1. CASE s = t
      BY <1>4, <1>5, <1>6, <2>1 DEF Still
    <2>2. CASE s # t
      BY <1>2, <1>5, <1>6, <2>2 DEF Running, RunningRun
    <2>. QED BY <2>1, <2>2
  <1>9. CreatorsWait'
    <2> SUFFICES ASSUME NEW s \in Slots, call'[s].name = "entry"
                 PROVE  /\ threads'[s] # Null /\ call'[s].creator < s
                        /\ call'[call'[s].creator] = Creating(s, FALSE)
      BY DEF CreatorsWait, Creating
    <2>1. s # t /\ call'[s] = call[s] /\ threads'[s] = threads[s]
      BY <1>4, <1>5, <1>6
    <2>2. /\ threads[s] # Null /\ call[s].creator < s
          /\ call[call[s].creator] = Creating(s, FALSE) /\ call[s].creator \in Slots
      BY <1>2, <2>1 DEF CreatorsWait, Types, Frames
    <2>3. call[s].creator # t
      BY <1>1, <2>2 DEF Creating
    <2>. QED BY <1>6, <2>1, <2>2, <2>3
  <1>10. NobodyBehind' /\ call'[Main].name # "gone"
    <2>1. call'[Main] = call[Main]
      BY <1>3, <1>6
    <2>2. \A s \in Slots \ {Main} : call'[s].name # "exit"
      BY <1>2, <1>4, <1>6 DEF NobodyBehind
    <2>3. ASSUME call[Main].name = "exit", NEW s \in 1 .. call[Main].slot - 1
          PROVE  call'[s].name \in {"gone", "ending"}
      <3>1. call[Main].slot \in Slots
        BY <1>2, <1>3, <2>3 DEF Types, Frames
      <3>2. s \in Slots /\ call[s].name \in {"gone", "ending"}
        BY <1>2, <2>3, <3>1, ThreadsAssumption DEF NobodyBehind, Slots
      <3>. QED BY <1>4, <1>6, <3>2
    <2>. QED BY <1>2, <2>1, <2>2, <2>3 DEF NobodyBehind
  <1>. QED BY <1>7, <1>8, <1>9, <1>10 DEF ThreadsInv

-----------------------------------------------------------------------------
(* The main thread leaves.                                                 *)

\* Nobody else is in the program, or will be.
Alone == \A s \in Slots \ {Main} : ~Running(s) /\ call[s].name # "entry"

\* If nobody up to a slot runs, nobody there is about to.
LEMMA NobodyStarts ==
  ASSUME Types, RunningRun, CreatorsWait, NobodyBehind,
         call[Main].name \in {"program", "exit"}, NEW n \in Nat,
         \A s \in Slots : 1 <= s /\ s < n => ~Running(s),
         NEW s \in Slots, 1 <= s, s < n
  PROVE  call[s].name \in {"gone", "ending"}
  <1>1. call[s].name \in Still
    BY DEF RunningRun
  <1>2. ASSUME call[s].name = "entry" PROVE FALSE
    <2>1. /\ call[s].creator \in Slots /\ call[s].creator < s
          /\ call[call[s].creator] = Creating(s, FALSE)
      BY <1>2 DEF CreatorsWait, Types, Frames
    <2>2. call[call[s].creator].name = "create"
      BY <2>1 DEF Creating
    <2>3. call[s].creator # Main /\ Running(call[s].creator)
      BY <2>1, <2>2 DEF RunningRun, Still
    <2>4. 1 <= call[s].creator /\ call[s].creator < n
      <3>1. call[s].creator \in Nat /\ s \in Nat /\ call[s].creator # 0
        BY <2>1, <2>3, SlotsAreNumbers
      <3>. QED BY <2>1, <3>1
    <2>. QED BY <2>1, <2>3, <2>4
  <1>. QED BY <1>1, <1>2 DEF Still

LEMMA ExitKeeps ==
  ASSUME ThreadsInv, Exit \/ ExitNext
  PROVE  ThreadsInv' /\ (call'[Main].name = "gone" => Alone)
  <1>1. call[Main].name \in {"program", "exit"} /\ Main \in Slots /\ Main = 0
    BY SlotsAreNumbers DEF Exit, ExitNext, In
  <1>2. Types /\ RunningRun /\ CreatorsWait /\ NobodyBehind
    BY <1>1, WhoCalls
  <1>3. PICK first \in Nat : /\ ExitFrom(first) /\ first >= 1
                             /\ \A s \in Slots : 1 <= s /\ s < first => ~Running(s)
    <2>1. CASE Exit
      BY <2>1, SlotsAreNumbers DEF Exit
    <2>2. CASE ExitNext
      <3>1. call[Main].slot \in Slots /\ ~Running(call[Main].slot)
            /\ ExitFrom(call[Main].slot + 1) /\ call[Main].name = "exit"
        BY <1>1, <1>2, <2>2 DEF ExitNext, In, Types, Frames
      <3>2. ASSUME NEW s \in Slots, 1 <= s, s < call[Main].slot + 1 PROVE ~Running(s)
        <4>1. CASE s = call[Main].slot
          BY <3>1, <4>1
        <4>2. CASE s # call[Main].slot
          <5>1. s \in 1 .. call[Main].slot - 1
            BY <3>1, <3>2, <4>2, SlotsAreNumbers
          <5>2. call[s].name \in {"gone", "ending"}
            BY <1>2, <3>1, <5>1 DEF NobodyBehind
          <5>. QED BY <1>2, <5>2 DEF RunningRun, Still
        <4>. QED BY <4>1, <4>2
      <3>3. call[Main].slot + 1 \in Nat /\ call[Main].slot + 1 >= 1
        <4>1. call[Main].slot \in Nat
          BY <3>1, SlotsAreNumbers
        <4>. QED BY <4>1
      <3>. QED BY <3>1, <3>2, <3>3
    <2>. QED BY <2>1, <2>2
  <1> DEFINE busy == {s \in Slots : s >= first /\ Running(s)}
  <1>4. threads' = threads /\ thread_counter' = thread_counter
    BY <1>3 DEF ExitFrom
  <1>5. CASE busy = {}
    <2>1. call' = [s \in Slots |-> Gone]
      BY <1>3, <1>5 DEF ExitFrom
    <2>2. ThreadsInv'
      <3>1. Gone \in Frames /\ Gone.name = "gone"
        BY DEF Gone, Frames
      <3>2. \A s \in Slots : call'[s] = Gone
        BY <2>1
      <3>3. Types'
        BY <1>2, <1>4, <2>1, <3>1 DEF Types
      <3>. QED BY <1>1, <3>1, <3>2, <3>3 DEF ThreadsInv, Gone
    <2>3. \A s \in Slots \ {Main} : 1 <= s /\ ~Running(s)
      <3> TAKE s \in Slots \ {Main}
      <3>1. s \in Nat /\ 1 <= s
        BY <1>1, SlotsAreNumbers
      <3>2. CASE s < first
        BY <1>3, <3>1, <3>2
      <3>3. CASE s >= first
        BY <1>5, <3>1, <3>3
      <3>. QED BY <1>3, <3>1, <3>2, <3>3
    <2>4. \A s \in Slots \ {Main} : s < MaxSlots /\ MaxSlots \in Nat
      BY ThreadsAssumption DEF Slots
    <2>5. \A s \in Slots : 1 <= s /\ s < MaxSlots => ~Running(s)
      BY <1>1, <2>3
    <2>6. \A s \in Slots \ {Main} : call[s].name \in {"gone", "ending"}
      BY <1>1, <1>2, <2>3, <2>4, <2>5, NobodyStarts
    <2>. QED BY <2>2, <2>3, <2>6 DEF Alone
  <1>6. CASE busy # {}
    <2>1. busy \in SUBSET Nat
      BY SlotsAreNumbers
    <2>2. PICK k \in Slots : /\ k = Min(busy) /\ k \in busy /\ k \in Nat
                             /\ \A y \in busy : k <= y
      <3>1. Min(busy) \in busy /\ \A y \in busy : Min(busy) <= y
        <4> HIDE DEF busy
        <4>. QED BY <1>6, <2>1, LeastOf
      <3>2. Min(busy) \in Slots /\ Min(busy) \in Nat
        BY <3>1, SlotsAreNumbers
      <3>. QED BY <3>1, <3>2
    <2>3. call' = [call EXCEPT ![Main] = Exiting(k)]
      BY <1>3, <1>6, <2>2 DEF ExitFrom, Goto
    <2>4. Exiting(k) \in Frames /\ Exiting(k).name = "exit" /\ Exiting(k).slot = k
      BY DEF Exiting, Frames
    <2>5. /\ call' \in [Slots -> Frames] /\ call'[Main] = Exiting(k)
          /\ \A s \in Slots \ {Main} : call'[s] = call[s]
      BY <1>1, <1>2, <2>3, <2>4 DEF Types
    <2>6. Types' /\ call'[Main].name = "exit"
      BY <1>2, <1>4, <2>4, <2>5 DEF Types
    <2>7. RunningRun'
      <3> SUFFICES ASSUME NEW s \in Slots
                   PROVE  Running(s)' <=> call'[s].name \notin Still
        BY DEF RunningRun
      <3>1. Running(s)' = Running(s)
        BY <1>4 DEF Running
      <3>2. CASE s = Main
        BY <1>1, <1>2, <2>6, <3>1, <3>2 DEF RunningRun, Still
      <3>3. CASE s # Main
        BY <1>2, <2>5, <3>1, <3>3 DEF RunningRun
      <3>. QED BY <3>2, <3>3
    <2>8. CreatorsWait'
      <3> SUFFICES ASSUME NEW s \in Slots, call'[s].name = "entry"
                   PROVE  /\ threads'[s] # Null /\ call'[s].creator < s
                          /\ call'[call'[s].creator] = Creating(s, FALSE)
        BY DEF CreatorsWait, Creating
      <3>1. s # Main /\ call'[s] = call[s]
        BY <2>5, <2>6
      <3>2. /\ threads[s] # Null /\ call[s].creator < s
            /\ call[call[s].creator] = Creating(s, FALSE) /\ call[s].creator \in Slots
        BY <1>2, <3>1 DEF CreatorsWait, Types, Frames
      <3>3. call[s].creator # Main
        BY <1>1, <3>2 DEF Creating
      <3>. QED BY <1>4, <2>5, <3>1, <3>2, <3>3
    <2>9. NobodyBehind'
      <3>1. ASSUME NEW s \in Slots, 1 <= s, s < k PROVE ~Running(s)
        <4>1. s \in Nat /\ s \notin busy
          BY <2>2, <3>1, SlotsAreNumbers
        <4>2. CASE s < first
          BY <1>3, <3>1, <4>2
        <4>3. CASE s >= first
          BY <4>1, <4>3
        <4>. QED BY <1>3, <4>1, <4>2, <4>3
      <3>2. ASSUME NEW s \in 1 .. k - 1 PROVE call'[s].name \in {"gone", "ending"}
        <4>1. s \in Slots /\ 1 <= s /\ s < k /\ s # Main
          BY <1>1, <2>2, <3>2, ThreadsAssumption DEF Slots
        <4>2. call[s].name \in {"gone", "ending"}
          BY <1>1, <1>2, <2>2, <3>1, <4>1, NobodyStarts
        <4>. QED BY <2>5, <4>1, <4>2
      <3>3. \A s \in Slots \ {Main} : call'[s].name # "exit"
        BY <1>2, <2>5 DEF NobodyBehind
      <3>. QED BY <2>4, <2>5, <3>2, <3>3 DEF NobodyBehind
    <2>. QED BY <2>6, <2>7, <2>8, <2>9 DEF ThreadsInv
  <1>. QED BY <1>5, <1>6

-----------------------------------------------------------------------------
LEMMA NextKeeps ==
  ASSUME ThreadsInv, [Next]_vars
  PROVE  /\ ThreadsInv'
         /\ call[Main].name # "gone" /\ call'[Main].name = "gone" => Alone
  <1>1. CASE UNCHANGED vars
    <2>1. call' = call /\ threads' = threads /\ thread_counter' = thread_counter
      BY <1>1 DEF vars
    <2>. QED BY <2>1 DEF ThreadsInv, Types, RunningRun, Running, CreatorsWait, Creating,
                         NobodyBehind
  <1>2. CASE Exit \/ ExitNext
    BY <1>2, ExitKeeps
  <1>3. ASSUME NEW t \in Slots, Call(t)
        PROVE  ThreadsInv' /\ call'[Main].name # "gone"
    <2>1. ASSUME NEW detached \in BOOLEAN, Create(t, detached)
          PROVE  ThreadsInv' /\ call'[Main].name # "gone"
      BY <2>1, CreateKeeps
    <2>2. CASE Return(t)
      BY <2>2, EndKeeps
    <2>3. ASSUME NEW s \in Slots, Join(t, s) \/ Detach(t, s)
          PROVE  ThreadsInv' /\ call'[Main].name # "gone"
      BY <2>3, JoinsAreOrdinary, OrdinaryStep
    <2>4. CASE \E m \in Mutexes : Lock(t, m) \/ TryLock(t, m) \/ Unlock(t, m)
      BY <2>4, LocksAreOrdinary, OrdinaryStep
    <2>5. CASE \/ \E c \in Conds, m \in Mutexes : CondWait(t, c, m)
               \/ \E c \in Conds : \E chosen \in SUBSET (1 .. counter[c]) \ {{}} :
                    Signal(t, c, chosen)
               \/ \E b \in Barriers : BarrierWait(t, b)
      <3>1. Ordinary(t)
        BY <2>5, SleepersAreOrdinary
      <3>. QED BY <3>1, OrdinaryStep
    <2>. QED BY <1>3, <2>1, <2>2, <2>3, <2>4, <2>5 DEF Call
  <1>4. ASSUME NEW t \in Slots, Continue(t)
        PROVE  ThreadsInv' /\ call'[Main].name # "gone"
    <2>1. CASE Start(t)
      BY <2>1, StartKeeps
    <2>2. CASE Created(t)
      BY <2>2, CreatedIsOrdinary, OrdinaryStep
    <2>3. CASE End(t)
      BY <2>3, EndKeeps
    <2>4. CASE Joined(t) \/ Reaped(t)
      BY <2>4, SlotsAreNumbers, JoinsAreOrdinary, OrdinaryStep
    <2>5. CASE LockAgain(t) \/ WaitUnlock(t) \/ Woken(t) \/ Relock(t)
      BY <2>5, LocksAreOrdinary, OrdinaryStep
    <2>6. CASE Passed(t)
      BY <2>6, SleepersAreOrdinary, OrdinaryStep
    <2>. QED BY <1>4, <2>1, <2>2, <2>3, <2>4, <2>5, <2>6 DEF Continue
  <1>. QED BY <1>1, <1>2, <1>3, <1>4 DEF Next

\* A thread that runs has a stack and a slot, a new one is waited for by its
\* creator, and the main thread leaves nobody behind, in every state.
THEOREM ThreadsAreInOrder == Spec => []ThreadsInv
  <1>1. Init => ThreadsInv
    BY InitThreadsInv
  <1>2. ThreadsInv /\ [Next]_vars => ThreadsInv'
    BY NextKeeps
  <1>. QED BY <1>1, <1>2, PTL DEF Spec

\* The main thread takes the program down only when no other thread runs or is
\* about to, however many there are and whatever they create while it waits.
THEOREM MainIsLast == Spec => MainLeavesLast
  <1>1. ThreadsInv /\ [Next]_vars =>
          [call[Main] # Gone /\ call'[Main] = Gone =>
             \A s \in Slots \ {Main} : ~Running(s) /\ call[s].name # "entry"]_vars
    <2> SUFFICES ASSUME ThreadsInv, [Next]_vars, call[Main] # Gone, call'[Main] = Gone
                 PROVE  \A s \in Slots \ {Main} : ~Running(s) /\ call[s].name # "entry"
      OBVIOUS
    <2>1. call[Main].name # "gone" /\ call'[Main].name = "gone"
      BY SlotsAreNumbers DEF ThreadsInv, Gone
    <2>. QED BY <2>1, NextKeeps DEF Alone
  <1>. QED BY <1>1, ThreadsAreInOrder, PTL DEF Spec, MainLeavesLast

-----------------------------------------------------------------------------
(* The rest of the library: who holds and waits for what.                  *)

\* Every thread has an ID of its own, and the next one is new.
Numbered ==
  /\ thread_counter \in 1 .. MaxThreads
  /\ \A s \in Slots : threads[s] # Null => threads[s].gtid < thread_counter
  /\ \A s, u \in Slots :
       threads[s] # Null /\ threads[u] # Null /\ threads[s].gtid = threads[u].gtid => s = u

\* A slot is taken as long as its thread has a stack, and tells what it waits for.
Notes(s) ==
  /\ threads[s] = Null <=> call[s].name = "gone"
  /\ threads[s] # Null =>
       /\ threads[s].waiting_mutex # Null => call[s] = Locking(threads[s].waiting_mutex)
       /\ threads[s].sleeping \in Conds => call[s].name \in {"unlock", "sleep"}
       /\ threads[s].sleeping \in Barriers => call[s].name = "barrier"

\* Who waits for a mutex does not hold it; who waits for a condition does until
\* the call to unlock, and is a step below the bound afterwards.
Owning(t) ==
  /\ call[t].name = "lock" => mutexes[call[t].mutex].owner # Me(t)
  /\ call[t].name = "unlock" => mutexes[call[t].mutex].owner = Me(t)
  /\ call[t].name \in {"sleep", "relock"} /\ mutexes[call[t].mutex].owner = Me(t)
       => mutexes[call[t].mutex].count < MaxLocks

Held ==
  /\ mutexes \in [Mutexes -> [owner : 0 .. MaxThreads, count : 0 .. MaxLocks]]
  /\ \A m \in Mutexes : mutexes[m].owner = 0 <=> mutexes[m].count = 0

\* The counts are those of the sleepers.
Counted ==
  /\ counter \in [Objects -> Nat]
  /\ \A o \in Objects : counter[o] = Cardinality(Sleepers(o))
  /\ \A b \in Barriers : counter[b] < NThreads[b]
  /\ bound \in [Conds -> Mutexes \cup {Null}]
  /\ \A c \in Conds : bound[c] = Null <=> counter[c] = 0

\* What may have been reported, and why.
Reports ==
  /\ problem \in {"none", "again", "cycle", "dead", "dereference", "internal"}
  /\ DeadlocksAreReal

LibraryInv ==
  /\ Numbered /\ Held /\ Counted /\ Reports
  /\ call[Main].name # "gone" => \A s \in Slots : Notes(s)
  /\ problem = "none" => \A s \in Slots : Owning(s)

-----------------------------------------------------------------------------
(* The search for deadlocks.                                               *)

LEMMA HoldersAre ==
  ASSUME NEW m
  PROVE  /\ Holders(m)[0] = Holder(m)
         /\ \A i \in Slots : i # 0 => Holders(m)[i] = NextHolder(Holders(m)[i - 1])
  <1> DEFINE value(f, i) == IF i = 0 THEN Holder(m) ELSE NextHolder(f[i - 1])
             Upto(n) == \E f : f = [i \in 0 .. n |-> value(f, i)]
             missing == {n \in Nat : ~Upto(n)}
  <1>0. missing \in SUBSET Nat /\ \A n \in Nat : n \in missing <=> ~Upto(n)
    OBVIOUS
  <1>1. ASSUME missing # {} PROVE FALSE
    <2>1. PICK n \in missing : \A k \in missing : n <= k
      <3> HIDE DEF missing
      <3>1. Min(missing) \in missing /\ \A y \in missing : Min(missing) <= y
        BY <1>0, <1>1, LeastOf
      <3>. QED BY <3>1
    <2>2. n \in Nat /\ ~Upto(n)
      BY <2>1
    <2>3. n # 0
      <3> DEFINE one == [i \in 0 .. 0 |-> Holder(m)]
      <3>1. one = [i \in 0 .. 0 |-> value(one, i)]
        OBVIOUS
      <3>2. Upto(0)
        BY <3>1
      <3> HIDE DEF Upto
      <3>. QED BY <2>2, <3>2
    <2>4. n - 1 \in Nat /\ Upto(n - 1)
      <3> HIDE DEF missing, Upto
      <3>1. n - 1 \in Nat /\ ~(n <= n - 1)
        BY <2>2, <2>3
      <3>. QED BY <1>0, <2>1, <3>1
    <2>5. PICK f : f = [i \in 0 .. n - 1 |-> value(f, i)]
      BY <2>4
    <2> DEFINE g == [i \in 0 .. n |-> value(f, i)]
    <2>6. ASSUME NEW i \in 0 .. n PROVE value(g, i) = value(f, i)
      <3>1. CASE i = 0
        BY <3>1
      <3>2. CASE i # 0
        <4>1. i - 1 \in 0 .. n - 1 /\ i - 1 \in 0 .. n
          BY <2>2, <3>2
        <4>2. f[i - 1] = value(f, i - 1) /\ g[i - 1] = value(f, i - 1)
          BY <2>5, <4>1
        <4>. QED BY <4>2
      <3>. QED BY <3>1, <3>2
    <2>7. g = [i \in 0 .. n |-> value(g, i)]
      BY <2>6
    <2>. QED BY <2>2, <2>7
  <1>2. MaxSlots - 1 \in Nat /\ Slots = 0 .. MaxSlots - 1
    BY ThreadsAssumption DEF Slots
  <1>3. Upto(MaxSlots - 1)
    BY <1>1, <1>2
  <1>4. Holders(m) = CHOOSE f : f = [i \in Slots |-> value(f, i)]
    BY DEF Holders
  <1>5. Holders(m) = [i \in Slots |-> value(Holders(m), i)]
    BY <1>2, <1>3, <1>4
  <1>. QED BY <1>2, <1>5

\* Where a walk along the holders leads to: into S, or to a dead thread.
Leads(m, S, dead) == \/ ByGtid(Holder(m)) \cap S # {}
                     \/ dead /\ Holder(m) # -1 /\ Dead(Holder(m))

LEMMA DeadlockIsReal ==
  ASSUME Types, Numbered, \A s \in Slots : Notes(s),
         NEW t \in Slots, threads[t] # Null, NEW m, NEW what \in {"cycle", "dead"},
         DeadlockFound(m, threads[t].gtid, what),
         NEW dead \in BOOLEAN, what = "dead" => dead
  PROVE  \E S \in SUBSET Slots :
           /\ t \in S /\ Leads(m, S, dead)
           /\ \A s \in S \ {t} : call[s].name = "lock" /\ Leads(call[s].mutex, S, dead)
  <1> DEFINE holder == Holders(m)
             last(i) == IF i = 0 THEN 0 ELSE holder[i - 1]
             leaves(i) == holder[i] \in {-1, last(i)}
             found(i) == IF holder[i] = threads[t].gtid THEN "cycle"
                         ELSE IF Dead(holder[i]) THEN "dead" ELSE "none"
  <1>1. PICK i \in Slots : /\ ~leaves(i) /\ found(i) = what
                           /\ \A j \in 0 .. i - 1 : ~leaves(j) /\ found(j) = "none"
    BY DEF DeadlockFound
  <1>2. holder[0] = Holder(m) /\ \A j \in Slots : j # 0 => holder[j] = NextHolder(holder[j - 1])
    BY HoldersAre
  <1>3. /\ holder[i] # -1
        /\ holder[i] = threads[t].gtid \/ (dead /\ Dead(holder[i]))
        /\ \A j \in 0 .. i - 1 : holder[j] # -1 /\ ~Dead(holder[j])
    <2>1. holder[i] = threads[t].gtid \/ (dead /\ Dead(holder[i]))
      BY <1>1
    <2>2. ASSUME NEW j \in 0 .. i - 1 PROVE holder[j] # -1 /\ ~Dead(holder[j])
      BY <1>1
    <2>. QED BY <1>1, <2>1, <2>2
  <1>4. i \in Nat /\ i < MaxSlots /\ MaxSlots \in Nat
    BY ThreadsAssumption DEF Slots
  <1> HIDE DEF holder
  <1> DEFINE S == {t} \cup {s \in Slots : threads[s] # Null
                                         /\ \E j \in 0 .. i - 1 : threads[s].gtid = holder[j]}
  <1>5. ASSUME NEW j \in 0 .. i
        PROVE  ByGtid(holder[j]) \cap S # {} \/ (dead /\ holder[j] # -1 /\ Dead(holder[j]))
    <2>1. CASE j = i
      <3>1. CASE holder[i] = threads[t].gtid
        BY <2>1, <3>1 DEF ByGtid
      <3>. QED BY <1>3, <2>1, <3>1
    <2>2. CASE j # i
      <3>1. j \in 0 .. i - 1
        BY <1>4, <2>2
      <3>2. PICK s \in ByGtid(holder[j]) : threads[s].running
        BY <1>3, <3>1 DEF Dead
      <3>. QED BY <3>1, <3>2 DEF ByGtid
    <2>. QED BY <2>1, <2>2
  <1>6. Leads(m, S, dead)
    <2>1. 0 \in 0 .. i
      BY <1>4
    <2> HIDE DEF S
    <2>. QED BY <1>2, <1>5, <2>1 DEF Leads
  <1>7. ASSUME NEW s \in S \ {t}
        PROVE  call[s].name = "lock" /\ Leads(call[s].mutex, S, dead)
    <2>1. PICK j \in 0 .. i - 1 : threads[s].gtid = holder[j]
      BY <1>7
    <2>2. s \in Slots /\ threads[s] # Null
      BY <1>7
    <2>3. ByGtid(holder[j]) = {s}
      BY <2>1, <2>2 DEF ByGtid, Numbered
    <2>4. j + 1 \in Slots /\ j + 1 # 0 /\ (j + 1) - 1 = j /\ j + 1 \in 0 .. i
      BY <1>4 DEF Slots
    <2>5. holder[j + 1] = NextHolder(holder[j])
      BY <1>2, <2>4
    <2>6. holder[j + 1] = Holder(threads[s].waiting_mutex)
      BY <1>3, <2>3, <2>5 DEF NextHolder
    <2>7. holder[j + 1] # -1
      <3>1. CASE j + 1 = i
        BY <1>3, <3>1
      <3>2. CASE j + 1 # i
        <4>1. j + 1 \in 0 .. i - 1
          BY <1>4, <3>2
        <4>. QED BY <1>3, <4>1
      <3>. QED BY <3>1, <3>2
    <2>8. threads[s].waiting_mutex # Null
      BY <2>6, <2>7 DEF Holder
    <2>9. call[s] = Locking(threads[s].waiting_mutex)
      BY <2>2, <2>8 DEF Notes
    <2>10. call[s].name = "lock" /\ call[s].mutex = threads[s].waiting_mutex
      BY <2>9 DEF Locking
    <2>11. Leads(threads[s].waiting_mutex, S, dead)
      <3> HIDE DEF S
      <3>. QED BY <1>5, <2>4, <2>6 DEF Leads
    <2>. QED BY <2>10, <2>11
  <1>. QED BY <1>6, <1>7

-----------------------------------------------------------------------------
(* What a step leaves as it was.                                           *)

LEMMA NumberedKept ==
  ASSUME Numbered, thread_counter' = thread_counter,
         \A s \in Slots : threads'[s] # Null => threads[s] # Null /\ threads'[s].gtid = threads[s].gtid
  PROVE  Numbered'
  BY DEF Numbered

LEMMA CountedKept ==
  ASSUME Counted, counter' = counter, bound' = bound,
         \A s \in Slots, o \in Objects :
           (threads'[s] # Null /\ threads'[s].sleeping = o)
             <=> (threads[s] # Null /\ threads[s].sleeping = o)
  PROVE  Counted'
  <1>1. \A o \in Objects : Sleepers(o)' = Sleepers(o)
    BY DEF Sleepers
  <1>. QED BY <1>1 DEF Counted

LEMMA NotesKept ==
  ASSUME NEW s \in Slots, Notes(s), call'[s] = call[s],
         threads'[s] = Null <=> threads[s] = Null,
         threads[s] # Null => /\ threads'[s].waiting_mutex = threads[s].waiting_mutex
                              /\ threads'[s].sleeping \in {threads[s].sleeping, Null}
  PROVE  Notes(s)'
  BY ThreadsAssumption DEF Notes, Locking, Objects

\* What another thread does with mutexes that are free, or its own.
LEMMA OwningKept ==
  ASSUME Types, Numbered, NEW t \in Slots, NEW s \in Slots, s # t,
         threads[s] # Null, threads[t] # Null, Owning(s), call'[s] = call[s],
         call[s].name \in {"lock", "unlock", "sleep", "relock"} => call[s].mutex \in Mutexes,
         threads'[s].gtid = threads[s].gtid,
         \A m \in Mutexes : \/ mutexes'[m] = mutexes[m]
                            \/ mutexes[m].owner \in {0, Me(t)} /\ mutexes'[m].owner \in {0, Me(t)}
  PROVE  Owning(s)'
  <1>1. threads[s].gtid \in Nat /\ threads[t].gtid \in Nat /\ threads[s].gtid # threads[t].gtid
    BY DEF Types, Record, Numbered
  <1>2. Me(s)' = Me(s) /\ Me(s) \notin {0, Me(t)}
    BY <1>1 DEF Me
  <1>. QED BY <1>2 DEF Owning

\* A call of one thread goes on; other threads are left as they are, and so is
\* what this one sleeps on.
Apart(t) ==
  /\ \A s \in Slots \ {t} : call'[s] = call[s] /\ threads'[s] = threads[s]
  /\ threads'[t] # Null
  /\ threads'[t].gtid = threads[t].gtid /\ threads'[t].detached = threads[t].detached
  /\ threads'[t].sleeping = threads[t].sleeping
  /\ UNCHANGED <<thread_counter, counter, bound>>

\* A thread that is in a call is in a slot, with its notes.
LEMMA Present ==
  ASSUME ThreadsInv, LibraryInv, NEW t \in Slots, call[t].name # "gone"
  PROVE  /\ Types /\ call[Main].name # "gone"
         /\ \A s \in Slots : Notes(s)
         /\ threads[t] # Null /\ threads[t] \in Record
         /\ Me(t) \in 1 .. MaxThreads /\ threads[t].gtid \in Nat
  <1>1. /\ Types /\ call[Main].name # "gone"
        /\ \A s \in Slots : Notes(s)
    BY WhoCalls DEF LibraryInv
  <1>2. threads[t] # Null /\ threads[t] \in Record
    BY <1>1 DEF Types, Notes
  <1>3. threads[t].gtid \in Nat /\ threads[t].gtid < thread_counter
        /\ thread_counter \in 1 .. MaxThreads
    BY <1>2 DEF Record, LibraryInv, Numbered
  <1>4. Me(t) \in 1 .. MaxThreads
    BY <1>3, ThreadsAssumption DEF Me
  <1>. QED BY <1>1, <1>2, <1>3, <1>4

LEMMA MutexOfCall ==
  ASSUME Types, NEW s \in Slots, call[s].name \in {"lock", "unlock", "sleep", "relock"}
  PROVE  call[s].mutex \in Mutexes
  BY DEF Types, Frames

LEMMA ApartKeeps ==
  ASSUME ThreadsInv, LibraryInv, NEW t \in Slots, call[t].name # "gone", problem = "none",
         Apart(t), Held', Notes(t)', Reports',
         problem' = "none" => Owning(t)',
         \A m \in Mutexes : \/ mutexes'[m] = mutexes[m]
                            \/ mutexes[m].owner \in {0, Me(t)} /\ mutexes'[m].owner \in {0, Me(t)}
  PROVE  LibraryInv'
  <1>1. /\ Types /\ threads[t] # Null /\ \A s \in Slots : Notes(s)
    BY Present
  <1>2. Numbered'
    BY <1>1, NumberedKept DEF Apart, LibraryInv
  <1>3. Counted'
    BY <1>1, CountedKept DEF Apart, LibraryInv
  <1>6. ASSUME NEW s \in Slots PROVE Notes(s)'
    <2>1. CASE s # t
      BY <1>1, <2>1, NotesKept DEF Apart
    <2>. QED BY <2>1
  <1>7. ASSUME problem' = "none", NEW s \in Slots PROVE Owning(s)'
    <2>1. CASE s # t /\ threads[s] # Null
      <3>1. Owning(s) /\ Numbered
        BY DEF LibraryInv
      <3>2. call'[s] = call[s] /\ threads'[s].gtid = threads[s].gtid
        BY <2>1 DEF Apart
      <3>. QED BY <1>1, <2>1, <3>1, <3>2, MutexOfCall, OwningKept
    <2>2. CASE s # t /\ threads[s] = Null
      BY <1>1, <2>2 DEF Notes, Owning, Apart
    <2>. QED BY <1>7, <2>1, <2>2
  <1>. QED BY <1>2, <1>3, <1>6, <1>7 DEF LibraryInv

-----------------------------------------------------------------------------
(* Mutexes.                                                                *)

\* The mutex that a thread notes does not change the rest of its slot.
LEMMA NotedMutex ==
  ASSUME Types, NEW t \in Slots, threads[t] # Null, NEW n,
         threads' = [threads EXCEPT ![t].waiting_mutex = n]
  PROVE  /\ \A s \in Slots \ {t} : threads'[s] = threads[s]
         /\ threads'[t].waiting_mutex = n /\ threads'[t].gtid = threads[t].gtid
         /\ threads'[t].detached = threads[t].detached
         /\ threads'[t].running = threads[t].running
         /\ threads'[t].sleeping = threads[t].sleeping
         /\ n \in Mutexes \cup {Null} => threads'[t] # Null
  <1>1. threads[t] \in Record /\ threads'[t] = [threads[t] EXCEPT !.waiting_mutex = n]
    BY DEF Types
  <1>2. n \in Mutexes \cup {Null} => threads'[t] \in Record
    BY <1>1 DEF Record
  <1>3. \A s \in Slots \ {t} : threads'[s] = threads[s]
    BY DEF Types
  <1>. QED BY <1>1, <1>2, <1>3, ThreadsAssumption DEF Record

LEMMA AcquireKeeps ==
  ASSUME ThreadsInv, LibraryInv, NEW t \in Slots, NEW m \in Mutexes, problem = "none",
         call[t].name \in {"program", "lock", "relock"}, Acquire(t, m),
         mutexes[m].owner \in {0, Me(t)}, mutexes[m].count < MaxLocks,
         UNCHANGED <<thread_counter, counter, bound>>
  PROVE  LibraryInv'
  <1>1. /\ Types /\ threads[t] # Null /\ Notes(t) /\ Me(t) \in 1 .. MaxThreads
    BY Present
  <1>2. /\ mutexes' = [mutexes EXCEPT ![m] = [owner |-> Me(t), count |-> @.count + 1]]
        /\ threads' = [threads EXCEPT ![t].waiting_mutex = Null]
        /\ call' = [call EXCEPT ![t] = Program] /\ problem' = "none"
    BY DEF Acquire, Goto
  <1>3. Apart(t) /\ threads'[t].waiting_mutex = Null
    BY <1>1, <1>2, NotedMutex DEF Apart, Types
  <1>4. call'[t].name = "program"
    BY <1>1, <1>2 DEF Types, Program
  <1>5. Held'
    <2>1. mutexes[m].count \in 0 .. MaxLocks /\ MaxLocks \in Nat
      BY ThreadsAssumption DEF LibraryInv, Held
    <2>2. mutexes[m].count + 1 \in 0 .. MaxLocks /\ mutexes[m].count + 1 # 0
      BY <2>1
    <2>3. [owner |-> Me(t), count |-> mutexes[m].count + 1]
            \in [owner : 0 .. MaxThreads, count : 0 .. MaxLocks] /\ Me(t) # 0
      BY <1>1, <2>2, ThreadsAssumption
    <2>. QED BY <1>2, <2>2, <2>3 DEF LibraryInv, Held
  <1>6. Notes(t)'
    BY <1>1, <1>3, <1>4 DEF Notes, Apart
  <1>7. Owning(t)'
    BY <1>4 DEF Owning
  <1>8. \A n \in Mutexes : \/ mutexes'[n] = mutexes[n]
                           \/ mutexes[n].owner \in {0, Me(t)} /\ mutexes'[n].owner \in {0, Me(t)}
    BY <1>2 DEF LibraryInv, Held
  <1>9. Reports'
    BY <1>2 DEF Reports, DeadlocksAreReal
  <1>. QED BY <1>3, <1>4, <1>5, <1>6, <1>7, <1>8, <1>9, ApartKeeps

\* A deadlock that is found when the thread begins to wait, or as it waits.
LEMMA ReportIsReal ==
  ASSUME ThreadsInv, LibraryInv, NEW t \in Slots, call[t].name # "gone", NEW m \in Mutexes,
         NEW what \in {"cycle", "dead"}, DeadlockFound(m, threads[t].gtid, what),
         \A s \in Slots \ {t} : call'[s] = call[s] /\ threads'[s] = threads[s],
         threads'[t] # Null, threads'[t].gtid = threads[t].gtid,
         threads'[t].running = threads[t].running, mutexes' = mutexes,
         call'[t].name = "lock", call'[t].mutex = m, problem' = what
  PROVE  Reports'
  <1>1. /\ Types /\ threads[t] # Null /\ threads[t].gtid \in Nat /\ Me(t) \in 1 .. MaxThreads
        /\ \A s \in Slots : Notes(s)
    BY Present
  <1> PICK dead \in BOOLEAN : dead <=> what = "dead"
    OBVIOUS
  <1>2. PICK S \in SUBSET Slots :
          /\ t \in S /\ Leads(m, S, dead)
          /\ \A s \in S \ {t} : call[s].name = "lock" /\ Leads(call[s].mutex, S, dead)
    BY <1>1, DeadlockIsReal DEF LibraryInv
  <1>3. \A s \in Slots : /\ threads'[s] = Null <=> threads[s] = Null
                        /\ threads'[s].gtid = threads[s].gtid
                        /\ threads'[s].running = threads[s].running
    BY <1>1
  <1>4. \A g : ByGtid(g)' = ByGtid(g) /\ ByGtid(g) \subseteq Slots
    BY <1>3 DEF ByGtid
  <1>5. \A g : Dead(g)' <=> Dead(g)
    BY <1>3, <1>4 DEF Dead
  <1>6. \A n : Holder(n)' = Holder(n)
    BY DEF Holder
  <1>7. ASSUME NEW s \in S
        PROVE  (/\ call[s].name = "lock"
                /\ LET g == Holder(call[s].mutex)
                   IN  ByGtid(g) \cap S # {} \/ (dead /\ g # -1 /\ Dead(g)))'
    <2>1. PICK n : n = call'[s].mutex
      OBVIOUS
    <2>2. call'[s].name = "lock" /\ Leads(n, S, dead)
      BY <1>2, <2>1
    <2>. QED BY <1>4, <1>5, <1>6, <2>1, <2>2 DEF Leads
  <1>8. Stuck(S, dead)'
    BY <1>2, <1>7 DEF Stuck
  <1>9. CASE what = "cycle"
    <2>1. Stuck(S, FALSE)'
      BY <1>8, <1>9 DEF Stuck
    <2>. QED BY <1>9, <2>1 DEF Reports, DeadlocksAreReal
  <1>10. CASE what = "dead"
    <2>1. Stuck(S, TRUE)'
      BY <1>8, <1>10 DEF Stuck
    <2>. QED BY <1>10, <2>1 DEF Reports, DeadlocksAreReal
  <1>. QED BY <1>9, <1>10

LEMMA MutexLockKeeps ==
  ASSUME ThreadsInv, LibraryInv, NEW t \in Slots, NEW m \in Mutexes, NEW wait \in BOOLEAN,
         problem = "none", call[t].name \in {"program", "relock"}, MutexLock(t, m, wait),
         mutexes[m].owner = Me(t) /\ Type[m] = "recursive" => mutexes[m].count < MaxLocks,
         UNCHANGED <<thread_counter, counter, bound>>
  PROVE  LibraryInv'
  <1>1. /\ Types /\ threads[t] # Null /\ Notes(t) /\ Owning(t) /\ Me(t) \in 1 .. MaxThreads
    BY Present DEF LibraryInv
  <1>2. \A n \in Mutexes : mutexes' = mutexes => mutexes'[n] = mutexes[n]
    OBVIOUS
  <1>3. CASE Goto(t, Program) /\ UNCHANGED <<threads, mutexes, problem>>
    <2>1. call'[t].name = "program" /\ \A s \in Slots \ {t} : call'[s] = call[s]
      BY <1>1, <1>3 DEF Types, Program, Goto
    <2>2. Apart(t)
      BY <1>1, <1>3, <2>1 DEF Apart
    <2>3. Held' /\ Reports'
      BY <1>3 DEF LibraryInv, Held, Reports, DeadlocksAreReal
    <2>4. Notes(t)'
      BY <1>1, <1>3, <2>1 DEF Notes, Locking
    <2>5. Owning(t)'
      BY <2>1 DEF Owning
    <2>. QED BY <1>2, <1>3, <2>2, <2>3, <2>4, <2>5, ApartKeeps
  <1>4. CASE UNCHANGED <<threads, mutexes, call>> /\ problem' \in {"none", "again"}
    <2>1. Apart(t)
      BY <1>1, <1>4 DEF Apart
    <2>2. Held' /\ Reports'
      BY <1>4 DEF LibraryInv, Held, Reports, DeadlocksAreReal
    <2>3. Notes(t)' /\ Owning(t)'
      BY <1>1, <1>4 DEF Notes, Owning, Me, Locking
    <2>. QED BY <1>2, <1>4, <2>1, <2>2, <2>3, ApartKeeps
  <1>5. CASE CanLock(t, m) /\ Acquire(t, m) /\ (mutexes[m].owner = 0 \/ Type[m] = "recursive")
    <2>1. mutexes[m].owner \in {0, Me(t)}
      BY <1>5 DEF CanLock
    <2>2. mutexes[m].owner = 0 => mutexes[m].count < MaxLocks
      BY ThreadsAssumption DEF LibraryInv, Held
    <2>3. mutexes[m].count < MaxLocks
      BY <1>5, <2>1, <2>2
    <2>. QED BY <1>5, <2>1, <2>3, AcquireKeeps
  <1>6. CASE /\ threads' = [threads EXCEPT ![t].waiting_mutex = m]
             /\ Goto(t, Locking(m))
             /\ ~CanLock(t, m)
             /\ problem' = Deadlock(m, threads[t].gtid)
             /\ UNCHANGED mutexes
    <2>1. /\ call'[t] = Locking(m) /\ \A s \in Slots \ {t} : call'[s] = call[s]
      BY <1>1, <1>6 DEF Types, Goto
    <2>2. call'[t].name = "lock" /\ call'[t].mutex = m
      BY <2>1 DEF Locking
    <2>3. /\ Apart(t) /\ threads'[t].waiting_mutex = m
          /\ threads'[t].running = threads[t].running
      BY <1>1, <1>6, <2>1, NotedMutex DEF Apart
    <2>4. Held'
      BY <1>6 DEF LibraryInv, Held
    <2>5. Notes(t)'
      BY <1>1, <2>1, <2>2, <2>3 DEF Notes, Apart, Locking
    <2>6. Owning(t)'
      <3>1. mutexes[m].owner # Me(t)
        BY <1>6 DEF CanLock
      <3>2. Me(t)' = Me(t)
        BY <2>3 DEF Apart, Me
      <3>. QED BY <1>6, <2>2, <3>1, <3>2 DEF Owning
    <2>7. Reports'
      <3>1. ASSUME NEW what \in {"cycle", "dead"}, DeadlockFound(m, threads[t].gtid, what),
                   problem' = what
            PROVE  Reports'
        BY <1>6, <2>1, <2>2, <2>3, <3>1, ReportIsReal DEF Apart
      <3>2. CASE problem' = "none"
        BY <3>2 DEF Reports, DeadlocksAreReal
      <3>. QED BY <1>6, <3>1, <3>2 DEF Deadlock
    <2>. QED BY <1>2, <1>6, <2>3, <2>4, <2>5, <2>6, <2>7, ApartKeeps
  <1>. QED BY <1>3, <1>4, <1>5, <1>6, ThreadsAssumption DEF MutexLock, CanLock

LEMMA ReleaseKeepsHeld ==
  ASSUME Held, NEW m \in Mutexes, mutexes[m].owner # 0, Release(m)
  PROVE  /\ Held'
         /\ \A n \in Mutexes : n # m => mutexes'[n] = mutexes[n]
         /\ mutexes'[m].owner \in {0, mutexes[m].owner}
         /\ mutexes'[m].count < MaxLocks
  <1>1. mutexes[m] \in [owner : 0 .. MaxThreads, count : 0 .. MaxLocks] /\ mutexes[m].count # 0
    BY DEF Held
  <1>2. mutexes[m].count - 1 \in 0 .. MaxLocks /\ mutexes[m].count - 1 < MaxLocks
        /\ (mutexes[m].count - 1 = 0 <=> mutexes[m].count = 1)
    BY <1>1, ThreadsAssumption
  <1>3. mutexes'[m] = IF mutexes[m].count = 1 THEN [owner |-> 0, count |-> 0]
                      ELSE [owner |-> mutexes[m].owner, count |-> mutexes[m].count - 1]
    BY DEF Release, Held
  <1>4. \A n \in Mutexes : n # m => mutexes'[n] = mutexes[n]
    BY DEF Release, Held
  <1>5. mutexes'[m] \in [owner : 0 .. MaxThreads, count : 0 .. MaxLocks]
    <2>1. CASE mutexes[m].count = 1
      BY <1>3, <2>1, ThreadsAssumption
    <2>2. CASE mutexes[m].count # 1
      BY <1>1, <1>2, <1>3, <2>2
    <2>. QED BY <2>1, <2>2
  <1>6. /\ mutexes'[m].owner = 0 <=> mutexes'[m].count = 0
        /\ mutexes'[m].owner \in {0, mutexes[m].owner}
        /\ mutexes'[m].count < MaxLocks
    <2>1. CASE mutexes[m].count = 1
      BY <1>3, <2>1, ThreadsAssumption
    <2>2. CASE mutexes[m].count # 1
      BY <1>1, <1>2, <1>3, <2>2
    <2>. QED BY <2>1, <2>2
  <1>7. mutexes' \in [Mutexes -> [owner : 0 .. MaxThreads, count : 0 .. MaxLocks]]
    BY <1>4, <1>5 DEF Release, Held
  <1>. QED BY <1>4, <1>6, <1>7 DEF Held

\* The calls that only go on to another one.
LEMMA GoingOnKeeps ==
  ASSUME ThreadsInv, LibraryInv, NEW t \in Slots, call[t].name # "gone", problem = "none",
         Woken(t) \/ Passed(t) \/ Created(t) \/ Reaped(t)
  PROVE  LibraryInv'
  <1>1. /\ Types /\ threads[t] # Null /\ Notes(t) /\ Owning(t)
    BY Present DEF LibraryInv
  <1>2. /\ UNCHANGED <<threads, thread_counter, mutexes, counter, bound, problem>>
        /\ \E c \in {Program, Waiting(call[t].mutex, "relock")} : Goto(t, c)
        /\ call[t].name = "sleep" <=> Woken(t)
    BY DEF Woken, Passed, Created, Reaped, lockVars, In
  <1>3. \A s \in Slots \ {t} : call'[s] = call[s]
    BY <1>1, <1>2 DEF Types, Goto
  <1>4. call'[t] = IF Woken(t) THEN Waiting(call[t].mutex, "relock") ELSE Program
    BY <1>1 DEF Woken, Passed, Created, Reaped, Types, Goto, In
  <1>5. call'[t].name = IF Woken(t) THEN "relock" ELSE "program"
    BY <1>4 DEF Waiting, Program
  <1>6. Woken(t) => call'[t].mutex = call[t].mutex
    BY <1>4 DEF Waiting
  <1>7. Apart(t)
    BY <1>1, <1>2, <1>3 DEF Apart
  <1>8. Held' /\ Reports'
    BY <1>2 DEF LibraryInv, Held, Reports, DeadlocksAreReal
  <1>9. Notes(t)'
    <2>1. threads[t].sleeping \notin Conds \cup Barriers
      BY <1>1, ThreadsAssumption DEF Woken, Passed, Created, Reaped, In, Notes, Objects
    <2>2. threads[t].waiting_mutex = Null
      BY <1>1 DEF Woken, Passed, Created, Reaped, In, Notes, Locking
    <2>. QED BY <1>1, <1>2, <1>5, <2>1, <2>2 DEF Notes
  <1>10. Owning(t)'
    BY <1>1, <1>2, <1>5, <1>6 DEF Owning, Me
  <1>. QED BY <1>2, <1>5, <1>7, <1>8, <1>9, <1>10, ApartKeeps

LEMMA UnlockKeeps ==
  ASSUME ThreadsInv, LibraryInv, NEW t \in Slots, NEW m \in Mutexes, Unlock(t, m)
  PROVE  LibraryInv'
  <1>1. /\ problem = "none" /\ call[t].name = "program" /\ mutexes[m].owner = Me(t) /\ Release(m)
        /\ UNCHANGED <<threads, thread_counter, counter, bound, call, problem>>
    BY DEF Unlock, In
  <1>2. Types /\ threads[t] # Null /\ Notes(t) /\ Me(t) \in 1 .. MaxThreads
    BY <1>1, Present
  <1>3. /\ Held' /\ mutexes'[m].owner \in {0, Me(t)}
        /\ \A n \in Mutexes : n # m => mutexes'[n] = mutexes[n]
    <2>1. mutexes[m].owner # 0 /\ Held
      BY <1>1, <1>2 DEF LibraryInv
    <2>. QED BY <1>1, <2>1, ReleaseKeepsHeld
  <1>4. Apart(t)
    BY <1>1, <1>2 DEF Apart
  <1>5. Notes(t)'
    BY <1>1, <1>2 DEF Notes, Locking
  <1>6. Owning(t)' /\ Reports'
    BY <1>1 DEF Owning, Reports, DeadlocksAreReal
  <1>. QED BY <1>1, <1>3, <1>4, <1>5, <1>6, ApartKeeps

LEMMA WaitUnlockKeeps ==
  ASSUME ThreadsInv, LibraryInv, NEW t \in Slots, WaitUnlock(t)
  PROVE  LibraryInv'
  <1> DEFINE m == call[t].mutex
             step == IF threads[t].sleeping = Null THEN "relock" ELSE "sleep"
  <1>1. /\ problem = "none" /\ call[t].name = "unlock" /\ Release(m)
        /\ call' = [call EXCEPT ![t] = Waiting(m, step)]
        /\ UNCHANGED <<threads, thread_counter, counter, bound, problem>>
    BY DEF WaitUnlock, In, Goto
  <1>2. /\ Types /\ threads[t] # Null /\ Notes(t) /\ Me(t) \in 1 .. MaxThreads
        /\ Owning(t) /\ threads[t] \in Record
    BY <1>1, Present DEF LibraryInv
  <1>3. m \in Mutexes /\ mutexes[m].owner = Me(t)
    BY <1>1, <1>2, MutexOfCall DEF Owning
  <1>4. /\ call'[t].name = step /\ call'[t].mutex = m
        /\ \A s \in Slots \ {t} : call'[s] = call[s]
    BY <1>1, <1>2 DEF Types, Waiting
  <1> HIDE DEF m
  <1>5. /\ Held' /\ mutexes'[m].owner \in {0, Me(t)} /\ mutexes'[m].count < MaxLocks
        /\ \A n \in Mutexes : n # m => mutexes'[n] = mutexes[n]
    <2>1. mutexes[m].owner # 0 /\ Held
      BY <1>2, <1>3 DEF LibraryInv
    <2>. QED BY <1>1, <1>3, <2>1, ReleaseKeepsHeld
  <1>6. Apart(t)
    BY <1>1, <1>2, <1>4 DEF Apart
  <1>7. Notes(t)'
    <2>1. threads[t].waiting_mutex = Null /\ threads[t].sleeping \notin Barriers
      BY <1>1, <1>2 DEF Notes, Locking
    <2>2. threads[t].sleeping \in Conds => step = "sleep"
      BY ThreadsAssumption DEF Objects
    <2>. QED BY <1>1, <1>2, <1>4, <2>1, <2>2 DEF Notes
  <1>8. Owning(t)'
    BY <1>1, <1>4, <1>5 DEF Owning
  <1>9. Reports'
    BY <1>1 DEF Reports, DeadlocksAreReal
  <1>. QED BY <1>1, <1>3, <1>4, <1>5, <1>6, <1>7, <1>8, <1>9, ApartKeeps

LEMMA LockAgainKeeps ==
  ASSUME ThreadsInv, LibraryInv, NEW t \in Slots, LockAgain(t)
  PROVE  LibraryInv'
  <1>1. problem = "none" /\ call[t].name = "lock" /\ UNCHANGED <<thread_counter, counter, bound>>
    BY DEF LockAgain, In
  <1>2. PICK m : m = call[t].mutex
    OBVIOUS
  <1>3. /\ Types /\ threads[t] # Null /\ Notes(t) /\ m \in Mutexes /\ mutexes[m].owner # Me(t)
    BY <1>1, <1>2, Present, MutexOfCall DEF LibraryInv, Owning
  <1>4. CASE CanLock(t, m) /\ Acquire(t, m)
    <2>1. mutexes[m].owner \in {0, Me(t)} /\ mutexes[m].count < MaxLocks
      BY <1>3, <1>4, ThreadsAssumption DEF CanLock, LibraryInv, Held
    <2>. QED BY <1>1, <1>3, <1>4, <2>1, AcquireKeeps
  <1>5. CASE /\ Deadlock(m, threads[t].gtid) # "none"
             /\ problem' = Deadlock(m, threads[t].gtid) /\ UNCHANGED <<threads, mutexes, call>>
    <2>1. ASSUME NEW what \in {"cycle", "dead"}, DeadlockFound(m, threads[t].gtid, what),
                 problem' = what
          PROVE  Reports'
      BY <1>1, <1>2, <1>3, <1>5, <2>1, ReportIsReal
    <2>2. Reports' /\ problem' # "none"
      BY <1>5, <2>1 DEF Deadlock
    <2>3. Apart(t) /\ Held' /\ Notes(t)'
      BY <1>1, <1>3, <1>5 DEF Apart, LibraryInv, Held, Notes, Locking
    <2>. QED BY <1>1, <1>5, <2>2, <2>3, ApartKeeps
  <1>. QED BY <1>2, <1>4, <1>5 DEF LockAgain

LEMMA LocksKeep ==
  ASSUME ThreadsInv, LibraryInv, NEW t \in Slots,
         \/ \E m \in Mutexes : Lock(t, m) \/ TryLock(t, m) \/ Unlock(t, m)
         \/ LockAgain(t) \/ WaitUnlock(t) \/ Relock(t)
         \/ Woken(t) \/ Passed(t) \/ Created(t) \/ Reaped(t)
  PROVE  LibraryInv'
  <1>1. ASSUME NEW m \in Mutexes, NEW wait \in BOOLEAN, MutexCall(t, m, wait) PROVE LibraryInv'
    BY <1>1, MutexLockKeeps DEF MutexCall, In
  <1>2. ASSUME NEW m \in Mutexes, Lock(t, m) \/ TryLock(t, m) PROVE LibraryInv'
    BY <1>1, <1>2 DEF Lock, TryLock
  <1>3. ASSUME NEW m \in Mutexes, Unlock(t, m) PROVE LibraryInv'
    BY <1>3, UnlockKeeps
  <1>4. CASE LockAgain(t) \/ WaitUnlock(t)
    BY <1>4, LockAgainKeeps, WaitUnlockKeeps
  <1>5. CASE Relock(t)
    <2>1. PICK m : m = call[t].mutex
      OBVIOUS
    <2>2. /\ problem = "none" /\ call[t].name = "relock" /\ MutexLock(t, m, TRUE)
          /\ UNCHANGED <<thread_counter, counter, bound>>
      BY <1>5, <2>1 DEF Relock, In
    <2>3. m \in Mutexes /\ (mutexes[m].owner = Me(t) => mutexes[m].count < MaxLocks)
      BY <2>1, <2>2, Present, MutexOfCall DEF LibraryInv, Owning
    <2>. QED BY <2>2, <2>3, MutexLockKeeps
  <1>6. CASE Woken(t) \/ Passed(t) \/ Created(t) \/ Reaped(t)
    BY <1>6, GoingOnKeeps DEF Woken, Passed, Created, Reaped, In
  <1>. QED BY <1>1, <1>2, <1>3, <1>4, <1>5, <1>6

-----------------------------------------------------------------------------
(* Joining and detaching.                                                  *)

\* A call that only touches the calls and the flags of the slots.
LEMMA FlagsKeep ==
  ASSUME ThreadsInv, LibraryInv, NEW t \in Slots, problem = "none",
         call[t].name \in {"program", "join"}, call'[t].name \in {"program", "join", "reap"},
         \A u \in Slots \ {t} : call'[u] = call[u],
         \A u \in Slots : /\ threads'[u] = Null <=> threads[u] = Null
                          /\ threads'[u].gtid = threads[u].gtid
                          /\ threads'[u].sleeping = threads[u].sleeping
                          /\ threads'[u].waiting_mutex = threads[u].waiting_mutex,
         UNCHANGED <<thread_counter, mutexes, counter, bound>>,
         problem' \in {"none", "dereference"}
  PROVE  LibraryInv'
  <1>1. Types /\ \A u \in Slots : Notes(u) /\ Owning(u)
    BY Present DEF LibraryInv
  <1>2. Numbered' /\ Counted'
    BY NumberedKept, CountedKept DEF LibraryInv
  <1>3. Held' /\ Reports'
    BY DEF LibraryInv, Held, Reports, DeadlocksAreReal
  <1>4. ASSUME NEW u \in Slots PROVE Notes(u)'
    <2>1. CASE u # t
      BY <1>1, <2>1, NotesKept
    <2>2. CASE u = t
      BY <1>1, <2>2 DEF Notes, Locking
    <2>. QED BY <2>1, <2>2
  <1>5. ASSUME NEW u \in Slots PROVE Owning(u)'
    <2>1. Me(u)' = Me(u)
      BY DEF Me
    <2>2. CASE u = t
      BY <2>2 DEF Owning
    <2>3. CASE u # t
      BY <1>1, <2>1, <2>3 DEF Owning
    <2>. QED BY <2>2, <2>3
  <1>. QED BY <1>2, <1>3, <1>4, <1>5 DEF LibraryInv

LEMMA DetachedKeeps ==
  ASSUME ThreadsInv, LibraryInv, NEW t \in Slots, problem = "none",
         call[t].name \in {"program", "join"}, call'[t].name \in {"program", "reap"},
         \A u \in Slots \ {t} : call'[u] = call[u],
         NEW s \in Slots, threads[s] # Null, threads' = [threads EXCEPT ![s].detached = TRUE],
         UNCHANGED <<thread_counter, mutexes, counter, bound, problem>>
  PROVE  LibraryInv'
  <1>1. Types /\ threads[s] \in Record
    BY Present DEF Types
  <1>2. /\ threads'[s] = [threads[s] EXCEPT !.detached = TRUE] /\ threads'[s] \in Record
        /\ \A u \in Slots \ {s} : threads'[u] = threads[u]
    BY <1>1 DEF Types, Record
  <1>3. \A u \in Slots : /\ threads'[u] = Null <=> threads[u] = Null
                        /\ threads'[u].gtid = threads[u].gtid
                        /\ threads'[u].sleeping = threads[u].sleeping
                        /\ threads'[u].waiting_mutex = threads[u].waiting_mutex
    <2>1. threads'[s] # Null
      BY <1>2, ThreadsAssumption
    <2>2. /\ threads'[s].gtid = threads[s].gtid
          /\ threads'[s].sleeping = threads[s].sleeping
          /\ threads'[s].waiting_mutex = threads[s].waiting_mutex
      BY <1>1, <1>2 DEF Record
    <2>. QED BY <1>2, <2>1, <2>2
  <1>. QED BY <1>3, FlagsKeep

LEMMA JoinKeeps ==
  ASSUME ThreadsInv, LibraryInv, NEW t \in Slots, NEW s \in Slots, Join(t, s)
  PROVE  LibraryInv'
  <1>1. /\ problem = "none" /\ call[t].name = "program" /\ Joinable(s)
        /\ UNCHANGED <<thread_counter, mutexes, counter, bound>>
    BY DEF Join, In, lockVars
  <1>2. Types
    BY <1>1, Present
  <1>3. CASE Goto(t, Joining(s)) /\ UNCHANGED <<threads, problem>>
    <2>1. call'[t] = Joining(s) /\ \A u \in Slots \ {t} : call'[u] = call[u]
      BY <1>2, <1>3 DEF Types, Goto
    <2>2. call'[t].name = "join"
      BY <2>1 DEF Joining
    <2>. QED BY <1>1, <1>3, <2>1, <2>2, FlagsKeep
  <1>4. CASE Reap(t, s)
    <2>1. call'[t].name = "reap" /\ \A u \in Slots \ {t} : call'[u] = call[u]
      BY <1>2, <1>4 DEF Reap, Types, Goto, Reaping
    <2>2. threads' = [threads EXCEPT ![s].detached = TRUE] /\ UNCHANGED problem
      BY <1>4 DEF Reap
    <2>3. threads[s] # Null
      BY <1>1 DEF Joinable
    <2>. QED BY <1>1, <2>1, <2>2, <2>3, DetachedKeeps
  <1>. QED BY <1>3, <1>4 DEF Join

LEMMA DetachKeeps ==
  ASSUME ThreadsInv, LibraryInv, NEW t \in Slots, NEW s \in Slots, Detach(t, s)
  PROVE  LibraryInv'
  <1>1. /\ problem = "none" /\ call[t].name = "program" /\ threads[s] # Null
        /\ UNCHANGED <<thread_counter, mutexes, counter, bound, problem>>
        /\ threads' = [threads EXCEPT ![s].detached = TRUE]
        /\ call' = call \/ Goto(t, Reaping(s))
    BY DEF Detach, Joinable, In, lockVars
  <1>2. Types
    BY <1>1, Present
  <1>3. call'[t].name \in {"program", "reap"} /\ \A u \in Slots \ {t} : call'[u] = call[u]
    BY <1>1, <1>2 DEF Types, Goto, Reaping
  <1>. QED BY <1>1, <1>3, DetachedKeeps

LEMMA JoinedKeeps ==
  ASSUME ThreadsInv, LibraryInv, NEW t \in Slots, Joined(t)
  PROVE  LibraryInv'
  <1>1. /\ problem = "none" /\ call[t].name = "join"
        /\ UNCHANGED <<thread_counter, mutexes, counter, bound>>
    BY DEF Joined, In, lockVars
  <1>2. PICK s : s = call[t].slot
    OBVIOUS
  <1>3. Types /\ s \in Slots
    BY <1>1, <1>2, Present DEF Types, Frames
  <1>4. CASE threads[s] # Null /\ Reap(t, s)
    <2>1. call'[t].name = "reap" /\ \A u \in Slots \ {t} : call'[u] = call[u]
      BY <1>3, <1>4 DEF Reap, Types, Goto, Reaping
    <2>2. threads' = [threads EXCEPT ![s].detached = TRUE] /\ UNCHANGED problem
      BY <1>4 DEF Reap
    <2>. QED BY <1>1, <1>3, <1>4, <2>1, <2>2, DetachedKeeps
  <1>5. CASE Goto(t, Program) /\ UNCHANGED <<threads, problem>>
    <2>1. call'[t].name = "program" /\ \A u \in Slots \ {t} : call'[u] = call[u]
      BY <1>3, <1>5 DEF Types, Goto, Program
    <2>. QED BY <1>1, <1>5, <2>1, FlagsKeep
  <1>6. CASE problem' = "dereference" /\ UNCHANGED <<threads, call>>
    BY <1>1, <1>6, FlagsKeep
  <1>. QED BY <1>2, <1>4, <1>5, <1>6 DEF Joined

-----------------------------------------------------------------------------
(* Threads that come and go.                                               *)

\* Whoever is in none of these calls sleeps on nothing and waits for no mutex.
LEMMA Awake ==
  ASSUME Types, NEW s \in Slots, Notes(s), threads[s] # Null,
         call[s].name \notin {"lock", "unlock", "sleep", "barrier"}
  PROVE  threads[s].waiting_mutex = Null /\ threads[s].sleeping \notin Objects
  BY DEF Notes, Locking, Objects

LEMMA MutexesKept ==
  ASSUME LibraryInv, UNCHANGED <<mutexes, problem>>
  PROVE  Held' /\ (problem = "none" => Reports')
  BY DEF LibraryInv, Held, Reports, DeadlocksAreReal

\* The steps of several threads, none of which is in a call about a mutex.
LEMMA OwningAsBefore ==
  ASSUME NEW s \in Slots, Owning(s), mutexes' = mutexes,
         \/ call'[s].name \notin {"lock", "unlock", "sleep", "relock"}
         \/ call'[s] = call[s] /\ threads'[s].gtid = threads[s].gtid
  PROVE  Owning(s)'
  BY DEF Owning, Me

LEMMA CreateKeepsLibrary ==
  ASSUME ThreadsInv, LibraryInv, NEW t \in Slots, NEW detached \in BOOLEAN, Create(t, detached)
  PROVE  LibraryInv'
  <1>1. problem = "none" /\ call[t].name = "program" /\ NewSlot \in Slots
    BY DEF Create, In
  <1>2. PICK u \in Slots : u = NewSlot
    BY <1>1
  <1>3. /\ Types /\ threads[t] # Null
        /\ \A s \in Slots : Notes(s) /\ Owning(s)
    BY <1>1, Present DEF LibraryInv
  <1>4. call[u] = Gone /\ u # t /\ Gone.name = "gone"
    <2>1. t < u /\ call[u] = Gone /\ t \in Nat
      BY <1>1, <1>2, <1>3, NewSlotIsLast, SlotsAreNumbers
    <2>. QED BY <2>1 DEF Gone
  <1>5. threads[u] = Null
    BY <1>3, <1>4 DEF Notes
  <1> DEFINE new == Thread(thread_counter, detached, FALSE)
  <1>6. /\ new # Null /\ new.gtid = thread_counter
        /\ new.sleeping = Null /\ new.waiting_mutex = Null
    <2>1. new \in Record
      BY <1>3 DEF Thread, Record, Types
    <2>. QED BY <2>1, ThreadsAssumption DEF Thread
  <1>7. /\ threads' = [threads EXCEPT ![u] = new]
        /\ call' = [call EXCEPT ![t] = Creating(u, FALSE), ![u] = Entering(t)]
        /\ UNCHANGED <<mutexes, counter, bound, problem>>
        /\ thread_counter' = thread_counter + 1 /\ thread_counter < MaxThreads
    BY <1>2 DEF Create, lockVars
  <1> HIDE DEF new
  <1>8. /\ threads'[u] = new /\ \A s \in Slots \ {u} : threads'[s] = threads[s]
        /\ call'[t] = Creating(u, FALSE) /\ call'[u] = Entering(t)
        /\ \A s \in Slots \ {t, u} : call'[s] = call[s]
    BY <1>3, <1>4, <1>7 DEF Types
  <1>9. call'[t].name = "create" /\ call'[u].name = "entry"
    BY <1>8 DEF Creating, Entering
  <1>10. Numbered'
    <2>1. Numbered /\ thread_counter \in 1 .. MaxThreads
      BY DEF LibraryInv, Numbered
    <2>2. thread_counter + 1 \in 1 .. MaxThreads /\ thread_counter < thread_counter + 1
      BY <1>7, <2>1, ThreadsAssumption
    <2>3. \A s \in Slots : threads[s] # Null =>
            /\ threads[s].gtid # thread_counter /\ threads[s].gtid < thread_counter + 1
      <3> SUFFICES ASSUME NEW s \in Slots, threads[s] # Null
                   PROVE  threads[s].gtid # thread_counter /\ threads[s].gtid < thread_counter + 1
        OBVIOUS
      <3>1. threads[s].gtid \in Nat /\ threads[s].gtid < thread_counter
        BY <1>3, <2>1 DEF Types, Record, Numbered
      <3>. QED BY <2>1, <3>1
    <2>. QED BY <1>6, <1>7, <1>8, <2>1, <2>2, <2>3 DEF Numbered
  <1>11. Counted'
    <2>1. \A s \in Slots, o \in Objects :
            (threads'[s] # Null /\ threads'[s].sleeping = o)
              <=> (threads[s] # Null /\ threads[s].sleeping = o)
      BY <1>5, <1>6, <1>8, ThreadsAssumption
    <2>. QED BY <1>7, <2>1, CountedKept DEF LibraryInv
  <1>12. Held' /\ Reports'
    BY <1>1, <1>7, MutexesKept
  <1>15. ASSUME NEW s \in Slots PROVE Notes(s)'
    <2>1. CASE s = t
      <3>1. threads[t].waiting_mutex = Null /\ threads[t].sleeping \notin Objects
        BY <1>1, <1>3, Awake
      <3>. QED BY <1>3, <1>4, <1>8, <1>9, <2>1, <3>1 DEF Notes, Objects
    <2>2. CASE s = u
      BY <1>6, <1>8, <1>9, <2>2, ThreadsAssumption DEF Notes, Objects
    <2>3. CASE s \notin {t, u}
      BY <1>3, <1>8, <2>3, NotesKept
    <2>. QED BY <2>1, <2>2, <2>3
  <1>16. ASSUME NEW s \in Slots PROVE Owning(s)'
    BY <1>3, <1>7, <1>8, <1>9, OwningAsBefore
  <1>. QED BY <1>10, <1>11, <1>12, <1>15, <1>16 DEF LibraryInv

LEMMA StartKeepsLibrary ==
  ASSUME ThreadsInv, LibraryInv, NEW s \in Slots, Start(s)
  PROVE  LibraryInv'
  <1>1. problem = "none" /\ call[s].name = "entry"
        /\ UNCHANGED <<thread_counter, mutexes, counter, bound, problem>>
    BY DEF Start, In, lockVars
  <1>2. /\ Types /\ threads[s] \in Record /\ threads[s] # Null
        /\ \A u \in Slots : Notes(u) /\ Owning(u)
    BY <1>1, Present DEF LibraryInv
  <1>3. PICK t \in Slots : t = call[s].creator
    BY <1>1, <1>2 DEF Types, Frames
  <1>4. call[t] = Creating(s, FALSE) /\ call[t].name = "create" /\ t # s
    <2>1. CreatorsWait
      BY <1>1, WhoCalls
    <2>2. call[t] = Creating(s, FALSE)
      BY <1>1, <1>3, <2>1 DEF CreatorsWait
    <2>. QED BY <1>1, <2>2 DEF Creating
  <1>5. /\ call' = [call EXCEPT ![s] = Program,
                   ![t] = IF @ = Creating(s, FALSE) THEN Creating(s, TRUE) ELSE @]
        /\ threads' = [threads EXCEPT ![s].running = TRUE]
    BY <1>3 DEF Start
  <1>6. /\ call'[s] = Program /\ call'[t] = Creating(s, TRUE)
        /\ \A u \in Slots \ {s, t} : call'[u] = call[u]
        /\ threads'[s] = [threads[s] EXCEPT !.running = TRUE]
        /\ \A u \in Slots \ {s} : threads'[u] = threads[u]
    BY <1>2, <1>4, <1>5 DEF Types
  <1>7. call'[s].name = "program" /\ call'[t].name = "create"
    BY <1>6 DEF Program, Creating
  <1>8. /\ threads'[s] # Null /\ threads'[s].gtid = threads[s].gtid
        /\ threads'[s].sleeping = threads[s].sleeping
        /\ threads'[s].waiting_mutex = threads[s].waiting_mutex
        /\ threads'[s].detached = threads[s].detached
    <2>1. threads'[s] \in Record
      BY <1>2, <1>6 DEF Record
    <2>. QED BY <1>2, <1>6, <2>1, ThreadsAssumption DEF Record
  <1> DEFINE same(u) == /\ threads'[u] = Null <=> threads[u] = Null
                        /\ threads'[u].gtid = threads[u].gtid
                        /\ threads'[u].sleeping = threads[u].sleeping
                        /\ threads'[u].detached = threads[u].detached
  <1>9. \A u \in Slots : same(u)
    <2>1. same(s)
      BY <1>2, <1>8
    <2>2. ASSUME NEW u \in Slots \ {s} PROVE same(u)
      BY <1>6
    <2>. QED BY <2>1, <2>2
  <1>10. Numbered' /\ Counted'
    <2>1. Numbered'
      BY <1>1, <1>9, NumberedKept DEF LibraryInv
    <2>2. Counted'
      BY <1>1, <1>9, CountedKept DEF LibraryInv
    <2>. QED BY <2>1, <2>2
  <1>11. Held' /\ Reports'
    BY <1>1, MutexesKept
  <1>14. ASSUME NEW u \in Slots PROVE Notes(u)'
    <2>1. CASE u = s
      <3>1. threads[s].waiting_mutex = Null /\ threads[s].sleeping \notin Objects
        BY <1>1, <1>2, Awake
      <3>. QED BY <1>7, <1>8, <2>1, <3>1 DEF Notes, Objects
    <2>2. CASE u = t /\ threads[t] # Null
      <3>1. threads[t].waiting_mutex = Null /\ threads[t].sleeping \notin Objects
        BY <1>2, <1>4, <2>2, Awake
      <3>. QED BY <1>4, <1>6, <1>7, <2>2, <3>1 DEF Notes, Objects
    <2>3. CASE u = t /\ threads[t] = Null
      BY <1>2, <1>4, <2>3 DEF Notes
    <2>4. CASE u \notin {s, t}
      BY <1>2, <1>6, <2>4, NotesKept
    <2>. QED BY <2>1, <2>2, <2>3, <2>4
  <1>15. ASSUME NEW u \in Slots PROVE Owning(u)'
    BY <1>1, <1>2, <1>6, <1>7, OwningAsBefore
  <1>. QED BY <1>10, <1>11, <1>14, <1>15 DEF LibraryInv

\* A slot becomes empty.
LEMMA FreeKeeps ==
  ASSUME ThreadsInv, LibraryInv, NEW t \in Slots, problem = "none",
         call[t].name \in {"program", "ending"}, threads[t].detached, Free(t),
         UNCHANGED <<thread_counter, mutexes, counter, bound, problem>>
  PROVE  LibraryInv'
  <1>1. /\ Types /\ threads[t] # Null
        /\ \A u \in Slots : Notes(u) /\ Owning(u)
    BY Present DEF LibraryInv
  <1>2. /\ threads'[t] = Null /\ call'[t] = Gone
        /\ \A u \in Slots \ {t} : threads'[u] = threads[u] /\ call'[u] = call[u]
    BY <1>1 DEF Types, Free, Goto
  <1>3. call'[t].name = "gone"
    BY <1>2 DEF Gone
  <1>4. Numbered'
    BY <1>2, NumberedKept DEF LibraryInv
  <1>5. Counted'
    <2>1. threads[t].sleeping \notin Objects
      BY <1>1, Awake
    <2>2. \A s \in Slots, o \in Objects :
            (threads'[s] # Null /\ threads'[s].sleeping = o)
              <=> (threads[s] # Null /\ threads[s].sleeping = o)
      BY <1>2, <2>1
    <2>. QED BY <2>2, CountedKept DEF LibraryInv
  <1>6. Held' /\ Reports'
    BY MutexesKept
  <1>9. ASSUME NEW u \in Slots PROVE Notes(u)'
    <2>1. CASE u = t
      BY <1>2, <1>3, <2>1 DEF Notes
    <2>2. CASE u # t
      BY <1>1, <1>2, <2>2, NotesKept
    <2>. QED BY <2>1, <2>2
  <1>10. ASSUME NEW u \in Slots PROVE Owning(u)'
    <2>1. CASE u = t
      BY <1>3, <2>1 DEF Owning
    <2>2. CASE u # t
      BY <1>1, <1>2, <2>2, OwningAsBefore
    <2>. QED BY <2>1, <2>2
  <1>. QED BY <1>4, <1>5, <1>6, <1>9, <1>10 DEF LibraryInv

LEMMA EndKeepsLibrary ==
  ASSUME ThreadsInv, LibraryInv, NEW t \in Slots, Return(t) \/ End(t)
  PROVE  LibraryInv'
  <1>1. /\ problem = "none" /\ call[t].name \in {"program", "ending"}
        /\ UNCHANGED <<thread_counter, mutexes, counter, bound, problem>>
    BY DEF Return, End, In, lockVars
  <1>2. CASE threads[t].detached /\ Free(t)
    BY <1>1, <1>2, FreeKeeps
  <1>3. CASE threads' = [threads EXCEPT ![t].running = FALSE] /\ Goto(t, Ending)
    <2>1. /\ Types /\ threads[t] # Null /\ threads[t] \in Record /\ Notes(t)
      BY <1>1, Present
    <2>2. /\ threads'[t] = [threads[t] EXCEPT !.running = FALSE] /\ call'[t] = Ending
          /\ \A u \in Slots \ {t} : threads'[u] = threads[u] /\ call'[u] = call[u]
      BY <1>3, <2>1 DEF Types, Goto
    <2>3. /\ threads'[t] # Null /\ threads'[t].gtid = threads[t].gtid
          /\ threads'[t].detached = threads[t].detached
          /\ threads'[t].sleeping = threads[t].sleeping
          /\ threads'[t].waiting_mutex = threads[t].waiting_mutex
      <3>1. threads'[t] \in Record
        BY <2>1, <2>2 DEF Record
      <3>. QED BY <2>1, <2>2, <3>1, ThreadsAssumption DEF Record
    <2>4. call'[t].name = "ending"
      BY <2>2 DEF Ending
    <2>5. Apart(t)
      BY <1>1, <2>2, <2>3 DEF Apart
    <2>6. Notes(t)'
      <3>1. threads[t].waiting_mutex = Null /\ threads[t].sleeping \notin Objects
        BY <1>1, <2>1, Awake
      <3>. QED BY <2>3, <2>4, <3>1 DEF Notes, Objects
    <2>7. Held' /\ Reports'
      BY <1>1, MutexesKept
    <2>8. Owning(t)'
      BY <2>4 DEF Owning
    <2>9. \A m \in Mutexes : mutexes'[m] = mutexes[m]
      BY <1>1
    <2>10. call[t].name # "gone"
      BY <1>1
    <2>. QED BY <1>1, <2>5, <2>6, <2>7, <2>8, <2>9, <2>10, ApartKeeps
  <1>. QED BY <1>2, <1>3 DEF Return, End

\* Once the main thread has left nobody is there, and waits for anything.
LEMMA ExitKeepsLibrary ==
  ASSUME ThreadsInv, LibraryInv, Exit \/ ExitNext
  PROVE  LibraryInv'
  <1>1. /\ problem = "none" /\ call[Main].name \in {"program", "exit"} /\ Main \in Slots
        /\ UNCHANGED <<threads, thread_counter, mutexes, counter, bound, problem>>
    BY SlotsAreNumbers DEF Exit, ExitNext, ExitFrom, In, lockVars
  <1>2. /\ Types /\ threads[Main] # Null /\ Notes(Main)
    BY <1>1, Present
  <1>3. \/ call' = [s \in Slots |-> Gone]
        \/ \E k : Goto(Main, Exiting(k))
    BY DEF Exit, ExitNext, ExitFrom
  <1>4. CASE call' = [s \in Slots |-> Gone]
    <2>1. \A s \in Slots : call'[s].name = "gone"
      BY <1>4 DEF Gone
    <2>2. Numbered'
      BY <1>1, NumberedKept DEF LibraryInv
    <2>3. Counted'
      BY <1>1, CountedKept DEF LibraryInv
    <2>4. Held' /\ Reports'
      BY <1>1, MutexesKept
    <2>5. \A s \in Slots : Owning(s)'
      BY <2>1 DEF Owning
    <2>6. call'[Main].name = "gone"
      BY <1>1, <2>1
    <2>. QED BY <2>2, <2>3, <2>4, <2>5, <2>6 DEF LibraryInv
  <1>5. ASSUME NEW k, Goto(Main, Exiting(k)) PROVE LibraryInv'
    <2>1. /\ call'[Main].name = "exit" /\ \A s \in Slots \ {Main} : call'[s] = call[s]
      BY <1>1, <1>2, <1>5 DEF Types, Goto, Exiting
    <2>2. Apart(Main)
      BY <1>1, <1>2, <2>1 DEF Apart
    <2>3. Notes(Main)'
      <3>1. threads[Main].waiting_mutex = Null /\ threads[Main].sleeping \notin Objects
        BY <1>1, <1>2, Awake
      <3>. QED BY <1>1, <1>2, <2>1, <3>1 DEF Notes, Objects
    <2>4. Held' /\ Reports'
      BY <1>1, MutexesKept
    <2>5. Owning(Main)'
      BY <2>1 DEF Owning
    <2>6. \A m \in Mutexes : mutexes'[m] = mutexes[m]
      BY <1>1
    <2>. QED BY <1>1, <2>1, <2>2, <2>3, <2>4, <2>5, <2>6, ApartKeeps
  <1>. QED BY <1>3, <1>4, <1>5

-----------------------------------------------------------------------------
(* Who falls asleep and who wakes up.                                      *)

LEMMA SleepersAreFinite ==
  ASSUME NEW o
  PROVE  /\ IsFiniteSet(Sleepers(o)) /\ Cardinality(Sleepers(o)) \in 0 .. MaxSlots
         /\ Sleepers(o) \subseteq Slots
  <1>1. IsFiniteSet(Slots) /\ Cardinality(Slots) = MaxSlots
    <2>1. MaxSlots - 1 \in Int /\ 0 <= MaxSlots - 1 /\ MaxSlots - 1 - 0 + 1 = MaxSlots
      BY ThreadsAssumption
    <2>. QED BY <2>1, FS_Interval DEF Slots
  <1>2. Sleepers(o) \subseteq Slots
    BY DEF Sleepers
  <1>3. IsFiniteSet(Sleepers(o)) /\ Cardinality(Sleepers(o)) <= MaxSlots
    BY <1>1, <1>2, FS_Subset
  <1>4. Cardinality(Sleepers(o)) \in Nat
    BY <1>3, FS_CardinalityType
  <1>. QED BY <1>2, <1>3, <1>4, ThreadsAssumption

LEMMA FallAsleepCounts ==
  ASSUME Types, Counted, NEW t \in Slots, threads[t] # Null, threads[t].sleeping \notin Objects,
         NEW o \in Objects, FallAsleep(t, o)
  PROVE  /\ counter' \in [Objects -> Nat] /\ counter'[o] = counter[o] + 1
         /\ \A p \in Objects \ {o} : counter'[p] = counter[p]
         /\ \A p \in Objects : counter'[p] = Cardinality(Sleepers(p)')
         /\ \A s \in Slots \ {t} : threads'[s] = threads[s]
         /\ threads'[t] # Null /\ threads'[t].sleeping = o
         /\ threads'[t].gtid = threads[t].gtid /\ threads'[t].detached = threads[t].detached
         /\ threads'[t].waiting_mutex = threads[t].waiting_mutex
  <1>1. /\ threads[t] \in Record /\ threads'[t] = [threads[t] EXCEPT !.sleeping = o]
        /\ \A s \in Slots \ {t} : threads'[s] = threads[s]
    BY DEF FallAsleep, Types
  <1>2. /\ threads'[t] # Null /\ threads'[t].sleeping = o
        /\ threads'[t].gtid = threads[t].gtid /\ threads'[t].detached = threads[t].detached
        /\ threads'[t].waiting_mutex = threads[t].waiting_mutex
    <2>1. threads'[t] \in Record
      BY <1>1 DEF Record
    <2>. QED BY <1>1, <2>1, ThreadsAssumption DEF Record
  <1>3. /\ counter' \in [Objects -> Nat] /\ counter'[o] = counter[o] + 1
        /\ \A p \in Objects \ {o} : counter'[p] = counter[p]
    BY DEF FallAsleep, Counted
  <1>4. ASSUME NEW p \in Objects PROVE counter'[p] = Cardinality(Sleepers(p)')
    <2>1. t \notin Sleepers(p) /\ counter[p] = Cardinality(Sleepers(p))
      BY DEF Sleepers, Counted
    <2>2. CASE p = o
      <3>1. Sleepers(p)' = Sleepers(p) \cup {t}
        BY <1>1, <1>2, <2>2 DEF Sleepers
      <3>2. Cardinality(Sleepers(p) \cup {t}) = Cardinality(Sleepers(p)) + 1
        BY <2>1, SleepersAreFinite, FS_AddElement
      <3>. QED BY <1>3, <2>1, <2>2, <3>1, <3>2
    <2>3. CASE p # o
      <3>1. Sleepers(p)' = Sleepers(p)
        BY <1>1, <1>2, <2>1, <2>3 DEF Sleepers
      <3>. QED BY <1>3, <2>1, <2>3, <3>1
    <2>. QED BY <2>2, <2>3
  <1>. QED BY <1>1, <1>2, <1>3, <1>4

\* Who wakes up is taken off the count; it is all of them, if all are chosen.
LEMMA WakeUpCounts ==
  ASSUME Types, Counted, NEW o \in Objects, NEW chosen, WakeUp(o, chosen)
  PROVE  /\ counter' \in [Objects -> Nat] /\ problem' = problem
         /\ \A p \in Objects \ {o} : counter'[p] = counter[p]
         /\ \A p \in Objects : counter'[p] = Cardinality(Sleepers(p)')
         /\ chosen = 1 .. counter[o] => counter'[o] = 0
         /\ \A s \in Slots : /\ threads'[s] = Null <=> threads[s] = Null
                             /\ threads'[s].gtid = threads[s].gtid
                             /\ threads'[s].detached = threads[s].detached
                             /\ threads'[s].waiting_mutex = threads[s].waiting_mutex
                             /\ threads'[s].sleeping \in {threads[s].sleeping, Null}
  <1> DEFINE rank(s) == Cardinality({u \in Sleepers(o) : u <= s})
             woken == {s \in Sleepers(o) : rank(s) \in chosen}
  <1>1. /\ threads' = [s \in Slots |-> IF s \in woken
                                       THEN [threads[s] EXCEPT !.sleeping = Null]
                                       ELSE threads[s]]
        /\ counter' = [counter EXCEPT ![o] = @ - Cardinality(woken)]
        /\ problem' = IF counter[o] = Cardinality(Sleepers(o)) THEN problem ELSE "internal"
    BY DEF WakeUp
  <1>2. /\ IsFiniteSet(Sleepers(o)) /\ Sleepers(o) \subseteq Slots
        /\ counter[o] = Cardinality(Sleepers(o)) /\ counter \in [Objects -> Nat]
    BY SleepersAreFinite DEF Counted
  <1>3. woken \subseteq Sleepers(o) /\ Sleepers(o) \cap woken = woken
    OBVIOUS
  <1>4. chosen = 1 .. counter[o] => woken = Sleepers(o)
    <2>1. ASSUME NEW s \in Sleepers(o) PROVE rank(s) \in 1 .. counter[o]
      <3> DEFINE upto == {u \in Sleepers(o) : u <= s}
      <3>1. s \in Nat /\ upto \subseteq Sleepers(o)
        BY <1>2, SlotsAreNumbers
      <3>2. s \in upto
        BY <3>1
      <3> HIDE DEF upto
      <3>3. IsFiniteSet(upto) /\ Cardinality(upto) <= Cardinality(Sleepers(o))
        BY <1>2, <3>1, FS_Subset
      <3>4. Cardinality(upto) \in Nat /\ Cardinality(upto) # 0 /\ counter[o] \in Nat
        BY <1>2, <3>2, <3>3, FS_EmptySet, FS_CardinalityType
      <3>5. Cardinality(upto) \in 1 .. counter[o]
        BY <1>2, <3>3, <3>4
      <3>. QED BY <3>5 DEF upto
    <2>. QED BY <2>1
  <1> HIDE DEF woken
  <1>5. /\ Cardinality(Sleepers(o) \ woken) = Cardinality(Sleepers(o)) - Cardinality(woken)
        /\ Cardinality(Sleepers(o) \ woken) \in Nat
    <2>1. IsFiniteSet(Sleepers(o) \ woken)
      BY <1>2, FS_Difference
    <2>2. Cardinality(Sleepers(o) \ woken)
            = Cardinality(Sleepers(o)) - Cardinality(Sleepers(o) \cap woken)
      BY <1>2, FS_Difference
    <2>3. Cardinality(Sleepers(o) \ woken) \in Nat
      BY <2>1, FS_CardinalityType
    <2>. QED BY <1>3, <2>2, <2>3
  <1>6. /\ counter' \in [Objects -> Nat] /\ counter'[o] = Cardinality(Sleepers(o) \ woken)
        /\ \A p \in Objects \ {o} : counter'[p] = counter[p]
    BY <1>1, <1>2, <1>5
  <1>7. ASSUME NEW s \in woken
        PROVE  /\ threads[s] # Null /\ threads'[s] # Null /\ threads[s].sleeping = o
               /\ threads'[s].sleeping = Null
               /\ threads'[s].gtid = threads[s].gtid
               /\ threads'[s].detached = threads[s].detached
               /\ threads'[s].waiting_mutex = threads[s].waiting_mutex
    <2>1. s \in Slots /\ threads[s] # Null /\ threads[s].sleeping = o /\ threads[s] \in Record
      BY <1>3 DEF Sleepers, Types
    <2>2. threads'[s] = [threads[s] EXCEPT !.sleeping = Null]
      BY <1>1, <2>1
    <2>3. threads'[s] \in Record
      BY <2>1, <2>2 DEF Record
    <2>. QED BY <2>1, <2>2, <2>3, ThreadsAssumption DEF Record
  <1>8. \A s \in Slots \ woken : threads'[s] = threads[s]
    BY <1>1
  <1>9. ASSUME NEW p \in Objects PROVE counter'[p] = Cardinality(Sleepers(p)')
    <2>1. CASE p = o
      <3>1. Sleepers(p)' = Sleepers(p) \ woken
        <4>1. ASSUME NEW s \in Slots
              PROVE  (threads'[s] # Null /\ threads'[s].sleeping = o)
                       <=> (threads[s] # Null /\ threads[s].sleeping = o) /\ s \notin woken
          BY <1>7, <1>8, ThreadsAssumption
        <4>. QED BY <2>1, <4>1 DEF Sleepers
      <3>. QED BY <1>6, <2>1, <3>1
    <2>2. CASE p # o
      <3>1. Sleepers(p)' = Sleepers(p)
        <4>1. ASSUME NEW s \in Slots
              PROVE  (threads'[s] # Null /\ threads'[s].sleeping = p)
                       <=> (threads[s] # Null /\ threads[s].sleeping = p)
          BY <1>7, <1>8, <2>2, ThreadsAssumption
        <4>. QED BY <4>1 DEF Sleepers
      <3>. QED BY <1>6, <2>2, <3>1 DEF Counted
    <2>. QED BY <2>1, <2>2
  <1>10. chosen = 1 .. counter[o] => counter'[o] = 0
    <2>1. woken = Sleepers(o) => Sleepers(o) \ woken = {}
      OBVIOUS
    <2>. QED BY <1>4, <1>6, <2>1, FS_EmptySet
  <1>11. problem' = problem
    BY <1>1, <1>2
  <1>12. ASSUME NEW s \in Slots
         PROVE  /\ threads'[s] = Null <=> threads[s] = Null
                /\ threads'[s].gtid = threads[s].gtid
                /\ threads'[s].detached = threads[s].detached
                /\ threads'[s].waiting_mutex = threads[s].waiting_mutex
                /\ threads'[s].sleeping \in {threads[s].sleeping, Null}
    <2>1. CASE s \in woken
      BY <1>7, <2>1
    <2>2. CASE s \notin woken
      BY <1>8, <2>2
    <2>. QED BY <2>1, <2>2
  <1>. QED BY <1>6, <1>9, <1>10, <1>11, <1>12

LEMMA WakersKeep ==
  ASSUME ThreadsInv, LibraryInv, NEW t \in Slots, call[t].name # "gone", problem = "none",
         NEW o \in Objects, NEW chosen, WakeUp(o, chosen),
         UNCHANGED <<thread_counter, mutexes, call>>, Counted'
  PROVE  LibraryInv'
  <1>1. /\ Types /\ \A u \in Slots : Notes(u) /\ Owning(u)
    BY Present DEF LibraryInv
  <1>2. problem' = problem
    BY <1>1, WakeUpCounts DEF LibraryInv
  <1>3. \A s \in Slots : /\ threads'[s] = Null <=> threads[s] = Null
                         /\ threads'[s].gtid = threads[s].gtid
                         /\ threads'[s].detached = threads[s].detached
                         /\ threads'[s].waiting_mutex = threads[s].waiting_mutex
                         /\ threads'[s].sleeping \in {threads[s].sleeping, Null}
    BY <1>1, WakeUpCounts DEF LibraryInv
  <1>4. Numbered'
    BY <1>3, NumberedKept DEF LibraryInv
  <1>5. Held' /\ Reports'
    BY <1>2, MutexesKept
  <1>8. ASSUME NEW u \in Slots PROVE Notes(u)'
    BY <1>1, <1>3, NotesKept
  <1>9. ASSUME NEW u \in Slots PROVE Owning(u)'
    BY <1>1, <1>3, OwningAsBefore
  <1>. QED BY <1>4, <1>5, <1>8, <1>9 DEF LibraryInv

LEMMA SignalKeeps ==
  ASSUME ThreadsInv, LibraryInv, NEW t \in Slots, NEW c \in Conds, NEW chosen,
         Signal(t, c, chosen)
  PROVE  LibraryInv'
  <1>1. /\ problem = "none" /\ call[t].name = "program" /\ counter[c] > 0
        /\ c \in Objects /\ WakeUp(c, chosen)
        /\ bound' = [bound EXCEPT ![c] = IF counter'[c] = 0 THEN Null ELSE @]
        /\ UNCHANGED <<thread_counter, mutexes, call>>
    BY DEF Signal, In, Objects
  <1>2. Types /\ Counted
    BY <1>1, Present DEF LibraryInv
  <1>3. /\ counter' \in [Objects -> Nat]
        /\ \A p \in Objects \ {c} : counter'[p] = counter[p]
        /\ \A p \in Objects : counter'[p] = Cardinality(Sleepers(p)')
    BY <1>1, <1>2, WakeUpCounts
  <1>4. Conds \cap Barriers = {} /\ Objects = Conds \cup Barriers
    BY ThreadsAssumption DEF Objects
  <1>5. /\ bound' \in [Conds -> Mutexes \cup {Null}]
        /\ \A d \in Conds : bound'[d] = Null <=> counter'[d] = 0
    <2>1. bound[c] # Null /\ bound[c] \in Mutexes \cup {Null}
      BY <1>1, <1>2 DEF Counted
    <2>2. bound'[c] = IF counter'[c] = 0 THEN Null ELSE bound[c]
      BY <1>1, <1>2 DEF Counted
    <2>3. \A d \in Conds \ {c} : bound'[d] = bound[d] /\ counter'[d] = counter[d]
      BY <1>1, <1>2, <1>3, <1>4 DEF Counted
    <2>4. bound' \in [Conds -> Mutexes \cup {Null}]
      BY <1>1, <1>2 DEF Counted
    <2>. QED BY <1>2, <2>1, <2>2, <2>3, <2>4 DEF Counted
  <1>6. \A b \in Barriers : counter'[b] < NThreads[b]
    BY <1>2, <1>3, <1>4 DEF Counted
  <1>7. Counted'
    BY <1>3, <1>5, <1>6 DEF Counted
  <1>. QED BY <1>1, <1>7, WakersKeep

\* A thread falls asleep on what it says it waits for.
LEMMA FallAsleepKeeps ==
  ASSUME ThreadsInv, LibraryInv, NEW t \in Slots, call[t].name = "program", problem = "none",
         NEW o \in Objects, FallAsleep(t, o), NEW c, Goto(t, c),
         \/ o \in Conds /\ c.name = "unlock" /\ mutexes[c.mutex].owner = Me(t)
         \/ o \in Barriers /\ c.name = "barrier",
         UNCHANGED <<thread_counter, mutexes, problem>>, Counted'
  PROVE  LibraryInv'
  <1>1. /\ Types /\ threads[t] # Null /\ Counted
        /\ \A u \in Slots : Notes(u) /\ Owning(u)
    BY Present DEF LibraryInv
  <1>2. threads[t].waiting_mutex = Null /\ threads[t].sleeping \notin Objects
    BY <1>1, Awake
  <1>3. /\ \A s \in Slots \ {t} : threads'[s] = threads[s]
        /\ threads'[t] # Null /\ threads'[t].sleeping = o
        /\ threads'[t].gtid = threads[t].gtid /\ threads'[t].detached = threads[t].detached
        /\ threads'[t].waiting_mutex = threads[t].waiting_mutex
    BY <1>1, <1>2, FallAsleepCounts
  <1>4. call'[t] = c /\ \A s \in Slots \ {t} : call'[s] = call[s]
    BY <1>1 DEF Types, Goto
  <1>5. Numbered'
    BY <1>1, <1>3, NumberedKept DEF LibraryInv
  <1>6. Held' /\ Reports'
    BY MutexesKept
  <1>10. ASSUME NEW u \in Slots PROVE Notes(u)'
    <2>1. CASE u = t
      <3>1. /\ threads'[t].waiting_mutex = Null /\ threads'[t] # Null
            /\ call'[t].name \in {"unlock", "barrier"}
        BY <1>2, <1>3, <1>4
      <3>2. /\ threads'[t].sleeping \in Conds => call'[t].name = "unlock"
            /\ threads'[t].sleeping \in Barriers => call'[t].name = "barrier"
        BY <1>3, <1>4, ThreadsAssumption
      <3>. QED BY <2>1, <3>1, <3>2 DEF Notes
    <2>2. CASE u # t
      BY <1>1, <1>3, <1>4, <2>2, NotesKept
    <2>. QED BY <2>1, <2>2
  <1>11. ASSUME NEW u \in Slots PROVE Owning(u)'
    <2>1. CASE u = t
      BY <1>3, <1>4, <2>1 DEF Owning, Me
    <2>2. CASE u # t
      BY <1>1, <1>3, <1>4, <2>2, OwningAsBefore
    <2>. QED BY <2>1, <2>2
  <1>. QED BY <1>5, <1>6, <1>10, <1>11 DEF LibraryInv

LEMMA CondWaitKeeps ==
  ASSUME ThreadsInv, LibraryInv, NEW t \in Slots, NEW c \in Conds, NEW m \in Mutexes,
         CondWait(t, c, m)
  PROVE  LibraryInv'
  <1>1. /\ problem = "none" /\ call[t].name = "program" /\ mutexes[m].owner = Me(t)
        /\ bound[c] \in {Null, m} /\ bound' = [bound EXCEPT ![c] = m]
        /\ c \in Objects /\ FallAsleep(t, c) /\ Goto(t, Waiting(m, "unlock"))
        /\ UNCHANGED <<thread_counter, mutexes, problem>>
    BY DEF CondWait, In, Objects
  <1>2. Types /\ Counted /\ threads[t] # Null /\ threads[t].sleeping \notin Objects
    BY <1>1, Present, Awake DEF LibraryInv
  <1>3. /\ counter' \in [Objects -> Nat] /\ counter'[c] = counter[c] + 1
        /\ \A p \in Objects \ {c} : counter'[p] = counter[p]
        /\ \A p \in Objects : counter'[p] = Cardinality(Sleepers(p)')
    BY <1>1, <1>2, FallAsleepCounts
  <1>4. Conds \cap Barriers = {} /\ Objects = Conds \cup Barriers /\ m # Null
    BY ThreadsAssumption DEF Objects
  <1>5. /\ bound' \in [Conds -> Mutexes \cup {Null}]
        /\ \A d \in Conds : bound'[d] = Null <=> counter'[d] = 0
    <2>1. counter'[c] # 0
      BY <1>1, <1>2, <1>3 DEF Counted
    <2>2. bound'[c] = m /\ \A d \in Conds \ {c} : bound'[d] = bound[d]
      BY <1>1, <1>2 DEF Counted
    <2>3. bound' \in [Conds -> Mutexes \cup {Null}]
      BY <1>1, <1>2 DEF Counted
    <2>4. \A d \in Conds \ {c} : counter'[d] = counter[d]
      BY <1>3, <1>4
    <2>. QED BY <1>2, <1>4, <2>1, <2>2, <2>3, <2>4 DEF Counted
  <1>6. \A b \in Barriers : counter'[b] < NThreads[b]
    BY <1>2, <1>3, <1>4 DEF Counted
  <1>7. Counted'
    BY <1>3, <1>5, <1>6 DEF Counted
  <1>8. Waiting(m, "unlock").name = "unlock" /\ Waiting(m, "unlock").mutex = m
    BY DEF Waiting
  <1>. QED BY <1>1, <1>7, <1>8, FallAsleepKeeps

LEMMA BarrierWaitKeeps ==
  ASSUME ThreadsInv, LibraryInv, NEW t \in Slots, NEW b \in Barriers, BarrierWait(t, b)
  PROVE  LibraryInv'
  <1>1. /\ problem = "none" /\ call[t].name = "program" /\ b \in Objects
        /\ UNCHANGED <<thread_counter, mutexes, bound>>
    BY DEF BarrierWait, In, Objects
  <1>2. Types /\ Counted /\ threads[t] # Null /\ threads[t].sleeping \notin Objects
    BY <1>1, Present, Awake DEF LibraryInv
  <1>3. Conds \cap Barriers = {} /\ Objects = Conds \cup Barriers /\ b \notin Conds
    BY ThreadsAssumption DEF Objects
  <1>4. counter[b] \in Nat /\ NThreads[b] \in Nat \ {0} /\ counter[b] < NThreads[b]
    BY <1>1, <1>2, ThreadsAssumption DEF Counted
  <1>5. ASSUME /\ counter' \in [Objects -> Nat] /\ counter'[b] < NThreads[b]
               /\ \A p \in Objects \ {b} : counter'[p] = counter[p]
               /\ \A p \in Objects : counter'[p] = Cardinality(Sleepers(p)')
        PROVE  Counted'
    <2>1. \A a \in Barriers : counter'[a] < NThreads[a]
      BY <1>2, <1>3, <1>5 DEF Counted
    <2>2. \A d \in Conds : bound'[d] = Null <=> counter'[d] = 0
      BY <1>1, <1>2, <1>3, <1>5 DEF Counted
    <2>3. bound' \in [Conds -> Mutexes \cup {Null}]
      BY <1>1, <1>2 DEF Counted
    <2>. QED BY <1>5, <2>1, <2>2, <2>3 DEF Counted
  <1>6. CASE WakeUp(b, 1 .. counter[b]) /\ UNCHANGED call
    <2>1. /\ counter' \in [Objects -> Nat] /\ counter'[b] = 0
          /\ \A p \in Objects \ {b} : counter'[p] = counter[p]
          /\ \A p \in Objects : counter'[p] = Cardinality(Sleepers(p)')
      BY <1>1, <1>2, <1>6, WakeUpCounts
    <2>2. counter'[b] < NThreads[b]
      BY <1>4, <2>1
    <2>3. Counted'
      BY <1>5, <2>1, <2>2
    <2>. QED BY <1>1, <1>6, <2>3, WakersKeep
  <1>7. CASE /\ counter[b] + 1 # NThreads[b]
             /\ FallAsleep(t, b) /\ Goto(t, Meeting(b)) /\ UNCHANGED problem
    <2>1. /\ counter' \in [Objects -> Nat] /\ counter'[b] = counter[b] + 1
          /\ \A p \in Objects \ {b} : counter'[p] = counter[p]
          /\ \A p \in Objects : counter'[p] = Cardinality(Sleepers(p)')
      BY <1>1, <1>2, <1>7, FallAsleepCounts
    <2>2. counter'[b] < NThreads[b]
      BY <1>4, <1>7, <2>1
    <2>3. Counted'
      BY <1>5, <2>1, <2>2
    <2>4. Meeting(b).name = "barrier"
      BY DEF Meeting
    <2>. QED BY <1>1, <1>7, <2>3, <2>4, FallAsleepKeeps
  <1>. QED BY <1>6, <1>7 DEF BarrierWait

-----------------------------------------------------------------------------
LEMMA InitLibraryInv == Init => LibraryInv
  <1> SUFFICES ASSUME Init PROVE LibraryInv
    OBVIOUS
  <1>1. /\ Thread(0, TRUE, TRUE) # Null /\ Thread(0, TRUE, TRUE).gtid = 0
        /\ Thread(0, TRUE, TRUE).sleeping = Null /\ Thread(0, TRUE, TRUE).waiting_mutex = Null
    <2>1. Thread(0, TRUE, TRUE) \in Record
      BY DEF Thread, Record
    <2>. QED BY <2>1, ThreadsAssumption DEF Thread
  <1>2. /\ threads[Main] = Thread(0, TRUE, TRUE) /\ \A s \in Slots \ {Main} : threads[s] = Null
        /\ call[Main] = Program /\ \A s \in Slots \ {Main} : call[s] = Gone
        /\ thread_counter = 1 /\ problem = "none"
    BY SlotsAreNumbers DEF Init
  <1>3. /\ call[Main].name = "program" /\ \A s \in Slots \ {Main} : call[s].name = "gone"
        /\ \A s \in Slots : call[s].name \in {"program", "gone"}
    BY <1>2 DEF Program, Gone
  <1>4. Numbered
    <2>1. \A s \in Slots : threads[s] # Null => s = Main
      BY <1>2
    <2>2. thread_counter \in 1 .. MaxThreads
      BY <1>2, ThreadsAssumption
    <2>3. threads[Main].gtid < thread_counter
      <3>1. threads[Main].gtid = 0 /\ thread_counter = 1
        BY <1>1, <1>2
      <3>. QED BY <3>1
    <2>. QED BY <2>1, <2>2, <2>3 DEF Numbered
  <1>5. Held
    BY ThreadsAssumption DEF Held, Init
  <1>6. Counted
    <2>1. /\ counter = [o \in Objects |-> 0] /\ bound = [c \in Conds |-> Null]
          /\ Conds \subseteq Objects /\ Barriers \subseteq Objects
      BY DEF Init, Objects
    <2>2. ASSUME NEW o \in Objects PROVE counter[o] = Cardinality(Sleepers(o))
      <3>1. Sleepers(o) = {}
        BY <1>1, <1>2, ThreadsAssumption DEF Sleepers
      <3>. QED BY <2>1, <3>1, FS_EmptySet
    <2>3. \A b \in Barriers : counter[b] < NThreads[b]
      BY <2>1, ThreadsAssumption
    <2>. QED BY <2>1, <2>2, <2>3 DEF Counted
  <1>7. Reports /\ \A s \in Slots : Owning(s)
    BY <1>2, <1>3 DEF Reports, DeadlocksAreReal, Owning
  <1>8. ASSUME NEW s \in Slots
        PROVE  Notes(s)
    <2>1. CASE s = Main
      BY <2>1, <1>1, <1>2, <1>3, ThreadsAssumption DEF Notes, Objects
    <2>2. CASE s # Main
      BY <2>2, <1>2, <1>3 DEF Notes
    <2>. QED BY <2>1, <2>2
  <1>. QED BY <1>4, <1>5, <1>6, <1>7, <1>8 DEF LibraryInv

LEMMA StepLibraryInv ==
  ASSUME ThreadsInv, LibraryInv, [Next]_vars
  PROVE  LibraryInv'
  <1>1. CASE UNCHANGED vars
    <2>1. UNCHANGED <<threads, thread_counter, mutexes, counter, bound, call, problem>>
      BY <1>1 DEF vars
    <2>2. Numbered' /\ Held' /\ Counted' /\ Reports'
      <3>1. Counted'
        BY <2>1, CountedKept DEF LibraryInv
      <3>2. Reports'
        BY <2>1 DEF LibraryInv, Reports, DeadlocksAreReal, Stuck, ByGtid, Dead, Holder
      <3>. QED BY <2>1, <3>1, <3>2 DEF LibraryInv, Numbered, Held
    <2>3. \A s \in Slots : /\ Notes(s)' <=> Notes(s)
                           /\ Owning(s)' <=> Owning(s)
      BY <2>1 DEF Notes, Owning, Me
    <2>. QED BY <2>1, <2>2, <2>3 DEF LibraryInv
  <1>2. CASE Exit \/ ExitNext
    BY <1>2, ExitKeepsLibrary
  <1>3. ASSUME NEW t \in Slots, Call(t) PROVE LibraryInv'
    <2>1. CASE \E detached \in BOOLEAN : Create(t, detached)
      BY <2>1, CreateKeepsLibrary
    <2>2. CASE Return(t)
      BY <2>2, EndKeepsLibrary
    <2>3. CASE \E s \in Slots : Join(t, s) \/ Detach(t, s)
      BY <2>3, JoinKeeps, DetachKeeps
    <2>4. CASE \E m \in Mutexes : Lock(t, m) \/ TryLock(t, m) \/ Unlock(t, m)
      BY <2>4, LocksKeep
    <2>5. CASE \E c \in Conds, m \in Mutexes : CondWait(t, c, m)
      BY <2>5, CondWaitKeeps
    <2>6. CASE \E c \in Conds : \E chosen \in SUBSET (1 .. counter[c]) \ {{}} : Signal(t, c, chosen)
      BY <2>6, SignalKeeps
    <2>7. CASE \E b \in Barriers : BarrierWait(t, b)
      BY <2>7, BarrierWaitKeeps
    <2>. QED BY <1>3, <2>1, <2>2, <2>3, <2>4, <2>5, <2>6, <2>7 DEF Call
  <1>4. ASSUME NEW t \in Slots, Continue(t) PROVE LibraryInv'
    <2>1. CASE Start(t)
      BY <2>1, StartKeepsLibrary
    <2>2. CASE End(t)
      BY <2>2, EndKeepsLibrary
    <2>3. CASE Joined(t)
      BY <2>3, JoinedKeeps
    <2>4. CASE \/ LockAgain(t) \/ WaitUnlock(t) \/ Relock(t)
               \/ Woken(t) \/ Passed(t) \/ Created(t) \/ Reaped(t)
      BY <2>4, LocksKeep
    <2>. QED BY <1>4, <2>1, <2>2, <2>3, <2>4 DEF Continue
  <1>. QED BY <1>1, <1>2, <1>3, <1>4 DEF Next

LEMMA LibraryIsInOrder == Spec => []LibraryInv
  <1>1. Init => LibraryInv
    BY InitLibraryInv
  <1>2. ThreadsInv /\ LibraryInv /\ [Next]_vars => LibraryInv'
    BY StepLibraryInv
  <1>. QED BY <1>1, <1>2, ThreadsAreInOrder, PTL DEF Spec

\* The slots hold threads, the owners are threads that were created, the counts
\* of a mutex are within the bound, no more sleep on a barrier than it lets
\* wait, and a condition forgets its mutex when the last sleeper goes
\* (pthread.cpp, the members of Thread, pthread_mutex_t, pthread_cond_t).
THEOREM TypesKept == Spec => []TypeOK
  <1>1. ASSUME ThreadsInv, LibraryInv PROVE TypeOK
    <2>1. Types /\ Numbered /\ Held /\ Counted /\ Reports
      BY <1>1 DEF ThreadsInv, LibraryInv
    <2>2. ASSUME NEW s \in Slots, threads[s] # Null
          PROVE  threads[s] \in [gtid : 0 .. MaxThreads - 1, detached : BOOLEAN,
                                 running : BOOLEAN, sleeping : Objects \cup {Null},
                                 waiting_mutex : Mutexes \cup {Null}]
      <3>1. threads[s] \in Record
        BY <2>1, <2>2 DEF Types
      <3>2. threads[s].gtid \in Nat /\ threads[s].gtid < thread_counter
            /\ thread_counter \in 1 .. MaxThreads
        BY <2>1, <2>2, <3>1 DEF Record, Numbered
      <3>3. threads[s].gtid \in 0 .. MaxThreads - 1
        BY <3>2, ThreadsAssumption
      <3>. QED BY <3>1, <3>3 DEF Record
    <2>3. counter \in [Objects -> 0 .. MaxSlots]
      BY <2>1, SleepersAreFinite DEF Counted
    <2>4. \A c \in Conds : bound[c] \in Mutexes \cup {Null} /\ (bound[c] = Null <=> counter[c] = 0)
      BY <2>1 DEF Counted
    <2>5. problem \in {"none", "again", "cycle", "dead", "dereference", "internal"}
      BY <2>1 DEF Reports
    <2>6. threads \in [Slots -> [gtid : 0 .. MaxThreads - 1, detached : BOOLEAN,
                                 running : BOOLEAN, sleeping : Objects \cup {Null},
                                 waiting_mutex : Mutexes \cup {Null}] \cup {Null}]
      BY <2>1, <2>2 DEF Types
    <2>. QED BY <2>1, <2>3, <2>4, <2>5, <2>6 DEF TypeOK, Numbered, Held, Counted
  <1>. QED BY <1>1, ThreadsAreInOrder, LibraryIsInOrder, PTL

\* A cycle that is reported is one of threads that wait for mutexes of each other
\* and that nobody else can wake; if a dead owner is, then threads wait for it
\* (_check_deadlock, pthread.cpp:627-646).  The count of a condition or barrier is
\* that of its sleepers (pthread.cpp:1088).  It is not claimed of "Nonrecursive mutex
\* locked again" (pthread.cpp:661-669), which a trylock reports without a deadlock.
THEOREM RealDeadlocks == Spec => []DeadlocksAreReal
  <1>1. LibraryInv => DeadlocksAreReal
    BY DEF LibraryInv, Reports
  <1>. QED BY <1>1, LibraryIsInOrder, PTL
=============================================================================
