------------------------ MODULE PartitionedSearch_proofs ------------------------
(***************************************************************************)
(* Proofs about a partitioned search, for any number of workers, any graph *)
(* and any number of spurious wakeups.  Its termination rests on the       *)
(* inductive invariant IInv: who holds which lock at which point of        *)
(* maybeIdle.  Its verdict rests on SInv, in the second half: what is in a *)
(* message, in a queue or at hand can be reached, and as long as nothing   *)
(* has been found nothing that can be reached is forgotten.                *)
(***************************************************************************)
EXTENDS PartitionedSearch, FiniteSetTheorems, WellFoundedInduction, TLAPS

\* Where a worker is outside of the barrier, or has just called it.
Work == {"edges", "wakeup", "interrupt", "loop", "receive", "drain", "process", "expect"}

\* Where it is in bed, from the moment it is counted until it is not.
InBed == {"wait", "waiting", "relock", "wake"}

Deciding == {"global", "lockout", "notify"}

Labels == Work \cup InBed \cup Deciding \cup {"register", "finished"}

Bed == {w \in Workers : pc[w] \in InBed}

Types ==
  /\ pc \in [Workers -> Labels]
  /\ holder \in [Workers -> Workers \cup {NoOne}]
  /\ sleeping \in [Workers -> BOOLEAN]
  /\ back \in [Workers -> {"loop", "drain"}]
  /\ receiver \in [Workers -> Workers \cup {NoOne}]
  /\ problem \in Problems
  /\ failed \in BOOLEAN /\ done \in BOOLEAN
  /\ asked \subseteq Workers

\* Registered is whoever has come and has not left, and nobody begins to decide
\* before all have come.
Registration ==
  /\ registered = {w \in Workers : pc[w] \notin {"register", "finished"}}
  /\ \A v, w \in Workers :
       pc[v] \in Deciding \cup InBed \cup {"finished"} => pc[w] # "register"

\* An awake worker holds its own mutex, another's only while it locks the others
\* out, and it does that under the global mutex.
Locks ==
  /\ \A w \in Workers :
       pc[w] \notin {"register", "waiting", "relock", "finished"} => holder[w] = w
  /\ \A v, w \in Workers : v # w /\ holder[v] = w => pc[w] = "lockout"
  /\ \A w \in Workers : pc[w] \in {"lockout", "notify"} => global = w
  /\ \A w \in Workers : pc[w] = "lockout" /\ ~failed =>
                          \A v \in asked \ {w} : holder[v] = w

\* Once someone has found that it is all over, nobody does anything any more.
Over ==
  /\ (\E w \in Workers : pc[w] = "finished") => done
  /\ done => \A w \in Workers : pc[w] \in {"relock", "wake", "finished"} /\ ~WorkWaiting(w)

Sleepers ==
  /\ \A w \in Workers : sleeping[w] <=> pc[w] \in InBed
  /\ asleep = Cardinality(Bed)
  /\ asleep \in 0 .. N - 1

Receivers == \A w \in Workers : pc[w] = "wakeup" => receiver[w] \in Workers

IInv == Types /\ Registration /\ Locks /\ Over /\ Sleepers /\ Receivers
-----------------------------------------------------------------------------
\* A step of worker w may notify others.
Rouse(w) ==
  \A v \in Workers \ {w} : \/ pc'[v] = pc[v]
                           \/ pc[v] = "waiting" /\ pc'[v] = "relock"

\* What a worker does outside of maybeIdle: the locks stay as they are.
Ordinary(w) ==
  /\ pc[w] \in Work /\ pc'[w] \in Work
  /\ pc' \in [Workers -> Labels] /\ Rouse(w)
  /\ receiver' \in [Workers -> Workers \cup {NoOne}]
  /\ \A v \in Workers \ {w} : receiver'[v] = receiver[v]
  /\ pc'[w] = "wakeup" => receiver'[w] \in Workers
  /\ back' \in [Workers -> {"loop", "drain"}]
  /\ UNCHANGED <<problem, lockVars, sleepVars, done, loopVars>>

LEMMA WorkersFinite ==
  /\ IsFiniteSet(Workers) /\ Cardinality(Workers) = N
  /\ N \in Nat \ {0} /\ NoOne \notin Workers
  <1>1. N \in Nat \ {0}
    BY BarrierAssumption
  <1>2. IsFiniteSet(1 .. N) /\ Cardinality(1 .. N) = N
    BY <1>1, FS_Interval
  <1>. QED BY <1>1, <1>2 DEF Workers, NoOne

\* A worker that is up and about knows that it is not over.
LEMMA UpIsNotOver ==
  ASSUME Over, NEW w \in Workers, pc[w] \notin {"relock", "wake", "finished"}
  PROVE  ~done /\ \A v \in Workers : pc[v] # "finished"
  BY DEF Over

LEMMA InitIInv == Init => IInv
  <1> SUFFICES ASSUME Init PROVE IInv
    OBVIOUS
  <1>i. BarrierInit
    BY DEF Init
  <1>1. Types
    BY <1>i, WorkersFinite DEF Init, BarrierInit, Types, Labels
  <1>2. Registration
    BY <1>i DEF BarrierInit, Registration, InBed, Deciding
  <1>3. Locks
    BY <1>i, WorkersFinite DEF BarrierInit, Locks
  <1>4. Over
    BY <1>i DEF BarrierInit, Over
  <1>5. Sleepers
    <2>1. Bed = {}
      BY <1>i DEF BarrierInit, Bed, InBed
    <2>2. Cardinality(Bed) = 0 /\ 0 \in 0 .. N - 1
      BY <2>1, FS_EmptySet, WorkersFinite
    <2>3. asleep = 0
      BY <1>i DEF BarrierInit
    <2>4. \A w \in Workers : sleeping[w] <=> pc[w] \in InBed
      BY <1>i DEF BarrierInit, InBed
    <2>. QED BY <2>2, <2>3, <2>4 DEF Sleepers
  <1>6. Receivers
    BY <1>i DEF BarrierInit, Receivers
  <1>. QED BY <1>1, <1>2, <1>3, <1>4, <1>5, <1>6 DEF IInv

LEMMA OrdinaryKeeps ==
  ASSUME IInv, NEW w \in Workers, Ordinary(w)
  PROVE  IInv'
  <1>1. /\ pc[w] \in Work /\ pc'[w] \in Work /\ pc' \in [Workers -> Labels]
        /\ registered' = registered /\ holder' = holder /\ global' = global
        /\ asleep' = asleep /\ sleeping' = sleeping /\ done' = done
        /\ asked' = asked /\ failed' = failed /\ problem' = problem
    BY DEF Ordinary, lockVars, sleepVars, loopVars
  <1>2. Types'
    BY <1>1 DEF Ordinary, IInv, Types
  <1>3. \A v \in Workers : \/ pc'[v] = pc[v]
                           \/ v = w
                           \/ pc[v] = "waiting" /\ pc'[v] = "relock"
    BY DEF Ordinary, Rouse
  <1>4. Registration'
    BY <1>1, <1>3 DEF IInv, Registration, Work, InBed, Deciding
  <1>5. Locks'
    BY <1>1, <1>3 DEF IInv, Locks, Work
  <1>6. Over'
    BY <1>1, <1>3, UpIsNotOver DEF IInv, Over, Work
  <1>7. Sleepers'
    <2>1. \A v \in Workers : pc'[v] \in InBed <=> pc[v] \in InBed
      BY <1>1, <1>3 DEF Work, InBed
    <2>2. Bed' = Bed
      BY <2>1 DEF Bed
    <2>. QED BY <1>1, <2>1, <2>2 DEF IInv, Sleepers
  <1>8. Receivers'
    BY <1>1, <1>3 DEF Ordinary, IInv, Receivers
  <1>. QED BY <1>2, <1>4, <1>5, <1>6, <1>7, <1>8 DEF IInv

LEMMA StutterKeeps == IInv /\ UNCHANGED vars => IInv'
  <1> SUFFICES ASSUME IInv, UNCHANGED vars PROVE IInv'
    OBVIOUS
  <1>1. /\ pc' = pc /\ holder' = holder /\ sleeping' = sleeping /\ back' = back
        /\ receiver' = receiver /\ problem' = problem /\ failed' = failed /\ done' = done
        /\ asked' = asked /\ registered' = registered /\ global' = global
        /\ asleep' = asleep /\ inbox' = inbox
    BY DEF vars, barrierVars, searchVars, lockVars, sleepVars, loopVars
  <1>2. Bed' = Bed /\ \A w \in Workers : WorkWaiting(w)' = WorkWaiting(w)
    BY <1>1 DEF Bed, WorkWaiting
  <1>. QED BY <1>1, <1>2 DEF IInv, Types, Registration, Locks, Over, Sleepers, Receivers

\* Notification changes nothing but "waiting", of others.
LEMMA NotifiedRouses ==
  ASSUME Types, NEW w \in Workers, NEW l \in Labels, l # "waiting", NEW S,
         pc' = Notified([pc EXCEPT ![w] = l], S)
  PROVE  pc' \in [Workers -> Labels] /\ pc'[w] = l /\ Rouse(w)
  <1> DEFINE p == [pc EXCEPT ![w] = l]
  <1>1. pc \in [Workers -> Labels] /\ p \in [Workers -> Labels] /\ p[w] = l
    BY DEF Types
  <1>2. pc' = [v \in Workers |-> IF v \in S /\ p[v] = "waiting" THEN "relock" ELSE p[v]]
    BY DEF Notified
  <1>3. \A v \in Workers \ {w} : p[v] = pc[v]
    BY <1>1
  <1>4. "relock" \in Labels
    BY DEF Labels, InBed
  <1>. HIDE DEF p
  <1>. QED BY <1>1, <1>2, <1>3, <1>4 DEF Rouse

\* So does a step from one label to another.
LEMMA GotoRouses ==
  ASSUME Types, NEW w \in Workers, NEW l \in Labels, pc' = [pc EXCEPT ![w] = l]
  PROVE  pc' \in [Workers -> Labels] /\ pc'[w] = l /\ Rouse(w)
  <1>1. pc \in [Workers -> Labels]
    BY DEF Types
  <1>. QED BY <1>1 DEF Rouse

-----------------------------------------------------------------------------
(* The search, outside of the barrier.                                     *)

\* Nothing of the barrier changes, and nobody to be woken up is chosen.
Plain(w) ==
  /\ pc[w] \in Work
  /\ \E l \in Work \ {"wakeup"} : pc' = [pc EXCEPT ![w] = l]
  /\ UNCHANGED <<problem, receiver, back, lockVars, sleepVars, done, loopVars>>

LEMMA PlainIsOrdinary ==
  ASSUME IInv, NEW w \in Workers, Plain(w)
  PROVE  Ordinary(w)
  <1>1. PICK l \in Work \ {"wakeup"} : pc' = [pc EXCEPT ![w] = l]
    BY DEF Plain
  <1>2. Types /\ l \in Labels
    BY DEF IInv, Labels
  <1>3. pc' \in [Workers -> Labels] /\ pc'[w] = l /\ Rouse(w)
    BY <1>1, <1>2, GotoRouses
  <1>. QED BY <1>2, <1>3 DEF Plain, Ordinary, Types

LEMMA SearchIsOrdinary ==
  ASSUME IInv, NEW w \in Workers, Search(w), ~Start(w)
  PROVE  Ordinary(w)
  <1>t. Types /\ Work \subseteq Labels
    BY DEF IInv, Labels
  <1>1. CASE SendEdge(w)
    <2>1. PICK n \in Nodes : receiver' = [receiver EXCEPT ![w] = problem.owner[n]]
      BY <1>1 DEF SendEdge
    <2>2. problem.owner[n] \in Workers
      BY <1>t, SearchAssumption DEF Types
    <2>3. pc[w] = "edges" /\ pc' = [pc EXCEPT ![w] = "wakeup"]
      BY <1>1 DEF SendEdge, Goto
    <2>4. "wakeup" \in Work /\ "edges" \in Work
      BY DEF Work
    <2>5. pc' \in [Workers -> Labels] /\ pc'[w] = "wakeup" /\ Rouse(w)
      BY <1>t, <2>3, <2>4, GotoRouses
    <2>6. UNCHANGED <<problem, back, lockVars, sleepVars, done, loopVars>>
      BY <1>1 DEF SendEdge, quietVars
    <2>. QED BY <1>t, <2>1, <2>2, <2>3, <2>4, <2>5, <2>6 DEF Ordinary, Types
  <1>2. CASE WakeReceiver(w)
    <2>1. /\ pc[w] = "wakeup"
          /\ pc' = Notified([pc EXCEPT ![w] = "edges"],
                            IF sleeping[receiver[w]] THEN {receiver[w]} ELSE {})
          /\ receiver' = [receiver EXCEPT ![w] = NoOne]
          /\ UNCHANGED <<problem, back, lockVars, sleepVars, done, loopVars>>
      BY <1>2 DEF WakeReceiver, Wakeup
    <2>2. "wakeup" \in Work /\ "edges" \in Work
      BY DEF Work
    <2>3. pc' \in [Workers -> Labels] /\ pc'[w] = "edges" /\ Rouse(w)
      BY <1>t, <2>1, <2>2, NotifiedRouses
    <2>. QED BY <1>t, <2>1, <2>2, <2>3 DEF Ordinary, Types
  <1>3. CASE StoreEdge(w) \/ GoalEdge(w) \/ Interrupt(w) \/ Terminate(w)
    <2>1. pc[w] \in {"edges", "interrupt"}
      BY <1>3 DEF StoreEdge, GoalEdge, Interrupt, Terminate, NextEdge, Goto
    <2>2. pc' = [pc EXCEPT ![w] = "interrupt"] \/ pc' = [pc EXCEPT ![w] = "edges"]
      BY <1>3, <1>t DEF StoreEdge, GoalEdge, Interrupt, Terminate, NextEdge, Goto, Types
    <2>3. UNCHANGED <<problem, receiver, back, lockVars, sleepVars, done, loopVars>>
      BY <1>3 DEF StoreEdge, GoalEdge, Interrupt, Terminate, quietVars
    <2>4. Plain(w)
      BY <2>1, <2>2, <2>3 DEF Plain, Work
    <2>. QED BY <2>4, PlainIsOrdinary
  <1>4. CASE Restart(w) \/ Close(w) \/ Received(w)
    <2>1. pc[w] = "edges" /\ \E l \in {"loop", "process", "receive"} : pc' = [pc EXCEPT ![w] = l]
      BY <1>4 DEF Restart, Close, Received, Goto
    <2>2. UNCHANGED <<problem, receiver, back, lockVars, sleepVars, done, loopVars>>
      BY <1>4 DEF Restart, Close, Received, quietVars, searchVars
    <2>3. Plain(w)
      BY <2>1, <2>2 DEF Plain, Work
    <2>. QED BY <2>3, PlainIsOrdinary
  <1>5. CASE Messages(w) \/ Receive(w) \/ ReceiveNext(w) \/ Drain(w)
    <2>1. /\ pc[w] \in {"loop", "receive", "drain"}
          /\ \E l \in {"receive", "edges", "loop", "drain"} : pc' = [pc EXCEPT ![w] = l]
      BY <1>5, <1>t DEF Messages, Receive, ReceiveNext, Drain, Goto, Types
    <2>2. UNCHANGED <<problem, receiver, back, lockVars, sleepVars, done, loopVars>>
      BY <1>5 DEF Messages, Receive, ReceiveNext, Drain, quietVars, searchVars
    <2>3. Plain(w)
      BY <2>1, <2>2 DEF Plain, Work
    <2>. QED BY <2>3, PlainIsOrdinary
  <1>6. CASE ProcessQueue(w) \/ Open(w) \/ QueueEmpty(w)
    <2>1. /\ pc[w] \in {"loop", "process"}
          /\ \E l \in {"process", "edges", "loop"} : pc' = [pc EXCEPT ![w] = l]
      BY <1>6 DEF ProcessQueue, Open, QueueEmpty, Goto
    <2>2. UNCHANGED <<problem, receiver, back, lockVars, sleepVars, done, loopVars>>
      BY <1>6 DEF ProcessQueue, Open, QueueEmpty, quietVars, searchVars
    <2>3. Plain(w)
      BY <2>1, <2>2 DEF Plain, Work
    <2>. QED BY <2>3, PlainIsOrdinary
  <1>7. CASE Interrupted(w) \/ Drained(w) \/ Idle(w)
    <2>1. \E a, c \in {"loop", "drain"} : GoIdle(w, a, c) /\ UNCHANGED searchVars
      BY <1>7 DEF Interrupted, Drained, Idle
    <2>2. PICK c \in {"loop", "drain"} :
            /\ pc[w] \in {"loop", "drain"}
            /\ pc' = [pc EXCEPT ![w] = "expect"]
            /\ back' = [back EXCEPT ![w] = c]
            /\ UNCHANGED <<problem, receiver, lockVars, sleepVars, done, loopVars>>
      BY <2>1 DEF GoIdle, Goto, searchVars
    <2>3. "loop" \in Work /\ "drain" \in Work /\ "expect" \in Work
      BY DEF Work
    <2>4. pc' \in [Workers -> Labels] /\ pc'[w] = "expect" /\ Rouse(w)
      BY <1>t, <2>2, <2>3, GotoRouses
    <2>. QED BY <1>t, <2>2, <2>3, <2>4 DEF Ordinary, Types
  <1>. QED BY <1>1, <1>2, <1>3, <1>4, <1>5, <1>6, <1>7 DEF Search

-----------------------------------------------------------------------------
(* Coming, and the steps of maybeIdle.                                     *)

LEMMA StartKeeps ==
  ASSUME IInv, NEW w \in Workers, Start(w)
  PROVE  IInv'
  <1>1. /\ pc[w] = "register" /\ pc' = [pc EXCEPT ![w] = "edges"]
        /\ global = NoOne /\ global' = NoOne
        /\ registered' = registered \cup {w}
        /\ holder' = [holder EXCEPT ![w] = w]
        /\ asleep' = asleep /\ sleeping' = sleeping /\ done' = done
        /\ asked' = asked /\ failed' = failed /\ problem' = problem
        /\ back' = back /\ receiver' = receiver
    BY DEF Start, Register, Goto, sleepVars, loopVars
  <1>2. Types'
    BY <1>1 DEF IInv, Types, Labels, Work
  <1>3. \A v \in Workers : pc'[v] = IF v = w THEN "edges" ELSE pc[v]
    BY <1>1 DEF IInv, Types
  <1>4. \A v \in Workers : pc[v] \notin Deciding \cup InBed \cup {"finished"}
    BY <1>1 DEF IInv, Registration
  <1>5. Registration'
    BY <1>1, <1>3, <1>4 DEF IInv, Registration, InBed, Deciding
  <1>6. Locks'
    BY <1>1, <1>3, <1>4 DEF IInv, Types, Locks, Deciding
  <1>7. Over'
    BY <1>1, <1>3, UpIsNotOver DEF IInv, Over
  <1>8. Sleepers'
    <2>1. \A v \in Workers : pc'[v] \in InBed <=> pc[v] \in InBed
      BY <1>1, <1>3 DEF InBed
    <2>2. Bed' = Bed
      BY <2>1 DEF Bed
    <2>. QED BY <1>1, <2>1, <2>2 DEF IInv, Sleepers
  <1>9. Receivers'
    BY <1>1, <1>3 DEF IInv, Receivers
  <1>. QED BY <1>2, <1>5, <1>6, <1>7, <1>8, <1>9 DEF IInv

\* Whoever asks the barrier finds that all have come, or tries again.
LEMMA ExpectKeeps ==
  ASSUME IInv, NEW w \in Workers, In(Expect(w))
  PROVE  IInv'
  <1>1. /\ pc[w] = "expect"
        /\ UNCHANGED <<problem, receiver, back, lockVars, sleepVars, done, loopVars>>
    BY DEF In, Expect, searchVars
  <1>2. CASE Cardinality(registered) < N
    <2>1. pc' = [pc EXCEPT ![w] = back[w]] /\ back[w] \in {"loop", "drain"}
      BY <1>2 DEF In, Expect, NotYet, IInv, Types
    <2>2. Plain(w)
      BY <1>1, <2>1 DEF Plain, Work
    <2>. QED BY <2>2, PlainIsOrdinary, OrdinaryKeeps
  <1>3. CASE ~(Cardinality(registered) < N)
    <2>1. pc' = [pc EXCEPT ![w] = "global"]
      BY <1>3 DEF In, Expect, Goto
    <2>2. /\ registered' = registered /\ holder' = holder /\ global' = global
          /\ asleep' = asleep /\ sleeping' = sleeping /\ done' = done
          /\ asked' = asked /\ failed' = failed /\ problem' = problem
          /\ back' = back /\ receiver' = receiver
      BY <1>1 DEF lockVars, sleepVars, loopVars
    <2>3. registered = Workers
      <3>1. registered \subseteq Workers
        BY DEF IInv, Registration
      <3>2. IsFiniteSet(registered) /\ Cardinality(registered) <= N
            /\ (Cardinality(registered) = N => registered = Workers)
        BY <3>1, WorkersFinite, FS_Subset
      <3>3. Cardinality(registered) \in Nat
        BY <3>2, FS_CardinalityType
      <3>. QED BY <1>3, <3>2, <3>3, WorkersFinite
    <2>4. \A v \in Workers : pc[v] # "register"
      BY <2>3 DEF IInv, Registration
    <2>5. Types'
      BY <2>1, <2>2 DEF IInv, Types, Labels, Deciding
    <2>6. \A v \in Workers : pc'[v] = IF v = w THEN "global" ELSE pc[v]
      BY <2>1 DEF IInv, Types
    <2>7. Registration'
      BY <1>1, <2>2, <2>4, <2>6 DEF IInv, Registration
    <2>8. Locks'
      BY <1>1, <2>2, <2>6 DEF IInv, Locks
    <2>9. Over'
      BY <1>1, <2>2, <2>6, UpIsNotOver DEF IInv, Over
    <2>10. Sleepers'
      <3>1. \A v \in Workers : pc'[v] \in InBed <=> pc[v] \in InBed
        BY <1>1, <2>6 DEF InBed
      <3>2. Bed' = Bed
        BY <3>1 DEF Bed
      <3>. QED BY <2>2, <3>1, <3>2 DEF IInv, Sleepers
    <2>11. Receivers'
      BY <1>1, <2>2, <2>6 DEF IInv, Receivers
    <2>. QED BY <2>5, <2>7, <2>8, <2>9, <2>10, <2>11 DEF IInv
  <1>. QED BY <1>2, <1>3

LEMMA TakeGlobalKeeps ==
  ASSUME IInv, NEW w \in Workers, In(TakeGlobal(w))
  PROVE  IInv'
  <1>1. /\ pc[w] = "global" /\ pc' = [pc EXCEPT ![w] = "lockout"]
        /\ global = NoOne /\ global' = w
        /\ done' = FALSE /\ asked' = {w} /\ failed' = FALSE
        /\ registered' = registered /\ holder' = holder
        /\ asleep' = asleep /\ sleeping' = sleeping
        /\ problem' = problem /\ back' = back /\ receiver' = receiver
    BY DEF In, TakeGlobal, Goto, sleepVars, searchVars
  <1>2. Types'
    BY <1>1 DEF IInv, Types, Labels, Deciding
  <1>3. \A v \in Workers : pc'[v] = IF v = w THEN "lockout" ELSE pc[v]
    BY <1>1 DEF IInv, Types
  <1>4. Registration'
    BY <1>1, <1>3 DEF IInv, Registration, Deciding
  <1>5. Locks'
    BY <1>1, <1>3, WorkersFinite DEF IInv, Locks
  <1>6. Over'
    BY <1>1, <1>3, UpIsNotOver DEF IInv, Over
  <1>7. Sleepers'
    <2>1. \A v \in Workers : pc'[v] \in InBed <=> pc[v] \in InBed
      BY <1>1, <1>3 DEF InBed
    <2>2. Bed' = Bed
      BY <2>1 DEF Bed
    <2>. QED BY <1>1, <2>1, <2>2 DEF IInv, Sleepers
  <1>8. Receivers'
    BY <1>1, <1>3 DEF IInv, Receivers
  <1>. QED BY <1>2, <1>4, <1>5, <1>6, <1>7, <1>8 DEF IInv

LEMMA TryLockKeeps ==
  ASSUME IInv, NEW w \in Workers, In(TryLock(w))
  PROVE  IInv'
  <1>1. PICK v \in registered \ asked :
          /\ pc[w] = "lockout"
          /\ \/ holder[v] = NoOne /\ holder' = [holder EXCEPT ![v] = w] /\ failed' = failed
             \/ holder[v] # NoOne /\ holder' = holder /\ failed' = TRUE
          /\ asked' = asked \cup {v}
    BY DEF In, TryLock
  <1>2. /\ inbox' = inbox /\ registered' = registered /\ global' = global /\ done' = done
        /\ asleep' = asleep /\ sleeping' = sleeping /\ pc' = pc
        /\ problem' = problem /\ back' = back /\ receiver' = receiver
    BY DEF In, TryLock, sleepVars, searchVars
  <1>3. v \in Workers
    BY DEF IInv, Registration
  <1>4. Types'
    BY <1>1, <1>2, <1>3 DEF IInv, Types
  <1>5. Locks'
    <2>1. \A u \in Workers : pc[u] = "lockout" => u = w
      BY <1>1 DEF IInv, Locks
    <2>. QED BY <1>1, <1>2, <1>3, <2>1, WorkersFinite DEF IInv, Types, Locks
  <1>6. Registration' /\ Receivers'
    BY <1>2 DEF IInv, Registration, Receivers
  <1>7. Over'
    BY <1>1, <1>2, UpIsNotOver DEF IInv, Over
  <1>8. Sleepers'
    <2>1. Bed' = Bed
      BY <1>2 DEF Bed
    <2>. QED BY <1>2, <2>1 DEF IInv, Sleepers
  <1>. QED BY <1>4, <1>5, <1>6, <1>7, <1>8 DEF IInv

\* Whoever has locked all the others out, and finds no work, is the only one up:
\* the others are in bed, or waiting for their own mutexes.
LEMMA LockedOutSleep ==
  ASSUME IInv, NEW w \in Workers, pc[w] = "lockout", NEW v \in LockedOut(w)
  PROVE  v \in Workers /\ v # w /\ pc[v] \in {"waiting", "relock"}
  <1>1. v \in Workers /\ v # w /\ holder[v] = w
    BY DEF LockedOut
  <1>2. pc[v] # "register" /\ pc[v] # "finished"
    BY <1>1, UpIsNotOver DEF IInv, Registration, Deciding
  <1>. QED BY <1>1, <1>2 DEF IInv, Locks

LEMMA FoundDoneKeeps ==
  ASSUME IInv, NEW w \in Workers, In(FoundDone(w))
  PROVE  IInv'
  <1>1. /\ pc[w] = "lockout" /\ registered \subseteq asked /\ NoWorkLeft(w)
        /\ pc' = Notified([pc EXCEPT ![w] = "finished"], Workers \ {w})
        /\ done' = TRUE /\ global' = NoOne
        /\ holder' = [Released(w) EXCEPT ![w] = NoOne]
        /\ registered' = registered \ {w}
        /\ inbox' = inbox /\ asleep' = asleep /\ sleeping' = sleeping
        /\ asked' = asked /\ failed' = failed
        /\ problem' = problem /\ back' = back /\ receiver' = receiver
    BY DEF In, FoundDone, Leave, sleepVars, loopVars, searchVars
  <1>2. \A v \in Workers : pc[v] # "register" /\ pc[v] # "finished"
    BY <1>1, UpIsNotOver DEF IInv, Registration, Deciding
  <1>3. registered = Workers
    BY <1>2 DEF IInv, Registration
  <1>4. \A v \in Workers \ {w} : v \in LockedOut(w)
    BY <1>1, <1>3 DEF NoWorkLeft, IInv, Locks, LockedOut
  <1>5. \A v \in Workers \ {w} : pc[v] \in {"waiting", "relock"}
    BY <1>1, <1>4, LockedOutSleep
  <1>6. \A v \in Workers : pc'[v] = IF v = w THEN "finished" ELSE "relock"
    <2> DEFINE p == [pc EXCEPT ![w] = "finished"]
    <2>1. \A v \in Workers : p[v] = IF v = w THEN "finished" ELSE pc[v]
      BY DEF IInv, Types
    <2>2. pc' = [v \in Workers |->
                   IF v \in Workers \ {w} /\ p[v] = "waiting" THEN "relock" ELSE p[v]]
      BY <1>1 DEF Notified
    <2>. HIDE DEF p
    <2>. QED BY <1>5, <2>1, <2>2
  <1>7. \A v \in Workers : holder'[v] = NoOne
    <2>1. \A v \in Workers \ {w} : Released(w)[v] = NoOne
      BY <1>4 DEF Released
    <2>2. Released(w) = [v \in Workers |-> IF v \in LockedOut(w) THEN NoOne ELSE holder[v]]
      BY DEF Released
    <2>. QED BY <1>1, <2>1, <2>2
  <1>8. Types'
    <2>1. pc' \in [Workers -> Labels]
      BY <1>1, NotifiedRouses DEF IInv, Labels
    <2>2. holder' \in [Workers -> Workers \cup {NoOne}]
      BY <1>1, <1>7 DEF Released
    <2>. QED BY <1>1, <2>1, <2>2 DEF IInv, Types
  <1>9. Registration'
    BY <1>1, <1>3, <1>6 DEF Registration
  <1>10. Locks'
    BY <1>6, <1>7, WorkersFinite DEF Locks
  <1>11. Over'
    <2>1. \A v \in Workers : ~WorkWaiting(v)'
      BY <1>1, <1>3 DEF NoWorkLeft, WorkWaiting
    <2>. QED BY <1>1, <1>6, <2>1 DEF Over
  <1>12. Sleepers'
    <2>1. \A v \in Workers : pc'[v] \in InBed <=> pc[v] \in InBed
      BY <1>1, <1>5, <1>6 DEF InBed
    <2>2. Bed' = Bed
      BY <2>1 DEF Bed
    <2>. QED BY <1>1, <2>1, <2>2 DEF IInv, Sleepers
  <1>13. Receivers'
    BY <1>6 DEF Receivers
  <1>. QED BY <1>8, <1>9, <1>10, <1>11, <1>12, <1>13 DEF IInv

LEMMA NotDoneKeeps ==
  ASSUME IInv, NEW w \in Workers, In(NotDone(w))
  PROVE  IInv'
  <1>1. /\ pc[w] = "lockout" /\ pc' = [pc EXCEPT ![w] = "notify"]
        /\ holder' = Released(w)
        /\ asked' = {w}
        /\ registered' = registered /\ global' = global /\ done' = done
        /\ asleep' = asleep /\ sleeping' = sleeping /\ failed' = failed
        /\ problem' = problem /\ back' = back /\ receiver' = receiver
    BY DEF In, NotDone, Goto, sleepVars, searchVars
  <1>2. \A v \in Workers : holder'[v] = IF v # w /\ holder[v] = w THEN NoOne ELSE holder[v]
    BY <1>1 DEF Released, LockedOut
  <1>3. Types'
    BY <1>1, <1>2 DEF IInv, Types, Labels, Deciding, Released
  <1>4. \A v \in Workers : pc'[v] = IF v = w THEN "notify" ELSE pc[v]
    BY <1>1 DEF IInv, Types
  <1>5. Registration'
    BY <1>1, <1>4 DEF IInv, Registration, Deciding
  <1>6. Locks'
    <2>1. global = w /\ \A u \in Workers : pc[u] = "lockout" => u = w
      BY <1>1 DEF IInv, Locks
    <2>. QED BY <1>1, <1>2, <1>4, <2>1, WorkersFinite DEF IInv, Locks
  <1>7. Over'
    BY <1>1, <1>4, UpIsNotOver DEF IInv, Over
  <1>8. Sleepers'
    <2>1. \A v \in Workers : pc'[v] \in InBed <=> pc[v] \in InBed
      BY <1>1, <1>4 DEF InBed
    <2>2. Bed' = Bed
      BY <2>1 DEF Bed
    <2>. QED BY <1>1, <2>1, <2>2 DEF IInv, Sleepers
  <1>9. Receivers'
    BY <1>1, <1>4 DEF IInv, Receivers
  <1>. QED BY <1>3, <1>5, <1>6, <1>7, <1>8, <1>9 DEF IInv

LEMMA NotifyNextKeeps ==
  ASSUME IInv, NEW w \in Workers, In(NotifyNext(w))
  PROVE  IInv'
  <1>1. PICK u \in registered \ asked :
          /\ pc[w] = "notify"
          /\ asked' = asked \cup {u}
          /\ pc' = Notified(pc, IF WorkWaiting(u) THEN {u} ELSE {})
    BY DEF In, NotifyNext
  <1>2. /\ registered' = registered /\ holder' = holder /\ global' = global /\ done' = done
        /\ asleep' = asleep /\ sleeping' = sleeping /\ failed' = failed
        /\ problem' = problem /\ back' = back /\ receiver' = receiver
    BY DEF In, NotifyNext, lockVars, sleepVars, searchVars
  <1>3. /\ pc' \in [Workers -> Labels]
        /\ \A v \in Workers : \/ pc'[v] = pc[v]
                              \/ pc[v] = "waiting" /\ pc'[v] = "relock"
    <2>1. pc = [pc EXCEPT ![w] = "notify"] /\ "notify" \in Labels
      BY <1>1 DEF IInv, Types, Labels, Deciding
    <2>2. pc' \in [Workers -> Labels] /\ pc'[w] = "notify" /\ Rouse(w)
      BY <1>1, <2>1, NotifiedRouses DEF IInv
    <2>. QED BY <1>1, <2>2 DEF Rouse
  <1>4. u \in Workers
    BY DEF IInv, Registration
  <1>5. Types'
    BY <1>1, <1>2, <1>3, <1>4 DEF IInv, Types
  <1>6. Registration'
    BY <1>2, <1>3 DEF IInv, Registration, InBed, Deciding
  <1>7. Locks'
    <2>1. \A v \in Workers : pc[v] # "lockout"
      BY <1>1 DEF IInv, Locks
    <2>. QED BY <1>2, <1>3, <2>1 DEF IInv, Locks
  <1>8. Over'
    BY <1>1, <1>2, <1>3, UpIsNotOver DEF IInv, Over
  <1>9. Sleepers'
    <2>1. \A v \in Workers : pc'[v] \in InBed <=> pc[v] \in InBed
      BY <1>3 DEF InBed
    <2>2. Bed' = Bed
      BY <2>1 DEF Bed
    <2>. QED BY <1>2, <2>1, <2>2 DEF IInv, Sleepers
  <1>10. Receivers'
    BY <1>2, <1>3 DEF IInv, Receivers
  <1>. QED BY <1>5, <1>6, <1>7, <1>8, <1>9, <1>10 DEF IInv

-----------------------------------------------------------------------------
(* Going to bed and getting up.                                            *)

LEMMA BedFinite == IsFiniteSet(Bed) /\ Cardinality(Bed) \in Nat
  <1>1. Bed \subseteq Workers
    BY DEF Bed
  <1>2. IsFiniteSet(Bed)
    BY <1>1, WorkersFinite, FS_Subset
  <1>. QED BY <1>2, FS_CardinalityType

LEMMA GoToBedKeeps ==
  ASSUME IInv, NEW w \in Workers, In(GoToBed(w))
  PROVE  IInv'
  <1>1. /\ pc[w] = "notify" /\ pc' = [pc EXCEPT ![w] = "wait"]
        /\ asleep < N - 1 /\ asleep' = asleep + 1
        /\ sleeping' = [sleeping EXCEPT ![w] = TRUE]
        /\ global' = NoOne
        /\ registered' = registered /\ holder' = holder /\ done' = done
        /\ asked' = asked /\ failed' = failed
        /\ problem' = problem /\ back' = back /\ receiver' = receiver
    BY DEF In, GoToBed, MaySleep, Goto, loopVars, searchVars
  <1>2. Types'
    BY <1>1 DEF IInv, Types, Labels, InBed
  <1>3. \A v \in Workers : pc'[v] = IF v = w THEN "wait" ELSE pc[v]
    BY <1>1 DEF IInv, Types
  <1>4. Registration'
    BY <1>1, <1>3 DEF IInv, Registration, InBed, Deciding
  <1>5. Locks'
    <2>1. \A v \in Workers \ {w} : pc[v] \notin {"lockout", "notify"}
      BY <1>1 DEF IInv, Locks
    <2>. QED BY <1>1, <1>3, <2>1 DEF IInv, Locks
  <1>6. Over'
    BY <1>1, <1>3, UpIsNotOver DEF IInv, Over
  <1>7. Sleepers'
    <2>1. w \notin Bed /\ Bed' = Bed \cup {w}
      BY <1>1, <1>3 DEF Bed, InBed
    <2>2. Cardinality(Bed') = Cardinality(Bed) + 1
      BY <2>1, BedFinite, FS_AddElement
    <2>3. asleep' = Cardinality(Bed') /\ asleep' \in 0 .. N - 1
      BY <1>1, <2>2, WorkersFinite DEF IInv, Sleepers
    <2>4. \A v \in Workers : sleeping'[v] <=> pc'[v] \in InBed
      BY <1>1, <1>3 DEF IInv, Types, Sleepers, InBed
    <2>. QED BY <2>3, <2>4 DEF Sleepers
  <1>8. Receivers'
    BY <1>1, <1>3 DEF IInv, Receivers
  <1>. QED BY <1>2, <1>4, <1>5, <1>6, <1>7, <1>8 DEF IInv

LEMMA StayUpKeeps ==
  ASSUME IInv, NEW w \in Workers, In(StayUp(w))
  PROVE  IInv'
  <1>1. /\ pc[w] = "notify" /\ pc' = [pc EXCEPT ![w] = back[w]]
        /\ global' = NoOne
        /\ registered' = registered /\ holder' = holder /\ done' = done
        /\ asleep' = asleep /\ sleeping' = sleeping
        /\ asked' = asked /\ failed' = failed
        /\ problem' = problem /\ back' = back /\ receiver' = receiver
    BY DEF In, StayUp, NotYet, sleepVars, loopVars, searchVars
  <1>2. back[w] \in {"loop", "drain"}
    BY DEF IInv, Types
  <1>3. Types'
    BY <1>1, <1>2 DEF IInv, Types, Labels, Work
  <1>4. \A v \in Workers : pc'[v] = IF v = w THEN back[w] ELSE pc[v]
    BY <1>1 DEF IInv, Types
  <1>5. Registration'
    BY <1>1, <1>2, <1>4 DEF IInv, Registration, InBed, Deciding
  <1>6. Locks'
    <2>1. \A v \in Workers \ {w} : pc[v] \notin {"lockout", "notify"}
      BY <1>1 DEF IInv, Locks
    <2>. QED BY <1>1, <1>2, <1>4, <2>1 DEF IInv, Locks
  <1>7. Over'
    BY <1>1, <1>2, <1>4, UpIsNotOver DEF IInv, Over
  <1>8. Sleepers'
    <2>1. \A v \in Workers : pc'[v] \in InBed <=> pc[v] \in InBed
      BY <1>1, <1>2, <1>4 DEF InBed
    <2>2. Bed' = Bed
      BY <2>1 DEF Bed
    <2>. QED BY <1>1, <2>1, <2>2 DEF IInv, Sleepers
  <1>9. Receivers'
    BY <1>1, <1>2, <1>4 DEF IInv, Receivers
  <1>. QED BY <1>3, <1>5, <1>6, <1>7, <1>8, <1>9 DEF IInv

\* Waiting gives up the mutex, whoever returns from it takes it again.
LEMMA WaitKeeps ==
  ASSUME IInv, NEW w \in Workers, In(Wait(w) \/ Spurious(w) \/ Relock(w))
  PROVE  IInv'
  <1>1. /\ \/ /\ pc[w] = "wait" /\ pc' = [pc EXCEPT ![w] = "waiting"]
              /\ holder' = [holder EXCEPT ![w] = NoOne]
           \/ /\ pc[w] = "waiting" /\ pc' = [pc EXCEPT ![w] = "relock"]
              /\ holder' = holder
           \/ /\ pc[w] = "relock" /\ pc' = [pc EXCEPT ![w] = "wake"]
              /\ holder[w] = NoOne /\ holder' = [holder EXCEPT ![w] = w]
        /\ registered' = registered /\ global' = global /\ done' = done
        /\ asleep' = asleep /\ sleeping' = sleeping
        /\ asked' = asked /\ failed' = failed /\ inbox' = inbox
        /\ problem' = problem /\ back' = back /\ receiver' = receiver
    BY DEF In, Wait, Spurious, Relock, Goto, lockVars, sleepVars, loopVars, searchVars
  <1>2. Types'
    BY <1>1 DEF IInv, Types, Labels, InBed
  <1>3. \A v \in Workers : v # w => pc'[v] = pc[v] /\ holder'[v] = holder[v]
    BY <1>1 DEF IInv, Types
  <1>4. \/ pc[w] = "wait" /\ pc'[w] = "waiting" /\ holder'[w] = NoOne
        \/ pc[w] = "waiting" /\ pc'[w] = "relock" /\ holder'[w] = holder[w]
        \/ pc[w] = "relock" /\ pc'[w] = "wake" /\ holder[w] = NoOne /\ holder'[w] = w
    BY <1>1 DEF IInv, Types
  <1>5. Registration'
    BY <1>1, <1>3, <1>4 DEF IInv, Registration, InBed, Deciding
  <1>6. Locks'
    <2>1. asked \subseteq Workers
      BY DEF IInv, Types
    <2>2. \A u \in Workers : pc'[u] \in {"lockout", "notify"} <=> pc[u] \in {"lockout", "notify"}
      BY <1>3, <1>4
    <2>3. \A u \in Workers : pc'[u] = "lockout" <=> pc[u] = "lockout"
      BY <1>3, <1>4
    <2>4. \A u \in Workers :
            pc'[u] \notin {"register", "waiting", "relock", "finished"} => holder'[u] = u
      BY <1>3, <1>4 DEF IInv, Locks
    <2>5. \A v, u \in Workers : v # u /\ holder'[v] = u => pc'[u] = "lockout"
      BY <1>3, <1>4, <2>3, WorkersFinite DEF IInv, Locks
    <2>6. ASSUME NEW u \in Workers, pc'[u] = "lockout", ~failed', NEW v \in asked' \ {u}
          PROVE  holder'[v] = u
      <3>1. v \in Workers /\ holder[v] = u /\ u # NoOne /\ v # u
        BY <1>1, <2>1, <2>3, <2>6, WorkersFinite DEF IInv, Locks
      <3>2. CASE v # w
        BY <1>3, <3>1, <3>2
      <3>3. CASE v = w
        \* Its holder is neither nobody nor itself, so that it is waiting.
        BY <1>4, <3>1, <3>3 DEF IInv, Locks
      <3>. QED BY <3>2, <3>3
    <2>. QED BY <1>1, <2>2, <2>4, <2>5, <2>6 DEF IInv, Locks
  <1>7. Over'
    <2>1. \A v \in Workers : WorkWaiting(v)' = WorkWaiting(v)
      BY <1>1 DEF WorkWaiting
    <2>. QED BY <1>1, <1>3, <1>4, <2>1 DEF IInv, Over
  <1>8. Sleepers'
    <2>1. \A v \in Workers : pc'[v] \in InBed <=> pc[v] \in InBed
      BY <1>3, <1>4 DEF InBed
    <2>2. Bed' = Bed
      BY <2>1 DEF Bed
    <2>. QED BY <1>1, <2>1, <2>2 DEF IInv, Sleepers
  <1>9. Receivers'
    BY <1>1, <1>3, <1>4 DEF IInv, Receivers
  <1>. QED BY <1>2, <1>5, <1>6, <1>7, <1>8, <1>9 DEF IInv

\* One sleeper less is counted.
LEMMA WokenCounts ==
  ASSUME IInv, NEW w \in Workers, Woken(w), pc[w] = "wake",
         pc' \in [Workers -> Labels], pc'[w] \notin InBed,
         \A v \in Workers \ {w} : pc'[v] = pc[v]
  PROVE  Sleepers'
  <1>1. asleep' = asleep - 1 /\ sleeping' = [sleeping EXCEPT ![w] = FALSE]
    BY DEF Woken
  <1>2. w \in Bed /\ Bed' = Bed \ {w}
    BY DEF Bed, InBed
  <1>3. Cardinality(Bed') = Cardinality(Bed) - 1 /\ Cardinality(Bed') \in Nat
    <2>1. IsFiniteSet(Bed') /\ Cardinality(Bed') = Cardinality(Bed) - 1
      BY <1>2, BedFinite, FS_RemoveElement
    <2>. QED BY <2>1, FS_CardinalityType
  <1>4. asleep' = Cardinality(Bed') /\ asleep' \in 0 .. N - 1
    BY <1>1, <1>3, WorkersFinite DEF IInv, Sleepers
  <1>5. \A v \in Workers : sleeping'[v] <=> pc'[v] \in InBed
    BY <1>1 DEF IInv, Types, Sleepers
  <1>. QED BY <1>4, <1>5 DEF Sleepers

LEMMA WakeDoneKeeps ==
  ASSUME IInv, NEW w \in Workers, In(WakeDone(w))
  PROVE  IInv'
  <1>1. /\ done /\ pc[w] = "wake" /\ pc' = [pc EXCEPT ![w] = "finished"]
        /\ Woken(w)
        /\ holder' = [holder EXCEPT ![w] = NoOne]
        /\ registered' = registered \ {w} /\ global' = NoOne
        /\ sleeping' = [sleeping EXCEPT ![w] = FALSE]
        /\ done' = done /\ asked' = asked /\ failed' = failed /\ inbox' = inbox
        /\ problem' = problem /\ back' = back /\ receiver' = receiver
    BY DEF In, WakeDone, Woken, Leave, Goto, loopVars, searchVars
  <1>2. Types'
    BY <1>1 DEF IInv, Types, Labels
  <1>3. \A v \in Workers : pc'[v] = IF v = w THEN "finished" ELSE pc[v]
    BY <1>1 DEF IInv, Types
  <1>4. \A v \in Workers : pc[v] \in {"relock", "wake", "finished"} /\ ~WorkWaiting(v)
    BY <1>1 DEF IInv, Over
  <1>5. Registration'
    BY <1>1, <1>3, <1>4 DEF IInv, Registration
  <1>6. Locks'
    BY <1>1, <1>3, <1>4, WorkersFinite DEF IInv, Types, Locks
  <1>7. Over'
    <2>1. \A v \in Workers : WorkWaiting(v)' = WorkWaiting(v)
      BY <1>1 DEF WorkWaiting
    <2>. QED BY <1>1, <1>3, <1>4, <2>1 DEF Over
  <1>8. Sleepers'
    BY <1>1, <1>2, <1>3, WokenCounts DEF Types, InBed
  <1>9. Receivers'
    BY <1>3, <1>4 DEF Receivers
  <1>. QED BY <1>2, <1>5, <1>6, <1>7, <1>8, <1>9 DEF IInv

LEMMA WakeWorkKeeps ==
  ASSUME IInv, NEW w \in Workers, In(WakeWork(w))
  PROVE  IInv'
  <1>1. /\ ~done /\ pc[w] = "wake" /\ pc' = [pc EXCEPT ![w] = back[w]]
        /\ Woken(w)
        /\ sleeping' = [sleeping EXCEPT ![w] = FALSE]
        /\ registered' = registered /\ holder' = holder /\ global' = global
        /\ done' = done /\ asked' = asked /\ failed' = failed
        /\ problem' = problem /\ back' = back /\ receiver' = receiver
    BY DEF In, WakeWork, Woken, NotYet, lockVars, loopVars, searchVars
  <1>2. back[w] \in {"loop", "drain"}
    BY DEF IInv, Types
  <1>3. Types'
    BY <1>1, <1>2 DEF IInv, Types, Labels, Work
  <1>4. \A v \in Workers : pc'[v] = IF v = w THEN back[w] ELSE pc[v]
    BY <1>1 DEF IInv, Types
  <1>5. Registration'
    BY <1>1, <1>2, <1>4 DEF IInv, Registration, InBed, Deciding
  <1>6. Locks'
    BY <1>1, <1>2, <1>4 DEF IInv, Locks
  <1>7. Over'
    BY <1>1, <1>2, <1>4 DEF IInv, Over
  <1>8. Sleepers'
    BY <1>1, <1>2, <1>3, <1>4, WokenCounts DEF Types, InBed
  <1>9. Receivers'
    BY <1>1, <1>2, <1>4 DEF IInv, Receivers
  <1>. QED BY <1>3, <1>5, <1>6, <1>7, <1>8, <1>9 DEF IInv

-----------------------------------------------------------------------------
(* The theorems.                                                           *)

LEMMA StepIInv == IInv /\ [Next]_vars => IInv'
  <1> SUFFICES ASSUME IInv, [Next]_vars PROVE IInv'
    OBVIOUS
  <1>1. CASE Joined \/ UNCHANGED vars
    BY <1>1, StutterKeeps DEF Joined
  <1>2. ASSUME NEW w \in Workers, BarrierStep(w)
        PROVE  IInv'
    <2>1. CASE In(Expect(w)) \/ In(TakeGlobal(w)) \/ In(TryLock(w)) \/ In(FoundDone(w))
      BY <2>1, ExpectKeeps, TakeGlobalKeeps, TryLockKeeps, FoundDoneKeeps
    <2>2. CASE In(NotDone(w)) \/ In(NotifyNext(w)) \/ In(GoToBed(w)) \/ In(StayUp(w))
      BY <2>2, NotDoneKeeps, NotifyNextKeeps, GoToBedKeeps, StayUpKeeps
    <2>3. CASE In(Wait(w)) \/ In(Relock(w))
      <3>1. In(Wait(w) \/ Spurious(w) \/ Relock(w))
        BY <2>3 DEF In
      <3>. QED BY <3>1, WaitKeeps
    <2>4. CASE In(WakeDone(w)) \/ In(WakeWork(w))
      BY <2>4, WakeDoneKeeps, WakeWorkKeeps
    <2>. QED BY <1>2, <2>1, <2>2, <2>3, <2>4 DEF BarrierStep
  <1>3. ASSUME NEW w \in Workers, Search(w)
        PROVE  IInv'
    <2>1. CASE Start(w)
      BY <2>1, StartKeeps
    <2>2. CASE ~Start(w)
      BY <1>3, <2>2, SearchIsOrdinary, OrdinaryKeeps
    <2>. QED BY <2>1, <2>2
  <1>4. ASSUME NEW w \in Workers, SpuriousWakeup(w)
        PROVE  IInv'
    <2>1. In(Wait(w) \/ Spurious(w) \/ Relock(w))
      BY <1>4 DEF SpuriousWakeup, In
    <2>. QED BY <2>1, WaitKeeps
  <1>. QED BY <1>1, <1>2, <1>3, <1>4 DEF Next

LEMMA AlwaysIInv == Spec => []IInv
  BY InitIInv, StepIInv, PTL DEF Spec

\* The end: once idle() has told one worker that all is over
\* (divine/toolkit/barrier.h:84-111), nobody has anything to do any more, in
\* any search by any number of workers.
THEOREM QuietEnd == Spec => []EndIsQuiet
  <1>1. IInv => EndIsQuiet
    BY DEF IInv, Over, EndIsQuiet
  <1>. QED BY <1>1, AlwaysIInv, PTL

\* The assertion of divine/toolkit/barrier.h:116: those who are locked out are
\* among those who are counted as sleepers.
THEOREM SleepersAreCounted == Spec => []SleepersCounted
  <1>1. IInv => SleepersCounted
    <2> SUFFICES ASSUME IInv, NEW w \in Workers, pc[w] = "lockout"
                 PROVE  Cardinality(LockedOut(w)) <= asleep
      BY DEF SleepersCounted
    <2>1. LockedOut(w) \subseteq Bed
      BY LockedOutSleep DEF Bed, InBed
    <2>2. Cardinality(LockedOut(w)) <= Cardinality(Bed)
      BY <2>1, BedFinite, FS_Subset
    <2>. QED BY <2>2 DEF IInv, Sleepers
  <1>. QED BY <1>1, AlwaysIInv, PTL

\* Never is everyone in bed (divine/toolkit/barrier.h:149): a worker that could
\* find the end, or wake up those who have messages, is always up.
THEOREM OneStaysUp == Spec => []SomeoneIsUp
  <1>1. IInv => SomeoneIsUp
    <2> SUFFICES ASSUME IInv, \A w \in Workers : pc[w] \in {"wait", "waiting"}
                 PROVE  FALSE
      BY DEF SomeoneIsUp
    <2>1. Bed = Workers
      BY DEF Bed, InBed
    <2>. QED BY <2>1, WorkersFinite DEF IInv, Sleepers
  <1>. QED BY <1>1, AlwaysIInv, PTL

\* The unlocked reads of wakeup (divine/toolkit/barrier.h:57-60) find the maps of
\* the barrier as they will stay while the receiver sleeps.
THEOREM WakeupReadsStableMaps == Spec => []WakeupIsSafe
  <1>1. IInv => WakeupIsSafe
    <2> SUFFICES ASSUME IInv, NEW w \in Workers, pc[w] = "wakeup", sleeping[receiver[w]]
                 PROVE  registered = Workers
      BY DEF WakeupIsSafe, MapsAreStable
    <2>1. receiver[w] \in Workers
      BY DEF IInv, Receivers
    <2>2. \A v \in Workers : pc[v] # "register"
      BY <2>1 DEF IInv, Sleepers, Registration
    <2>3. \A v \in Workers : pc[v] # "finished"
      BY UpIsNotOver DEF IInv
    <2>. QED BY <2>2, <2>3 DEF IInv, Registration
  <1>. QED BY <1>1, AlwaysIInv, PTL

-----------------------------------------------------------------------------
(* The search itself: what has been stored, and what is under way.         *)

SearchTypes ==
  /\ inbox \in [Workers -> [Workers -> Seq(Nodes)]]
  /\ queue \in [Workers -> Seq(Nodes)]
  /\ todo \in [Workers -> SUBSET Nodes]
  /\ closed \subseteq Nodes
  /\ busy \in [Workers -> BOOLEAN] /\ interrupt \in [Workers -> BOOLEAN]
  /\ axed \in [Workers -> BOOLEAN] /\ deadlocked \in [Workers -> BOOLEAN]
  /\ doing \in [Workers -> {"initials", "expand", "receive"}]
  /\ count \in [Workers -> 0 .. Batch]
  /\ scan \in [Workers -> 1 .. N + 1]
  /\ pending \in [Workers -> SUBSET Workers]
  /\ goal \in [Workers -> Nodes \cup {NoNode}]
  /\ spurious \in 0 .. MaxSpurious
  /\ \A w \in Workers : /\ pc[w] = "process" => count[w] < Batch
                        /\ pc[w] = "register" => doing[w] = "initials"

\* With an edge, on the way to the next one.
AtEdges == {"edges", "wakeup", "interrupt"}

Expanding(w) == doing[w] = "expand" /\ pc[w] \in AtEdges

\* The state that is expanded is the head of the queue, unless that has been
\* cleared; it is known to have edges if one has been looked at.
Expansion(w) ==
  IF axed[w] THEN queue[w] = <<>>
  ELSE /\ queue[w] # <<>>
       /\ todo[w] \subseteq problem.succ[Head(queue[w])]
       /\ deadlocked[w] => todo[w] = problem.succ[Head(queue[w])]
       /\ ~deadlocked[w] => problem.succ[Head(queue[w])] # {}

\* What the workers hold can be reached, and what they have found is wanted.
Sound ==
  /\ closed \subseteq Reached
  /\ \A w \in Workers :
       /\ todo[w] \subseteq Reached
       /\ \A v \in Workers : ToSet(inbox[v][w]) \subseteq Reached
       /\ ToSet(queue[w]) \subseteq closed
       /\ Expanding(w) => Expansion(w)
       /\ goal[w] # NoNode => goal[w] \in Wanted

\* As long as nothing has been found, no worker stops another, and whoever has
\* finished with something has left nothing of it.
GoesOn(w) ==
  /\ ~interrupt[w] /\ ~axed[w] /\ back[w] = "loop"
  /\ pc[w] \notin {"interrupt", "drain"}
  /\ pc[w] \notin AtEdges => todo[w] = {}
  /\ pc[w] \notin {"edges", "wakeup", "loop", "receive", "process"} => queue[w] = <<>>

NobodyStops == \A w \in Workers : GoesOn(w)

\* A state is stored, or to be looked at, or in a message.
UnderWay(n) == \/ n \in closed
               \/ \E w \in Workers : n \in todo[w]
               \/ \E v, w \in Workers : n \in ToSet(inbox[v][w])

Queued(n) == \E w \in Workers : n \in ToSet(queue[w])

NoDead(n) == problem.property = "deadlock" => problem.succ[n] # {}

\* The edges of a state have been followed, except perhaps for the targets.
Followed(n) == NoDead(n) /\ \A m \in problem.succ[n] : UnderWay(m)

\* A stored state waits in a queue, or has been followed.
NoneForgotten ==
  /\ \A n \in problem.initials : UnderWay(n) \/ \E w \in Workers : Owned(w, n) /\ pc[w] = "register"
  /\ \A n \in closed : Queued(n) \/ Followed(n)

\* The head of the queue of who expands is on its way to be followed.
Expansions ==
  \A w \in Workers : Expanding(w) => \A m \in problem.succ[Head(queue[w])] : UnderWay(m)

NoGoal == problem.property = "goal" => closed \cap problem.goals = {}

NothingFound == \A w \in Workers : goal[w] = NoNode

Calm == NobodyStops /\ NoneForgotten /\ Expansions /\ NoGoal

SInv == SearchTypes /\ Sound /\ (NothingFound => Calm)
-----------------------------------------------------------------------------
(* The graph, and sequences.                                               *)

LEMMA ProblemFacts ==
  ASSUME problem \in Problems
  PROVE  /\ problem.initials \subseteq Nodes
         /\ problem.succ \in [Nodes -> SUBSET Nodes]
         /\ problem.goals \subseteq Nodes
         /\ problem.property \in {"goal", "deadlock"}
         /\ problem.owner \in [Nodes -> Workers]
         /\ NoNode \notin Nodes /\ Batch \in Nat \ {0}
  BY SearchAssumption

LEMMA ReachedFacts ==
  ASSUME problem \in Problems
  PROVE  /\ Reached \subseteq Nodes
         /\ problem.initials \subseteq Reached
         /\ \A n \in Reached : problem.succ[n] \subseteq Reached
         /\ \A S \in SUBSET Nodes :
              problem.initials \subseteq S /\ (\A m \in S : problem.succ[m] \subseteq S)
                => Reached \subseteq S
  BY ProblemFacts DEF Reached

LEMMA ToSetFacts ==
  ASSUME NEW S, NEW q \in Seq(S)
  PROVE  /\ ToSet(q) \subseteq S
         /\ ToSet(<<>>) = {} /\ <<>> \in Seq(S)
         /\ q = <<>> \/ q # <<>>
         /\ \A x \in S : /\ Append(q, x) \in Seq(S) /\ Append(q, x) # <<>>
                         /\ ToSet(Append(q, x)) = ToSet(q) \cup {x}
                         /\ q # <<>> => Head(Append(q, x)) = Head(q)
         /\ q # <<>> => /\ Head(q) \in S /\ Tail(q) \in Seq(S)
                        /\ Head(q) \in ToSet(q)
                        /\ ToSet(q) = {Head(q)} \cup ToSet(Tail(q))
  <1>1. ToSet(q) \subseteq S /\ ToSet(<<>>) = {} /\ <<>> \in Seq(S)
    BY DEF ToSet
  <1>2. ASSUME NEW x \in S
        PROVE  /\ Append(q, x) \in Seq(S) /\ Append(q, x) # <<>>
               /\ ToSet(Append(q, x)) = ToSet(q) \cup {x}
               /\ q # <<>> => Head(Append(q, x)) = Head(q)
    <2>1. /\ Append(q, x) \in Seq(S) /\ Append(q, x) # <<>>
          /\ Len(q) \in Nat /\ DOMAIN q = 1 .. Len(q)
          /\ DOMAIN Append(q, x) = 1 .. Len(q) + 1
          /\ \A i \in 1 .. Len(q) : Append(q, x)[i] = q[i]
          /\ Append(q, x)[Len(q) + 1] = x
      OBVIOUS
    <2>2. ToSet(Append(q, x)) = ToSet(q) \cup {x}
      <3>1. \A i \in 1 .. Len(q) + 1 : i \in 1 .. Len(q) \/ i = Len(q) + 1
        BY <2>1
      <3>2. ToSet(Append(q, x)) \subseteq ToSet(q) \cup {x}
        BY <2>1, <3>1 DEF ToSet
      <3>3. ToSet(q) \cup {x} \subseteq ToSet(Append(q, x))
        BY <2>1 DEF ToSet
      <3>. QED BY <3>2, <3>3
    <2>3. q # <<>> => Head(Append(q, x)) = Head(q)
      OBVIOUS
    <2>. QED BY <2>1, <2>2, <2>3
  <1>3. ASSUME q # <<>>
        PROVE  /\ Head(q) \in S /\ Tail(q) \in Seq(S)
               /\ Head(q) \in ToSet(q)
               /\ ToSet(q) = {Head(q)} \cup ToSet(Tail(q))
    <2>1. /\ Head(q) \in S /\ Tail(q) \in Seq(S)
          /\ Len(q) \in Nat \ {0} /\ DOMAIN q = 1 .. Len(q) /\ Head(q) = q[1]
          /\ DOMAIN Tail(q) = 1 .. Len(q) - 1
          /\ \A i \in 1 .. Len(q) - 1 : Tail(q)[i] = q[i + 1] /\ i + 1 \in DOMAIN q
      BY <1>3
    <2>2. Head(q) \in ToSet(q) /\ ToSet(Tail(q)) \subseteq ToSet(q)
      BY <2>1 DEF ToSet
    <2>3. ASSUME NEW i \in 1 .. Len(q) PROVE q[i] \in {Head(q)} \cup ToSet(Tail(q))
      <3>1. CASE i = 1
        BY <2>1, <3>1
      <3>2. CASE i # 1
        <4>1. i - 1 \in 1 .. Len(q) - 1 /\ (i - 1) + 1 = i
          BY <2>1, <3>2
        <4>. QED BY <2>1, <4>1 DEF ToSet
      <3>. QED BY <3>1, <3>2
    <2>4. ToSet(q) \subseteq {Head(q)} \cup ToSet(Tail(q))
      BY <2>1, <2>3 DEF ToSet
    <2>. QED BY <2>1, <2>2, <2>4
  <1>. QED BY <1>1, <1>2, <1>3

LEMMA InitSInv == Init => SInv
  <1> SUFFICES ASSUME Init PROVE SInv
    OBVIOUS
  <1>i. BarrierInit /\ problem \in Problems
    BY DEF Init
  <1>p. /\ problem.initials \subseteq Nodes /\ problem.owner \in [Nodes -> Workers]
        /\ Batch \in Nat \ {0} /\ N \in Nat \ {0} /\ MaxSpurious \in Nat
    BY <1>i, ProblemFacts, BarrierAssumption
  <1>s. <<>> \in Seq(Nodes) /\ ToSet(<<>>) = {}
    BY DEF ToSet
  <1>1. SearchTypes
    BY <1>i, <1>p, <1>s DEF Init, BarrierInit, SearchTypes
  <1>2. Sound
    BY <1>i, <1>s DEF Init, BarrierInit, Sound, Expanding
  <1>3. Calm
    <2>1. NobodyStops
      BY <1>i DEF Init, BarrierInit, NobodyStops, GoesOn, AtEdges
    <2>2. NoneForgotten
      BY <1>i, <1>p DEF Init, BarrierInit, NoneForgotten, Owned
    <2>3. Expansions /\ NoGoal
      BY DEF Init, Expansions, Expanding, NoGoal
    <2>. QED BY <2>1, <2>2, <2>3 DEF Calm
  <1>. QED BY <1>1, <1>2, <1>3 DEF SInv

-----------------------------------------------------------------------------
(* Steps that leave alone what is stored, queued, sent and to do.          *)

Silent ==
  /\ UNCHANGED <<problem, closed, queue, todo, inbox, goal, deadlocked, axed, doing>>
  /\ SearchTypes'
  /\ \A v \in Workers : pc'[v] \in AtEdges => pc[v] \in AtEdges
  /\ NothingFound => /\ NobodyStops'
                     /\ \A v \in Workers : pc[v] = "register" => pc'[v] = "register"

LEMMA SameReached ==
  ASSUME problem' = problem
  PROVE  Reached' = Reached /\ Wanted' = Wanted
  BY DEF Reached, Wanted

LEMMA SilentKeeps ==
  ASSUME SInv, Silent
  PROVE  SInv'
  <1>1. /\ problem' = problem /\ closed' = closed /\ queue' = queue /\ todo' = todo
        /\ inbox' = inbox /\ goal' = goal /\ deadlocked' = deadlocked /\ axed' = axed
        /\ doing' = doing /\ SearchTypes'
        /\ \A v \in Workers : pc'[v] \in AtEdges => pc[v] \in AtEdges
    BY DEF Silent
  <1>2. Sound'
    BY <1>1, SameReached DEF SInv, Sound, Expanding, Expansion
  <1>3. ASSUME NothingFound'
        PROVE  Calm'
    <2>1. /\ NobodyStops' /\ Calm
          /\ \A v \in Workers : pc[v] = "register" => pc'[v] = "register"
      BY <1>1, <1>3 DEF Silent, NothingFound, SInv
    <2>2. /\ \A n : UnderWay(n)' <=> UnderWay(n)
          /\ \A n : Queued(n)' <=> Queued(n)
          /\ \A n : NoDead(n)' <=> NoDead(n)
      BY <1>1 DEF UnderWay, Queued, NoDead
    <2>3. \A n : Followed(n)' <=> Followed(n)
      BY <1>1, <2>2 DEF Followed
    <2>4. NoneForgotten'
      BY <1>1, <2>1, <2>2, <2>3 DEF Calm, NoneForgotten, Owned
    <2>5. Expansions'
      BY <1>1, <2>1, <2>2 DEF Calm, Expansions, Expanding
    <2>6. NoGoal'
      BY <1>1, <2>1 DEF Calm, NoGoal
    <2>. QED BY <2>1, <2>4, <2>5, <2>6 DEF Calm
  <1>. QED BY <1>1, <1>2, <1>3 DEF SInv

\* What a step of the barrier is to the search.
Inside == {"expect", "global", "lockout", "notify", "wait", "waiting", "relock", "wake"}

BarrierMove(w) ==
  /\ UNCHANGED <<searchVars, inbox, interrupt, back>>
  /\ pc[w] \in Inside
  /\ pc' \in [Workers -> Labels] /\ Rouse(w)
  /\ pc'[w] \in Inside \cup {"finished", back[w]}
  /\ busy' \in [Workers -> BOOLEAN]
  /\ spurious' \in 0 .. MaxSpurious

LEMMA BarrierMoveIsSilent ==
  ASSUME IInv, SInv, NEW w \in Workers, BarrierMove(w)
  PROVE  Silent
  <1>1. /\ UNCHANGED <<problem, closed, queue, todo, inbox, goal, deadlocked, axed, doing>>
        /\ count' = count /\ scan' = scan /\ pending' = pending /\ back' = back
        /\ interrupt' = interrupt
    BY DEF BarrierMove, searchVars, flagVars, workVars
  <1>2. \A v \in Workers : \/ pc'[v] = pc[v]
                           \/ pc[v] = "waiting" /\ pc'[v] = "relock"
                           \/ v = w
    BY DEF BarrierMove, Rouse
  <1>3. /\ pc[w] \in Inside
        /\ pc'[w] \in Inside \cup {"finished", back[w]} /\ back[w] \in {"loop", "drain"}
    BY DEF BarrierMove, IInv, Types
  <1>4. SearchTypes'
    <2>1. \A v \in Workers : /\ pc'[v] = "process" => pc[v] = "process"
                             /\ pc'[v] = "register" => pc[v] = "register"
      BY <1>2, <1>3 DEF Inside
    <2>. QED BY <1>1, <2>1 DEF BarrierMove, SInv, SearchTypes
  <1>5. \A v \in Workers : pc'[v] \in AtEdges => pc[v] \in AtEdges
    BY <1>2, <1>3 DEF Inside, AtEdges
  <1>6. ASSUME NothingFound
        PROVE  /\ NobodyStops'
               /\ \A v \in Workers : pc[v] = "register" => pc'[v] = "register"
    <2>1. NobodyStops
      BY <1>6 DEF SInv, Calm
    <2>2. NobodyStops'
      BY <1>1, <1>2, <1>3, <2>1 DEF NobodyStops, GoesOn, Inside, AtEdges
    <2>. QED BY <1>2, <1>3, <2>2 DEF Inside
  <1>. QED BY <1>1, <1>4, <1>5, <1>6 DEF Silent

\* Notification, again, with what it leads to.
LEMMA NotifiedMoves ==
  ASSUME Types, NEW w \in Workers, NEW l \in Labels, l # "waiting", NEW S,
         \/ pc' = Notified([pc EXCEPT ![w] = l], S)
         \/ pc' = [pc EXCEPT ![w] = l]
  PROVE  pc' \in [Workers -> Labels] /\ pc'[w] = l /\ Rouse(w)
  BY NotifiedRouses, GotoRouses

LEMMA BarrierIsSilent ==
  ASSUME IInv, SInv, NEW w \in Workers, BarrierStep(w) \/ SpuriousWakeup(w)
  PROVE  Silent
  <1>t. /\ Types /\ SearchTypes
        /\ back[w] \in {"loop", "drain"} /\ Inside \cup {"finished", "loop", "drain"} \subseteq Labels
        /\ busy \in [Workers -> BOOLEAN] /\ spurious \in 0 .. MaxSpurious
        /\ MaxSpurious \in Nat
    BY BarrierAssumption DEF IInv, SInv, Types, SearchTypes, Labels, Work, InBed, Deciding, Inside
  <1>u. UNCHANGED searchVars
    BY DEF BarrierStep, SpuriousWakeup, In
  <1>1. CASE In(Expect(w)) \/ In(TakeGlobal(w)) \/ In(NotDone(w)) \/ In(GoToBed(w)) \/ In(StayUp(w))
    <2>1. /\ pc[w] \in Inside
          /\ \E l \in Inside \cup {back[w]} : l # "waiting" /\ pc' = [pc EXCEPT ![w] = l]
      BY <1>1, <1>t DEF In, Expect, TakeGlobal, NotDone, GoToBed, StayUp, NotYet, Goto, Inside
    <2>2. /\ inbox' = inbox /\ interrupt' = interrupt /\ back' = back /\ spurious' = spurious
      BY <1>1 DEF In, Expect, TakeGlobal, NotDone, GoToBed, StayUp
    <2>3. busy' \in [Workers -> BOOLEAN]
      BY <1>1, <1>t DEF In, Expect, TakeGlobal, NotDone, GoToBed, StayUp, NotYet
    <2>4. pc' \in [Workers -> Labels] /\ pc'[w] \in Inside \cup {back[w]} /\ Rouse(w)
      BY <1>t, <2>1, GotoRouses
    <2>5. BarrierMove(w)
      BY <1>t, <1>u, <2>1, <2>2, <2>3, <2>4 DEF BarrierMove
    <2>. QED BY <2>5, BarrierMoveIsSilent
  <1>2. CASE In(TryLock(w))
    <2>1. /\ pc[w] = "lockout" /\ pc' = pc
          /\ inbox' = inbox /\ interrupt' = interrupt /\ back' = back /\ spurious' = spurious
          /\ busy' = busy
      BY <1>2 DEF In, TryLock
    <2>2. BarrierMove(w)
      BY <1>t, <1>u, <2>1 DEF BarrierMove, Types, Rouse, Inside
    <2>. QED BY <2>2, BarrierMoveIsSilent
  <1>3. CASE In(FoundDone(w))
    <2>1. /\ pc[w] = "lockout" /\ pc' = Notified([pc EXCEPT ![w] = "finished"], Workers \ {w})
          /\ inbox' = inbox /\ interrupt' = interrupt /\ back' = back /\ spurious' = spurious
          /\ busy' = [busy EXCEPT ![w] = TRUE]
      BY <1>3 DEF In, FoundDone, Leave
    <2>2. pc' \in [Workers -> Labels] /\ pc'[w] = "finished" /\ Rouse(w)
      BY <1>t, <2>1, NotifiedRouses
    <2>3. BarrierMove(w)
      BY <1>t, <1>u, <2>1, <2>2 DEF BarrierMove, Inside
    <2>. QED BY <2>3, BarrierMoveIsSilent
  <1>4. CASE In(NotifyNext(w))
    <2>1. /\ pc[w] = "notify" /\ \E S : pc' = Notified(pc, S)
          /\ inbox' = inbox /\ interrupt' = interrupt /\ back' = back /\ spurious' = spurious
          /\ busy' = busy
      BY <1>4 DEF In, NotifyNext
    <2>2. pc = [pc EXCEPT ![w] = "notify"] /\ "notify" \in Labels
      BY <2>1, <1>t DEF Types, Inside
    <2>3. pc' \in [Workers -> Labels] /\ pc'[w] = "notify" /\ Rouse(w)
      BY <1>t, <2>1, <2>2, NotifiedRouses
    <2>4. BarrierMove(w)
      BY <1>t, <1>u, <2>1, <2>3 DEF BarrierMove, Inside
    <2>. QED BY <2>4, BarrierMoveIsSilent
  <1>5. CASE In(Wait(w)) \/ In(Relock(w)) \/ SpuriousWakeup(w)
    <2>1. /\ pc[w] \in Inside
          /\ \E l \in Inside : pc' = [pc EXCEPT ![w] = l]
          /\ inbox' = inbox /\ interrupt' = interrupt /\ back' = back
          /\ spurious' \in 0 .. MaxSpurious /\ busy' = busy
      BY <1>5, <1>t DEF In, Wait, Relock, SpuriousWakeup, Spurious, Goto, Inside
    <2>2. pc' \in [Workers -> Labels] /\ pc'[w] \in Inside /\ Rouse(w)
      BY <1>t, <2>1, GotoRouses
    <2>3. BarrierMove(w)
      BY <1>t, <1>u, <2>1, <2>2 DEF BarrierMove
    <2>. QED BY <2>3, BarrierMoveIsSilent
  <1>6. CASE In(WakeDone(w)) \/ In(WakeWork(w))
    <2>1. /\ pc[w] = "wake"
          /\ \E l \in {"finished", back[w]} : pc' = [pc EXCEPT ![w] = l]
          /\ inbox' = inbox /\ interrupt' = interrupt /\ back' = back /\ spurious' = spurious
          /\ busy' = [busy EXCEPT ![w] = TRUE]
      BY <1>6 DEF In, WakeDone, WakeWork, Woken, Leave, NotYet, Goto
    <2>2. pc' \in [Workers -> Labels] /\ pc'[w] \in {"finished", back[w]} /\ Rouse(w)
      BY <1>t, <2>1, GotoRouses
    <2>3. BarrierMove(w)
      BY <1>t, <1>u, <2>1, <2>2 DEF BarrierMove, Inside
    <2>. QED BY <2>3, BarrierMoveIsSilent
  <1>. QED BY <1>1, <1>2, <1>3, <1>4, <1>5, <1>6 DEF BarrierStep

-----------------------------------------------------------------------------
(* The steps of the search that only lead from one part of run() to another.  *)

LEMMA GoIdleIsSilent ==
  ASSUME IInv, SInv, NEW w \in Workers, Interrupted(w) \/ Drained(w) \/ Idle(w)
  PROVE  Silent
  <1>t. Types /\ SearchTypes
    BY DEF IInv, SInv
  <1>1. /\ UNCHANGED <<problem, closed, queue, todo, inbox, goal, deadlocked, axed, doing>>
        /\ UNCHANGED <<count, scan, pending, spurious>>
        /\ pc[w] \in {"loop", "drain"} /\ pc' = [pc EXCEPT ![w] = "expect"]
        /\ busy' = [busy EXCEPT ![w] = FALSE]
        /\ interrupt' = [interrupt EXCEPT ![w] = FALSE]
    BY DEF Interrupted, Drained, Idle, GoIdle, Goto, searchVars, flagVars, workVars
  <1>2. SearchTypes'
    BY <1>1, <1>t DEF SearchTypes, Types
  <1>3. \A v \in Workers : pc'[v] \in AtEdges => pc[v] \in AtEdges
    BY <1>1, <1>t DEF Types, AtEdges
  <1>4. ASSUME NothingFound
        PROVE  /\ NobodyStops'
               /\ \A v \in Workers : pc[v] = "register" => pc'[v] = "register"
    <2>1. NobodyStops
      BY <1>4 DEF SInv, Calm
    <2>2. Idle(w)
      BY <1>1, <2>1 DEF NobodyStops, GoesOn, Interrupted, Drained, GoIdle, Goto
    <2>3. queue[w] = <<>> /\ back' = [back EXCEPT ![w] = "loop"]
      BY <2>2 DEF Idle, GoIdle
    <2>4. NobodyStops'
      BY <1>1, <1>t, <2>1, <2>3 DEF NobodyStops, GoesOn, Types, SearchTypes, AtEdges
    <2>. QED BY <1>1, <1>t, <2>4 DEF Types
  <1>. QED BY <1>1, <1>2, <1>3, <1>4 DEF Silent

LEMMA GoingOnIsSilent ==
  ASSUME IInv, SInv, NEW w \in Workers,
         \/ Restart(w) \/ Received(w) \/ Messages(w) \/ ReceiveNext(w)
         \/ ProcessQueue(w) \/ QueueEmpty(w)
  PROVE  Silent
  <1>t. /\ Types /\ SearchTypes /\ Batch \in Nat \ {0} /\ N \in Nat \ {0}
    BY SearchAssumption, BarrierAssumption DEF IInv, SInv
  <1>1. /\ UNCHANGED <<problem, closed, queue, todo, inbox, goal, deadlocked, axed, doing>>
        /\ UNCHANGED <<pending, spurious, busy, back>>
    BY DEF Restart, Received, Messages, ReceiveNext, ProcessQueue, QueueEmpty,
           quietVars, searchVars, flagVars, workVars
  <1>2. /\ pc[w] \in {"edges", "loop", "receive", "process"}
        /\ pc[w] = "edges" => todo[w] = {} \/ Axed(w)
        /\ \E l \in {"loop", "receive", "process"} :
             /\ pc' = [pc EXCEPT ![w] = l]
             /\ l = "process" => count' = [count EXCEPT ![w] = 0]
    <2>1. CASE Restart(w) \/ Received(w)
      BY <2>1 DEF Restart, Received, NoEdgesLeft, Goto
    <2>2. CASE Messages(w) \/ QueueEmpty(w) \/ ReceiveNext(w)
      BY <2>2 DEF Messages, QueueEmpty, ReceiveNext, Goto
    <2>3. CASE ProcessQueue(w)
      BY <2>3 DEF ProcessQueue, Goto
    <2>. QED BY <2>1, <2>2, <2>3
  <1>c. count' = count \/ count' = [count EXCEPT ![w] = 0]
    BY DEF Restart, Received, Messages, ReceiveNext, ProcessQueue, QueueEmpty, searchVars, workVars
  <1>s. \/ scan' = scan \/ scan' = [scan EXCEPT ![w] = 1]
        \/ (scan[w] <= N /\ scan' = [scan EXCEPT ![w] = @ + 1])
    BY DEF Restart, Received, Messages, ReceiveNext, ProcessQueue, QueueEmpty, searchVars, workVars
  <1>i. interrupt' = [interrupt EXCEPT ![w] = FALSE] \/ interrupt' = interrupt
    BY DEF Restart, Received, Messages, ReceiveNext, ProcessQueue, QueueEmpty
  <1>3. PICK l \in {"loop", "receive", "process"} :
             /\ pc' = [pc EXCEPT ![w] = l]
             /\ l = "process" => count' = [count EXCEPT ![w] = 0]
    BY <1>2
  <1>4. \A v \in Workers : pc'[v] = IF v = w THEN l ELSE pc[v]
    BY <1>3, <1>t DEF Types
  <1>5. SearchTypes'
    <2>i. interrupt' \in [Workers -> BOOLEAN]
      BY <1>i, <1>t DEF SearchTypes
    <2>1. count' \in [Workers -> 0 .. Batch]
      <3>1. count \in [Workers -> 0 .. Batch] /\ 0 \in 0 .. Batch
        BY <1>t DEF SearchTypes
      <3>. QED BY <1>c, <3>1
    <2>2. scan' \in [Workers -> 1 .. N + 1]
      <3>1. scan \in [Workers -> 1 .. N + 1]
        BY <1>t DEF SearchTypes
      <3>2. CASE scan[w] <= N /\ scan' = [scan EXCEPT ![w] = @ + 1]
        BY <1>t, <3>1, <3>2
      <3>3. CASE scan' = scan \/ scan' = [scan EXCEPT ![w] = 1]
        BY <1>t, <3>1, <3>3
      <3>. QED BY <1>s, <3>2, <3>3
    <2>3. \A v \in Workers : /\ pc'[v] = "process" => count'[v] < Batch
                             /\ pc'[v] = "register" => doing[v] = "initials"
      BY <1>c, <1>3, <1>4, <1>t DEF SearchTypes
    <2>. QED BY <1>1, <1>t, <2>i, <2>1, <2>2, <2>3 DEF SearchTypes
  <1>6. \A v \in Workers : pc'[v] \in AtEdges => pc[v] \in AtEdges
    BY <1>4 DEF AtEdges
  <1>7. ASSUME NothingFound
        PROVE  /\ NobodyStops'
               /\ \A v \in Workers : pc[v] = "register" => pc'[v] = "register"
    <2>1. NobodyStops
      BY <1>7 DEF SInv, Calm
    <2>2. todo[w] = {}
      BY <1>2, <2>1 DEF NobodyStops, GoesOn, AtEdges, Axed
    <2>3. \A v \in Workers : ~interrupt'[v]
      BY <1>i, <1>t, <2>1 DEF NobodyStops, GoesOn, SearchTypes
    <2>4. NobodyStops'
      BY <1>1, <1>4, <2>1, <2>2, <2>3 DEF NobodyStops, GoesOn, AtEdges
    <2>. QED BY <1>2, <1>4, <2>4
  <1>. QED BY <1>1, <1>5, <1>6, <1>7 DEF Silent

LEMMA WakeReceiverIsSilent ==
  ASSUME IInv, SInv, NEW w \in Workers, WakeReceiver(w)
  PROVE  Silent
  <1>t. Types /\ SearchTypes
    BY DEF IInv, SInv
  <1>1. /\ UNCHANGED <<problem, closed, queue, todo, inbox, goal, deadlocked, axed, doing>>
        /\ UNCHANGED <<count, scan, pending, spurious, busy, interrupt, back>>
        /\ pc[w] = "wakeup" /\ \E S : pc' = Notified([pc EXCEPT ![w] = "edges"], S)
    BY DEF WakeReceiver, Wakeup, flagVars, workVars
  <1>2. pc' \in [Workers -> Labels] /\ pc'[w] = "edges" /\ Rouse(w)
    BY <1>t, <1>1, NotifiedRouses DEF Labels, Work
  <1>3. \A v \in Workers : \/ pc'[v] = pc[v]
                           \/ pc[v] = "waiting" /\ pc'[v] = "relock"
                           \/ v = w
    BY <1>2 DEF Rouse
  <1>4. SearchTypes'
    <2>1. \A v \in Workers : /\ pc'[v] = "process" => pc[v] = "process"
                             /\ pc'[v] = "register" => pc[v] = "register"
      BY <1>2, <1>3
    <2>. QED BY <1>1, <2>1, <1>t DEF SearchTypes
  <1>5. \A v \in Workers : pc'[v] \in AtEdges => pc[v] \in AtEdges
    BY <1>1, <1>2, <1>3 DEF AtEdges
  <1>6. ASSUME NothingFound
        PROVE  /\ NobodyStops'
               /\ \A v \in Workers : pc[v] = "register" => pc'[v] = "register"
    <2>1. NobodyStops
      BY <1>6 DEF SInv, Calm
    <2>2. NobodyStops'
      BY <1>1, <1>2, <1>3, <2>1 DEF NobodyStops, GoesOn, AtEdges
    <2>. QED BY <1>1, <1>3, <2>2
  <1>. QED BY <1>1, <1>4, <1>5, <1>6 DEF Silent

LEMMA InterruptIsSilent ==
  ASSUME IInv, SInv, NEW w \in Workers, Interrupt(w)
  PROVE  Silent
  <1>t. Types /\ SearchTypes
    BY DEF IInv, SInv
  <1>1. /\ UNCHANGED <<problem, closed, queue, todo, inbox, goal, deadlocked, axed, doing>>
        /\ UNCHANGED <<count, scan, spurious, busy, back, pc>>
        /\ pc[w] = "interrupt"
    BY DEF Interrupt, quietVars, flagVars, workVars
  <1>2. PICK u \in pending[w] : /\ interrupt' = [interrupt EXCEPT ![u] = TRUE]
                                /\ pending' = [pending EXCEPT ![w] = @ \ {u}]
    BY DEF Interrupt
  <1>3. SearchTypes'
    BY <1>1, <1>2, <1>t DEF SearchTypes
  <1>4. ~NothingFound
    BY <1>1 DEF SInv, Calm, NobodyStops, GoesOn
  <1>. QED BY <1>1, <1>3, <1>4 DEF Silent

-----------------------------------------------------------------------------
(* The steps that store, send, receive or finish something.                *)

\* What is under way stays so.
LEMMA FollowedStays ==
  ASSUME problem' = problem, \A n \in Nodes : UnderWay(n) => UnderWay(n)',
         NEW n \in Nodes, Followed(n), problem \in Problems
  PROVE  Followed(n)'
  BY ProblemFacts DEF Followed, NoDead

LEMMA HeadFacts ==
  ASSUME SInv, problem \in Problems, NEW v \in Workers, queue[v] # <<>>
  PROVE  /\ Head(queue[v]) \in Nodes /\ Tail(queue[v]) \in Seq(Nodes)
         /\ Head(queue[v]) \in ToSet(queue[v])
         /\ ToSet(queue[v]) = {Head(queue[v])} \cup ToSet(Tail(queue[v]))
         /\ problem.succ[Head(queue[v])] \subseteq Nodes
  <1>1. queue[v] \in Seq(Nodes)
    BY DEF SInv, SearchTypes
  <1>. QED BY <1>1, ToSetFacts, ProblemFacts

\* A step of worker w touches nothing of the others', but for messages.
Alone(w) ==
  \A v \in Workers : v # w =>
    /\ pc'[v] = pc[v] /\ todo'[v] = todo[v] /\ queue'[v] = queue[v] /\ doing'[v] = doing[v]
    /\ axed'[v] = axed[v] /\ deadlocked'[v] = deadlocked[v]
    /\ back'[v] = back[v] /\ interrupt'[v] = interrupt[v]

LEMMA AloneIsSound ==
  ASSUME SInv, problem' = problem, NEW w \in Workers, Alone(w),
         closed \subseteq closed', closed' \subseteq Reached,
         todo'[w] \subseteq Reached,
         \A v, u \in Workers : ToSet(inbox'[v][u]) \subseteq Reached,
         ToSet(queue'[w]) \subseteq closed',
         Expanding(w)' => Expansion(w)',
         \A v \in Workers : goal'[v] = goal[v] \/ goal'[v] \in Wanted
  PROVE  Sound'
  <1>1. Reached' = Reached /\ Wanted' = Wanted
    BY SameReached
  <1>2. ASSUME NEW v \in Workers
        PROVE  /\ todo'[v] \subseteq Reached
               /\ ToSet(queue'[v]) \subseteq closed'
               /\ Expanding(v)' => Expansion(v)'
               /\ goal'[v] # NoNode => goal'[v] \in Wanted
    <2>1. goal'[v] # NoNode => goal'[v] \in Wanted
      BY DEF SInv, Sound
    <2>2. CASE v = w
      BY <2>1, <2>2
    <2>3. CASE v # w
      <3>1. todo'[v] \subseteq Reached /\ ToSet(queue'[v]) \subseteq closed'
        BY <2>3 DEF Alone, SInv, Sound
      <3>2. ASSUME Expanding(v)' PROVE Expansion(v)'
        <4>1. /\ queue'[v] = queue[v] /\ todo'[v] = todo[v]
              /\ axed'[v] = axed[v] /\ deadlocked'[v] = deadlocked[v] /\ Expanding(v)
          BY <2>3, <3>2 DEF Alone, Expanding
        <4>2. Expansion(v)
          BY <4>1 DEF SInv, Sound
        <4>. QED BY <4>1, <4>2 DEF Expansion
      <3>. QED BY <2>1, <3>1, <3>2
    <2>. QED BY <2>2, <2>3
  <1>. QED BY <1>1, <1>2 DEF Sound

LEMMA AloneIsCalm ==
  ASSUME SInv, Calm, problem \in Problems, problem' = problem, NEW w \in Workers, Alone(w),
         GoesOn(w)', NoGoal',
         pc[w] = "register" => \A n \in problem.initials : Owned(w, n) => UnderWay(n)',
         \A n \in Nodes : UnderWay(n) => UnderWay(n)',
         \A n \in closed' : n \in closed \/ n \in ToSet(queue'[w]),
         \A n \in ToSet(queue[w]) : n \in ToSet(queue'[w]) \/ Followed(n)',
         Expanding(w)' => \A m \in problem.succ[Head(queue'[w])] : UnderWay(m)'
  PROVE  Calm'
  <1>1. NobodyStops'
    BY DEF Calm, NobodyStops, Alone, GoesOn
  <1>2. NoneForgotten'
    <2>1. ASSUME NEW n \in problem.initials, ~UnderWay(n)'
          PROVE  \E v \in Workers : Owned(v, n)' /\ pc'[v] = "register"
      <3>1. n \in Nodes
        BY ProblemFacts
      <3>2. PICK v \in Workers : Owned(v, n) /\ pc[v] = "register"
        BY <2>1, <3>1 DEF Calm, NoneForgotten
      <3>3. v # w
        BY <2>1, <3>2
      <3>. QED BY <3>2, <3>3 DEF Owned, Alone
    <2>2. ASSUME NEW n \in closed'
          PROVE  Queued(n)' \/ Followed(n)'
      <3>1. CASE n \in ToSet(queue'[w])
        BY <3>1 DEF Queued
      <3>2. ASSUME NEW v \in Workers, n \in ToSet(queue[v])
            PROVE  Queued(n)' \/ Followed(n)'
        BY <3>2 DEF Alone, Queued
      <3>3. CASE n \in closed /\ Followed(n)
        BY <3>3, FollowedStays DEF SInv, SearchTypes
      <3>. QED BY <3>1, <3>2, <3>3 DEF Calm, NoneForgotten, Queued
    <2>. QED BY <2>1, <2>2 DEF NoneForgotten
  <1>3. ASSUME NEW v \in Workers, Expanding(v)'
        PROVE  \A m \in problem.succ[Head(queue'[v])] : UnderWay(m)'
    <2>1. CASE v = w
      BY <1>3, <2>1
    <2>2. CASE v # w
      <3>1. Expanding(v) /\ queue'[v] = queue[v]
        BY <1>3, <2>2 DEF Alone, Expanding
      <3>2. queue[v] # <<>>
        BY <3>1 DEF SInv, Sound, Expansion, Calm, NobodyStops, GoesOn
      <3>. QED BY <3>1, <3>2, HeadFacts DEF Calm, Expansions
    <2>. QED BY <2>1, <2>2
  <1>. QED BY <1>1, <1>2, <1>3 DEF Calm, Expansions

LEMMA StartIsSound ==
  ASSUME IInv, SInv, NEW w \in Workers, Start(w)
  PROVE  SInv'
  <1>t. Types /\ SearchTypes /\ problem \in Problems
    BY DEF IInv, SInv, Types
  <1>1. /\ UNCHANGED <<problem, closed, queue, inbox, goal, deadlocked, axed, doing, count,
                       scan, pending, spurious, busy, interrupt, back>>
        /\ pc[w] = "register" /\ pc' = [pc EXCEPT ![w] = "edges"]
        /\ todo' = [todo EXCEPT ![w] = {n \in problem.initials : Owned(w, n)}]
    BY DEF Start, Register, Goto, flagVars
  <1>2. problem.initials \subseteq Nodes /\ problem.initials \subseteq Reached
    BY <1>t, ProblemFacts, ReachedFacts
  <1>3. /\ pc'[w] = "edges" /\ todo'[w] = {n \in problem.initials : Owned(w, n)}
        /\ Alone(w) /\ doing'[w] = "initials" /\ ~Expanding(w)'
    BY <1>1, <1>t DEF Types, SearchTypes, Alone, Expanding
  <1>4. SearchTypes'
    BY <1>1, <1>2, <1>3, <1>t DEF SearchTypes, Types
  <1>5. Sound'
    <2>1. todo'[w] \subseteq Reached
      BY <1>2, <1>3
    <2>. QED BY <1>1, <1>3, <2>1, AloneIsSound DEF SInv, Sound
  <1>6. ASSUME NothingFound'
        PROVE  Calm'
    <2>1. Calm
      BY <1>1, <1>6 DEF NothingFound, SInv
    <2>2. GoesOn(w)'
      BY <1>1, <1>3, <2>1 DEF Calm, NobodyStops, GoesOn, AtEdges
    <2>3. todo[w] = {}
      BY <1>1, <2>1 DEF Calm, NobodyStops, GoesOn, AtEdges
    <2>4. \A n \in Nodes : UnderWay(n) => UnderWay(n)'
      <3>1. \A v \in Workers : todo[v] \subseteq todo'[v]
        BY <1>3, <2>3 DEF Alone
      <3>. QED BY <1>1, <3>1 DEF UnderWay
    <2>5. \A n \in problem.initials : Owned(w, n) => UnderWay(n)'
      BY <1>3 DEF UnderWay
    <2>6. NoGoal'
      BY <1>1, <2>1 DEF Calm, NoGoal
    <2>. QED BY <1>1, <1>3, <1>t, <2>1, <2>2, <2>4, <2>5, <2>6, AloneIsCalm
  <1>. QED BY <1>4, <1>5, <1>6 DEF SInv

\* What has been looked at is an edge of the head; and then that is not dead.
LEMMA NextEdgeIs ==
  ASSUME IInv, SInv, NEW w \in Workers, NEW n \in Nodes, NextEdge(w, n)
  PROVE  /\ pc[w] = "edges" /\ n \in todo[w] /\ n \in Reached
         /\ todo' = [todo EXCEPT ![w] = @ \ {n}] /\ todo'[w] = todo[w] \ {n}
         /\ deadlocked' = [deadlocked EXCEPT ![w] = FALSE] /\ deadlocked'[w] = FALSE
         /\ todo'[w] \subseteq Reached
         /\ \A v \in Workers : v # w => todo'[v] = todo[v] /\ deadlocked'[v] = deadlocked[v]
         /\ todo' \in [Workers -> SUBSET Nodes] /\ deadlocked' \in [Workers -> BOOLEAN]
         /\ doing[w] = "expand" => /\ ~axed[w] /\ queue[w] # <<>>
                                   /\ todo[w] \subseteq problem.succ[Head(queue[w])]
                                   /\ problem.succ[Head(queue[w])] # {}
  <1>1. /\ pc[w] = "edges" /\ n \in todo[w] /\ ~Axed(w)
        /\ todo' = [todo EXCEPT ![w] = @ \ {n}]
        /\ deadlocked' = [deadlocked EXCEPT ![w] = FALSE]
    BY DEF NextEdge
  <1>2. todo \in [Workers -> SUBSET Nodes] /\ deadlocked \in [Workers -> BOOLEAN]
    BY DEF SInv, SearchTypes
  <1>3. todo[w] \subseteq Reached
    BY DEF SInv, Sound
  <1>4. ASSUME doing[w] = "expand"
        PROVE  /\ ~axed[w] /\ queue[w] # <<>>
               /\ todo[w] \subseteq problem.succ[Head(queue[w])]
               /\ problem.succ[Head(queue[w])] # {}
    <2>1. Expanding(w) /\ ~axed[w]
      BY <1>1, <1>4 DEF Axed, Expanding, AtEdges
    <2>2. Expansion(w)
      BY <2>1 DEF SInv, Sound
    <2>. QED BY <1>1, <2>1, <2>2 DEF Expansion
  <1>. QED BY <1>1, <1>2, <1>3, <1>4

LEMMA SendEdgeIsSound ==
  ASSUME IInv, SInv, NEW w \in Workers, SendEdge(w)
  PROVE  SInv'
  <1>t. Types /\ SearchTypes /\ problem \in Problems
    BY DEF IInv, SInv, Types
  <1>1. PICK n \in Nodes : /\ NextEdge(w, n)
                           /\ Send(w, problem.owner[n], n)
    BY DEF SendEdge
  <1>2. /\ UNCHANGED <<problem, closed, queue, goal, axed, doing, count,
                       scan, pending, spurious, busy, interrupt, back>>
        /\ pc' = [pc EXCEPT ![w] = "wakeup"]
    BY DEF SendEdge, Goto, quietVars
  <1>e. /\ n \in todo[w] /\ n \in Reached
        /\ todo'[w] = todo[w] \ {n} /\ todo'[w] \subseteq Reached
        /\ \A v \in Workers : v # w => todo'[v] = todo[v] /\ deadlocked'[v] = deadlocked[v]
    BY <1>1, NextEdgeIs
  <1> DEFINE o == problem.owner[n]
  <1>3. o \in Workers
    BY <1>t, ProblemFacts
  <1>4. inbox' = [inbox EXCEPT ![w][o] = Append(@, n)]
    BY <1>1 DEF Send
  <1>. HIDE DEF o
  <1>5. inbox \in [Workers -> [Workers -> Seq(Nodes)]]
    BY <1>t DEF SearchTypes
  <1>6. inbox[w][o] \in Seq(Nodes)
    BY <1>3, <1>5
  <1>7. /\ inbox' \in [Workers -> [Workers -> Seq(Nodes)]]
        /\ inbox'[w][o] = Append(inbox[w][o], n)
        /\ \A v, u \in Workers : v # w \/ u # o => inbox'[v][u] = inbox[v][u]
    <2>1. Append(inbox[w][o], n) \in Seq(Nodes)
      BY <1>6, ToSetFacts
    <2>. QED BY <1>3, <1>4, <1>5, <2>1
  <1>8. ToSet(inbox'[w][o]) = ToSet(inbox[w][o]) \cup {n}
    BY <1>6, <1>7, ToSetFacts
  <1>9. Alone(w) /\ pc'[w] = "wakeup"
    BY <1>2, <1>e, <1>t DEF Alone, Types
  <1>10. SearchTypes'
    <2>1. \A v \in Workers : pc'[v] \in {"process", "register"} => pc[v] = pc'[v]
      BY <1>9 DEF Alone
    <2>2. todo' \in [Workers -> SUBSET Nodes] /\ deadlocked' \in [Workers -> BOOLEAN]
      BY <1>1, NextEdgeIs
    <2>. QED BY <1>2, <1>7, <1>t, <2>1, <2>2 DEF SearchTypes
  <1>11. Sound'
    <2>1. \A v, u \in Workers : ToSet(inbox'[v][u]) \subseteq Reached
      <3>1. \A v, u \in Workers : ToSet(inbox[v][u]) \subseteq Reached
        BY DEF SInv, Sound
      <3>2. ToSet(inbox'[w][o]) \subseteq Reached
        BY <1>3, <1>8, <1>e, <3>1
      <3>. QED BY <1>7, <3>1, <3>2
    <2>2. ASSUME Expanding(w)' PROVE Expansion(w)'
      <3>1. doing[w] = "expand"
        BY <1>2, <2>2 DEF Expanding
      <3>. QED BY <1>1, <1>2, <3>1, NextEdgeIs DEF Expansion
    <2>3. todo'[w] \subseteq Reached
      BY <1>1, NextEdgeIs
    <2>. QED BY <1>2, <1>9, <2>1, <2>2, <2>3, AloneIsSound DEF SInv, Sound
  <1>12. ASSUME NothingFound'
         PROVE  Calm'
    <2>1. Calm
      BY <1>2, <1>12 DEF NothingFound, SInv
    <2>2. GoesOn(w)'
      BY <1>2, <1>9, <2>1 DEF Calm, NobodyStops, GoesOn, AtEdges
    <2>3. ASSUME NEW m \in Nodes, UnderWay(m) PROVE UnderWay(m)'
      <3>1. CASE m = n
        BY <1>3, <1>8, <3>1 DEF UnderWay
      <3>2. CASE m # n
        <4>1. ASSUME NEW v \in Workers, m \in todo[v] PROVE m \in todo'[v]
          BY <1>1, <3>2, <4>1, NextEdgeIs
        <4>2. ASSUME NEW v \in Workers, NEW u \in Workers, m \in ToSet(inbox[v][u])
              PROVE  m \in ToSet(inbox'[v][u])
          BY <1>7, <1>8, <4>2
        <4>. QED BY <1>2, <2>3, <4>1, <4>2 DEF UnderWay
      <3>. QED BY <3>1, <3>2
    <2>4. NoGoal'
      BY <1>2, <2>1 DEF Calm, NoGoal
    <2>5. pc[w] # "register"
      BY <1>1, NextEdgeIs
    <2>6. ASSUME Expanding(w)' PROVE \A m \in problem.succ[Head(queue'[w])] : UnderWay(m)'
      <3>1. Expanding(w) /\ queue[w] # <<>>
        BY <1>1, <1>2, <2>6, NextEdgeIs DEF Expanding, AtEdges
      <3>. QED BY <1>2, <1>t, <2>1, <2>3, <3>1, HeadFacts DEF Calm, Expansions
    <2>. QED BY <1>2, <1>9, <1>t, <2>1, <2>2, <2>3, <2>4, <2>5, <2>6, AloneIsCalm
  <1>. QED BY <1>10, <1>11, <1>12 DEF SInv

LEMMA StoreEdgeIsSound ==
  ASSUME IInv, SInv, NEW w \in Workers, StoreEdge(w)
  PROVE  SInv'
  <1>t. Types /\ SearchTypes /\ problem \in Problems
    BY DEF IInv, SInv, Types
  <1>1. PICK n \in Nodes : /\ NextEdge(w, n)
                           /\ ~IsGoal(n)
                           /\ closed' = closed \cup {n}
                           /\ queue' = IF n \in closed THEN queue
                                       ELSE [queue EXCEPT ![w] = Append(@, n)]
    BY DEF StoreEdge
  <1>2. /\ UNCHANGED <<problem, inbox, goal, axed, doing, count,
                       scan, pending, spurious, busy, interrupt, back, pc>>
    BY DEF StoreEdge, quietVars
  <1>e. /\ n \in todo[w] /\ n \in Reached
        /\ todo'[w] = todo[w] \ {n} /\ todo'[w] \subseteq Reached
        /\ \A v \in Workers : v # w => todo'[v] = todo[v] /\ deadlocked'[v] = deadlocked[v]
    BY <1>1, NextEdgeIs
  <1>3. queue \in [Workers -> Seq(Nodes)] /\ queue[w] \in Seq(Nodes)
    BY <1>t DEF SearchTypes
  <1>4. /\ Append(queue[w], n) \in Seq(Nodes) /\ Append(queue[w], n) # <<>>
        /\ ToSet(Append(queue[w], n)) = ToSet(queue[w]) \cup {n}
        /\ queue[w] # <<>> => Head(Append(queue[w], n)) = Head(queue[w])
    BY <1>3, ToSetFacts
  <1>5. /\ queue' \in [Workers -> Seq(Nodes)]
        /\ \A v \in Workers : v # w => queue'[v] = queue[v]
        /\ queue'[w] = IF n \in closed THEN queue[w] ELSE Append(queue[w], n)
    BY <1>1, <1>3, <1>4
  <1>6. Alone(w)
    BY <1>2, <1>5, <1>e DEF Alone
  <1>7. SearchTypes'
    <2>1. todo' \in [Workers -> SUBSET Nodes] /\ deadlocked' \in [Workers -> BOOLEAN]
      BY <1>1, NextEdgeIs
    <2>. QED BY <1>1, <1>2, <1>5, <1>t, <2>1 DEF SearchTypes
  <1>8. queue[w] # <<>> => queue'[w] # <<>> /\ Head(queue'[w]) = Head(queue[w])
    BY <1>4, <1>5
  <1>9. Sound'
    <2>1. ToSet(queue'[w]) \subseteq closed'
      BY <1>1, <1>4, <1>5 DEF SInv, Sound
    <2>2. ASSUME Expanding(w)' PROVE Expansion(w)'
      <3>1. doing[w] = "expand"
        BY <1>2, <2>2 DEF Expanding
      <3>. QED BY <1>1, <1>2, <1>8, <3>1, NextEdgeIs DEF Expansion
    <2>3. todo'[w] \subseteq Reached /\ closed' \subseteq Reached
      BY <1>1, <1>e DEF SInv, Sound
    <2>. QED BY <1>1, <1>2, <1>6, <2>1, <2>2, <2>3, AloneIsSound DEF SInv, Sound
  <1>10. ASSUME NothingFound'
         PROVE  Calm'
    <2>1. Calm
      BY <1>2, <1>10 DEF NothingFound, SInv
    <2>p. pc[w] = "edges" /\ pc'[w] = "edges"
      BY <1>1, <1>2, NextEdgeIs
    <2>2. GoesOn(w)'
      BY <1>2, <2>p, <2>1 DEF Calm, NobodyStops, GoesOn, AtEdges
    <2>3. ASSUME NEW m \in Nodes, UnderWay(m) PROVE UnderWay(m)'
      <3>1. CASE m = n
        BY <1>1, <3>1 DEF UnderWay
      <3>2. CASE m # n
        <4>1. ASSUME NEW v \in Workers, m \in todo[v] PROVE m \in todo'[v]
          BY <1>1, <3>2, <4>1, NextEdgeIs
        <4>. QED BY <1>1, <1>2, <2>3, <4>1 DEF UnderWay
      <3>. QED BY <3>1, <3>2
    <2>4. NoGoal'
      BY <1>1, <1>2, <2>1 DEF Calm, NoGoal, IsGoal
    <2>5. /\ \A m \in closed' : m \in closed \/ m \in ToSet(queue'[w])
          /\ \A m \in ToSet(queue[w]) : m \in ToSet(queue'[w])
      BY <1>1, <1>4, <1>5
    <2>6. ASSUME Expanding(w)' PROVE \A m \in problem.succ[Head(queue'[w])] : UnderWay(m)'
      <3>1. Expanding(w) /\ queue[w] # <<>>
        BY <1>1, <1>2, <2>6, NextEdgeIs DEF Expanding, AtEdges
      <3>. QED BY <1>2, <1>8, <1>t, <2>1, <2>3, <3>1, HeadFacts DEF Calm, Expansions
    <2>. QED BY <1>2, <1>6, <1>t, <2>1, <2>2, <2>3, <2>4, <2>5, <2>6, <2>p, AloneIsCalm
  <1>. QED BY <1>7, <1>9, <1>10 DEF SInv

\* What a worker has found is wanted; nothing is promised of the rest then.
LEMMA GoalEdgeIsSound ==
  ASSUME IInv, SInv, NEW w \in Workers, GoalEdge(w)
  PROVE  SInv'
  <1>t. Types /\ SearchTypes /\ problem \in Problems
    BY DEF IInv, SInv, Types
  <1>1. PICK n \in Nodes : /\ NextEdge(w, n)
                           /\ IsGoal(n)
                           /\ closed' = closed \cup {n}
                           /\ goal' = [goal EXCEPT ![w] = n]
    BY DEF GoalEdge
  <1>2. /\ UNCHANGED <<problem, inbox, queue, axed, doing, count, scan, spurious, busy, back>>
        /\ interrupt' = [interrupt EXCEPT ![w] = TRUE]
        /\ pending' = [pending EXCEPT ![w] = Workers \ {w}]
        /\ pc' = [pc EXCEPT ![w] = "interrupt"]
    BY DEF GoalEdge, Goto, quietVars
  <1>e. /\ n \in todo[w] /\ n \in Reached
        /\ todo'[w] = todo[w] \ {n} /\ todo'[w] \subseteq Reached
        /\ \A v \in Workers : v # w => todo'[v] = todo[v] /\ deadlocked'[v] = deadlocked[v]
        /\ todo' \in [Workers -> SUBSET Nodes] /\ deadlocked' \in [Workers -> BOOLEAN]
    BY <1>1, NextEdgeIs
  <1>3. Alone(w) /\ pc'[w] = "interrupt"
    BY <1>2, <1>e, <1>t DEF Alone, Types, SearchTypes
  <1>4. /\ goal' \in [Workers -> Nodes \cup {NoNode}] /\ goal'[w] = n
        /\ \A v \in Workers : v # w => goal'[v] = goal[v]
    BY <1>1, <1>t DEF SearchTypes
  <1>5. SearchTypes'
    <2>1. \A v \in Workers : pc'[v] \in {"process", "register"} => pc[v] = pc'[v]
      BY <1>3 DEF Alone
    <2>2. /\ interrupt' \in [Workers -> BOOLEAN]
          /\ pending' \in [Workers -> SUBSET Workers]
      BY <1>2, <1>t DEF SearchTypes
    <2>. QED BY <1>1, <1>2, <1>4, <1>e, <1>t, <2>1, <2>2 DEF SearchTypes
  <1>6. Sound'
    <2>1. n \in Wanted
      BY <1>1, <1>e DEF Wanted, IsGoal
    <2>2. ASSUME Expanding(w)' PROVE Expansion(w)'
      <3>1. doing[w] = "expand"
        BY <1>2, <2>2 DEF Expanding
      <3>. QED BY <1>1, <1>2, <3>1, NextEdgeIs DEF Expansion
    <2>3. /\ closed' \subseteq Reached /\ ToSet(queue'[w]) \subseteq closed'
          /\ \A v, u \in Workers : ToSet(inbox'[v][u]) \subseteq Reached
      BY <1>1, <1>2, <1>e DEF SInv, Sound
    <2>. QED BY <1>1, <1>2, <1>3, <1>4, <1>e, <2>1, <2>2, <2>3, AloneIsSound
  <1>7. ~NothingFound'
    <2>1. n # NoNode
      BY SearchAssumption
    <2>. QED BY <1>4, <2>1 DEF NothingFound
  <1>. QED BY <1>5, <1>6, <1>7 DEF SInv

LEMMA TerminateIsSound ==
  ASSUME IInv, SInv, NEW w \in Workers, Terminate(w)
  PROVE  SInv'
  <1>t. Types /\ SearchTypes /\ problem \in Problems
    BY DEF IInv, SInv, Types
  <1>1. /\ UNCHANGED <<problem, inbox, closed, deadlocked, todo, goal, doing, count, scan, pending,
                       spurious, busy, back, interrupt>>
        /\ pc[w] = "interrupt" /\ pc' = [pc EXCEPT ![w] = "edges"]
        /\ queue' = [queue EXCEPT ![w] = <<>>]
        /\ axed' = [axed EXCEPT ![w] = TRUE]
    BY DEF Terminate, Goto, quietVars, workVars
  <1>s. <<>> \in Seq(Nodes) /\ ToSet(<<>>) = {}
    BY DEF ToSet
  <1>2. Alone(w) /\ pc'[w] = "edges" /\ queue'[w] = <<>> /\ axed'[w]
    BY <1>1, <1>t DEF Alone, Types, SearchTypes
  <1>3. SearchTypes'
    <2>1. \A v \in Workers : pc'[v] \in {"process", "register"} => pc[v] = pc'[v]
      BY <1>2 DEF Alone
    <2>2. queue' \in [Workers -> Seq(Nodes)] /\ axed' \in [Workers -> BOOLEAN]
      BY <1>1, <1>s, <1>t DEF SearchTypes
    <2>. QED BY <1>1, <1>t, <2>1, <2>2 DEF SearchTypes
  <1>4. Sound'
    BY <1>1, <1>2, <1>s, AloneIsSound DEF SInv, Sound, Expansion
  <1>5. ~NothingFound'
    BY <1>1 DEF SInv, Calm, NobodyStops, GoesOn, NothingFound
  <1>. QED BY <1>3, <1>4, <1>5 DEF SInv

LEMMA CloseIsSound ==
  ASSUME IInv, SInv, NEW w \in Workers, Close(w)
  PROVE  SInv'
  <1>t. Types /\ SearchTypes /\ problem \in Problems
    BY DEF IInv, SInv, Types
  <1> DEFINE found == queue[w] # <<>> /\ IsDeadlock(w)
  <1>1. /\ UNCHANGED <<problem, inbox, closed, deadlocked, doing, count, scan, pending,
                       spurious, busy, back, interrupt>>
        /\ NoEdgesLeft(w) /\ pc[w] = "edges" /\ doing[w] = "expand"
        /\ pc' = [pc EXCEPT ![w] = IF count[w] < Batch THEN "process" ELSE "loop"]
        /\ goal' = IF found THEN [goal EXCEPT ![w] = Head(queue[w])] ELSE goal
        /\ axed' = [axed EXCEPT ![w] = @ \/ found]
        /\ queue' = [queue EXCEPT ![w] = IF found \/ @ = <<>> THEN <<>> ELSE Tail(@)]
        /\ todo' = [todo EXCEPT ![w] = {}]
    BY DEF Close, Goto, quietVars
  <1>s. <<>> \in Seq(Nodes) /\ ToSet(<<>>) = {}
    BY DEF ToSet
  <1>2. Expanding(w) /\ Expansion(w)
    BY <1>1 DEF SInv, Sound, Expanding, AtEdges
  <1>3. queue[w] # <<>> => ~axed[w] /\ todo[w] = {}
    BY <1>1, <1>2 DEF Expansion, NoEdgesLeft, Axed
  <1>4. found => Head(queue[w]) \in Wanted
    <2>1. ASSUME found PROVE Head(queue[w]) \in Wanted
      <3>1. /\ problem.property = "deadlock" /\ deadlocked[w] /\ queue[w] # <<>>
        BY <2>1 DEF IsDeadlock
      <3>2. problem.succ[Head(queue[w])] = {}
        BY <1>2, <1>3, <3>1 DEF Expansion
      <3>3. Head(queue[w]) \in Reached
        BY <1>t, <3>1, HeadFacts DEF SInv, Sound
      <3>. QED BY <3>1, <3>2, <3>3 DEF Wanted
    <2>. QED BY <2>1
  <1>5. /\ queue'[w] = IF found \/ queue[w] = <<>> THEN <<>> ELSE Tail(queue[w])
        /\ queue'[w] \in Seq(Nodes)
        /\ ToSet(queue'[w]) \subseteq ToSet(queue[w])
        /\ queue' \in [Workers -> Seq(Nodes)]
    <2>1. queue \in [Workers -> Seq(Nodes)]
      BY <1>t DEF SearchTypes
    <2>2. queue'[w] = IF found \/ queue[w] = <<>> THEN <<>> ELSE Tail(queue[w])
      BY <1>1, <2>1
    <2>3. CASE found \/ queue[w] = <<>>
      BY <1>1, <1>s, <2>1, <2>2, <2>3
    <2>4. CASE ~(found \/ queue[w] = <<>>)
      <3>1. /\ Tail(queue[w]) \in Seq(Nodes)
            /\ ToSet(queue[w]) = {Head(queue[w])} \cup ToSet(Tail(queue[w]))
        BY <1>t, <2>4, HeadFacts
      <3>. QED BY <1>1, <2>1, <2>2, <2>4, <3>1
    <2>. QED BY <2>3, <2>4, <2>2
  <1>. HIDE DEF found
  <1>6. /\ Alone(w) /\ pc'[w] \in {"process", "loop"} /\ todo'[w] = {}
        /\ pc'[w] = "process" => count[w] < Batch
        /\ axed'[w] = (axed[w] \/ found)
    BY <1>1, <1>t DEF Alone, Types, SearchTypes
  <1>7. goal' \in [Workers -> Nodes \cup {NoNode}]
    BY <1>1, <1>4, <1>t, ReachedFacts DEF Wanted, SearchTypes
  <1>8. SearchTypes'
    <2>1. \A v \in Workers : /\ pc'[v] = "process" => count[v] < Batch
                             /\ pc'[v] = "register" => doing[v] = "initials"
      BY <1>6, <1>t DEF Alone, SearchTypes
    <2>2. axed' \in [Workers -> BOOLEAN] /\ todo' \in [Workers -> SUBSET Nodes]
      BY <1>1, <1>t DEF SearchTypes
    <2>. QED BY <1>1, <1>5, <1>7, <1>t, <2>1, <2>2 DEF SearchTypes
  <1>9. Sound'
    <2>1. ~Expanding(w)'
      BY <1>6 DEF Expanding, AtEdges
    <2>2. \A v \in Workers : goal'[v] = goal[v] \/ goal'[v] \in Wanted
      BY <1>1, <1>4, <1>t DEF SearchTypes
    <2>3. ToSet(queue'[w]) \subseteq closed'
      BY <1>1, <1>5 DEF SInv, Sound
    <2>. QED BY <1>1, <1>6, <2>1, <2>2, <2>3, AloneIsSound DEF SInv, Sound
  <1>10. ASSUME NothingFound'
         PROVE  Calm'
    <2>1. ~found
      <3>1. found => goal'[w] = Head(queue[w]) /\ Head(queue[w]) \in Nodes
        BY <1>1, <1>4, <1>t, ReachedFacts DEF Wanted, SearchTypes
      <3>. QED BY <1>10, <3>1, SearchAssumption DEF NothingFound
    <2>2. NothingFound /\ Calm
      BY <1>1, <1>10, <2>1 DEF NothingFound, SInv
    <2>3. ~axed[w] /\ queue[w] # <<>> /\ todo[w] = {}
      BY <1>2, <1>3, <2>2 DEF Calm, NobodyStops, GoesOn, Expansion
    <2>4. GoesOn(w)'
      BY <1>1, <1>6, <2>1, <2>2 DEF Calm, NobodyStops, GoesOn
    <2>5. \A n \in Nodes : UnderWay(n) => UnderWay(n)'
      <3>1. \A v \in Workers : todo'[v] = todo[v]
        BY <1>6, <2>3 DEF Alone
      <3>. QED BY <1>1, <3>1 DEF UnderWay
    <2>6. NoGoal'
      BY <1>1, <2>2 DEF Calm, NoGoal
    <2>7. ASSUME NEW n \in ToSet(queue[w]) PROVE n \in ToSet(queue'[w]) \/ Followed(n)'
      <3>1. CASE n = Head(queue[w])
        <4>1. NoDead(n)
          BY <1>2, <2>1, <2>3, <3>1 DEF Expansion, NoDead, found, IsDeadlock
        <4>2. Followed(n)
          BY <1>2, <2>2, <3>1, <4>1 DEF Calm, Expansions, Followed
        <4>. QED BY <1>1, <1>t, <2>3, <2>5, <3>1, <4>2, HeadFacts, FollowedStays
      <3>2. CASE n # Head(queue[w])
        BY <1>5, <1>t, <2>1, <2>3, <3>2, HeadFacts
      <3>. QED BY <3>1, <3>2
    <2>8. ~Expanding(w)' /\ pc[w] # "register"
      BY <1>1, <1>6 DEF Expanding, AtEdges
    <2>. QED BY <1>1, <1>6, <1>t, <2>2, <2>4, <2>5, <2>6, <2>7, <2>8, AloneIsCalm
  <1>. QED BY <1>8, <1>9, <1>10 DEF SInv

\* A message is taken: the others stay.
LEMMA TakenMessage ==
  ASSUME SInv, NEW v \in Workers, NEW w \in Workers, inbox[v][w] # <<>>,
         inbox' = [inbox EXCEPT ![v][w] = Tail(@)]
  PROVE  /\ inbox' \in [Workers -> [Workers -> Seq(Nodes)]]
         /\ Head(inbox[v][w]) \in Nodes /\ Head(inbox[v][w]) \in Reached
         /\ ToSet(inbox[v][w]) = {Head(inbox[v][w])} \cup ToSet(inbox'[v][w])
         /\ \A a, b \in Workers : a # v \/ b # w => inbox'[a][b] = inbox[a][b]
         /\ \A a, b \in Workers : ToSet(inbox'[a][b]) \subseteq Reached
  <1>1. inbox \in [Workers -> [Workers -> Seq(Nodes)]] /\ inbox[v][w] \in Seq(Nodes)
    BY DEF SInv, SearchTypes
  <1>2. /\ Head(inbox[v][w]) \in Nodes /\ Tail(inbox[v][w]) \in Seq(Nodes)
        /\ Head(inbox[v][w]) \in ToSet(inbox[v][w])
        /\ ToSet(inbox[v][w]) = {Head(inbox[v][w])} \cup ToSet(Tail(inbox[v][w]))
    BY <1>1, ToSetFacts
  <1>3. /\ inbox' \in [Workers -> [Workers -> Seq(Nodes)]]
        /\ inbox'[v][w] = Tail(inbox[v][w])
        /\ \A a, b \in Workers : a # v \/ b # w => inbox'[a][b] = inbox[a][b]
    BY <1>1, <1>2
  <1>4. \A a, b \in Workers : ToSet(inbox[a][b]) \subseteq Reached
    BY DEF SInv, Sound
  <1>5. ToSet(inbox'[v][w]) \subseteq Reached /\ Head(inbox[v][w]) \in Reached
    BY <1>2, <1>3, <1>4
  <1>. QED BY <1>2, <1>3, <1>4, <1>5

LEMMA ReceiveIsSound ==
  ASSUME IInv, SInv, NEW w \in Workers, Receive(w)
  PROVE  SInv'
  <1>t. Types /\ SearchTypes /\ problem \in Problems
    BY DEF IInv, SInv, Types
  <1> DEFINE v == scan[w]
             n == Head(inbox[v][w])
  <1>1. /\ UNCHANGED <<problem, queue, closed, deadlocked, axed, goal, count, scan, pending,
                       spurious, busy, back, interrupt>>
        /\ pc[w] = "receive" /\ pc' = [pc EXCEPT ![w] = "edges"]
        /\ v <= N /\ inbox[v][w] # <<>>
        /\ todo' = [todo EXCEPT ![w] = {n}]
        /\ doing' = [doing EXCEPT ![w] = "receive"]
        /\ inbox' = [inbox EXCEPT ![v][w] = Tail(@)]
    BY DEF Receive, Goto, quietVars, flagVars
  <1>2. v \in Workers
    BY <1>1, <1>t, BarrierAssumption DEF SearchTypes, Workers
  <1>3. /\ inbox' \in [Workers -> [Workers -> Seq(Nodes)]]
        /\ n \in Nodes /\ n \in Reached
        /\ ToSet(inbox[v][w]) = {n} \cup ToSet(inbox'[v][w])
        /\ \A a, b \in Workers : a # v \/ b # w => inbox'[a][b] = inbox[a][b]
        /\ \A a, b \in Workers : ToSet(inbox'[a][b]) \subseteq Reached
    BY <1>1, <1>2, TakenMessage
  <1>. HIDE DEF v, n
  <1>4. Alone(w) /\ pc'[w] = "edges" /\ todo'[w] = {n} /\ ~Expanding(w)'
    BY <1>1, <1>t DEF Alone, Types, SearchTypes, Expanding
  <1>5. SearchTypes'
    <2>1. \A u \in Workers : pc'[u] \in {"process", "register"} => pc[u] = pc'[u] /\ u # w
      BY <1>4 DEF Alone
    <2>2. todo' \in [Workers -> SUBSET Nodes]
      <3>1. todo \in [Workers -> SUBSET Nodes] /\ {n} \in SUBSET Nodes
        BY <1>3, <1>t DEF SearchTypes
      <3>2. todo' = [todo EXCEPT ![w] = {n}]
        BY <1>1
      <3>. QED BY <3>1, <3>2
    <2>3. doing' \in [Workers -> {"initials", "expand", "receive"}]
      BY <1>1, <1>t DEF SearchTypes
    <2>4. \A u \in Workers : pc'[u] = "register" => doing'[u] = "initials"
      BY <1>1, <1>t, <2>1 DEF SearchTypes
    <2>5. \A u \in Workers : pc'[u] = "process" => count'[u] < Batch
      BY <1>1, <1>t, <2>1 DEF SearchTypes
    <2>6. /\ queue' \in [Workers -> Seq(Nodes)] /\ closed' \subseteq Nodes
          /\ busy' \in [Workers -> BOOLEAN] /\ interrupt' \in [Workers -> BOOLEAN]
          /\ axed' \in [Workers -> BOOLEAN] /\ deadlocked' \in [Workers -> BOOLEAN]
      BY <1>1, <1>t DEF SearchTypes
    <2>7. /\ count' \in [Workers -> 0 .. Batch] /\ scan' \in [Workers -> 1 .. N + 1]
          /\ pending' \in [Workers -> SUBSET Workers]
          /\ goal' \in [Workers -> Nodes \cup {NoNode}] /\ spurious' \in 0 .. MaxSpurious
      BY <1>1, <1>t DEF SearchTypes
    <2>. QED BY <1>3, <2>2, <2>3, <2>4, <2>5, <2>6, <2>7 DEF SearchTypes
  <1>6. Sound'
    BY <1>1, <1>3, <1>4, AloneIsSound DEF SInv, Sound
  <1>7. ASSUME NothingFound'
        PROVE  Calm'
    <2>1. Calm
      BY <1>1, <1>7 DEF NothingFound, SInv
    <2>2. todo[w] = {}
      BY <1>1, <2>1 DEF Calm, NobodyStops, GoesOn, AtEdges
    <2>3. GoesOn(w)'
      BY <1>1, <1>4, <2>1 DEF Calm, NobodyStops, GoesOn, AtEdges
    <2>4. ASSUME NEW m \in Nodes, UnderWay(m) PROVE UnderWay(m)'
      <3>1. CASE m = n
        BY <1>4, <3>1 DEF UnderWay
      <3>2. CASE m # n
        <4>1. ASSUME NEW u \in Workers, m \in todo[u] PROVE m \in todo'[u]
          BY <1>4, <2>2, <4>1 DEF Alone
        <4>2. ASSUME NEW a \in Workers, NEW b \in Workers, m \in ToSet(inbox[a][b])
              PROVE  m \in ToSet(inbox'[a][b])
          BY <1>3, <3>2, <4>2
        <4>. QED BY <1>1, <2>4, <4>1, <4>2 DEF UnderWay
      <3>. QED BY <3>1, <3>2
    <2>5. NoGoal'
      BY <1>1, <2>1 DEF Calm, NoGoal
    <2>. QED BY <1>1, <1>4, <1>t, <2>1, <2>3, <2>4, <2>5, AloneIsCalm
  <1>. QED BY <1>5, <1>6, <1>7 DEF SInv

LEMMA FirstIs ==
  ASSUME NEW w \in Workers, WorkWaiting(w)
  PROVE  First(w) \in Workers /\ inbox[First(w)][w] # <<>>
  <1> DEFINE S == {v \in Workers : inbox[v][w] # <<>>}
  <1>1. S \subseteq Nat /\ S # {} /\ N \in Nat
    BY BarrierAssumption DEF WorkWaiting, Workers
  <1>2. PICK x \in S : \A y \in S : ~(<<y, x>> \in OpToRel(<, Nat))
    BY <1>1, NatLessThanWellFounded, WFMin
  <1>3. \A y \in S : ~(y < x)
    BY <1>1, <1>2 DEF OpToRel
  <1>4. \A v \in 1 .. x - 1 : inbox[v][w] = <<>>
    <2>1. x \in 1 .. N
      BY <1>2 DEF Workers
    <2>2. \A v \in 1 .. x - 1 : v \in 1 .. N /\ v < x
      BY <1>1, <2>1
    <2>. QED BY <1>3, <2>2 DEF Workers
  <1>. QED BY <1>2, <1>4 DEF First

LEMMA DrainIsSound ==
  ASSUME IInv, SInv, NEW w \in Workers, Drain(w)
  PROVE  SInv'
  <1>1. /\ UNCHANGED <<problem, queue, closed, todo, doing, deadlocked, axed, goal, count, scan,
                       pending, spurious, busy, back, interrupt, pc>>
        /\ pc[w] = "drain" /\ WorkWaiting(w)
        /\ inbox' = [inbox EXCEPT ![First(w)][w] = Tail(@)]
    BY DEF Drain, quietVars, searchVars, flagVars, workVars
  <1>2. /\ inbox' \in [Workers -> [Workers -> Seq(Nodes)]]
        /\ \A a, b \in Workers : ToSet(inbox'[a][b]) \subseteq Reached
    BY <1>1, FirstIs, TakenMessage
  <1>3. SearchTypes'
    BY <1>1, <1>2 DEF SInv, SearchTypes
  <1>4. Sound'
    BY <1>1, <1>2, SameReached DEF SInv, Sound, Expanding, Expansion
  <1>5. ~NothingFound'
    BY <1>1 DEF SInv, Calm, NobodyStops, GoesOn, NothingFound
  <1>. QED BY <1>3, <1>4, <1>5 DEF SInv

LEMMA OpenIsSound ==
  ASSUME IInv, SInv, NEW w \in Workers, Open(w)
  PROVE  SInv'
  <1>t. Types /\ SearchTypes /\ problem \in Problems /\ Batch \in Nat
    BY SearchAssumption DEF IInv, SInv, Types
  <1> DEFINE n == Head(queue[w])
  <1>1. /\ UNCHANGED <<problem, inbox, closed, queue, goal, scan, pending, spurious, busy, back,
                       interrupt>>
        /\ queue[w] # <<>>
        /\ pc[w] = "process" /\ pc' = [pc EXCEPT ![w] = "edges"]
        /\ doing' = [doing EXCEPT ![w] = "expand"]
        /\ todo' = [todo EXCEPT ![w] = problem.succ[n]]
        /\ deadlocked' = [deadlocked EXCEPT ![w] = TRUE]
        /\ axed' = [axed EXCEPT ![w] = FALSE]
        /\ count' = [count EXCEPT ![w] = @ + 1]
    BY DEF Open, Goto, quietVars
  <1>2. n \in Nodes /\ problem.succ[n] \subseteq Nodes /\ problem.succ[n] \subseteq Reached
    BY <1>1, <1>t, HeadFacts, ReachedFacts DEF SInv, Sound
  <1>3. /\ Alone(w) /\ pc'[w] = "edges" /\ todo'[w] = problem.succ[n]
        /\ deadlocked'[w] /\ ~axed'[w] /\ queue'[w] = queue[w]
    BY <1>1, <1>t DEF Alone, Types, SearchTypes
  <1>4. SearchTypes'
    <2>1. count' \in [Workers -> 0 .. Batch]
      <3>1. count \in [Workers -> 0 .. Batch] /\ count[w] < Batch
        BY <1>1, <1>t DEF SearchTypes
      <3>. QED BY <1>1, <1>t, <3>1
    <2>2. /\ todo' \in [Workers -> SUBSET Nodes] /\ axed' \in [Workers -> BOOLEAN]
          /\ deadlocked' \in [Workers -> BOOLEAN]
          /\ doing' \in [Workers -> {"initials", "expand", "receive"}]
      BY <1>1, <1>2, <1>t DEF SearchTypes
    <2>3. \A u \in Workers : /\ pc'[u] = "process" => count'[u] < Batch
                             /\ pc'[u] = "register" => doing'[u] = "initials"
      <3>1. \A u \in Workers : pc'[u] \in {"process", "register"} => pc[u] = pc'[u] /\ u # w
        BY <1>3 DEF Alone
      <3>. QED BY <1>1, <1>t, <3>1 DEF SearchTypes
    <2>. QED BY <1>1, <1>t, <2>1, <2>2, <2>3 DEF SearchTypes
  <1>. HIDE DEF n
  <1>5. Sound'
    <2>1. Expansion(w)'
      BY <1>1, <1>3 DEF Expansion, n
    <2>. QED BY <1>1, <1>2, <1>3, <2>1, AloneIsSound DEF SInv, Sound
  <1>6. ASSUME NothingFound'
        PROVE  Calm'
    <2>1. Calm
      BY <1>1, <1>6 DEF NothingFound, SInv
    <2>2. todo[w] = {}
      BY <1>1, <2>1 DEF Calm, NobodyStops, GoesOn, AtEdges
    <2>3. GoesOn(w)'
      BY <1>1, <1>3, <2>1 DEF Calm, NobodyStops, GoesOn, AtEdges
    <2>4. \A m \in Nodes : UnderWay(m) => UnderWay(m)'
      <3>1. \A u \in Workers : todo[u] \subseteq todo'[u]
        BY <1>3, <2>2 DEF Alone
      <3>. QED BY <1>1, <3>1 DEF UnderWay
    <2>5. \A m \in problem.succ[n] : UnderWay(m)'
      BY <1>3 DEF UnderWay
    <2>6. NoGoal'
      BY <1>1, <2>1 DEF Calm, NoGoal
    <2>. QED BY <1>1, <1>3, <1>t, <2>1, <2>3, <2>4, <2>5, <2>6, AloneIsCalm DEF n
  <1>. QED BY <1>4, <1>5, <1>6 DEF SInv

-----------------------------------------------------------------------------
(* The verdict.                                                            *)

LEMMA StepSInv == IInv /\ SInv /\ [Next]_vars => SInv'
  <1> SUFFICES ASSUME IInv, SInv, [Next]_vars PROVE SInv'
    OBVIOUS
  <1>1. CASE Joined \/ UNCHANGED vars
    <2>1. /\ UNCHANGED <<problem, queue, closed, todo, doing, deadlocked, axed, goal, count, scan,
                         pending, spurious, busy, back, interrupt, pc, inbox>>
      BY <1>1 DEF Joined, vars, barrierVars, searchVars, flagVars, workVars
    <2>2. Silent
      BY <2>1 DEF Silent, SInv, SearchTypes, Calm, NobodyStops, GoesOn
    <2>. QED BY <2>2, SilentKeeps
  <1>2. ASSUME NEW w \in Workers, BarrierStep(w) \/ SpuriousWakeup(w)
        PROVE  SInv'
    BY <1>2, BarrierIsSilent, SilentKeeps
  <1>3. ASSUME NEW w \in Workers, Search(w)
        PROVE  SInv'
    <2>1. CASE Start(w) \/ SendEdge(w) \/ StoreEdge(w) \/ GoalEdge(w)
      BY <2>1, StartIsSound, SendEdgeIsSound, StoreEdgeIsSound, GoalEdgeIsSound
    <2>2. CASE Terminate(w) \/ Close(w) \/ Receive(w) \/ Drain(w) \/ Open(w)
      BY <2>2, TerminateIsSound, CloseIsSound, ReceiveIsSound, DrainIsSound, OpenIsSound
    <2>3. CASE WakeReceiver(w) \/ Interrupt(w)
      BY <2>3, WakeReceiverIsSilent, InterruptIsSilent, SilentKeeps
    <2>4. CASE \/ Restart(w) \/ Received(w) \/ Messages(w) \/ ReceiveNext(w)
               \/ ProcessQueue(w) \/ QueueEmpty(w)
      BY <2>4, GoingOnIsSilent, SilentKeeps
    <2>5. CASE Interrupted(w) \/ Drained(w) \/ Idle(w)
      BY <2>5, GoIdleIsSilent, SilentKeeps
    <2>. QED BY <1>3, <2>1, <2>2, <2>3, <2>4, <2>5 DEF Search
  <1>. QED BY <1>1, <1>2, <1>3 DEF Next

LEMMA AlwaysSInv == Spec => []SInv
  BY InitSInv, StepSInv, AlwaysIInv, PTL DEF Spec

\* The global mutex is only ever held by a worker.
GlobalType == global \in Workers \cup {NoOne}

LEMMA GlobalTyped == Spec => []GlobalType
  <1>1. Init => GlobalType
    BY DEF Init, BarrierInit, GlobalType
  <1>2. GlobalType /\ [Next]_vars => GlobalType'
    <2> SUFFICES ASSUME GlobalType, [Next]_vars PROVE GlobalType'
      OBVIOUS
    <2>1. CASE Joined \/ UNCHANGED vars
      BY <2>1 DEF Joined, vars, barrierVars, lockVars, GlobalType
    <2>2. ASSUME NEW w \in Workers, Search(w)
          PROVE  GlobalType'
      <3>1. global' = global
        BY <2>2 DEF Search, Start, Register, SendEdge, WakeReceiver, Wakeup, StoreEdge, GoalEdge,
                    Interrupt, Terminate, Restart, Close, Received, Messages, Interrupted, Receive,
                    ReceiveNext, Drain, Drained, ProcessQueue, Open, QueueEmpty, Idle, GoIdle,
                    quietVars, lockVars
      <3>. QED BY <3>1 DEF GlobalType
    <2>3. ASSUME NEW w \in Workers, BarrierStep(w) \/ SpuriousWakeup(w)
          PROVE  GlobalType'
      <3>1. global' \in {global, NoOne, w}
        BY <2>3 DEF BarrierStep, SpuriousWakeup, In, Expect, TakeGlobal, TryLock, FoundDone, Leave,
                    NotDone, NotifyNext, GoToBed, StayUp, Wait, Spurious, Relock, WakeDone,
                    WakeWork, Woken, lockVars
      <3>. QED BY <2>3, <3>1 DEF GlobalType
    <2>. QED BY <2>1, <2>2, <2>3 DEF Next
  <1>. QED BY <1>1, <1>2, PTL DEF Spec

\* Every variable keeps its type, those of the barrier and of the search.
THEOREM TypesKept == Spec => []TypeOK
  <1>1. IInv /\ SInv /\ GlobalType => TypeOK
    <2> SUFFICES ASSUME IInv, SInv, GlobalType PROVE TypeOK
      OBVIOUS
    <2>1. registered \subseteq Workers /\ asleep \in 0 .. N - 1
      BY DEF IInv, Registration, Sleepers
    <2>2. BarrierType
      BY <2>1 DEF IInv, SInv, Types, SearchTypes, GlobalType, BarrierType
    <2>3. \A v, w \in Workers : ToSet(inbox[v][w]) \subseteq Nodes
      BY ToSetFacts DEF SInv, SearchTypes
    <2>4. pc \in [Workers -> BarrierStates \cup
               {"register", "edges", "wakeup", "interrupt", "loop", "receive", "drain",
                "process"}]
      BY DEF IInv, Types, Labels, Work, InBed, Deciding, BarrierStates
    <2>. QED BY <2>2, <2>3, <2>4 DEF IInv, Types, SInv, SearchTypes, Sound, TypeOK
  <1>. QED BY <1>1, GlobalTyped, AlwaysIInv, AlwaysSInv, PTL

\* The answer is right, for any number of workers and any graph: if nothing that
\* is wanted can be reached, everything that can has been stored; if something
\* can, someone has found it (divine/graph/visitor.h:301-341), although edges
\* travel between the workers, and an interrupted worker throws messages away.
THEOREM RightVerdict == Spec => []Verdict
  <1>1. IInv /\ SInv => Verdict
    <2> SUFFICES ASSUME IInv, SInv, AllFinished
                 PROVE  IF Wanted = {} THEN closed = Reached /\ \A w \in Workers : goal[w] = NoNode
                                       ELSE \E w \in Workers : goal[w] \in Wanted
      BY DEF Verdict
    <2>t. SearchTypes /\ problem \in Problems
      BY DEF IInv, SInv, Types
    <2>1. ASSUME NothingFound
          PROVE  closed = Reached /\ Wanted = {}
      <3>1. Calm
        BY <2>1 DEF SInv
      <3>2. \A v, w \in Workers : inbox[v][w] = <<>>
        <4>1. done
          BY WorkersFinite DEF AllFinished, IInv, Over, Workers
        <4>. QED BY <4>1 DEF IInv, Over, WorkWaiting
      <3>3. \A w \in Workers : todo[w] = {} /\ queue[w] = <<>> /\ pc[w] # "register"
        BY <3>1 DEF AllFinished, Calm, NobodyStops, GoesOn, AtEdges
      <3>4. ToSet(<<>>) = {}
        BY DEF ToSet
      <3>5. \A n : UnderWay(n) => n \in closed
        BY <3>2, <3>3, <3>4 DEF UnderWay
      <3>6. \A n \in closed : Followed(n)
        BY <3>1, <3>3, <3>4 DEF Calm, NoneForgotten, Queued
      <3>7. problem.initials \subseteq closed /\ \A n \in closed : problem.succ[n] \subseteq closed
        BY <3>1, <3>3, <3>5, <3>6 DEF Calm, NoneForgotten, Followed
      <3>8. closed = Reached
        <4>1. closed \subseteq Nodes /\ closed \subseteq Reached
          BY <2>t DEF SearchTypes, SInv, Sound
        <4>2. Reached \subseteq closed
          BY <2>t, <3>7, <4>1, ReachedFacts
        <4>. QED BY <4>1, <4>2
      <3>9. Wanted = {}
        BY <2>t, <3>1, <3>6, <3>8, ProblemFacts DEF Wanted, Calm, NoGoal, Followed, NoDead
      <3>. QED BY <3>8, <3>9
    <2>2. CASE NothingFound
      BY <2>1, <2>2 DEF NothingFound
    <2>3. CASE ~NothingFound
      BY <2>3 DEF NothingFound, SInv, Sound
    <2>. QED BY <2>2, <2>3
  <1>. QED BY <1>1, AlwaysIInv, AlwaysSInv, PTL
===============================================================================
