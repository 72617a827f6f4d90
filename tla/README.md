# The parallel core of DIVINE 3.3.2 in TLA+

DIVINE is an explicit-state model checker written in C++11
(`src/DIVINE/divine-3.3.2 2`; paths below are relative to that directory). It
explores the state space of a program with several threads, possibly on several
machines, and answers whether an error state, a deadlock or an accepting cycle
can be reached. A wrong answer of such a tool is silent: a search that stops
too early says "no error found". This project therefore models the code that
decides *when a parallel search is over* and *which states it has seen*: the
barriers, the termination counters, the queues, the shared hash set, the two
parallel visitors that use them, and the protocol between machines; on top of
them the three algorithms that look for accepting cycles; and, beside them, the
library of POSIX threads that a verified program is linked with, whose deadlock
detection is part of the verdict.

The rest of the repository (Spin, GOAL, PRISM and other tools, slides) is third
party material for a course and is not modelled.

## 1. Inventory

### 1.1 How a parallel search is put together

    algorithm (reachability, owcty, map, ...)      divine/algorithm
        | parallel( &This::_visit ): run on all threads, join
        v
    topology: Local (threads) or Mpi (ranks)       divine/toolkit/parallel.h, mpi.h
        | one worker per thread
        v
    visitor: Shared or Partitioned                 divine/graph/visitor.h
        |                     \
        v                      v
    open states               closed states
    SharedQueue  or Fifo      ConcurrentHashSet or one hash set per worker
        |
        v
    end of the search
    ApproximateCounter + StartDetector   (Shared)
    Barrier + MpiForwarder               (Partitioned)

There are two designs. In the *shared* one all threads take states from one
queue and put them into one hash set; a shared counter of open states says when
to stop. In the *partitioned* one each state has an owner, an edge to someone
else's state is a message, and a lock-based barrier detects that all threads
sleep while no message is under way. The partitioned design extends over
machines: a forwarder thread on each rank ships the messages, and the master
counts messages sent and received.

### 1.2 Components

For each: the state, the operations, who it talks to, what is hard, what makes
it correct.

**StartDetector** (`bricks/brick-shmem.h:250-285`). Two atomics, `counter` and
`leaveGuard`; one operation, `waitForAll`. Called by each worker of a shared
search after it has pushed its initial states, from the same object again and
again. Hard: a fast thread is back for the next round while slow ones still
leave the previous one. Correct if nobody leaves before all have come, rounds
do not mix, and everybody gets out.

**ApproximateCounter and the shared visitor** (`bricks/brick-shmem.h:178-248`,
`divine/graph/visitor.h:99-233, 393-470`, `divine/graph/datastruct.h:20-330`).
A shared number, and in each thread a local stock drawn from it; increments and
decrements touch the stock, `sync` gives it back with a compare-and-exchange.
The visitor loops until the counter reads zero. Hard: the order of push, pop,
flush and sync; a premature zero ends the search with states unexplored; a
missing `sync` lets the others spin for ever; `terminate` resets the counter
while others still use it. Correct if the counter is never lower than the
number of open states, and if the verdict is that of the whole graph.

**LockedQueue / SharedQueue** (`bricks/brick-shmem.h:474-520`,
`datastruct.h:190-330`). A queue of chunks under a lock, with an `_empty` hint
that is read without it; in each thread an incoming and an outgoing chunk whose
size doubles. Hard: the hint may be stale either way.

**Fifo** (`bricks/brick-shmem.h:359-472`). A linked list of blocks, one writer,
one reader, no lock. Push allocates the next block; the reader frees the
previous ones. Hard: the reader asks `empty()` while the writer links a block.
Correct if it is a queue and no block is used after it is freed.

**Barrier** (`divine/toolkit/barrier.h`). A mutex and a condition per thread, a
global mutex, `m_sleeping`, `m_done`. `maybeIdle` tries to lock out all the
others; if it can, and no thread has work waiting, everything has ended. Hard:
messages sent while one decides; lost notifications; the last thread awake must
not sleep; maps changed while `wakeup` reads them without a lock.

**Partitioned visitor** (`divine/graph/visitor.h:236-345`,
`divine/toolkit/parallel.h:196-420`). Each worker receives, expands at most 64
states, and goes idle. `interrupt` sets a flag on everyone, after which messages
are thrown away. Correct if the section ends, and only when nothing is left.

**Concurrent hash set** (`bricks/brick-hashset.h:409-835`). An array of atomic
cells (20 bits of hash, a lock bit, a pointer), replaced by a larger array when
probing takes too long; all threads help to move the cells, segment by segment;
the last thread that leaves an old array frees it. Hard: insertions race with
the moving of the same cell, with the change of `currentRow` and with the
freeing. Correct if it behaves as an atomic set: of all the insertions of a
value exactly one is told that the value is new.

**MPI forwarder** (`divine/toolkit/mpi.h:180-510`, `parallel.h:519-660`). Per
rank the buffers, the outstanding requests and the two message counts; on the
master, the collection of the counts. Hard: messages under way are counted by
their sender only; answers come in any order; ranks enter the section at
different times.

**OWCTY and MAP** (`divine/algorithm/owcty.h`, `map.h`, `common.h`). The
algorithms for LTL properties on several threads. Each keeps an extension with
every state (bit fields with narrow widths) and runs one parallel section after
the other on the shared visitor: OWCTY an initialisation that sends maxima along
the edges, then reachability and elimination in turn until nothing more goes,
then a search for a state of a cycle; MAP a propagation of maxima and a clean-up
per iteration. Hard: the workers follow the edges into one state in any order;
a worker that finds a cycle cuts the section short and leaves what is in the
store half done; the next section starts from what the last has left; the table
is divided among the workers. Correct if "cycle" is reported exactly when an
accepting cycle can be reached.

**Nested DFS** (`divine/algorithm/nested-dfs.h`, with `DFV`/`DFVReadOnly` of
`visitor.h:99-233` and the `Stack` of `datastruct.h`). An outer search, an inner
one from each accepting state that the outer one finishes, in the same thread or
in a second one that gets its seeds through a `Fifo`. Hard: the inner thread
runs late, over a store that has grown; the end of the inner thread; the
callbacks that keep the stack of the counterexample while both searches unwind.

**POSIX threads of the verified program** (`divine/llvm/userspace/pthread.cpp`).
The slots of threads, mutexes of three types, conditions, barriers. Hard: the
calls wait by spinning on a condition that others make true; slots are reused;
a thread exits while the main thread goes through the slots to join them; the
search for a deadlock gives up in some cases; one thread may detach a thread that
another one joins. Correct if a deadlock that is reported is one, every deadlock of
mutexes is reported, and the main thread leaves last.

**Partial order reduction** (`algorithm/por-c3.h`), **context-switch directed
search** (`csdr.h`), **memory pool** (`toolkit/pool.h`, lock-free lists of free
blocks): not modelled, see sections 5 and 6.

Sequential or third-party parts, listed with their reasons in `PROJECT.json`:
state stores and tree compression, counterexamples, fairness transformation, LLVM
interpreter and its file system, input languages, ltl2ba, metrics and
simulation, instance selection, tools, libraries, GUI, vendored code.

The hazards, each at its line with the properties that would catch it, are in
`PROJECT.json` under `hazards`.

## 2. The modules

| Module | Models | Composition |
|---|---|---|
| `AbstractBarrier` | what `waitForAll` promises | |
| `StartDetector` | `StartDetector`, one access to an atomic a step | implements `AbstractBarrier` |
| `StartDetector_proofs` | its theorems with their proofs | |
| `SharedSearch` | shared visitor, `SharedQueue`, `LockedQueue`, `ApproximateCounter`, reachability callbacks, interruption | uses the start detector as one step ("all have arrived"), which is what `AbstractBarrier` allows; the hash set as an atomic insert, which is what `AbstractSet` allows |
| `SharedSearch_proofs` | its theorems | types, the exact counter, no early end, the verdict |
| `AbstractQueue` | what `Fifo` promises | |
| `Fifo` | `Fifo`, blocks allocated and freed | implements `AbstractQueue` |
| `Fifo_proofs` | its theorems: types, no use after delete, the order, and that it implements `AbstractQueue` | |
| `Barrier` | `divine::Barrier`, `Parallel::idle`, `submit` | extended by the next |
| `PartitionedSearch` | partitioned visitor over `Barrier`, the channels being `AbstractQueue`s | |
| `PartitionedSearch_proofs` | theorems about the barrier, the end of a partitioned search and its verdict | |
| `AbstractSet` | a set that answers each insertion at one instant within the call | |
| `ConcurrentHashSet` | `_ConcurrentHashSet` over `FastAtomicCell` | implements `AbstractSet` |
| `ConcurrentHashSet_proofs` | its theorems: types, no row freed under a thread, no access to a cell that is not there, and that it implements `AbstractSet` | |
| `MpiForwarder` | `Mpi::parallel`, `Mpi::loop`, the forwarder | takes from `Barrier` that a rank which looks quiet is quiet |
| `CycleDetection` | what every algorithm for accepting cycles promises | |
| `ParallelVisit` | a section of a parallel search as its callbacks see it: `Common::edge`, the shared store, the master | takes from `SharedSearch` that a section ends when nothing is left |
| `Owcty` | every section and the main loop of `owcty.h` | on `ParallelVisit`; implements `CycleDetection` |
| `Map` | `map.h`: visit, clean-up, main loop | on `ParallelVisit`; implements `CycleDetection` |
| `CycleDetection_proofs` | lemmas on paths and sections, and the theorems about MAP and OWCTY: real cycles, assertions, the number of the rounds and both verdicts, and for OWCTY the survival of cycles | |
| `NestedDfs` | `nested-dfs.h` with one thread and with two, over the sequential visitor and its stack | implements the safety part of `CycleDetection`; its queue of seeds is an `AbstractQueue` |
| `NestedDfs_proofs` | its theorems: types, the counterexample, the assertions, the verdict | |
| `PosixThreads` | `pthread.cpp`: create, entry, return, exit, join, detach, mutexes, conditions, barriers | driven by any program |
| `PosixThreads_proofs` | who is in which slot, that the main thread leaves last, and that the cycles reported are real | |
| `MC*` | values of the constants, small graphs | |

**Correspondence.** A variable has the name of the member it stands for
(`leaveGuard`, `m_sleeping` = `asleep`, `currentRow`, ...); `pc` says which
access comes next, its labels name the place in the function. An action is the
code between two accesses to shared memory, so that all the interleavings the
code allows are explored (atomics are sequentially consistent here; the fences
of weaker memory models are not modelled). A lock that is held is a variable
where others can see it (`holder`, `global` in `Barrier`) and an atomic step
where they can only wait (the spin lock of `LockedQueue`). Names ending in
`_Something` are wrong variants of an action, used to see that the properties
notice: nothing else refers to them.

**What is abstracted.**
- States of the explored program are model values; a graph is a record with
  successor sets. A member of `Problems` is chosen in `Init`, so that a run
  covers several graphs and properties.
- The order in which the successors of a state come is left open.
- In `SharedSearch`, the hash set is one atomic step, justified by `ImplementsSet`.
- In `ConcurrentHashSet`, a cell holds its value instead of 20 bits of its hash
  and a pointer, once it is locked; the values of a run differ in the hash bits,
  so that comparing these is comparing the values. The growth by 16, 8, 4, 2 of
  `nextSize` is a constant `Size`, as are `syncPoint`, `segmentSize` and
  `maxcollisions`. A row that is freed is the empty sequence, and reading it is
  an error.
- In `ParallelVisit` a step is one callback with the store's update before it:
  the `Guard` that `edge` and the expansion hold makes it atomic
  (`visitor.h:99-233`). The queue is a bag, so that any worker may take any state next.
  Handles are compared by number in the code; `Nodes` are these numbers, and
  `Cell` puts each into a cell of the table.
- In `NestedDfs` the successors are sequences, since their order decides what the
  outer search has stored when the inner one runs.
- In `PosixThreads` a call is one step between the points where the code lets
  others run (`__divine_interrupt`, the waits, the beginning of a call). The
  program calls anything in any state, but unlocks what it holds and uses one mutex
  with each condition. It may join and detach one thread from several others, and
  try mutexes that it holds. What has been reported (`problem`) is told apart as the
  messages are: "again", "cycle", "dead"; a null pointer is "dereference", a
  failed assertion of the library "internal".
- In `MpiForwarder`, queues and messages are counted, not listed; there is one
  worker per rank, and a local barrier is one predicate, `Quiet`, justified by
  `EndIsQuiet` of `PartitionedSearch`.

## 3. What is checked

Passing runs; each property has a wrong variant of the code that the same run
refutes (`mutants` in `PROJECT.json`).

| Run | Instance | Properties |
|---|---|---|
| `start_detector` | 4 threads, any number of rounds | `RoundsDoNotMix`: the two counters count exactly those inside and those leaving, so that `--leaveGuard` never wraps. `ImplementsBarrier`: nobody leaves before all have come. `EveryoneGetsOut` |
| `shared_search` | 2 workers on graphs of 4 states, goals and deadlocks; 3 workers on a ring of 3 | `CounterIsExact`: the comment at `brick-shmem.h:185` holds until a reset. `NoPrematureEnd`: nobody sees the end while a state is open. `Verdict`, `EveryoneReturns` |
| `fifo` | 6 elements, blocks of 2 | `ImplementsQueue` (with `empty()` right when it was asked), `NoUseAfterDelete`, `Drained` |
| `partitioned_search` | 3 workers who own 4 states, 1 spurious wakeup; the whole graph, a goal, a deadlock | `SleepersCounted` (assertion at `barrier.h:116`), `EndIsQuiet`, `WakeupIsSafe` (the unlocked reads at `barrier.h:57-60`), `Verdict`, `EveryoneReturns` |
| `hash_set` | 2 threads, 2 calls each, over 2 values that collide; growth from row to row, by use or by collisions | `ImplementsSet`, `RowsAreKept` (no row is freed under its user), `EveryCallReturns` |
| `mpi_two_ranks` | 2 ranks, 3 edges | `EndIsQuiet`: the master leaves only when nothing is left or under way. `EveryoneLeaves` |
| `cycle_detection` | OWCTY and MAP, 2 workers: every connected graph of 3 states and 4 edges with every set of accepting states, and six larger ones that need several rounds | `ImplementsCycleDetection` (the answer comes, and is right, whatever the order of the edges), `AssertionsHold`, `CyclesSurvive` (elimination takes no state of a cycle away), `MapIsPredecessor` |
| `nested_dfs` | one and two threads: every graph of 3 states with up to 2 successors each in any order, and larger ones | `RightVerdict`, `CounterexampleIsReal`, `StopsOnlyOnCycles`, `Ends` |
| `posix_threads` | every program of up to 4 threads, 3 at once, over a normal and a recursive mutex, a condition and a barrier of 2 | `DeadlocksAreReal` ("cycle" and "dead" are reported only where threads are stuck, and the assertion at `pthread.cpp:1088` holds), `DeadlocksAreReported`, `MainLeavesLast` |

`TypeOK` is checked once for each module, and bounds the counters that matter.

### 3.1 Disagreements with the code

**`mpi_early_end`.** `accumCounts` (`mpi.h:353-364`) reads the answer of every
slave into the one variable `valid`, so the last answer to arrive replaces the
earlier ones. With three ranks: one slave has a state to expand and answers that
it is not quiet, the other one is quiet and answers last; the counts of messages
agree, since none was sent; twice, the same. The master broadcasts
`TAG_TERMINATED` and returns while a slave is still searching, against
`parallel.h:41-42` ("the caller blocks until all the threads are finished").
The answers combined with "and" instead of overwritten make `EndIsQuiet` hold on
the same instance. With two ranks there is one answer, and the pass run holds.

**`map_shares`.** `firstIndex` and `lastIndex` (`store.h:226`) give each worker
`table().size() / locals()` cells, rounded down. The table has a power of two of
cells, so with three workers the last cells are nobody's: the clean-up of MAP
leaves the state there with its old maximum, the next iteration is not sent on
through it, and the answer is that the property holds although there is an
accepting cycle. The proofs show what does not depend on the shares, `NoFalseAlarms` and
`MapAssertions`, and that nothing else is missing: with whole shares `MapMissesNone`
holds for any number of workers. In `cycle_detection` two workers share eight
cells, and `ImplementsCycleDetection` holds.

**`nested_dfs_missing`.** The inner search only looks its targets up and asserts
that they are there (`visitor.h:157-160`). It starts when its seed is finished,
but may come back to a state that is still on the outer stack, and from there to
a successor that the outer search has not followed yet. The assertion fails (or,
compiled out, an invalid handle is used) where a cycle should be reported.
`StopsOnlyOnCycles` and `RightVerdict` bound the damage: it happens only on graphs
that have an accepting cycle, and no wrong answer is given.

### 3.2 Worth knowing

- The wakeup in `submit` (`barrier.h:52-66`) is only an optimisation: it can be
  lost, and the last worker awake notifies whoever has work waiting. This is why
  `MaySleep` keeps one awake; that somebody always is, is proved (`OneStaysUp`).
- After an early end, `ApproximateCounter` may be below the number of open
  states for a while. `EveryoneReturns` shows that this is harmless: nobody waits for
  those states any more.
- OWCTY's and MAP's maxima may be stale at the end of a section that was cut
  short, but never wrong: `MapIsPredecessor`.

- Trying a normal mutex that one holds is reported as a deadlock: `pthread_mutex_trylock`
  (`pthread.cpp:744-747`) calls `_mutex_lock` with `wait` 0, whose first test (661-669)
  reports "Nonrecursive mutex locked again" before it looks at `wait`, where POSIX asks
  for `EBUSY` and the comment at 678-681 says that a trylock is no deadlock. `TryLock` does
  it too (problem "again"), so `DeadlocksAreReal` claims nothing of that report.
- `pthread_join` reads the slot again after it has waited (`pthread.cpp:386`). Line 390
  knows that the thread may be "meanwhile detached", but if it has also ended the slot is
  null, and the program is stopped for a null pointer (problem "dereference", which `Joined`
  reaches); if a later thread has come into the slot, the join waits for that one (386,
  and 407 after a join that went well). No property claims otherwise.

Seen while reading, and not the subject of a run:

- `mpi.h:237-241`: the monitor for data messages is registered when the section
  begins (`mpi.h:499-500`). With three ranks a slave that was started first may send
  states to one that has not received `TAG_PARALLEL` yet, and `Mpi::loop` reaches
  its `ASSERT_UNREACHABLE_F`; MPI orders messages of one sender only.
- `pthread.cpp:239`: a thread cancelled while it waits for a condition leaves the
  count of its waiters as it was, which the assertion at 1088 is about.
- `pthread.cpp:759`: with debug assertions on, unlocking a mutex that nobody holds
  fails an assertion before it comes to the `EPERM` of the next lines.
- `owcty.h:277`, `map.h:248`: the visits do not pass on that a state needs full
  expansion, unlike `metrics.h:119`.
- `owcty.h:78`: the predecessor count has 19 bits where the comment speaks of a
  million, and the iteration 10 bits, compared with the whole number.
- `nested-dfs.h:112-115`: with several initial states the outer search is not depth-first,
  and the verdict may be wrong (section 4, `OneInitial`).
- `barrier.h:77`: `maybeIdle` resets `m_done`; two visits in one section could
  meet there. The sections modelled here run one each.

### 3.3 Bounds, and why they are enough

- *Threads*: 2 to 4. The protocols ask about "someone else" and "all the
  others", which three threads tell apart; the start detector needs a third to
  have one leave, one wait and one come back.
- *Graphs*: 4 states with a cycle, two paths to one state, two initial states,
  goals found at once or late and by one worker or two, deadlocks. More states
  repeat the same steps.
- `FirstChunk` 1, `MaxChunk` 2 (2 and 64 in the code) and `Step` 2 (100000): both a chunk
  that fills up and one that is flushed when idle occur, as do a stock that is
  used up and one that is given back.
- `Batch` 2 instead of 64: a worker returns to its messages with its queue not empty.
- `MaxSpurious` 1: one wakeup that nobody has sent.
- `NodeSize` 2, `MaxPushes` 6: three blocks, two of which are freed.
- `SyncPoint` 1 or 2, `MaxCollisions` 2 or 4, rows that double, or start with
  one cell: the set grows twice, with both threads in the old row.
- `MaxCalls` 2 for each thread: one to make it grow, and one that is late.
- `MaxEdges` bounds the edges of the search over ranks: with 3, messages cross
  while counts are being collected.
- `N` 3 in `partitioned_search`: two may sleep at once while the third decides.
- *Cycle detection*: with 3 states and 4 edges, every graph that has all of its
  states reachable, with every accepting set, is explored in every order of edges by
  2 workers; six graphs of 4 and 5 states need a second elimination, maxima that hide
  each other over several iterations, or a cycle found late. `TableSize` 8 is a
  multiple of the workers; `map_shares` shows what happens otherwise.
- *Nested DFS*: 3 states with 2 ordered successors are complete; the larger
  graphs have two seeds, a seed in front of a cycle, and no cycle.
- *Threads*: `MaxSlots` 3, so that two threads can wait for each other's mutexes while
  the main thread is in `pthread_exit`. `MaxThreads` 4: with a fourth in all, a slot can be
  taken again by a third thread while one waits in a join for who was there before.
  `MaxLocks` 2: a recursive mutex that is held twice.
- Widths: `counter` and `leaveGuard` wrap at 2^16, which the assumption on
  `Threads` (from the parameter's type) makes unreachable; this is proved.

### 3.4 Fairness

- *Weak fairness of each thread*: all of them are threads of the operating
  system in a section, and no step waits for a condition that only it can make
  true. Spinning loops are steps like others.
- *Strong fairness for taking a mutex* (`PartitionedSearch`): a mutex that is
  free again and again is obtained. The code yields after it has dropped the
  global mutex (`barrier.h:158-161`) for this reason.
- *Strong fairness for receiving* (`MpiForwarder`): a probe that is made again
  and again finds a message that has been sent.
- *Weak fairness of the next step* (`Owcty`, `Map`): some worker or the master
  goes on. That no section runs for ever, whoever goes on, is part of what is
  checked.
- *Weak fairness of each search* (`NestedDfs`): the outer and the inner thread run.
- *Weak fairness of `Continue(t)`* (`PosixThreads`): the interpreter follows every
  thread that is in a call; the program itself may stop calling.
- *None* for spurious wakeups, for beginning a call, for growing.

Deadlock is checked everywhere except in `PosixThreads`, where the verified
program may really stop: it deadlocks on conditions or barriers, or is over.
Where a section has ended, the other modules say so with a step of its own
(`Finished`, `Joined`, `Done`, `Halted`).

## 4. What is proved

TLAPS checks these for every value of the constants that the named assumptions allow.

**`StartDetector_proofs`**, for 1 to 65535 threads (`ThreadsAssumption`, whose bound
is the width of the `unsigned short` that `waitForAll` takes).

- `Rounds`: `Spec => [](TypeOK /\ RoundsDoNotMix)`. `RoundsDoNotMix` is
  inductive together with `TypeOK`: a round is `Gathering`, `Opening` or
  `Leaving`, and each of the seven actions keeps the phase or leads to the next.
  The conjuncts that say who is where (in `Opening` all but one thread wait; while
  `Leaving` nobody has arrived) are the strengthening: with the counts alone a
  thread could pass the guard while one is still to leave. `TypeOK` includes that
  `leaveGuard` never wraps below zero, the hazard at `brick-shmem.h:282`.
  `TypesKept`: `Spec => []TypeOK`, of the same invariant.
- `Refinement`: `Spec => ImplementsBarrier`, from the invariant. `Held` is the
  refinement mapping: a thread enters with `Arrive`, all are released by `Reset`,
  and every other step is a stutter.

**`SharedSearch_proofs`**, for any number of workers, any finite graph, any set of
goals, any sizes of chunks and any `Step` of the counter (`SearchAssumption`). In
`IInv`, `Shapes` are the types; `Sound` says that what is held anywhere is
reachable and what was found is a target; and `Calm` says the rest, until something
is found. It starts from `NobodyStops`: no worker is interrupted, so nobody drops a
state. `Positions` and `NoDoubles` say where a state is (at the head of a worker's
chunk, in a queue, in a buffer) and that it is in one such place; `Explored`, that
each stored state waits, is in hand with the edges still to follow in `todo`, or is
done, and was expanded once; `Exact`, that the counter covers the open states and
the stocks; `Ended`, that after anybody has left nothing is open. `NoDoubles` is
needed for `Exact`, which compares cardinalities: the open states are a set and the
stock of a worker is a set of credits, so one step moves one element.

- `Types`: `Spec => []TypeOK`. `ExactCounter`: `Spec => []CounterIsExact`.
- `NoEarlyEnd`: `Spec => []NoPrematureEnd`, because a zero counter that is exact
  leaves neither states nor stocks, not even with a worker between the two steps
  of `sync()`.
- `RightVerdict`: `Spec => []Verdict`: what is reported is a reachable target; and if nothing
  was found, the stored states at the end are closed under successors and hold no target.

**`PartitionedSearch_proofs`**, for any number of workers, any graphs, owners and
properties, any `Batch` and any number of spurious wakeups (`BarrierAssumption`,
`SearchAssumption`).

- `QuietEnd`: `Spec => []EndIsQuiet`. The inductive invariant `IInv` says who holds
  which lock: an awake worker holds its own mutex; a worker holds another's only at
  `lockout`; only the owner of the global mutex is at `lockout` or `notify`; and
  one whose `failed` is false holds the mutexes of all those it has asked. Then
  whoever finds that all is over has everyone else in bed, and `Over` keeps them from
  work: from bed the only way with `done` set leads out. The part `Registration` is
  needed because a worker could otherwise come after the decision: nobody decides
  before all have registered (`barrier.h:73-76`).
- `SleepersAreCounted`, `OneStaysUp`, `WakeupReadsStableMaps`: the assertion of
  `barrier.h:116`, that not all sleep, and that `wakeup` reads maps that nobody
  changes; from the same invariant, whose part `Sleepers` counts those in bed.

- `TypesKept`: `Spec => []TypeOK`. `RightVerdict`: `Spec => []Verdict`: what was found is
  a goal or a deadlock that can be reached; if nothing was found, the stored states
  are, when all have finished, closed under successors and hold nothing that is wanted. Its
  invariant `SInv` adds to `IInv` that what is stored, queued or sent can be
  reached (`Sound`) and, as long as nothing was found, that nobody stops and that
  each successor of a stored state is stored, sent, or still to be sent (`Calm`). At
  a quiet end the inboxes are empty by `IInv`, so that nothing is under way.

  All steps of the search outside of `maybeIdle` are dealt with at once, as
  `Ordinary` ones, which change neither the locks nor who sleeps. What the theorems
  say of `Barrier` therefore holds for any use of it that keeps to `Ordinary`.

**`Fifo_proofs`**, for blocks of any size and any number of elements
(`FifoAssumption`). The elements are numbered by their pushes, so the place of each is
known: element `Base(i) + j` is the `j`-th of block `i`. `WriterInv` says that all
blocks but the last are full, linked in the order of their allocation up to the
tail, and hold what belongs there; between two of the writer's stores, `Stored`
counts the element that is written and not yet published. `ReaderInv` says that the
deleted blocks are those before the head, the head is not past the tail, what was
popped is what was read, and that whenever the reader goes on to take an element
there is one: this last part carries what `empty()` saw over the writer's steps.

- `FifoTypes`: `Spec => []TypeOK`; `DeletedAreLeft`: `Spec => []NoUseAfterDelete`.
- `FrontIsOldest`: `front()` returns the oldest element that was not popped and
  `pop()` takes one: nothing is lost, doubled or reordered.
- `Refinement`: `Spec => ImplementsQueue`. The mapping joins the parts of the blocks that
  are in use; the invariant shows that this is the sequence of the numbers from the
  last pop to the last push, so that a push appends, a pop takes the first, and every
  other step, the new block and the deletion of an old one among them, is a stutter.

**`CycleDetection_proofs`**, for any number of workers, any finite graph, any table and
any shares of it (`VisitAssumption`). It begins with the facts about paths (reachability
being defined by closed sets, no induction is needed: `FromNext`, `BackIsCycle`), and
the invariant `Stored`: whatever is queued or being worked on is stored, and what is
stored can be reached. `MapInv` and `OwctyInv` add that the number each state holds is
that of an accepting predecessor, and that what a worker has put down is a state of an
accepting cycle. In OWCTY this has to survive the sections that use the same bits for
other things; `Trail` says that FindCE visits only what its candidate reaches.

- `MapMaximaArePredecessors`, `OwctyMaximaArePredecessors`: `[]MapIsPredecessor`.
  `MapFoundOnCycles`, `OwctyFoundOnCycles`: `[]FoundIsReal`, the node of a cycle that
  is put down is on one, in sections that are cut short too. `NoFalseAlarms`: MAP says
  "cycle" only when there is one.

The second part of the module is about OWCTY alone. `RoundsInv` says for each section how
far it has come, in terms of the edges that have been `Followed`:

- `Once`: a state is queued, about to be expanded or at a worker at most once, so that
  each of its edges is followed once in a section.
- `Initialising`: the edges followed lead to stored states, and `size` counts the
  accepting ones; at the end the store holds whatever can be reached (`Complete`).
- `Reaching`: the count of a state is the number of its predecessors from which it has
  been reached (`Reached`), plus one that keeps an accepting state that is left in.
- `Eliminating`: the count is the number of its predecessors that are not gone
  (`Remaining`), and a state goes when that is zero. A set of states each of which has a
  predecessor in the set loses none: the first to go would have one left. The states of
  the accepting cycles are in such a set (`Survivors`), and so is, at the end, all that is
  left, which is why an accepting state that remains has a cycle before it.
- `Looking`: of the accepting states that are left, the first in the order of the paths
  (`First`) are on cycles, and no search from another comes to them (`Avoids`). FindCE
  tries the states in the order of the cells, so it comes to one of them with nothing on
  the way visited. That there are first ones is seen at a smallest set of accepting states
  from which one of them can be reached (`FirstExists`).

`OwctyRounds` joins this to `OwctyInv`, and `Paced` bounds the number of the section: a
round that is not the last takes an accepting state away, so that `iteration` and twice
`oldsize` stay below twice the number of states. TLC has checked these formulas on the
graphs of the run `cycle_detection`. There are two hypotheses, both about widths:
`EnoughRoom`, that every cell is in the share of some worker (without it cells are left
out, the finding of `map_shares`) and that fewer than `2^19 - 1` edges lead to a state;
and `InTime`, that the number of the section is below `2^10`.

- `OwctyAssertions`: `[](InTime => AssertionsHold)`. `OwctyCyclesSurvive`:
  `[](InTime => CyclesSurvive)`.
- `OwctyIsInTime`: on a graph of fewer than 511 states `InTime` always holds.
- `OwctyIsSound`: `OwctySpec /\ EnoughRoom /\ []InTime => CD!Sound`, OWCTY implements
  `CycleDetection` but for its liveness: the steps that report an answer are `Decide`,
  with the right answer, and all others stutter.

The third part is about MAP alone. `MapCounts`: whatever is stored has been seen or is
about to be, what has been seen and accepts was counted in `accepting`, and what does not
accept is marked so; hence no more is eliminated than there is. `Mapping` says how far an
iteration has come, as long as no cycle has been found:

- an edge of a state that the iteration has come to (`Active`), once it has been
  `Followed`, is `Spread`: its target has been come to, and if the last maxima of its ends
  are the same (the same region), the target's maximum is no less than the source's, nor
  than the target itself if that still accepts. A step that raises the maximum of a state
  queues the state again, so that its edges are to be followed again;
- a state is spared (`NotYet`) only if its maximum is greater than itself, eliminated only
  if it accepts, and every maximum still accepts (`Numbered`);
- all the states of an accepting cycle had the same last maximum, so that a cycle is
  always within one region, and its accepting states have not been eliminated.

At the end of an iteration every edge is `Spread`, so that around a cycle the maxima cannot
fall and are all the same: at least the accepting state, and not that state itself, which
would have come back to it as a cycle (`CycleKeepsState`). So the clean-up spares it, and
the next iteration starts with what the third point asks for (`EndVisitMapping`). The master stops when
everything accepting is eliminated, which a cycle rules out, or when nothing more is: then
each spared state has a greater one that is spared too, which cannot be
(`EndsRight`, `NoneIsLast`). `MapPaced` bounds the iterations, each of which but the last
eliminates a state more. TLC has checked these formulas on the graphs of the run too.

- `MapAssertions`: `[]AssertionsHold`, with no hypothesis.
- `MapMissesNone`: `MapSpec /\ WholeShares => [](InRounds => NoneIsMissed)`. `WholeShares`,
  that every cell is in the share of some worker, is just what the finding `map_shares`
  lacks; `InRounds`, that the number of the iteration is below `2^13`.
- `MapIsInRounds`: with fewer than `2^13 - 2` states `InRounds` always holds.
- `MapIsSound`: `MapSpec /\ WholeShares /\ []InRounds => CD!Sound`.

**`NestedDfs_proofs`**, for any set of states, any graphs with one initial state
(`OneInitial`, see below) and any order of their successors, with one thread and with
two. `NInv` has these parts.

- `Search`, of either search: the trace (`ceStack`, `ceLasso`) is what is expanded on the
  stack, in order, each state a successor of the one before; what is fresh above a
  state is a successor of it; and every successor of a state of the trace is seen or
  fresh above it. Hence a state that is popped has all its successors seen, and
  everything on the stack reaches the top.
- `InOrder(n, U)`: n reaches nothing of U unless it is on a cycle. When a seed is finished,
  U is what is not finished: the states below it on the stack and those that are not
  stored (`DepthFirst`). `Waiting` keeps it for each seed in the queue, with those that
  were finished later, and `Current` for the seed of the search that runs.
- `Marked`: between two searches the nested states are closed under successors and hold
  nothing that is not finished; `InnerSearch` says what is still missing while a search
  runs. An inner search that ends at the bottom of its stack has marked all that is behind its
  seed without coming back to it, so that the seed is on no cycle, so that by `InOrder`
  nothing of it was unfinished: `Marked` again, and `Checked` for one more seed.

`TypesKept`, `OnlyOnCycles`, `RealCounterexample` are `[]TypeOK`, `[]StopsOnlyOnCycles`
and `[]CounterexampleIsReal`; `Refinement` is `Spec => RightVerdict`, the safety part of
`CycleDetection`. That the inner thread runs late, sees states that were stored after
its seed was finished, and goes on with the marks of all the searches before is covered:
its steps and those of the outer search are proved separately, against the same `NInv`.

`OneInitial` is needed. With several initial states, which `explicit.h` and the
CESMI (`manual/cesmi.mdwn:106-109`) allow, `run` (`nested-dfs.h:112-115`) queues all of them
before it follows any, each expanded on top of the others, and the stack is no path any
more: `Shape` fails between them, and `DepthFirst` with it. Then `RightVerdict` is
false, which TLC shows on four states: initial 1 and 2, 1 -> 3, 2 -> 4 and 2 -> 3, 3 -> 1,
4 -> 3, accepting 1 and 4, where the answer is "valid" although 1 -> 3 -> 1 is accepting.

**`PosixThreads_proofs`**, for any number of slots, threads, mutexes, conditions and
barriers (`ThreadsAssumption`). The inductive invariant `ThreadsInv`: who runs has a
slot and is in the program or a call (`RunningRun`); who is about to run has a
creator that waits for it in an earlier slot (`CreatorsWait`); and behind the slot
that the main thread waits for in `pthread_exit` nobody runs or is about to
(`NobodyBehind`). The second is why the third is inductive: a new thread gets a slot
after all those that live, so nobody new comes where the main thread has been.
The calls that only pass the time of a thread are dealt with at once, as `Ordinary` steps.

- `ThreadsAreInOrder`: `Spec => []ThreadsInv`. `MainIsLast`: `Spec => MainLeavesLast`.
- `TypesKept`: `Spec => []TypeOK`. `RealDeadlocks`: `Spec => []DeadlocksAreReal`: a cycle is
  reported only where threads do wait for each other, a dead owner only where they wait
  for one, and the assertion at `pthread.cpp:1088` never fails; nothing is said of "again"
  and "dereference" (section 3.2). The invariant `LibraryInv` says who holds and waits for
  what: each thread has an ID of its own (`Numbered`), its record tells what it waits for
  (`Notes`), who waits for a mutex does not hold it (`Owning`), and the counts of a
  condition or a barrier are those of its sleepers (`Counted`). The walk of `_check_deadlock` along the owners
  (`Holders`) then stays among threads that wait, or comes to one that is dead.

**`ConcurrentHashSet_proofs`**, for any number of threads, values and rows, and any
sizes, limits and hash function (`HashSetAssumption`, with `NoCallAssumption`: no call
is `NoCall`). The inductive invariant `HInv` has these parts.

- `UsersCounted`: `tableWorkers` of a row is the number of the threads that use it
  (`Users`), and one more while the row is `Pending`: the thread that made the next row has
  left it without a release, which the last mover of cells does for it (`brick-hashset.h:779`).
  A row with a count is there; row 0 has neither.
- `OneBuilder`: one thread makes a row or closes the growth, and `growing` is set while it does.
  Without it two releases of one old row could not be excluded.
- `SegmentsCounted`: while cells are moved, the segments that are done, those being moved
  and those still open add up to all there are. So whoever finds
  `doneSegments` complete is alone, nobody moves a cell any more, and the one release of
  `Pending` is due. `availableSegments` may fall below zero, and does.
- `Used`: `used` is at most what the insertions of all threads have earned (`Credits`).
- `Local`: what each thread knows of its own row, in each place of the code: that a thread
  that leaves a row has read a later one, that no insertion goes to row 0, and so on.

Steps that change none of this are dealt with at once (`Still`, `StillStep`), looks at a
cell among them (`LookStep`).

- `TypesKept`: `Spec => []TypeOK`, with `used` and the counts within their bounds.
- `RowsKept`: `Spec => []RowsAreKept`: no row is freed under a thread that has not left it.
- `NoFreedCells`: `Spec => []CellsAreThere`: each access to a cell, by an insertion, a search
  or a move, is to a row that is there, although it is made with a row number that was read
  several steps before.

That the table is a set needs one more fact of the constants, `SegmentsAssumption`: the
segments of a row cover it, since both sizes are powers of two (`segmentSize`, `setSize`,
`nextSize`; `brick-hashset.h:564,587,876`). It is proved from `HInv` with a second
inductive invariant, `SInv`, which says where each value is.

- `Reachable`: each value is in a cell that its probing comes to before any free cell,
  and within `maxcollisions`. Hence an insertion or a search that meets a free cell may
  answer that the value is not there.
- `Earlier`, `Later`: all cells of the rows before the current one are invalid, and the rows
  after it are not there. The exception is the row whose cells are moved, of which
  `Covered` says that a cell with a value in it belongs to a segment that is open or is
  ahead of the thread that moves its segment. So the last segment done leaves nothing behind.
- `TakenOut`: the value in the hands of a thread that moves it is gone from its old cell;
  `OneWriter`: a locked cell has one thread that stores in it.
- `Passed`: what a thread has seen of its row, cell by cell: other values, in cells that
  are not free, and never will be again.
- `Traced`: if a thread looks for a value that has gone to a later row, there is still an
  invalid cell ahead of it, within its probing, where the value was; so it comes to see that the
  row has changed, and does not answer "not found" or insert a second copy.
- `Settled` and `Answers`: nobody searches the current row while cells of the one before are
  still moved, and each call is answered once.

`Refinement`: `Spec => ImplementsSet`. The set is `Contents`, the values in any row or in
the hands of a thread. An insertion takes effect when it stores into a free cell
(`TryStore`), or sees the value there; a search when it sees the value, or, if it was not there
when the call began, at the beginning; moving cells changes nothing that can be seen (`InvalidateSees`,
`WriteSees`). The steps each have a lemma, whose name ends in `Sees` for what they do
to `SInv` and to `Contents`, and in `Refines` for the step of `AbstractSet`.

*Only model-checked:* every liveness property (out of the reach of the prover,
as is ENABLED), so `EveryoneReturns`, `EveryCallReturns`, `Drained`, `Ends`,
`DeadlocksAreReported` and the coming of the answers in `ImplementsCycleDetection`;
the ranges of the counters in `TypeOK` of `MCCycleDetection`; and the
properties of `MpiForwarder`, whose `EndIsQuiet` is true of two ranks only (section 3.1),
so that there is no theorem to prove for every `N`.

## 5. Not modelled

In the modelled parts:
- weak memory: every access to an atomic is sequentially consistent, and the plain
  stores of `Fifo` are in program order, as on x86;
- *OWCTY, MAP, nested DFS*: the lasso generated from the state that was found (a
  single thread, after the search), the reduction, and the workers of other machines,
  whose copies of the maps may be old;
- *POSIX threads*: cancellation and cleanup handlers, readers-writer locks,
  `pthread_once`, thread specific data, timed calls, attributes, calls that return an error;
- *MPI*: marshalling, `distribute`/`collect`/`ring` (strict requests and answers), an
  interrupted search, more than one worker per rank;
- *hash set*: `AtomicCell`, the sequential sets, `setSize`, `size()`.

Whole components: partial order reduction (sequential choices of ample sets over
`ring`), context-switch directed search, the memory pool, and the sequential or
third-party parts that section 1.2 names. `PROJECT.json` has the reason for each.
Much the larger part of the repository is such code: other model checkers, their
examples, frameworks and slides.

## 6. What is left

The model:
1. `Csdr`: level and thread of a state read under the lock of the target only (`csdr.h:165`).
2. `Pool`: the shared free list with nodes that are freed (`pool.h:422`).
3. `Barrier` composed with `MpiForwarder`, for the wakeup that is under way (`mpi.h:382`).
4. Cancellation and readers-writer locks in `PosixThreads`.

The proofs:
1. `MpiForwarder`: with the answers combined by "and", the quiet end for any `N`.

## 7. Running

    tlc -workers 2 -config SharedSearch.cfg MCSharedSearch.tla
    tlapm StartDetector_proofs.tla

The runs take between a few seconds and two minutes; the proofs of a module between
a few seconds and ten minutes.
