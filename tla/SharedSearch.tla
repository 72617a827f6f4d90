----------------------------- MODULE SharedSearch -----------------------------
(***************************************************************************)
(* One parallel section of a shared-memory reachability search: the        *)
(* visitor of divine/graph/visitor.h (Common, BFVShared, Shared) over the  *)
(* chunked queue of divine/graph/datastruct.h (SharedQueue), the           *)
(* LockedQueue and the ApproximateCounter of bricks/brick-shmem.h, with    *)
(* the callbacks of divine/algorithm/reachability.h.                       *)
(*                                                                         *)
(* A step performs at most one access to memory the workers share: the     *)
(* closed set, the queue of chunks (under its spin lock), the hint that it *)
(* is empty (read without the lock), the counter, another worker's         *)
(* interrupt flag.  The closed set is the concurrent hash set, whose       *)
(* insert says atomically whether the state is new; the start detector is  *)
(* the barrier of AbstractBarrier, in its first round.                     *)
(***************************************************************************)
EXTENDS Integers, Sequences, FiniteSets, Functions

CONSTANTS
  Nodes,        \* the states of the explored graphs
  Problems,     \* the graphs, the properties to check of them, and the threads
  Step,         \* ApproximateCounter::step
  FirstChunk,   \* SharedQueue::chunkSize to start with
  MaxChunk,     \* SharedQueue::maxChunkSize
  NoNode        \* an invalid handle

ASSUME SearchAssumption ==
  /\ IsFiniteSet(Nodes) /\ NoNode \notin Nodes
  /\ \A p \in Problems :
       /\ p.initials \subseteq Nodes                \* graph().initials
       /\ p.succ \in [Nodes -> SUBSET Nodes]        \* graph().successors
       /\ p.goals \subseteq Nodes                   \* graph::flags::isGoal
       /\ p.property \in {"goal", "deadlock"}       \* PT_Goal, PT_Deadlock
       /\ IsFiniteSet(p.workers) /\ p.workers # {}  \* the threads of the section
  /\ Step \in Nat \ {0}
  /\ FirstChunk \in Nat \ {0} /\ MaxChunk \in Nat /\ FirstChunk <= MaxChunk

VARIABLES
  problem,    \* the member of Problems being solved, which never changes
  closed,     \* the store: every state seen so far
  chunkq,     \* LockedQueue::q, a sequence of chunks
  isEmpty,    \* LockedQueue::_empty
  shared,     \* ApproximateCounter::Shared::counter
  arrived,    \* who has come to StartDetector::waitForAll
  interrupt,  \* m_interrupt of each worker
  local,      \* ApproximateCounter::local of each worker
  incoming,   \* the chunk a worker is processing
  outgoing,   \* the chunk a worker is filling
  chunkSize,  \* the size at which it is flushed
  axed,       \* QueueFrontend::axed
  deadlocked, \* QueueFrontend::deadlocked
  from,       \* the state whose edges are processed, NoNode for the initials
  todo,       \* its successors that have not been looked at
  target,     \* the new state that is being pushed
  pending,    \* the workers that Topology::interrupt has not reached
  value,      \* the value that ApproximateCounter::sync has read
  goal,       \* shared.goal of each worker
  ret,        \* where terminate() returns to
  pc,         \* the next step of each worker
  expansions  \* history: how many times each state was expanded

\* Parallel::peers() of them.
Workers == problem.workers

queueVars == <<chunkq, isEmpty>>
chunkVars == <<incoming, outgoing, chunkSize>>
counterVars == <<shared, local, value>>
edgeVars == <<axed, deadlocked, from, todo, target>>
stopVars == <<interrupt, pending, ret, goal>>
vars == <<problem, closed, queueVars, arrived, chunkVars, counterVars, edgeVars,
          stopVars, pc, expansions>>

Goto(w, a, b) == /\ pc[w] = a
                 /\ pc' = [pc EXCEPT ![w] = b]

Lesser(m, n) == IF m < n THEN m ELSE n

-----------------------------------------------------------------------------
(* Common::edge and Reachability::transition, for one state in todo.       *)

IsGoal(n) == problem.property = "goal" /\ n \in problem.goals


\* What is done with an edge once its target is in the store, which has said
\* whether it is new: a goal terminates the search, and only a new state is
\* pushed.  Interruptible::transition calls worker.interrupt().
Transition(w, n, isnew) ==
  IF IsGoal(n)
  THEN /\ goal' = [goal EXCEPT ![w] = n]
       /\ interrupt' = [interrupt EXCEPT ![w] = TRUE]
       /\ pending' = [pending EXCEPT ![w] = Workers \ {w}]
       /\ ret' = [ret EXCEPT ![w] = "edges"]
       /\ Goto(w, "edges", "interrupt")
       /\ UNCHANGED target
  ELSE /\ IF isnew
          THEN /\ target' = [target EXCEPT ![w] = n]
               /\ Goto(w, "edges", "push")
          ELSE UNCHANGED <<target, pc>>
       /\ UNCHANGED stopVars

\* The next successor, or initial state, goes into the store.
Edge(w) ==
  /\ pc[w] = "edges"
  /\ ~axed[w] \/ from[w] = NoNode
  /\ \E n \in todo[w] :
       /\ todo' = [todo EXCEPT ![w] = @ \ {n}]
       /\ deadlocked' = [deadlocked EXCEPT ![w] = FALSE]
       /\ closed' = closed \cup {n}
       /\ Transition(w, n, n \notin closed)
  /\ UNCHANGED <<problem, queueVars, arrived, chunkVars, counterVars, axed, from,
                 expansions>>

\* Once the queue has been axed, processOpen drops the edges that are left.
SkipEdges(w) ==
  /\ pc[w] = "edges"
  /\ axed[w] /\ from[w] # NoNode
  /\ todo[w] # {}
  /\ todo' = [todo EXCEPT ![w] = {}]
  /\ deadlocked' = [deadlocked EXCEPT ![w] = FALSE]
  /\ UNCHANGED <<problem, closed, queueVars, arrived, chunkVars, counterVars, axed,
                 from, target, stopVars, pc, expansions>>

\* SharedQueue::push: ++termination, which takes Step from the shared counter
\* when the worker has nothing left of it, then outgoing.push_back.
Push(w) ==
  /\ outgoing' = [outgoing EXCEPT ![w] = Append(@, target[w])]
  /\ Goto(w, "push", IF Len(outgoing'[w]) >= chunkSize[w] THEN "flush" ELSE "edges")
  /\ shared' = IF local[w] = 0 THEN shared + Step ELSE shared
  /\ local' = [local EXCEPT ![w] = (IF @ = 0 THEN Step ELSE @) - 1]
  /\ target' = [target EXCEPT ![w] = NoNode]
  /\ UNCHANGED <<problem, closed, queueVars, arrived, incoming, chunkSize, value, axed,
                 deadlocked, from, todo, stopVars, expansions>>

\* A wrong variant: chunkSize is doubled without a limit.
Flush_NoLimit(w, label, next) ==
  /\ Goto(w, label, next)
  /\ chunkq' = Append(chunkq, outgoing[w])
  /\ isEmpty' = FALSE
  /\ outgoing' = [outgoing EXCEPT ![w] = <<>>]
  /\ chunkSize' = [chunkSize EXCEPT ![w] = 2 * @]
  /\ UNCHANGED <<problem, closed, arrived, incoming, counterVars, edgeVars, stopVars,
                 expansions>>

\* SharedQueue::flush of a chunk that is not empty: LockedQueue::push.
Flush(w, label, next) ==
  /\ Goto(w, label, next)
  /\ chunkq' = Append(chunkq, outgoing[w])
  /\ isEmpty' = FALSE
  /\ outgoing' = [outgoing EXCEPT ![w] = <<>>]
  /\ chunkSize' = [chunkSize EXCEPT ![w] = Lesser(2 * @, MaxChunk)]
  /\ UNCHANGED <<problem, closed, arrived, incoming, counterVars, edgeVars, stopVars,
                 expansions>>

FlushFull(w) == Flush(w, "flush", "edges")

-----------------------------------------------------------------------------
(* BFVShared::terminate: the queue is cleared, then the counter is reset.  *)

\* Topology::Local::interrupt, one worker at a time.
Interrupt(w) ==
  /\ pc[w] = "interrupt"
  /\ \E v \in pending[w] :
       /\ interrupt' = [interrupt EXCEPT ![v] = TRUE]
       /\ pending' = [pending EXCEPT ![w] = @ \ {v}]
  /\ UNCHANGED <<problem, closed, queueVars, arrived, chunkVars, counterVars, edgeVars,
                 ret, goal, pc, expansions>>

Interrupted(w) ==
  /\ pending[w] = {}
  /\ Goto(w, "interrupt", "clear")
  /\ UNCHANGED <<problem, closed, queueVars, arrived, chunkVars, counterVars, edgeVars,
                 stopVars, expansions>>

\* SharedQueue::clear.
Clear(w) ==
  /\ Goto(w, "clear", "reset")
  /\ incoming' = [incoming EXCEPT ![w] = <<>>]
  /\ outgoing' = [outgoing EXCEPT ![w] = <<>>]
  /\ chunkq' = <<>>
  /\ isEmpty' = TRUE
  /\ axed' = [axed EXCEPT ![w] = TRUE]
  /\ UNCHANGED <<problem, closed, arrived, chunkSize, counterVars, deadlocked, from,
                 todo, target, stopVars, expansions>>


\* termination.reset(), and back to the caller of terminate().
ResetCounter(w) ==
  /\ Goto(w, "reset", ret[w])
  /\ shared' = 0
  /\ UNCHANGED <<problem, closed, queueVars, arrived, chunkVars, local, value, edgeVars,
                 stopVars, expansions>>

-----------------------------------------------------------------------------
(* SharedQueue::empty: a worker without a chunk tries to get a fresh one.  *)

\* The hint is read before the lock is taken.
PopHint(w, label, none, some) ==
  /\ incoming[w] = <<>>
  /\ Goto(w, label, IF isEmpty THEN none ELSE some)
  /\ UNCHANGED <<problem, closed, queueVars, arrived, chunkVars, counterVars, edgeVars,
                 stopVars, expansions>>

\* LockedQueue::pop under the lock, where the queue may have become empty.
PopChunk(w, label, none, some) ==
  /\ IF chunkq = <<>>
     THEN /\ Goto(w, label, none)
          /\ UNCHANGED <<queueVars, incoming>>
     ELSE /\ Goto(w, label, some)
          /\ incoming' = [incoming EXCEPT ![w] = Head(chunkq)]
          /\ chunkq' = Tail(chunkq)
          /\ isEmpty' = (Tail(chunkq) = <<>>)
  /\ UNCHANGED <<problem, closed, arrived, outgoing, chunkSize, counterVars, edgeVars,
                 stopVars, expansions>>

-----------------------------------------------------------------------------
(* Common::processQueue, over QueueFrontend.                               *)

OpenHint(w) == PopHint(w, "open", "check", "openPop")
OpenPop(w)  == PopChunk(w, "openPop", "check", "open")

\* A wrong variant: the flag deadlocked is not set again.
Open_StaleFlag(w) ==
  /\ incoming[w] # <<>>
  /\ Goto(w, "open", "edges")
  /\ axed' = [axed EXCEPT ![w] = FALSE]
  /\ LET n == Head(incoming[w])
     IN  /\ from' = [from EXCEPT ![w] = n]
         /\ todo' = [todo EXCEPT ![w] = problem.succ[n]]
         /\ expansions' = [expansions EXCEPT ![n] = @ + 1]
  /\ UNCHANGED <<problem, closed, queueVars, arrived, chunkVars, counterVars,
                 deadlocked, target, stopVars>>

\* processOpen.
Open(w) ==
  /\ incoming[w] # <<>>
  /\ Goto(w, "open", "edges")
  /\ deadlocked' = [deadlocked EXCEPT ![w] = TRUE]
  /\ axed' = [axed EXCEPT ![w] = FALSE]
  /\ LET n == Head(incoming[w])
     IN  /\ from' = [from EXCEPT ![w] = n]
         /\ todo' = [todo EXCEPT ![w] = problem.succ[n]]
         /\ expansions' = [expansions EXCEPT ![n] = @ + 1]
  /\ UNCHANGED <<problem, closed, queueVars, arrived, chunkVars, counterVars, target,
                 stopVars>>

\* processDead, and Reachability::deadlocked: a deadlock terminates the search
\* if it is what one looks for, without interrupting the other workers.
Dead(w) ==
  /\ pc[w] = "edges" /\ from[w] # NoNode /\ todo[w] = {}
  /\ IF deadlocked[w] /\ problem.property = "deadlock"
     THEN /\ goal' = [goal EXCEPT ![w] = from[w]]
          /\ ret' = [ret EXCEPT ![w] = "close"]
          /\ Goto(w, "edges", "clear")
     ELSE /\ Goto(w, "edges", "close")
          /\ UNCHANGED <<goal, ret>>
  /\ UNCHANGED <<problem, closed, queueVars, arrived, chunkVars, counterVars, edgeVars,
                 interrupt, pending, expansions>>

CloseHint(w) == PopHint(w, "close", "open", "closePop")
ClosePop(w)  == PopChunk(w, "closePop", "open", "close")

\* processClosed: pop_front, --termination.
Close(w) ==
  /\ incoming[w] # <<>>
  /\ Goto(w, "close", "open")
  /\ incoming' = [incoming EXCEPT ![w] = Tail(@)]
  /\ local' = [local EXCEPT ![w] = @ + 1]
  /\ UNCHANGED <<problem, closed, queueVars, arrived, outgoing, chunkSize, shared,
                 value, edgeVars, stopVars, expansions>>

-----------------------------------------------------------------------------
(* ApproximateCounter::sync.                                               *)

\* Nothing is given back if there is nothing to give.
SyncRead(w, label, cas, next) ==
  /\ Goto(w, label, IF local[w] > 0 THEN cas ELSE next)
  /\ value' = [value EXCEPT ![w] = IF local[w] > 0 THEN shared ELSE 0]
  /\ UNCHANGED <<problem, closed, queueVars, arrived, chunkVars, shared, local,
                 edgeVars, stopVars, expansions>>

\* A wrong variant: the counter is written without comparing it first.
SyncSwap_Store(w, cas, next) ==
  /\ Goto(w, cas, next)
  /\ shared' = IF value[w] >= local[w] THEN value[w] - local[w] ELSE 0
  /\ local' = [local EXCEPT ![w] = 0]
  /\ value' = [value EXCEPT ![w] = 0]
  /\ UNCHANGED <<problem, closed, queueVars, arrived, chunkVars, edgeVars, stopVars,
                 expansions>>

\* compare_exchange_weak: on failure it reads the counter again.
SyncSwap(w, cas, next) ==
  /\ IF shared = value[w]
     THEN /\ Goto(w, cas, next)
          /\ shared' = IF value[w] >= local[w] THEN value[w] - local[w] ELSE 0
          /\ local' = [local EXCEPT ![w] = 0]
          /\ value' = [value EXCEPT ![w] = 0]
     ELSE /\ pc[w] = cas
          /\ value' = [value EXCEPT ![w] = shared]
          /\ UNCHANGED <<shared, local, pc>>
  /\ UNCHANGED <<problem, closed, queueVars, arrived, chunkVars, edgeVars, stopVars,
                 expansions>>

-----------------------------------------------------------------------------
(* Shared::Implementation::run.                                            *)

\* queueInitials is over: worker.restart(), and the call of waitForAll.
Restart(w) ==
  /\ from[w] = NoNode /\ todo[w] = {}
  /\ Goto(w, "edges", "barrier")
  /\ interrupt' = [interrupt EXCEPT ![w] = FALSE]
  /\ arrived' = arrived \cup {w}
  /\ UNCHANGED <<problem, closed, queueVars, chunkVars, counterVars, edgeVars, pending,
                 ret, goal, expansions>>

\* A wrong variant: the workers do not wait for one another.
Started_Alone(w) ==
  /\ Goto(w, "barrier", "loop")
  /\ UNCHANGED <<problem, closed, queueVars, arrived, chunkVars, counterVars, edgeVars,
                 stopVars, expansions>>

Started(w) ==
  /\ arrived = Workers
  /\ Goto(w, "barrier", "loop")
  /\ UNCHANGED <<problem, closed, queueVars, arrived, chunkVars, counterVars, edgeVars,
                 stopVars, expansions>>

\* while ( !termination.isZero() )
IsZero(w) ==
  /\ Goto(w, "loop", IF shared = 0 THEN "leave" ELSE "take")
  /\ UNCHANGED <<problem, closed, queueVars, arrived, chunkVars, counterVars, edgeVars,
                 stopVars, expansions>>

TakeHint(w) == PopHint(w, "take", "idle", "takePop")
TakePop(w)  == PopChunk(w, "takePop", "idle", "open")

\* The queue is empty: flush(), sync() and try again.
FlushIdle(w) == outgoing[w] # <<>> /\ Flush(w, "idle", "sync")

NothingToFlush(w, label, next) ==
  /\ outgoing[w] = <<>>
  /\ Goto(w, label, next)
  /\ UNCHANGED <<problem, closed, queueVars, arrived, chunkVars, counterVars, edgeVars,
                 stopVars, expansions>>

NoFlushIdle(w) == NothingToFlush(w, "idle", "sync")

\* A wrong variant: what a worker has left over is not given back.
Sync_Skipped(w) ==
  /\ Goto(w, "sync", "loop")
  /\ UNCHANGED <<problem, closed, queueVars, arrived, chunkVars, counterVars, edgeVars,
                 stopVars, expansions>>

Sync(w) == SyncRead(w, "sync", "cas", "loop")
Cas(w)  == SyncSwap(w, "cas", "loop")

\* if ( worker.interrupted() ), after processQueue.
CheckInterrupt(w) ==
  /\ IF interrupt[w]
     THEN /\ Goto(w, "check", "clear")
          /\ ret' = [ret EXCEPT ![w] = "leave"]
     ELSE /\ Goto(w, "check", "loop")
          /\ UNCHANGED ret
  /\ UNCHANGED <<problem, closed, queueVars, arrived, chunkVars, counterVars, edgeVars,
                 interrupt, pending, goal, expansions>>

\* The visitor is destroyed: ~SharedQueue flushes, ~ApproximateCounter syncs.
FlushLast(w) == outgoing[w] # <<>> /\ Flush(w, "leave", "syncLast")
NoFlushLast(w) == NothingToFlush(w, "leave", "syncLast")
SyncLast(w) == SyncRead(w, "syncLast", "casLast", "done")
CasLast(w)  == SyncSwap(w, "casLast", "done")

-----------------------------------------------------------------------------
Init ==
  /\ problem \in Problems
  /\ closed = {}
  /\ chunkq = <<>>
  /\ isEmpty = TRUE
  /\ shared = 0
  /\ arrived = {}
  /\ interrupt = [w \in Workers |-> FALSE]
  /\ local = [w \in Workers |-> 0]
  /\ incoming = [w \in Workers |-> <<>>]
  /\ outgoing = [w \in Workers |-> <<>>]
  /\ chunkSize = [w \in Workers |-> FirstChunk]
  /\ axed = [w \in Workers |-> FALSE]
  /\ deadlocked = [w \in Workers |-> TRUE]
  /\ from = [w \in Workers |-> NoNode]
  /\ todo = [w \in Workers |-> problem.initials]
  /\ target = [w \in Workers |-> NoNode]
  /\ pending = [w \in Workers |-> {}]
  /\ value = [w \in Workers |-> 0]
  /\ goal = [w \in Workers |-> NoNode]
  /\ ret = [w \in Workers |-> "edges"]
  /\ pc = [w \in Workers |-> "edges"]
  /\ expansions = [n \in Nodes |-> 0]

Work(w) ==
  \/ Edge(w)     \/ SkipEdges(w)   \/ Push(w)      \/ FlushFull(w)
  \/ Interrupt(w) \/ Interrupted(w) \/ Clear(w)    \/ ResetCounter(w)
  \/ OpenHint(w) \/ OpenPop(w)     \/ Open(w)      \/ Dead(w)
  \/ CloseHint(w) \/ ClosePop(w)   \/ Close(w)
  \/ Restart(w)  \/ Started(w)     \/ IsZero(w)    \/ TakeHint(w)
  \/ TakePop(w)  \/ FlushIdle(w)   \/ NoFlushIdle(w)
  \/ Sync(w)     \/ Cas(w)         \/ CheckInterrupt(w)
  \/ FlushLast(w) \/ NoFlushLast(w) \/ SyncLast(w) \/ CasLast(w)

AllDone == \A w \in Workers : pc[w] = "done"

\* The section is over when every worker has returned from it.
Finished == AllDone /\ UNCHANGED vars

Next == Finished \/ \E w \in Workers : Work(w)

Spec == Init /\ [][Next]_vars

\* Every worker is a thread of its own.
FairSpec == Spec /\ \A w \in UNION {p.workers : p \in Problems} :
                      WF_vars(w \in Workers /\ Work(w))
-----------------------------------------------------------------------------
(* Correctness.                                                            *)

Labels == {"edges", "push", "flush", "interrupt", "clear", "reset", "open", "openPop",
           "close", "closePop", "barrier", "loop", "take", "takePop", "idle", "sync",
           "cas", "check", "leave", "syncLast", "casLast", "done"}

TypeOK ==
  /\ problem \in Problems
  /\ closed \subseteq Nodes
  /\ chunkq \in Seq(Seq(Nodes) \ {<<>>})
  /\ isEmpty \in BOOLEAN
  /\ shared \in Nat
  /\ arrived \subseteq Workers
  /\ {interrupt, axed, deadlocked} \subseteq [Workers -> BOOLEAN]
  /\ {local, value} \subseteq [Workers -> Nat]
  /\ {incoming, outgoing} \subseteq [Workers -> Seq(Nodes)]
  /\ chunkSize \in [Workers -> FirstChunk .. MaxChunk]
  /\ {from, target, goal} \subseteq [Workers -> Nodes \cup {NoNode}]
  /\ todo \in [Workers -> SUBSET Nodes]
  /\ pending \in [Workers -> SUBSET Workers]
  /\ {ret, pc} \subseteq [Workers -> Labels]
  /\ expansions \in [Nodes -> Nat]

\* The states that a path from the initial ones leads to.
Reachable ==
  {n \in Nodes : \A S \in SUBSET Nodes :
     (problem.initials \subseteq S /\ \A m \in S : problem.succ[m] \subseteq S) => n \in S}

Found == {goal[w] : w \in Workers} \ {NoNode}

\* What the search is after: the answer of reachability.h:222-237 depends on it.
Targets == {n \in Reachable : IF problem.property = "goal" THEN n \in problem.goals
                                                           ELSE problem.succ[n] = {}}

\* The open states, pushed and not popped yet, wherever they are.
OpenStates ==
  UNION ({Range(incoming[w]) \cup Range(outgoing[w]) : w \in Workers}
           \cup {Range(chunkq[i]) : i \in DOMAIN chunkq})

\* What the workers have taken from the counter and not used up.
Stock == UNION {{w} \X (1 .. local[w]) : w \in Workers}

\* "Shared counter - sum of the locals of all threads = actual open count"
\* (bricks/brick-shmem.h:185), as long as no terminate() has reset it, in
\* whatever order the workers push, pop and give back.
CounterIsExact ==
  Found = {} => shared = Cardinality(OpenStates) + Cardinality(Stock)

\* A worker that has left the loop because it has read a zero was right to:
\* unless the target has been found, there is no state left anywhere, in the
\* queue or with another worker, and every reachable state has been expanded
\* (divine/graph/visitor.h:442-456).
NoPrematureEnd ==
  (Found = {} /\ \E w \in Workers : pc[w] \in {"leave", "syncLast", "casLast", "done"})
    => /\ OpenStates = {}
       /\ closed = Reachable
       /\ \A n \in Reachable : expansions[n] = 1

\* The verdict: a worker reports a goal, or a deadlock, exactly if one is
\* reachable, although the workers stop one another (reachability.h:222-237).
Verdict == /\ Found \subseteq Targets
           /\ AllDone => (Found = {} <=> Targets = {})

\* Every worker returns from the section, whoever finds what, and whenever
\* (bricks/brick-shmem.h:190: "Termination follows from proper calls to sync()").
EveryoneReturns == <>AllDone
=============================================================================
