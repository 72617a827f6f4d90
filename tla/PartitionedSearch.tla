-------------------------- MODULE PartitionedSearch --------------------------
(***************************************************************************)
(* One parallel section of a partitioned reachability search: the visitor  *)
(* of divine/graph/visitor.h (Common, BFV, Partitioned), in which every    *)
(* state has an owner, and an edge that leads to a state of another worker *)
(* is sent to it; the termination detector is that of Barrier.             *)
(*                                                                         *)
(* A channel is the queue of AbstractQueue.  The queue of open states, the *)
(* flags of the expansion and the goal are the worker's own, so that a     *)
(* step ends where the worker next looks at something others change.       *)
(***************************************************************************)
EXTENDS Barrier, SequencesExt

CONSTANTS
  Nodes,     \* the states of the explored graphs
  NoNode,    \* an invalid handle
  Problems,  \* the graphs, the properties to check of them, and the owners
  Batch      \* processQueue( 64 )

ASSUME SearchAssumption ==
  /\ IsFiniteSet(Nodes) /\ NoNode \notin Nodes
  /\ Problems \subseteq [initials : SUBSET Nodes,
                         succ : [Nodes -> SUBSET Nodes],
                         goals : SUBSET Nodes,
                         property : {"goal", "deadlock"},
                         owner : [Nodes -> Workers]]       \* store().owner
  /\ Batch \in Nat \ {0}

VARIABLES
  problem,    \* the member of Problems being solved, which never changes
  closed,     \* the stores of all workers
  queue,      \* the open states of each worker
  axed,       \* QueueFrontend::axed
  deadlocked, \* QueueFrontend::deadlocked
  todo,       \* the edges that are left of what the worker is doing:
  doing,      \*   its initial states, an expansion or a message
  count,      \* how many states this call of processQueue has expanded
  scan,       \* the worker whose messages are being received
  receiver,   \* to whom a message has been sent
  pending,    \* the workers that Topology::interrupt has not reached
  goal        \* shared.goal of each worker

flagVars == <<axed, deadlocked>>
workVars == <<todo, doing, count, scan>>
searchVars == <<problem, closed, queue, flagVars, workVars, receiver, pending, goal>>
vars == <<barrierVars, searchVars>>

\* What the search does alone leaves the barrier as it is.
quietVars == <<busy, lockVars, sleepVars, done, loopVars, back, spurious>>

Init ==
  /\ BarrierInit
  /\ problem \in Problems
  /\ closed = {}
  /\ queue = [w \in Workers |-> <<>>]
  /\ axed = [w \in Workers |-> FALSE]
  /\ deadlocked = [w \in Workers |-> TRUE]
  /\ todo = [w \in Workers |-> {}]
  /\ doing = [w \in Workers |-> "initials"]
  /\ count = [w \in Workers |-> 0]
  /\ scan = [w \in Workers |-> 1]
  /\ receiver = [w \in Workers |-> NoOne]
  /\ pending = [w \in Workers |-> {}]
  /\ goal = [w \in Workers |-> NoNode]

Owned(w, n) == problem.owner[n] = w

\* The thread registers with the barrier; queueInitials takes what it owns.
Start(w) ==
  /\ Register(w, "edges")
  /\ todo' = [todo EXCEPT ![w] = {n \in problem.initials : Owned(w, n)}]
  /\ UNCHANGED <<problem, closed, queue, flagVars, doing, count, scan, receiver, pending,
                 goal>>

-----------------------------------------------------------------------------
(* Common::edge.                                                           *)

IsGoal(n) == problem.property = "goal" /\ n \in problem.goals

\* processOpen drops the edges that are left once the queue has been axed.
Axed(w) == axed[w] /\ doing[w] = "expand"

NextEdge(w, n) ==
  /\ pc[w] = "edges"
  /\ ~Axed(w)
  /\ n \in todo[w]
  /\ todo' = [todo EXCEPT ![w] = @ \ {n}]
  /\ deadlocked' = [deadlocked EXCEPT ![w] = FALSE]

\* Ours::transitionFilter: the state belongs to another worker.
SendEdge(w) ==
  /\ \E n \in Nodes : /\ NextEdge(w, n)
                      /\ ~Owned(w, n)
                      /\ Send(w, problem.owner[n], n)
                      /\ receiver' = [receiver EXCEPT ![w] = problem.owner[n]]
  /\ Goto(w, "edges", "wakeup")
  /\ UNCHANGED <<interrupt, quietVars, problem, closed, queue, axed, doing, count, scan,
                 pending, goal>>

WakeReceiver(w) ==
  /\ Wakeup(w, receiver[w], "edges")
  /\ receiver' = [receiver EXCEPT ![w] = NoOne]
  /\ UNCHANGED <<problem, closed, queue, flagVars, workVars, pending, goal>>

\* The state is stored, and pushed if it is new.
StoreEdge(w) ==
  /\ \E n \in Nodes : /\ NextEdge(w, n)
                      /\ Owned(w, n)
                      /\ ~IsGoal(n)
                      /\ closed' = closed \cup {n}
                      /\ queue' = IF n \in closed THEN queue
                                  ELSE [queue EXCEPT ![w] = Append(@, n)]
  /\ UNCHANGED <<inbox, interrupt, quietVars, pc, problem, axed, doing, count, scan,
                 receiver, pending, goal>>

\* Interruptible::transition: the goal is found, and everyone is told.
GoalEdge(w) ==
  /\ \E n \in Nodes : /\ NextEdge(w, n)
                      /\ Owned(w, n)
                      /\ IsGoal(n)
                      /\ closed' = closed \cup {n}
                      /\ goal' = [goal EXCEPT ![w] = n]
  /\ interrupt' = [interrupt EXCEPT ![w] = TRUE]
  /\ pending' = [pending EXCEPT ![w] = Workers \ {w}]
  /\ Goto(w, "edges", "interrupt")
  /\ UNCHANGED <<inbox, quietVars, problem, queue, axed, doing, count, scan, receiver>>

Interrupt(w) ==
  /\ pc[w] = "interrupt"
  /\ \E v \in pending[w] :
       /\ interrupt' = [interrupt EXCEPT ![v] = TRUE]
       /\ pending' = [pending EXCEPT ![w] = @ \ {v}]
  /\ UNCHANGED <<inbox, quietVars, pc, problem, closed, queue, flagVars, workVars, receiver,
                 goal>>

\* Common::terminate: the queue is cleared.
Terminate(w) ==
  /\ Goto(w, "interrupt", "edges")
  /\ pending[w] = {}
  /\ queue' = [queue EXCEPT ![w] = <<>>]
  /\ axed' = [axed EXCEPT ![w] = TRUE]
  /\ UNCHANGED <<inbox, interrupt, quietVars, problem, closed, deadlocked, workVars,
                 receiver, pending, goal>>

-----------------------------------------------------------------------------
(* What comes after the edges.                                             *)

NoEdgesLeft(w) == pc[w] = "edges" /\ (todo[w] = {} \/ Axed(w))

\* run() begins with restart(), which forgets an interruption.
Restart(w) ==
  /\ NoEdgesLeft(w)
  /\ doing[w] = "initials"
  /\ Goto(w, "edges", "loop")
  /\ interrupt' = [interrupt EXCEPT ![w] = FALSE]
  /\ UNCHANGED <<inbox, quietVars, searchVars>>

\* A wrong variant: a deadlock is not looked for.
IsDeadlock_Never(w) == FALSE

\* processDead and processClosed: a state without successors may be what is
\* looked for; the state is popped, unless the queue has been cleared.
IsDeadlock(w) == deadlocked[w] /\ problem.property = "deadlock"

Close(w) ==
  /\ NoEdgesLeft(w)
  /\ doing[w] = "expand"
  /\ LET found == queue[w] # <<>> /\ IsDeadlock(w) IN
       /\ goal' = IF found THEN [goal EXCEPT ![w] = Head(queue[w])] ELSE goal
       /\ axed' = [axed EXCEPT ![w] = @ \/ found]
       /\ queue' = [queue EXCEPT ![w] = IF found \/ @ = <<>> THEN <<>> ELSE Tail(@)]
  /\ todo' = [todo EXCEPT ![w] = {}]
  /\ Goto(w, "edges", IF count[w] < Batch THEN "process" ELSE "loop")
  /\ UNCHANGED <<inbox, interrupt, quietVars, problem, closed, deadlocked, doing, count,
                 scan, receiver, pending>>

\* The message has been dealt with.
Received(w) ==
  /\ NoEdgesLeft(w)
  /\ doing[w] = "receive"
  /\ Goto(w, "edges", "receive")
  /\ UNCHANGED <<inbox, interrupt, quietVars, searchVars>>

-----------------------------------------------------------------------------
(* Partitioned::Implementation::run.                                       *)

\* There are messages: the worker receives them, or drains them if the search
\* has been interrupted.
Messages(w) ==
  /\ WorkWaiting(w)
  /\ ~interrupt[w]
  /\ Goto(w, "loop", "receive")
  /\ scan' = [scan EXCEPT ![w] = 1]
  /\ UNCHANGED <<inbox, interrupt, quietVars, problem, closed, queue, flagVars, todo, doing,
                 count, receiver, pending, goal>>

Interrupted(w) ==
  /\ WorkWaiting(w)
  /\ interrupt[w]
  /\ GoIdle(w, "loop", "drain")
  /\ UNCHANGED searchVars

\* comms().take( from, to ), the senders one after the other.
Receive(w) ==
  /\ Goto(w, "receive", "edges")
  /\ scan[w] <= N
  /\ inbox[scan[w]][w] # <<>>
  /\ todo' = [todo EXCEPT ![w] = {Head(inbox[scan[w]][w])}]
  /\ doing' = [doing EXCEPT ![w] = "receive"]
  /\ inbox' = [inbox EXCEPT ![scan[w]][w] = Tail(@)]
  /\ UNCHANGED <<interrupt, quietVars, problem, closed, queue, flagVars, count, scan,
                 receiver, pending, goal>>

ReceiveNext(w) ==
  /\ pc[w] = "receive"
  /\ scan[w] <= N
  /\ inbox[scan[w]][w] = <<>>
  /\ scan' = [scan EXCEPT ![w] = @ + 1]
  /\ pc' = [pc EXCEPT ![w] = IF scan[w] = N THEN "loop" ELSE "receive"]
  /\ UNCHANGED <<inbox, interrupt, quietVars, problem, closed, queue, flagVars, todo, doing,
                 count, receiver, pending, goal>>

\* comms().take( to ): the first message there is, which is thrown away.
First(w) == CHOOSE from \in Workers : /\ inbox[from][w] # <<>>
                                      /\ \A v \in 1 .. from - 1 : inbox[v][w] = <<>>

Drain(w) ==
  /\ pc[w] = "drain"
  /\ WorkWaiting(w)
  /\ inbox' = [inbox EXCEPT ![First(w)][w] = Tail(@)]
  /\ UNCHANGED <<interrupt, quietVars, pc, searchVars>>

Drained(w) ==
  /\ ~WorkWaiting(w)
  /\ GoIdle(w, "drain", "drain")
  /\ UNCHANGED searchVars

\* There are none: the worker expands what is in its queue.
ProcessQueue(w) ==
  /\ ~WorkWaiting(w)
  /\ queue[w] # <<>>
  /\ Goto(w, "loop", "process")
  /\ count' = [count EXCEPT ![w] = 0]
  /\ UNCHANGED <<inbox, interrupt, quietVars, problem, closed, queue, flagVars, todo, doing,
                 scan, receiver, pending, goal>>

\* processOpen
Open(w) ==
  /\ queue[w] # <<>>
  /\ Goto(w, "process", "edges")
  /\ doing' = [doing EXCEPT ![w] = "expand"]
  /\ todo' = [todo EXCEPT ![w] = problem.succ[Head(queue[w])]]
  /\ deadlocked' = [deadlocked EXCEPT ![w] = TRUE]
  /\ axed' = [axed EXCEPT ![w] = FALSE]
  /\ count' = [count EXCEPT ![w] = @ + 1]
  /\ UNCHANGED <<inbox, interrupt, quietVars, problem, closed, queue, scan, receiver, pending,
                 goal>>

QueueEmpty(w) ==
  /\ queue[w] = <<>>
  /\ Goto(w, "process", "loop")
  /\ UNCHANGED <<inbox, interrupt, quietVars, searchVars>>

\* Nothing to do at all.
Idle(w) ==
  /\ ~WorkWaiting(w)
  /\ queue[w] = <<>>
  /\ GoIdle(w, "loop", "loop")
  /\ UNCHANGED searchVars

-----------------------------------------------------------------------------
\* The barrier's part of idle() leaves the search as it is.
In(step) == step /\ UNCHANGED searchVars

BarrierStep(w) ==
  \/ In(Expect(w)) \/ In(TakeGlobal(w)) \/ In(TryLock(w)) \/ In(FoundDone(w))
  \/ In(NotDone(w)) \/ In(NotifyNext(w)) \/ In(GoToBed(w)) \/ In(StayUp(w))
  \/ In(Wait(w)) \/ In(Relock(w)) \/ In(WakeDone(w)) \/ In(WakeWork(w))

Search(w) ==
  \/ Start(w) \/ SendEdge(w) \/ WakeReceiver(w) \/ StoreEdge(w) \/ GoalEdge(w)
  \/ Interrupt(w) \/ Terminate(w) \/ Restart(w) \/ Close(w) \/ Received(w)
  \/ Messages(w) \/ Interrupted(w) \/ Receive(w) \/ ReceiveNext(w) \/ Drain(w)
  \/ Drained(w) \/ ProcessQueue(w) \/ Open(w) \/ QueueEmpty(w) \/ Idle(w)

SpuriousWakeup(w) == In(Spurious(w))

AllFinished == \A w \in Workers : pc[w] = "finished"

\* The section is over; the master goes on.
Joined == AllFinished /\ UNCHANGED vars

Next == Joined \/ \E w \in Workers : BarrierStep(w) \/ Search(w) \/ SpuriousWakeup(w)

Spec == Init /\ [][Next]_vars

\* Every thread runs, and gets a mutex that is free again and again: the code
\* yields where it would starve the others (divine/toolkit/barrier.h:158-161).
Locking(w) == \/ Start(w)
              \/ In(TakeGlobal(w) \/ Relock(w) \/ WakeDone(w) \/ WakeWork(w))
Fairness == \A w \in Workers : /\ WF_vars(BarrierStep(w) \/ Search(w))
                               /\ SF_vars(Locking(w))
FairSpec == Spec /\ Fairness

-----------------------------------------------------------------------------
TypeOK ==
  /\ BarrierType
  /\ \A from, to \in Workers : ToSet(inbox[from][to]) \subseteq Nodes
  /\ problem \in Problems
  /\ closed \subseteq Nodes
  /\ \A w \in Workers : ToSet(queue[w]) \subseteq closed
  /\ axed \in [Workers -> BOOLEAN]
  /\ deadlocked \in [Workers -> BOOLEAN]
  /\ todo \in [Workers -> SUBSET Nodes]
  /\ doing \in [Workers -> {"initials", "expand", "receive"}]
  /\ count \in [Workers -> 0 .. Batch]
  /\ scan \in [Workers -> 1 .. N + 1]
  /\ receiver \in [Workers -> Workers \cup {NoOne}]
  /\ pending \in [Workers -> SUBSET Workers]
  /\ goal \in [Workers -> Nodes \cup {NoNode}]
  /\ pc \in [Workers -> BarrierStates \cup
               {"register", "edges", "wakeup", "interrupt", "loop", "receive", "drain",
                "process"}]

\* A worker that is about to wake another up finds the maps as they will stay.
WakeupIsSafe == \A w \in Workers : pc[w] = "wakeup" => MapsAreStable(w, receiver[w])

\* The states that can be reached from the initial ones: those in every set that
\* includes these and has no edge out of it.
Reached ==
  {n \in Nodes : \A S \in SUBSET Nodes :
     (problem.initials \subseteq S /\ \A m \in S : problem.succ[m] \subseteq S) => n \in S}

Wanted == {n \in Reached : IF problem.property = "goal" THEN n \in problem.goals
                                                        ELSE problem.succ[n] = {}}

\* When the section ends, someone has found what is wanted if it is there; if
\* it is not, every state that can be reached has been stored.
Verdict ==
  AllFinished =>
    IF Wanted = {} THEN closed = Reached /\ \A w \in Workers : goal[w] = NoNode
                   ELSE \E w \in Workers : goal[w] \in Wanted

\* The section comes to an end.
EveryoneReturns == <>AllFinished
=============================================================================
