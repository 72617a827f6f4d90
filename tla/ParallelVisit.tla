----------------------------- MODULE ParallelVisit -----------------------------
(***************************************************************************)
(* A section of a parallel search as its callbacks see it.  The algorithms *)
(* for accepting cycles (Owcty, Map) are sequences of such sections, each  *)
(* with a transition and an expansion of its own: Algorithm::parallel and  *)
(* visit of divine/algorithm/common.h, Common::edge and Shared of          *)
(* divine/graph/visitor.h, the shared store of divine/graph/store.h.       *)
(*                                                                         *)
(* How the workers share their queue and find that nothing is left is the  *)
(* subject of SharedSearch: here a state that was pushed is taken by some  *)
(* worker, and a section is over when nobody has anything to do.  A step   *)
(* is one callback, which its Guard makes atomic.  The workers queue the   *)
(* first states of a section, each those of its own cells, before any of   *)
(* them passes the start detector: that is one step.                       *)
(***************************************************************************)
EXTENDS Integers, FiniteSets, Functions

CONSTANTS
  Workers,    \* the threads of the section, Parallel::peers() of them
  Nodes,      \* the states, named by the numbers of their handles
  Problems,   \* the products of a program and an automaton
  TableSize,  \* the cells of the hash table
  Cell        \* where each state is in it

ASSUME VisitAssumption ==
  /\ IsFiniteSet(Workers) /\ Workers # {}
  /\ IsFiniteSet(Nodes) /\ Nodes \subseteq Nat \ {0}
  /\ Problems \subseteq [initials : SUBSET Nodes, succ : [Nodes -> SUBSET Nodes],
                         accepting : SUBSET Nodes]
  /\ TableSize \in Nat \ {0}
  /\ Cell \in Injection(Nodes, 0..(TableSize - 1))

None == 0   \* an invalid handle, whose number is 0

VARIABLES
  problem,     \* the member of Problems being solved, which never changes
  verdict,     \* what is reported: "none" until the end
  phase,       \* the section that runs
  store,       \* the states in the hash table
  ext,         \* the extension of each state: the algorithm's record
  shared,      \* the algorithm's record of counters, the master's or the sum
  found,       \* the cycle_node (ce.initial) that each worker has put down
  open,        \* how many times each state is in the queue
  work,        \* the state, its edges left and the target each worker is at
  interrupted, \* a worker has said Terminate
  ok           \* no ASSERT of the algorithm has failed so far

vars == <<problem, verdict, phase, store, ext, shared, found, open, work, interrupted,
          ok>>

Resting == [from |-> None, todo |-> {}, target |-> None]

Greater(m, n) == IF m < n THEN n ELSE m

Accepting(n) == n \in problem.accepting

Raise(cond) == ok' = (ok /\ cond)

CycleFound == \E w \in Workers : found[w] # None

\* Nobody has anything left to do: the section is over.
Quiet == /\ \A w \in Workers : work[w] = Resting
         /\ \A n \in Nodes : open[n] = 0

\* The cells a worker iterates over are a whole share of the table's, so that
\* nobody comes to those after the last share (firstIndex and lastIndex).
Iterated == {n \in store :
              Cell[n] < (TableSize \div Cardinality(Workers)) * Cardinality(Workers)}

\* Once its last edge is done a worker is free for another state.
Settle(r) == IF r.todo = {} /\ r.target = None THEN Resting ELSE r

\* processOpen: a worker takes a state from the queue and lists its successors.
Take(w) ==
  /\ work[w] = Resting
  /\ \E n \in Nodes :
       /\ open[n] > 0
       /\ open' = [open EXCEPT ![n] = @ - 1]
       /\ work' = [work EXCEPT ![w] =
                     Settle([from |-> n, todo |-> problem.succ[n], target |-> None])]
  /\ UNCHANGED <<problem, verdict, phase, store, ext, shared, found, interrupted, ok>>

\* Common::edge as far as the transition callback, that has chosen an action:
\* the target is in the store from now on, a new one is expanded on Follow,
\* any on Expand, and Terminate clears the queue and axes the edges left.
Edge(w, t, action) ==
  /\ work[w].target = None /\ t \in work[w].todo
  /\ store' = store \cup {t}
  /\ work' = [work EXCEPT ![w] = Settle(
                [from |-> @.from,
                 todo |-> IF action = "Terminate" THEN {} ELSE @.todo \ {t},
                 target |-> IF action = "Expand" \/ (action = "Follow" /\ t \notin store)
                            THEN t ELSE None])]
  /\ interrupted' = (interrupted \/ action = "Terminate")
  /\ UNCHANGED <<problem, verdict, phase, open>>

\* The rest of edge: after the expansion callback the target is pushed.
Push(w) ==
  /\ work[w].target # None
  /\ open' = [open EXCEPT ![work[w].target] = @ + 1]
  /\ work' = [work EXCEPT ![w] = Settle([@ EXCEPT !.target = None])]
  /\ UNCHANGED <<problem, verdict, phase, store, interrupted>>

\* Once a worker has said Terminate, what the others still hold may be cleared
\* before they come to it, or after.
Drop ==
  /\ interrupted
  /\ \E n \in Nodes : open[n] > 0 /\ open' = [open EXCEPT ![n] = @ - 1]
  /\ UNCHANGED <<problem, verdict, phase, store, ext, shared, found, work, interrupted,
                 ok>>

\* The next section starts with these states in the queue.
Section(next, seeds) ==
  /\ phase' = next
  /\ open' = [n \in Nodes |-> IF n \in seeds THEN 1 ELSE 0]
  /\ work' = [w \in Workers |-> Resting]
  /\ interrupted' = FALSE

\* The answer is there.
Report(answer) ==
  /\ verdict' = answer
  /\ phase' = "done"
  /\ UNCHANGED <<open, work, interrupted>>

Finished == phase = "done" /\ UNCHANGED vars

-----------------------------------------------------------------------------
(* What both algorithms have in common.                                    *)

CD == INSTANCE CycleDetection

\* An answer comes, whatever the order in which the workers take the states
\* and follow the edges, and it is the right one (run of Owcty and of Map).
ImplementsCycleDetection == CD!Spec

\* The ASSERTs of the callbacks and of the master hold: an edge into a state
\* that was given up, a count below zero, a cycle that is not there, more
\* states eliminated than there were.
AssertionsHold == ok

\* The number that a state has been given is that of an accepting state from
\* which it can be reached: stale maxima are still predecessors (transition of
\* Owcty::Initialise and of Map::Main).
MapIsPredecessor ==
  \A n \in Nodes : ext[n].map # None =>
    Accepting(ext[n].map) /\ n \in CD!Reach({ext[n].map})

\* What a worker puts down as the node of a cycle is accepting, can be reached
\* and is on a cycle: a search that is cut short raises no false alarm
\* (cycle_node of Owcty, ce.initial of Map).
FoundIsReal ==
  \A w \in Workers : found[w] # None =>
    Accepting(found[w]) /\ found[w] \in CD!Reach(problem.initials) /\ CD!OnCycle(found[w])
=============================================================================
