------------------------------- MODULE NestedDfs -------------------------------
(***************************************************************************)
(* Nested depth-first search, divine/algorithm/nested-dfs.h, with the      *)
(* sequential visitor of divine/graph/visitor.h (Common, DFV, DFVReadOnly) *)
(* over the Stack of divine/graph/datastruct.h.  The outer search stores   *)
(* the states; from an accepting one that it finishes, the inner search    *)
(* looks for a way back to it, among the states that are stored.  With two *)
(* threads the inner searches run in a thread of their own, and get their  *)
(* seeds through a queue (a brick::shmem::Fifo, see the module Fifo).      *)
(*                                                                         *)
(* The order of successors matters: they are sequences.  A step is one     *)
(* edge or one state that is finished, or one access to what the two       *)
(* threads share; a failed ASSERT stops the program.                       *)
(***************************************************************************)
EXTENDS Integers, SequencesExt

CONSTANTS
  Nodes,     \* the states
  Problems,  \* the graphs, with the order in which successors are generated
  Nowhere    \* an invalid handle

ASSUME NestedAssumption ==
  /\ Nowhere \notin Nodes
  /\ Problems \subseteq [initials : Seq(Nodes), succ : [Nodes -> Seq(Nodes)],
                         accepting : SUBSET Nodes]

VARIABLES
  problem,    \* the graph being searched, which never changes
  parallel,   \* there are two threads
  verdict,    \* what is reported: "none" until the end
  store,      \* the states in the hash table
  nested,     \* those with the bit that an inner search sets
  outer,      \* the stack of the outer search
  inner,      \* that of the inner search, and
  seed,       \*   the state it is to come back to
  ceStack,    \* the states of the outer stack, for the counterexample
  ceLasso,    \* those of the inner stack
  valid,      \* no cycle has been found
  finished,   \* the outer search is over
  process,    \* the seeds that wait for the inner thread
  opc, ipc,   \* the next step of the outer and of the inner search
  ok          \* no ASSERT has failed

shared == <<valid, finished, process>>
vars == <<problem, parallel, verdict, store, nested, outer, inner, seed, ceStack,
          ceLasso, shared, opc, ipc, ok>>

Fresh(n) == [flag |-> "Fresh", node |-> n]
Expanded(n) == [flag |-> "Expanded", node |-> n]

\* Stack::push: the state and its successors, of which the last is on top.
Pushed(stack, n) == Append(stack, Expanded(n))
                    \o [i \in DOMAIN problem.succ[n] |-> Fresh(problem.succ[n][i])]

IsFresh(stack) == stack # <<>> /\ Last(stack).flag = "Fresh"
IsExpanded(stack) == stack # <<>> /\ Last(stack).flag = "Expanded"

\* The initial states are queued one after the other before any is followed,
\* when the inner thread has nothing to see yet.
Init ==
  /\ problem \in Problems
  /\ parallel \in BOOLEAN
  /\ verdict = "none"
  /\ store = ToSet(problem.initials) /\ nested = {}
  /\ outer = FoldLeft(Pushed, <<>>, problem.initials)
  /\ inner = <<>> /\ seed = Nowhere
  /\ ceStack = problem.initials /\ ceLasso = <<>>
  /\ valid = TRUE /\ finished = FALSE /\ process = <<>>
  /\ opc = "search"
  /\ ipc = IF parallel THEN "loop" ELSE "off"
  /\ ok = TRUE

-----------------------------------------------------------------------------
(* The outer search.                                                       *)

\* processOpen and Common::edge: the top of the stack is an edge from the last
\* expanded state.  Its target is stored; a new one is expanded, unless a cycle
\* has been found meanwhile, which clears the stack.
Explore ==
  /\ ok /\ opc = "search" /\ IsFresh(outer)
  /\ LET n == Last(outer).node
     IN /\ store' = store \cup {n}
        /\ IF n \in store THEN outer' = Front(outer) /\ UNCHANGED ceStack
           ELSE IF valid
           THEN outer' = Pushed(Front(outer), n) /\ ceStack' = Append(ceStack, n)
           ELSE outer' = <<>> /\ UNCHANGED ceStack
  /\ UNCHANGED <<problem, parallel, verdict, nested, inner, seed, ceLasso, shared, opc,
                 ipc, ok>>

\* Outer::finished: an accepting state is the seed of an inner search, which is
\* run at once, or later by the inner thread.
Finish ==
  /\ ok /\ opc = "search" /\ IsExpanded(outer)
  /\ LET n == Last(outer).node
     IN IF n \in problem.accepting /\ ~parallel
        THEN opc' = "inner" /\ ipc' = "seed" /\ seed' = n /\ UNCHANGED process
        ELSE /\ opc' = "close"
             /\ process' = IF n \in problem.accepting THEN Append(process, n) ELSE process
             /\ UNCHANGED <<ipc, seed>>
  /\ UNCHANGED <<problem, parallel, verdict, store, nested, outer, inner, ceStack,
                 ceLasso, valid, finished, ok>>

\* The inner search that was run at once is over.
InnerReturned ==
  /\ opc = "inner" /\ ipc = "off"
  /\ opc' = "close"
  /\ UNCHANGED <<problem, parallel, verdict, store, nested, outer, inner, seed, ceStack,
                 ceLasso, shared, ipc, ok>>

\* A wrong variant, for the mutant runs: the trace is cut although it is needed.
Close_Always ==
  /\ ok /\ opc = "close"
  /\ outer' = Front(outer)
  /\ ceStack' = IF ceStack # <<>> THEN Front(ceStack) ELSE ceStack
  /\ opc' = "search"
  /\ UNCHANGED <<problem, parallel, verdict, store, nested, inner, seed, ceLasso, shared,
                 ipc, ok>>

\* The rest of finished, and processClosed: the state leaves the stack, and the
\* trace of the counterexample too, unless there is one.
Close ==
  /\ ok /\ opc = "close"
  /\ outer' = Front(outer)
  /\ ceStack' = IF valid /\ ceStack # <<>> THEN Front(ceStack) ELSE ceStack
  /\ ok' = (valid /\ ceStack # <<>> => Last(ceStack) = Last(outer).node)
  /\ opc' = "search"
  /\ UNCHANGED <<problem, parallel, verdict, store, nested, inner, seed, ceLasso, shared,
                 ipc>>

\* A wrong variant: the inner thread is not told.
FinishOuter_Silent ==
  /\ ok /\ opc = "search" /\ outer = <<>>
  /\ opc' = "join"
  /\ UNCHANGED <<problem, parallel, verdict, store, nested, outer, inner, seed, ceStack,
                 ceLasso, shared, ipc, ok>>

\* The outer search is over: run() says so, and waits for the inner thread.
FinishOuter ==
  /\ ok /\ opc = "search" /\ outer = <<>>
  /\ finished' = TRUE
  /\ opc' = "join"
  /\ UNCHANGED <<problem, parallel, verdict, store, nested, outer, inner, seed, ceStack,
                 ceLasso, valid, process, ipc, ok>>

\* Then it reports.
Report ==
  /\ ok /\ opc = "join" /\ ipc = "off"
  /\ ok' = (valid => process = <<>>)
  /\ verdict' = IF valid THEN "valid" ELSE "cycle"
  /\ opc' = "done"
  /\ UNCHANGED <<problem, parallel, store, nested, outer, inner, seed, ceStack, ceLasso,
                 shared, ipc>>

-----------------------------------------------------------------------------
(* The inner search.                                                       *)

\* The inner thread takes the next seed, as long as no cycle has been found.
TakeSeed ==
  /\ ok /\ parallel /\ ipc = "loop" /\ valid /\ process # <<>>
  /\ seed' = Head(process)
  /\ process' = Tail(process)
  /\ ipc' = "seed"
  /\ UNCHANGED <<problem, parallel, verdict, store, nested, outer, inner, ceStack,
                 ceLasso, valid, finished, opc, ok>>

\* It finds the queue empty and goes to look whether the outer search is over;
SeeEmpty ==
  /\ ok /\ parallel /\ ipc = "loop" /\ valid /\ process = <<>>
  /\ ipc' = "empty"
  /\ UNCHANGED <<problem, parallel, verdict, store, nested, outer, inner, seed, ceStack,
                 ceLasso, shared, opc, ok>>

\* A wrong variant: the queue was empty, so that it ends.
SeeFinished_Trusting ==
  /\ ok /\ ipc = "empty"
  /\ ipc' = IF finished THEN "off" ELSE "loop"
  /\ UNCHANGED <<problem, parallel, verdict, store, nested, outer, inner, seed, ceStack,
                 ceLasso, shared, opc, ok>>

\* and if so, it looks at the queue once more.
SeeFinished ==
  /\ ok /\ ipc = "empty"
  /\ ipc' = IF finished THEN "again" ELSE "loop"
  /\ UNCHANGED <<problem, parallel, verdict, store, nested, outer, inner, seed, ceStack,
                 ceLasso, shared, opc, ok>>

LookAgain ==
  /\ ok /\ ipc = "again"
  /\ ipc' = IF process = <<>> THEN "off" ELSE "loop"
  /\ UNCHANGED <<problem, parallel, verdict, store, nested, outer, inner, seed, ceStack,
                 ceLasso, shared, opc, ok>>

\* The inner thread ends once a cycle has been found.
EndThread ==
  /\ ok /\ parallel /\ ipc = "loop" /\ ~valid
  /\ ipc' = "off"
  /\ UNCHANGED <<problem, parallel, verdict, store, nested, outer, inner, seed, ceStack,
                 ceLasso, shared, opc, ok>>

\* Inner::transition and expansion for a target that has not been nested.
Nest(stack, n) ==
  /\ nested' = nested \cup {n}
  /\ inner' = IF valid THEN Pushed(stack, n) ELSE <<>>
  /\ ceLasso' = IF valid THEN Append(ceLasso, n) ELSE ceLasso

\* runInner starts from nowhere at the seed, if it has not been nested.
StartInner ==
  /\ ok /\ ipc = "seed"
  /\ IF seed \in nested THEN UNCHANGED <<nested, inner, ceLasso>> ELSE Nest(<<>>, seed)
  /\ ipc' = "search"
  /\ UNCHANGED <<problem, parallel, verdict, store, outer, seed, ceStack, shared, opc, ok>>

\* A wrong variant: the seed is not recognised once it has been nested.
ExploreInner_SkipSeed ==
  /\ ok /\ ipc = "search" /\ IsFresh(inner)
  /\ LET n == Last(inner).node
     IN IF n \notin nested THEN Nest(Front(inner), n) /\ ok' = (n \in store)
        ELSE inner' = Front(inner) /\ UNCHANGED <<nested, ceLasso, ok>>
  /\ UNCHANGED <<problem, parallel, verdict, store, outer, seed, ceStack, shared, opc,
                 ipc>>

\* A wrong variant: states are not looked up.
ExploreInner_Unchecked ==
  /\ ok /\ ipc = "search" /\ IsFresh(inner)
  /\ LET n == Last(inner).node
     IN IF n \in nested THEN inner' = Front(inner) /\ UNCHANGED <<nested, ceLasso>>
        ELSE Nest(Front(inner), n)
  /\ UNCHANGED <<problem, parallel, verdict, store, outer, seed, ceStack, shared, opc, ipc,
                 ok>>

\* Common::edge of the inner search, which only looks the target up: it asserts
\* that it is there.  The seed closes a cycle; a state is nested once.
ExploreInner ==
  /\ ok /\ ipc = "search" /\ IsFresh(inner)
  /\ LET n == Last(inner).node
     IN IF n \notin store
        THEN ok' = FALSE /\ UNCHANGED <<nested, inner, ceLasso, valid>>
        ELSE /\ UNCHANGED ok
             /\ IF n = seed
                THEN valid' = FALSE /\ inner' = <<>> /\ UNCHANGED <<nested, ceLasso>>
                ELSE /\ UNCHANGED valid
                     /\ IF n \in nested
                        THEN inner' = Front(inner) /\ UNCHANGED <<nested, ceLasso>>
                        ELSE Nest(Front(inner), n)
  /\ UNCHANGED <<problem, parallel, verdict, store, outer, seed, ceStack, finished,
                 process, opc, ipc>>

\* Inner::finished, and processClosed.
CloseInner ==
  /\ ok /\ ipc = "search" /\ IsExpanded(inner)
  /\ inner' = Front(inner)
  /\ ceLasso' = IF ceLasso # <<>> THEN Front(ceLasso) ELSE ceLasso
  /\ ok' = (ceLasso # <<>> => Last(ceLasso) = Last(inner).node)
  /\ UNCHANGED <<problem, parallel, verdict, store, nested, outer, seed, ceStack, shared,
                 opc, ipc>>

EndInner ==
  /\ ok /\ ipc = "search" /\ inner = <<>>
  /\ ipc' = IF parallel THEN "loop" ELSE "off"
  /\ UNCHANGED <<problem, parallel, verdict, store, nested, outer, inner, seed, ceStack,
                 ceLasso, shared, opc, ok>>

-----------------------------------------------------------------------------
Outer == Explore \/ Finish \/ InnerReturned \/ Close \/ FinishOuter \/ Report

Inner == \/ TakeSeed \/ SeeEmpty \/ SeeFinished \/ LookAgain \/ EndThread
         \/ StartInner \/ ExploreInner \/ CloseInner \/ EndInner

\* The program is over, or a failed ASSERT has stopped it.
Halted == (opc = "done" \/ ~ok) /\ UNCHANGED vars

Next == Outer \/ Inner \/ Halted

\* Both threads run.
Spec == Init /\ [][Next]_vars /\ WF_vars(Outer) /\ WF_vars(Inner)

-----------------------------------------------------------------------------
(* Properties.                                                             *)

\* The values the variables may take.
TypeOK ==
  /\ parallel \in BOOLEAN
  /\ verdict \in {"none", "cycle", "valid"}
  /\ nested \subseteq store /\ store \subseteq Nodes
  /\ \A stack \in {outer, inner} :
       \A i \in DOMAIN stack : /\ stack[i].flag \in {"Fresh", "Expanded"}
                               /\ stack[i].node \in Nodes
  /\ seed \in store \cup {Nowhere}
  /\ \A q \in {ceStack, ceLasso, process} : ToSet(q) \subseteq store
  /\ valid \in BOOLEAN /\ finished \in BOOLEAN /\ ok \in BOOLEAN
  /\ opc \in {"search", "inner", "close", "join", "done"}
  /\ ipc \in {"off", "loop", "empty", "again", "seed", "search"}

\* The graphs without their orders.
Product(p) == [p EXCEPT !.initials = ToSet(@), !.succ = [n \in Nodes |-> ToSet(@[n])]]
Products == {Product(p) : p \in Problems}

CD == INSTANCE CycleDetection WITH problem <- Product(problem), Problems <- Products

\* What is reported is right, with one thread and with two: the inner searches
\* may run late, share the marks of all the earlier ones, and see states that
\* the outer search had not stored when their seed was finished.
RightVerdict == CD!Sound

\* The program ends: it reports, unless a failed ASSERT stops it.
Ends == <>(opc = "done" \/ ~ok)

\* The program is stopped by a failed ASSERT only where there is a cycle to be
\* found: on a graph without one every look-up of the inner search succeeds.
StopsOnlyOnCycles == ~ok => CD!AcceptingCycle

IsPath(p) == \A i \in 1..(Len(p) - 1) : p[i + 1] \in ToSet(problem.succ[p[i]])

\* The counterexample of the sequential program is one, although the searches
\* go on for a while once it is found: the two traces are paths of the graph,
\* from an initial state to an accepting one and from that one back to itself
\* (NestedDFS::counterexample).
CounterexampleIsReal ==
  verdict = "cycle" /\ ~parallel =>
    /\ ceStack # <<>> /\ ceLasso # <<>>
    /\ IsPath(ceStack) /\ IsPath(Append(ceLasso, ceLasso[1]))
    /\ ceStack[1] \in ToSet(problem.initials)
    /\ Last(ceStack) = ceLasso[1] /\ ceLasso[1] \in problem.accepting

\* Every state that the inner search comes to is stored: it asserts it after
\* each look-up.
InnerFindsStates == ok
=============================================================================
