--------------------------------- MODULE Owcty ---------------------------------
(***************************************************************************)
(* The OWCTY algorithm for accepting cycles, divine/algorithm/owcty.h, on  *)
(* the sections of ParallelVisit.  The first section stores every state    *)
(* and sends numbers of accepting states along the edges, which finds many *)
(* cycles at once.  Then reachability and elimination alternate: the first *)
(* counts the predecessors that the accepting states left can reach, the   *)
(* second takes away what has none, until nothing more goes.  If some      *)
(* accepting states stay, FindCE looks for a cycle through one of them.    *)
(***************************************************************************)
EXTENDS ParallelVisit

PredCounts == 2 ^ 19   \* the width of Extension::predCount
Iterations == 2 ^ 10   \* the width of Extension::iteration

OwctyExtension ==
  [map : Nodes \cup {None},       \* the greatest accepting predecessor seen
   inS : BOOLEAN, inF : BOOLEAN,  \* still a candidate; accepting
   predCount : 0..(PredCounts - 1),
   iteration : 0..(Iterations - 1)]

\* An initial state is stored and expanded before the first section runs.
OwctyInit ==
  /\ problem \in Problems
  /\ verdict = "none"
  /\ phase = "initialise"
  /\ store = problem.initials
  /\ ext = [n \in Nodes |->
              [map |-> None, inS |-> n \in problem.initials /\ Accepting(n),
               inF |-> n \in problem.initials /\ Accepting(n),
               predCount |-> 0, iteration |-> 0]]
  /\ shared = [size |-> Cardinality(problem.initials \cap problem.accepting),
               oldsize |-> 0, iteration |-> 0, candidate |-> None]
  /\ found = [w \in Workers |-> None]
  /\ open = [n \in Nodes |-> IF n \in problem.initials THEN 1 ELSE 0]
  /\ work = [w \in Workers |-> Resting]
  /\ interrupted = FALSE
  /\ ok = TRUE

Mark == shared.iteration % Iterations

\* updateIteration says whether the state is visited for the first time in
\* this section: it compares the narrow field with the whole number.
Revisit(n) == IF ext[n].iteration # shared.iteration THEN "Expand" ELSE "Forget"

-----------------------------------------------------------------------------
(* Initialise: the whole graph, with the greatest accepting predecessors.  *)

\* A wrong variant, for the mutant runs: every state sends its number.
InitialiseEdge_AnyNumber(w) ==
  /\ phase = "initialise"
  /\ \E t \in work[w].todo :
       LET f == work[w].from
           cycle == t = f \/ t = ext[f].map
       IN /\ ext' = [ext EXCEPT ![t].map = Greater(@, Greater(ext[f].map, f))]
          /\ found' = [found EXCEPT ![w] = IF cycle THEN t ELSE @]
          /\ Edge(w, t, IF cycle THEN "Terminate" ELSE "Follow")
  /\ UNCHANGED <<shared, ok>>

\* The target takes the greatest of its map, the source's, and the source's
\* number if it accepts.  A cycle shows when a number comes back to its state.
InitialiseEdge(w) ==
  /\ phase = "initialise"
  /\ \E t \in work[w].todo :
       LET f == work[w].from
           own == IF Accepting(f) /\ t # f THEN f ELSE None
           cycle == (Accepting(f) /\ t = f) \/ t = ext[f].map
       IN /\ ext' = [ext EXCEPT ![t].map = Greater(@, Greater(ext[f].map, own))]
          /\ found' = [found EXCEPT ![w] = IF cycle THEN t ELSE @]
          /\ Edge(w, t, IF cycle THEN "Terminate" ELSE "Follow")
  /\ UNCHANGED <<shared, ok>>

InitialiseExpansion(w) ==
  /\ phase = "initialise"
  /\ Push(w)
  /\ LET t == work[w].target
     IN /\ ext' = [ext EXCEPT ![t].inS = Accepting(t), ![t].inF = Accepting(t)]
        /\ shared' = [shared EXCEPT !.size = @ + IF Accepting(t) THEN 1 ELSE 0]
  /\ UNCHANGED <<found, ok>>

-----------------------------------------------------------------------------
(* Reachability: what the accepting states that are left can reach.        *)

\* queueAll: every worker resets the counts of its states and queues those
\* that are accepting and left, with an edge from nowhere to each.
QueueAll == {n \in Iterated : ext[n].inS /\ ext[n].inF}

\* A wrong variant: the counts of the last round stay.
StartReachability_NoReset ==
  /\ Section("reachability", QueueAll)
  /\ ext' = [n \in Nodes |->
               [ext[n] EXCEPT !.predCount = IF n \in QueueAll THEN @ + 1 ELSE @,
                              !.iteration = IF n \in QueueAll THEN shared'.iteration ELSE @]]

StartReachability ==
  /\ Section("reachability", QueueAll)
  /\ ext' = [n \in Nodes |->
               IF n \in QueueAll
               THEN [ext[n] EXCEPT !.predCount = 1,
                                   !.iteration = shared'.iteration % Iterations]
               ELSE IF n \in Iterated THEN [ext[n] EXCEPT !.predCount = 0] ELSE ext[n]]

\* After Initialise: the master goes on when no worker has seen a cycle.
EndInitialise ==
  /\ phase = "initialise" /\ Quiet /\ ~CycleFound
  /\ shared' = [shared EXCEPT !.oldsize = shared.size, !.iteration = 1,
                              !.size = Cardinality(QueueAll)]
  /\ StartReachability
  /\ UNCHANGED <<problem, verdict, store, found, ok>>

\* And it has the answer when one has.
EndEarly ==
  /\ phase = "initialise" /\ Quiet /\ CycleFound
  /\ Report("cycle")
  /\ UNCHANGED <<problem, store, ext, shared, found, ok>>

\* The target is counted one more predecessor, and is in S.  An accepting one
\* has been queued already; another is expanded at its first edge.
ReachabilityEdge(w) ==
  /\ phase = "reachability"
  /\ \E t \in work[w].todo :
       /\ ext' = [ext EXCEPT ![t].predCount = (@ + 1) % PredCounts,
                             ![t].inS = TRUE,
                             ![t].iteration = IF ext[t].inF THEN @ ELSE Mark]
       /\ Edge(w, t, IF ext[t].inF THEN "Forget" ELSE Revisit(t))
  /\ UNCHANGED <<shared, found, ok>>

ReachabilityExpansion(w) ==
  /\ phase = "reachability"
  /\ Push(w)
  /\ LET t == work[w].target
     IN Raise(ext[t].predCount > 0 /\ ext[t].inS)
  /\ shared' = [shared EXCEPT !.size = @ + 1]
  /\ UNCHANGED <<ext, found>>

-----------------------------------------------------------------------------
(* Elimination: what has no predecessor in S goes, and its successors lose *)
(* one.                                                                    *)

\* The edge from nowhere is taken back: the seeds that have no other go.
EndReachability ==
  /\ phase = "reachability" /\ Quiet
  /\ LET gone == {n \in QueueAll : ext[n].predCount = 1}
     IN /\ Section("elimination", gone)
        /\ shared' = [shared EXCEPT !.iteration = @ + 1, !.size = Cardinality(gone)]
        /\ ext' = [n \in Nodes |->
                     IF n \notin QueueAll THEN ext[n]
                     ELSE [ext[n] EXCEPT
                             !.predCount = (@ - 1) % PredCounts,
                             !.inS = n \notin gone,
                             !.iteration = IF n \in gone THEN shared'.iteration % Iterations
                                           ELSE @]]
        /\ Raise(\A n \in QueueAll : ext[n].predCount >= 1)
  /\ UNCHANGED <<problem, verdict, store, found>>

\* A wrong variant: a state goes at the first predecessor it loses.
EliminationEdge_AnyLoss(w) ==
  /\ phase = "elimination"
  /\ \E t \in work[w].todo :
       /\ Raise(ext[t].inS /\ ext[t].predCount >= 1)
       /\ ext' = [ext EXCEPT ![t].predCount = 0, ![t].iteration = Mark]
       /\ Edge(w, t, Revisit(t))
  /\ UNCHANGED <<shared, found>>

\* The target loses a predecessor; without any left it is to be eliminated.
EliminationEdge(w) ==
  /\ phase = "elimination"
  /\ \E t \in work[w].todo :
       LET left == (ext[t].predCount - 1) % PredCounts
       IN /\ Raise(ext[t].inS /\ ext[t].predCount >= 1)
          /\ ext' = [ext EXCEPT ![t].predCount = left,
                                ![t].iteration = IF left = 0 THEN Mark ELSE @]
          /\ Edge(w, t, IF left = 0 THEN Revisit(t) ELSE "Forget")
  /\ UNCHANGED <<shared, found>>

EliminationExpansion(w) ==
  /\ phase = "elimination"
  /\ Push(w)
  /\ LET t == work[w].target
     IN /\ Raise(ext[t].predCount = 0)
        /\ ext' = [ext EXCEPT ![t].inS = FALSE]
        /\ shared' = [shared EXCEPT !.size = @ + IF ext[t].inF THEN 1 ELSE 0]
  /\ UNCHANGED found

\* The accepting states that are left, once this elimination is over.
Left == shared.oldsize - shared.size

\* The loop of run() goes round again while some go and some are left.
EndElimination ==
  /\ phase = "elimination" /\ Quiet
  /\ Left # shared.oldsize /\ Left # 0
  /\ shared' = [shared EXCEPT !.oldsize = Left, !.iteration = @ + 1,
                              !.size = Cardinality(QueueAll)]
  /\ StartReachability
  /\ UNCHANGED <<problem, verdict, store, found, ok>>

\* None is left: the property holds.
EndValid ==
  /\ phase = "elimination" /\ Quiet /\ Left = 0
  /\ Report("valid")
  /\ UNCHANGED <<problem, store, ext, shared, found, ok>>

\* Some are left and no more go: it does not hold.  A counterexample may be
\* wanted or not.
EndInvalid ==
  /\ phase = "elimination" /\ Quiet
  /\ Left = shared.oldsize /\ Left # 0
  /\ \/ Report("cycle") /\ UNCHANGED shared
     \/ /\ Section("findCE", {})
        /\ shared' = [shared EXCEPT !.oldsize = Left, !.iteration = @ + 1]
        /\ UNCHANGED verdict
  /\ UNCHANGED <<problem, store, ext, found, ok>>

-----------------------------------------------------------------------------
(* FindCE: a cycle through one of the accepting states that are left.      *)

\* _counterexample: the workers in turn, each over its cells, go on after the
\* last candidate.  They skip what a search from another has visited.
Candidates == {n \in Iterated :
                 /\ shared.candidate = None \/ Cell[n] > Cell[shared.candidate]
                 /\ ext[n].inS /\ ext[n].inF
                 /\ ext[n].iteration # shared.iteration}

\* Every worker queues the candidate; the first marks it and expands it.
TryNext ==
  /\ phase = "findCE" /\ Quiet /\ ~CycleFound
  /\ \E n \in Candidates :
       /\ \A m \in Candidates : Cell[n] <= Cell[m]
       /\ Section("findCE", {n})
       /\ ext' = [ext EXCEPT ![n].iteration = Mark]
       /\ shared' = [shared EXCEPT !.candidate = n]
  /\ UNCHANGED <<problem, verdict, store, found, ok>>

\* Only states in S are visited, until an edge leads back to the candidate.
FindCEEdge(w) ==
  /\ phase = "findCE"
  /\ \E t \in work[w].todo :
       LET back == ext[t].inS /\ t = shared.candidate
       IN /\ found' = [found EXCEPT ![w] = IF back THEN t ELSE @]
          /\ ext' = [ext EXCEPT ![t].iteration =
                       IF ext[t].inS /\ ~back THEN Mark ELSE @]
          /\ Edge(w, t, IF back THEN "Terminate"
                        ELSE IF ext[t].inS THEN Revisit(t) ELSE "Forget")
  /\ UNCHANGED <<shared, ok>>

FindCEExpansion(w) ==
  /\ phase = "findCE"
  /\ Push(w)
  /\ UNCHANGED <<ext, shared, found, ok>>

\* Then there must be a cycle to report: counterexample() asserts it.
EndFindCE ==
  /\ phase = "findCE" /\ Quiet
  /\ CycleFound \/ Candidates = {}
  /\ Raise(CycleFound)
  /\ Report("cycle")
  /\ UNCHANGED <<problem, store, ext, shared, found>>

-----------------------------------------------------------------------------
OwctyWork(w) ==
  \/ Take(w)
  \/ InitialiseEdge(w) \/ InitialiseExpansion(w)
  \/ ReachabilityEdge(w) \/ ReachabilityExpansion(w)
  \/ EliminationEdge(w) \/ EliminationExpansion(w)
  \/ FindCEEdge(w) \/ FindCEExpansion(w)

OwctyMaster ==
  \/ EndEarly \/ EndInitialise \/ EndReachability \/ EndElimination
  \/ EndValid \/ EndInvalid \/ TryNext \/ EndFindCE

OwctyNext == (\E w \in Workers : OwctyWork(w)) \/ Drop \/ OwctyMaster \/ Finished

\* The workers and the master run whenever they can.
OwctySpec == OwctyInit /\ [][OwctyNext]_vars /\ WF_vars(OwctyNext)

-----------------------------------------------------------------------------
(* Properties of its own.                                                  *)

\* Elimination never takes an accepting state of a cycle away: from the end of
\* the first section on every one that can be reached is in S.
CyclesSurvive ==
  phase \in {"reachability", "elimination", "findCE"} =>
    \A n \in problem.accepting :
      n \in CD!Reach(problem.initials) /\ CD!OnCycle(n) => ext[n].inS /\ ext[n].inF
=============================================================================
