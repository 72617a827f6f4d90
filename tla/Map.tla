---------------------------------- MODULE Map ----------------------------------
(***************************************************************************)
(* The MAP algorithm for accepting cycles, divine/algorithm/map.h, on the  *)
(* sections of ParallelVisit.  Every iteration sends the greatest number   *)
(* of an accepting state along the edges until nothing changes: a number   *)
(* that comes back to its state shows a cycle.  Then the accepting states  *)
(* nobody has a greater number for stop being accepting, the regions of    *)
(* the last maxima keep the next ones apart, and the search starts again.  *)
(***************************************************************************)
EXTENDS ParallelVisit

Rounds == 2 ^ 13   \* the width of Extension::iteration

Candidate == 0        \* the values of elim: accepting, to be eliminated as it is,
NotYet == 1           \*   not in this iteration, since a greater number has come,
Eliminated == 2       \*   no longer taken for accepting,
NeverAccepting == 3   \*   and not accepting at all

MapExtension == [map : Nodes \cup {None}, oldmap : Nodes \cup {None},
                 seen : BOOLEAN, iteration : 0..(Rounds - 1),
                 elim : {Candidate, NotYet, Eliminated, NeverAccepting}]

Fresh == [map |-> None, oldmap |-> None, seen |-> FALSE, iteration |-> 0,
          elim |-> Candidate]

\* A wrong variant, for the mutant runs: what has been seen is counted again.
Expanded_Unseen(e, n) == [e EXCEPT !.elim = IF Accepting(n) THEN @ ELSE NeverAccepting]

\* Main::expansion: a state seen for the first time is counted if it accepts.
Expanded(e, n) ==
  IF e.seen THEN e
  ELSE [e EXCEPT !.seen = TRUE, !.elim = IF Accepting(n) THEN @ ELSE NeverAccepting]

NewAccepting(N) == Cardinality({n \in N : ~ext[n].seen /\ Accepting(n)})

\* The first iteration starts from the initial states, stored and expanded.
MapInit ==
  /\ problem \in Problems
  /\ verdict = "none"
  /\ phase = "visit"
  /\ store = problem.initials
  /\ ext = [n \in Nodes |-> IF n \in problem.initials
                            THEN Expanded([Fresh EXCEPT !.iteration = 1], n) ELSE Fresh]
  /\ shared = [accepting |-> Cardinality(problem.initials \cap problem.accepting),
               eliminated |-> 0, iteration |-> 1]
  /\ found = [w \in Workers |-> None]
  /\ open = [n \in Nodes |-> IF n \in problem.initials THEN 1 ELSE 0]
  /\ work = [w \in Workers |-> Resting]
  /\ interrupted = FALSE
  /\ ok = TRUE

\* isAccepting: an eliminated state is not, nor is one that never was; that is
\* written down on the way.
StillAccepting(n) == ext[n].elim < Eliminated /\ Accepting(n)

Noted(n) == IF ext[n].elim < Eliminated /\ ~Accepting(n)
            THEN [ext[n] EXCEPT !.elim = NeverAccepting] ELSE ext[n]

\* A cycle: an accepting self loop, or the source's maximum is the target.
Arrives(f, t) == (Accepting(f) /\ t = f) \/ (StillAccepting(t) /\ ext[f].map = t)

\* The maxima of the last iteration were different: no cycle through the edge.
Apart(f, t) == /\ ext[f].oldmap # None /\ ext[t].oldmap # None
               /\ ext[f].oldmap # ext[t].oldmap

\* The greatest number for the target that this edge knows of.
Propagated(f, t) ==
  Greater(Greater(ext[f].map, ext[t].map), IF StillAccepting(t) THEN t ELSE None)

\* Main::transition: a target that learns of a greater number is expanded
\* again, and is not eliminated if that is greater than its own; any other is
\* expanded when this iteration comes to it for the first time.
VisitEdge(w) ==
  /\ phase = "visit"
  /\ \E t \in work[w].todo :
       LET f == work[w].from
           map == Propagated(f, t)
           spreads == ~Apart(f, t) /\ ext[t].map < map
       IN IF f # None /\ Arrives(f, t)
          THEN /\ found' = [found EXCEPT ![w] = t]
               /\ ext' = [ext EXCEPT ![t] = IF Accepting(f) /\ t = f THEN @ ELSE Noted(t)]
               /\ Edge(w, t, "Terminate")
          ELSE /\ ext' = [ext EXCEPT ![t] =
                    IF spreads
                    THEN [Noted(t) EXCEPT
                            !.map = map,
                            !.elim = IF @ = Candidate /\ t < map THEN NotYet ELSE @]
                    ELSE [Noted(t) EXCEPT !.iteration = shared.iteration % Rounds]]
               /\ Edge(w, t, IF spreads \/ ext[t].iteration # shared.iteration
                             THEN "Expand" ELSE "Forget")
               /\ UNCHANGED found
  /\ UNCHANGED <<shared, ok>>

VisitExpansion(w) ==
  /\ phase = "visit"
  /\ Push(w)
  /\ LET t == work[w].target
     IN /\ ext' = [ext EXCEPT ![t] = Expanded(@, t)]
        /\ shared' = [shared EXCEPT !.accepting = @ + NewAccepting({t})]
  /\ UNCHANGED <<found, ok>>

-----------------------------------------------------------------------------
(* _cleanup: the workers make up the next iteration, each in its cells.    *)

\* What was not spared is eliminated.
Cleaned(e) ==
  [e EXCEPT !.oldmap = e.map, !.map = None,
            !.elim = CASE e.elim = NeverAccepting -> NeverAccepting
                       [] e.elim = NotYet -> Candidate
                       [] OTHER -> Eliminated]

EliminatedNow == Cardinality({n \in Iterated : ext[n].elim \in {Candidate, Eliminated}})

\* The master asserts that no more are eliminated than were accepting, and
\* goes on while some but not all have been, and no cycle is found.
GoesOn == /\ EliminatedNow > shared.eliminated
          /\ EliminatedNow < shared.accepting
          /\ ~CycleFound

\* In the next iteration the initial states are expanded again, if it comes to
\* them for the first time.
EndVisit ==
  /\ phase = "visit" /\ Quiet /\ GoesOn
  /\ Raise(EliminatedNow <= shared.accepting)
  /\ Section("visit", problem.initials)
  /\ ext' = [n \in Nodes |->
               LET e == IF n \in Iterated THEN Cleaned(ext[n]) ELSE ext[n]
               IN IF n \in problem.initials
                  THEN [e EXCEPT !.iteration = (shared.iteration + 1) % Rounds] ELSE e]
  /\ shared' = [shared EXCEPT !.eliminated = EliminatedNow, !.iteration = @ + 1]
  /\ UNCHANGED <<problem, verdict, store, found>>

\* Or it has the answer.
EndMap ==
  /\ phase = "visit" /\ Quiet /\ ~GoesOn
  /\ Raise(EliminatedNow <= shared.accepting)
  /\ Report(IF CycleFound THEN "cycle" ELSE "valid")
  /\ ext' = [n \in Nodes |-> IF n \in Iterated THEN Cleaned(ext[n]) ELSE ext[n]]
  /\ shared' = [shared EXCEPT !.eliminated = EliminatedNow, !.iteration = @ + 1]
  /\ UNCHANGED <<problem, store, found>>

-----------------------------------------------------------------------------
MapWork(w) == Take(w) \/ VisitEdge(w) \/ VisitExpansion(w)

MapMaster == EndVisit \/ EndMap

MapNext == (\E w \in Workers : MapWork(w)) \/ Drop \/ MapMaster \/ Finished

\* The workers and the master run whenever they can.
MapSpec == MapInit /\ [][MapNext]_vars /\ WF_vars(MapNext)

-----------------------------------------------------------------------------
(* Properties of its own.                                                  *)

\* "The property HOLDS" is said only when there is no accepting cycle.
NoneIsMissed == verdict = "valid" => ~CD!AcceptingCycle

\* And that it does not hold only when there is one.
NoFalseAlarm == verdict = "cycle" => CD!AcceptingCycle
=============================================================================
