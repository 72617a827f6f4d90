---------------------------- MODULE CycleDetection ----------------------------
(***************************************************************************)
(* What every algorithm for LTL properties promises: it says "cycle" when  *)
(* the product of the program and the automaton has an accepting cycle     *)
(* that an initial state reaches, and "valid" when it has none.            *)
(*                                                                         *)
(* Reachability is defined by closed sets, without induction: a state is   *)
(* reachable from a set when it is in every closed set that includes it.   *)
(***************************************************************************)
CONSTANTS Nodes, Problems

VARIABLES
  problem,   \* the graph and its accepting states, which never change
  verdict    \* "none" until the answer is there

vars == <<problem, verdict>>

IsClosed(C) == \A n \in C : problem.succ[n] \subseteq C

\* The states that every closed set around N has: those N reaches.
Reach(N) == LET closed == {C \in SUBSET Nodes : N \subseteq C /\ IsClosed(C)}
            IN {n \in Nodes : \A C \in closed : n \in C}

OnCycle(n) == n \in Reach(problem.succ[n])

AcceptingCycle ==
  \E n \in problem.accepting : n \in Reach(problem.initials) /\ OnCycle(n)

Init == /\ problem \in Problems
        /\ verdict = "none"

Decide == /\ verdict = "none"
          /\ verdict' \in {"cycle", "valid"}
          /\ verdict' = "cycle" <=> AcceptingCycle
          /\ UNCHANGED problem

\* The verdicts are right, if they come.
Sound == Init /\ [][Decide]_vars

\* And they come.
Spec == Sound /\ <>(verdict # "none")
=============================================================================
