------------------------------ MODULE MCMapShares ------------------------------
(***************************************************************************)
(* MAP with three workers and a table of four cells: nobody cleans up the  *)
(* last one.                                                               *)
(***************************************************************************)
EXTENDS Map

CONSTANTS w1, w2, w3

MCNodes == 1..4
MCCell == [n \in MCNodes |-> n - 1]

\* A state that accepts, and behind it a cycle that accepts too.
MCProblems ==
  {[initials |-> {3}, succ |-> <<{2}, {1}, {4}, {1}>>, accepting |-> {1, 4}]}
=============================================================================
