------------------------------ MODULE MCNestedDfs ------------------------------
(***************************************************************************)
(* Nested depth-first search of every graph of three states with at most   *)
(* two successors each, in any order, and of larger ones.                  *)
(***************************************************************************)
EXTENDS NestedDfs

MCNodes == 1..5

Graph(initial, succ, accepting) ==
  [initials |-> <<initial>>, accepting |-> accepting,
   succ |-> [n \in MCNodes |-> IF n \in DOMAIN succ THEN succ[n] ELSE <<>>]]

Successors == {s \in UNION {[1..k -> 1..3] : k \in 0..2} : IsInjective(s)}

\* The last successor is the first to be followed.  Here the inner search from
\* 4 comes to 5, that the outer one leaves for later, after the cycle.
Missing == Graph(1, <<<<5, 2>>, <<4, 3>>, <<1>>, <<2>>>>, {4})

MCMissing == {Missing}

MCProblems ==
  {Graph(1, s, f) : s \in [1..3 -> Successors], f \in SUBSET (1..3) \ {{}}}
  \cup
  { Missing,
    \* Two seeds, the first of which marks what leads back to the second.
    Graph(1, <<<<2>>, <<3, 4>>, <<>>, <<5>>, <<4>>>>, {2, 4}),
    \* Two seeds on one cycle, and one in front of it.
    Graph(1, <<<<2>>, <<3>>, <<4, 5>>, <<2>>, <<>>>>, {1, 3, 4}),
    \* No cycle accepts.
    Graph(1, <<<<2, 3>>, <<3, 4>>, <<4>>, <<5>>, <<4>>>>, {1, 2, 3}) }
=============================================================================
