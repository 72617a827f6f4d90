------------------------- MODULE MCPartitionedSearch -------------------------
EXTENDS PartitionedSearch, TLC

CONSTANTS n1, n2, n3, n4

FourNodes == {n1, n2, n3, n4}

\* A cycle through the three owners, the last of whom may send two messages while
\* the first finds the goal in one of them; and a message into a deadlock.
Chain == (n1 :> {n2}) @@ (n2 :> {n3}) @@ (n3 :> {n1, n4}) @@ (n4 :> {n1})
Line == (n1 :> {n2}) @@ (n2 :> {}) @@ (n3 :> {n1}) @@ (n4 :> {})

Three == (n1 :> 1) @@ (n2 :> 2) @@ (n3 :> 3) @@ (n4 :> 3)

Problem(initials, succ, goals, property, owner) ==
  [initials |-> initials, succ |-> succ, goals |-> goals, property |-> property,
   owner |-> owner]

\* The whole graph is explored; a goal is found; a deadlock is found.
MCProblems ==
  {Problem({n1}, Chain, {}, "goal", Three), Problem({n3}, Chain, {n1}, "goal", Three),
   Problem({n1}, Line, {}, "deadlock", Three)}
=============================================================================
