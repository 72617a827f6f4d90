---------------------------- MODULE MCSharedSearch ----------------------------
EXTENDS SharedSearch, TLC

CONSTANTS w1, w2, w3, n1, n2, n3, n4

FourNodes == {n1, n2, n3, n4}

\* Four states, one of them reached along two paths, in a cycle.
Diamond == (n1 :> {n2, n3}) @@ (n2 :> {n4}) @@ (n3 :> {n4}) @@ (n4 :> {n1})

\* Two initial states, and one that both lead to, where the search may end.
Net == (n1 :> {n3}) @@ (n2 :> {n3, n4}) @@ (n3 :> {n1, n4}) @@ (n4 :> {n2})
DeadNet == [Net EXCEPT ![n4] = {}]

\* A cycle of three states, for three workers.
Ring == (n1 :> {n2}) @@ (n2 :> {n3}) @@ (n3 :> {n1}) @@ (n4 :> {})

Problem(workers, property, initials, succ, goals) ==
  [workers |-> workers, property |-> property, initials |-> initials, succ |-> succ,
   goals |-> goals]
Goal(initials, succ, goals) == Problem({w1, w2}, "goal", initials, succ, goals)
Deadlock(initials, succ) == Problem({w1, w2}, "deadlock", initials, succ, {})

\* The whole graph is explored; a goal is found, on the way or at once; a
\* deadlock is found, or there is none.
MCProblems ==
  {Goal({n1, n2}, Net, {}), Goal({n1, n2}, Net, {n4}), Goal({n1, n2}, Net, {n2, n4}),
   Deadlock({n1, n2}, DeadNet), Deadlock({n1}, Diamond),
   Problem({w1, w2, w3}, "goal", {n1}, Ring, {})}
=============================================================================
