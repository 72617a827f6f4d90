------------------------- MODULE MCConcurrentHashSet -------------------------
EXTENDS ConcurrentHashSet, TLC

CONSTANTS t1, t2, a, b

TwoThreads == {t1, t2}
TwoValues == {a, b}

\* They meet in a row of two cells, and not in one of four.
Meeting == [v \in Values |-> IF v = b THEN 2 ELSE 0]

\* Row 0 is a fake; each of the others has twice the cells of the one before.
Doubling == (0 :> 1) @@ (1 :> 2) @@ (2 :> 4) @@ (3 :> 8)
=============================================================================
