--------------------------- MODULE MCCycleDetection ---------------------------
(***************************************************************************)
(* OWCTY and MAP on the same graphs: every graph of three states with at   *)
(* most four edges, and larger ones for what needs them.                   *)
(***************************************************************************)
EXTENDS Owcty, Map

CONSTANTS w1, w2

MCNodes == 1..5
MCCell == [n \in MCNodes |-> (3 * n) % 8]   \* not in the order of the numbers

Graph(initial, edges, accepting) ==
  [initials |-> {initial},
   succ |-> [n \in MCNodes |-> {m \in MCNodes : <<n, m>> \in edges}],
   accepting |-> accepting]

\* The graphs of three states and four edges that reach all of them.
Connected(i, e) == \A n \in 1..3 : n = i \/ \E m \in 1..3 : /\ m # n /\ <<m, n>> \in e
                                                            /\ m = i \/ <<i, m>> \in e
MCProblems ==
  {Graph(p[1], p[2], p[3]) :
     p \in {p \in {1, 3} \X {e \in SUBSET ((1..3) \X (1..3)) : Cardinality(e) = 4}
                  \X (SUBSET (1..3) \ {{}}) : Connected(p[1], p[2])}}
  \cup
  { \* A greater number hides the one on the cycle, and a state behind it.
    Graph(4, {<<4, 1>>, <<1, 2>>, <<2, 1>>, <<2, 3>>}, {2, 3, 4}),
    \* A cycle that does not accept keeps what is behind it one round longer.
    Graph(4, {<<4, 1>>, <<1, 1>>, <<1, 3>>}, {3, 4}),
    \* Two ways to a state, and two rounds of elimination.
    Graph(5, {<<5, 1>>, <<5, 2>>, <<1, 3>>, <<2, 3>>, <<3, 3>>, <<3, 4>>}, {4, 5}),
    \* Maxima that hide each other for several iterations.
    Graph(5, {<<5, 4>>, <<4, 3>>, <<3, 2>>, <<2, 1>>, <<1, 2>>}, {1, 3, 4, 5}),
    \* A chain, one link of which goes in each iteration.
    Graph(5, {<<5, 4>>, <<4, 3>>, <<3, 2>>, <<2, 1>>}, {1, 2, 3, 4}),
    \* A cycle that shows in the second iteration only.
    Graph(3, {<<3, 4>>, <<4, 1>>, <<1, 2>>, <<2, 1>>}, {1, 4}) }

Init == OwctyInit \/ MapInit
Next == OwctyNext \/ MapNext
Spec == Init /\ [][Next]_vars /\ WF_vars(Next)

-----------------------------------------------------------------------------
\* The values the variables may take; no state is counted twice in a section.
TypeOK ==
  LET Counts == 0..Cardinality(Nodes)
  IN /\ verdict \in {"none", "cycle", "valid"}
     /\ phase \in {"initialise", "reachability", "elimination", "findCE", "visit", "done"}
     /\ store \subseteq Nodes
     /\ \A n \in Nodes : ext[n] \in OwctyExtension \cup MapExtension
     /\ shared \in [size : Counts, oldsize : Counts, iteration : Nat,
                    candidate : Nodes \cup {None}]
                   \cup [accepting : Counts, eliminated : Counts, iteration : Nat]
     /\ found \in [Workers -> Nodes \cup {None}]
     /\ open \in [Nodes -> Nat]
     /\ work \in [Workers -> [from : Nodes \cup {None}, todo : SUBSET Nodes,
                              target : Nodes \cup {None}]]
     /\ interrupted \in BOOLEAN /\ ok \in BOOLEAN
=============================================================================
