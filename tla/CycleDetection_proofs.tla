------------------------ MODULE CycleDetection_proofs ------------------------
(***************************************************************************)
(* Proofs about MAP and OWCTY, for any finite number of workers, any       *)
(* graphs and any table.  First what they share: facts about reachability  *)
(* in any graph, and what the sections of ParallelVisit keep of the states *)
(* that are stored, queued and at work.  Then that their cycles are real;  *)
(* then that OWCTY is right: its assertions, the survival of every cycle,  *)
(* the number of its rounds, and both of its verdicts; and last the same   *)
(* of MAP.                                                                 *)
(***************************************************************************)
EXTENDS Owcty, Map, FiniteSetTheorems, TLAPS

(* Reachability in the graph g, which is the same before and after a step. *)

Closed(g, C) == \A n \in C : g.succ[n] \subseteq C

From(g, N) == {n \in Nodes : \A C \in SUBSET Nodes : N \subseteq C /\ Closed(g, C) => n \in C}

Graphs == [initials : SUBSET Nodes, succ : [Nodes -> SUBSET Nodes], accepting : SUBSET Nodes]

OnCycleOf(g, n) == n \in From(g, g.succ[n])

\* An accepting state on a cycle that an initial state reaches.
IsReal(g, n) == n \in g.accepting /\ n \in From(g, g.initials) /\ OnCycleOf(g, n)

LEMMA ReachIsFrom ==
  ASSUME NEW N
  PROVE  CD!Reach(N) = From(problem, N)
  BY DEF CD!Reach, CD!IsClosed, From, Closed

\* The number that a state holds, in the graph g.
IsPredecessor(g, m, n) == m \in g.accepting /\ n \in From(g, {m})

LEMMA RealIsReal ==
  ASSUME NEW n
  PROVE  IsReal(problem, n) <=> /\ Accepting(n)
                                /\ n \in CD!Reach(problem.initials) /\ CD!OnCycle(n)
  <1>1. CD!Reach(problem.initials) = From(problem, problem.initials)
    BY ReachIsFrom
  <1>2. CD!Reach(problem.succ[n]) = From(problem, problem.succ[n])
    BY ReachIsFrom
  <1>. QED BY <1>1, <1>2 DEF IsReal, OnCycleOf, CD!OnCycle, Accepting

LEMMA FromItself ==
  ASSUME NEW g, NEW N \in SUBSET Nodes
  PROVE  N \subseteq From(g, N)
  BY DEF From

\* What is reachable stays so along an edge.
LEMMA FromNext ==
  ASSUME NEW g \in Graphs, NEW N, NEW n \in From(g, N), NEW t \in g.succ[n]
  PROVE  t \in From(g, N)
  <1>1. t \in Nodes
    BY DEF Graphs, From
  <1>2. ASSUME NEW C \in SUBSET Nodes, N \subseteq C, Closed(g, C)
        PROVE  t \in C
    BY <1>2 DEF From, Closed
  <1>. QED BY <1>1, <1>2 DEF From

\* A state that one of its successors' descendants leads back to is on a cycle:
\* with the state added, what the successors reach is closed.
LEMMA BackIsCycle ==
  ASSUME NEW g \in Graphs, NEW t \in Nodes, NEW f \in From(g, {t}), t \in g.succ[f]
  PROVE  OnCycleOf(g, t)
  <1>1. ASSUME NEW C \in SUBSET Nodes, g.succ[t] \subseteq C, Closed(g, C)
        PROVE  t \in C
    <2>1. Closed(g, C \cup {t})
      BY <1>1 DEF Closed
    <2>2. f \in C \cup {t}
      BY <2>1 DEF From
    <2>3. g.succ[f] \subseteq C
      BY <1>1, <2>2 DEF Closed
    <2>. QED BY <2>3
  <1>. QED BY <1>1 DEF OnCycleOf, From

-----------------------------------------------------------------------------
(* The states of a section: what is queued or at work is stored, and what  *)
(* is stored can be reached.                                               *)

Work == [from : Nodes \cup {None}, todo : SUBSET Nodes, target : Nodes \cup {None}]

Stored ==
  /\ problem \in Graphs
  /\ problem.initials \subseteq store
  /\ store \subseteq From(problem, problem.initials)
  /\ open \in [Nodes -> Nat]
  /\ \A n \in Nodes : open[n] > 0 => n \in store
  /\ work \in [Workers -> Work]
  /\ \A w \in Workers :
       /\ work[w].todo # {} => /\ work[w].from \in store
                               /\ work[w].todo \subseteq problem.succ[work[w].from]
       /\ work[w].target # None => work[w].target \in store

LEMMA Numbers == None \notin Nodes /\ Nodes \subseteq Nat
  BY VisitAssumption DEF None

LEMMA FewStates ==
  ASSUME NEW S \in SUBSET Nodes
  PROVE  Cardinality(S) \in Nat
  BY VisitAssumption, FS_Subset, FS_CardinalityType

LEMMA RestingIsWork == Resting \in Work
  BY DEF Resting, Work

LEMMA ReachableAreStates ==
  ASSUME Stored
  PROVE  store \subseteq Nodes
  BY DEF Stored, From

LEMMA TakeStored ==
  ASSUME Stored, NEW w \in Workers, Take(w)
  PROVE  Stored'
  <1>1. PICK n \in Nodes : /\ open[n] > 0
                           /\ open' = [open EXCEPT ![n] = @ - 1]
                           /\ work' = [work EXCEPT ![w] = Settle(
                                [from |-> n, todo |-> problem.succ[n], target |-> None])]
    BY DEF Take
  <1>2. problem' = problem /\ store' = store
    BY DEF Take
  <1> DEFINE r == [from |-> n, todo |-> problem.succ[n], target |-> None]
  <1>3. r \in Work /\ Settle(r) \in {r, Resting}
    BY DEF Stored, Graphs, Work, Settle
  <1>4. work' = [work EXCEPT ![w] = Settle(r)]
    BY <1>1
  <1>5. n \in store
    BY <1>1 DEF Stored
  <1>6. work' \in [Workers -> Work]
    BY <1>3, <1>4, RestingIsWork DEF Stored
  <1>7. ASSUME NEW v \in Workers
        PROVE  /\ work'[v].todo # {} => /\ work'[v].from \in store
                                        /\ work'[v].todo \subseteq problem.succ[work'[v].from]
               /\ work'[v].target # None => work'[v].target \in store
    <2>1. CASE v # w
      BY <2>1, <1>4 DEF Stored
    <2>2. CASE v = w
      <3>1. work'[v] = Settle(r)
        BY <2>2, <1>4 DEF Stored
      <3>2. CASE Settle(r) = r
        BY <3>1, <3>2, <1>5
      <3>3. CASE Settle(r) = Resting
        BY <3>1, <3>3 DEF Resting
      <3>. QED BY <1>3, <3>2, <3>3
    <2>. QED BY <2>1, <2>2
  <1>8. open' \in [Nodes -> Nat] /\ \A m \in Nodes : open'[m] > 0 => m \in store
    BY <1>1, <1>5 DEF Stored
  <1>. QED BY <1>2, <1>6, <1>7, <1>8 DEF Stored

\* An edge that a worker follows goes from a stored state to a state.
LEMMA EdgeIsReal ==
  ASSUME Stored, NEW w \in Workers, NEW t \in work[w].todo
  PROVE  /\ work[w].from \in store /\ work[w].from \in Nodes /\ t \in Nodes
         /\ t \in problem.succ[work[w].from]
         /\ t \in From(problem, problem.initials)
  <1>1. work[w].from \in store /\ t \in problem.succ[work[w].from]
    BY DEF Stored
  <1>2. work[w].from \in From(problem, problem.initials)
    BY <1>1 DEF Stored
  <1>3. t \in From(problem, problem.initials)
    BY <1>1, <1>2, FromNext DEF Stored
  <1>. QED BY <1>1, <1>2, <1>3 DEF From

LEMMA EdgeStored ==
  ASSUME Stored, NEW w \in Workers, NEW t, NEW action, Edge(w, t, action)
  PROVE  Stored'
  <1> DEFINE r == [from |-> work[w].from,
                   todo |-> IF action = "Terminate" THEN {} ELSE work[w].todo \ {t},
                   target |-> IF action = "Expand" \/ (action = "Follow" /\ t \notin store)
                              THEN t ELSE None]
  <1>1. /\ t \in work[w].todo /\ store' = store \cup {t}
        /\ work' = [work EXCEPT ![w] = Settle(r)]
        /\ problem' = problem /\ open' = open
    BY DEF Edge
  <1>2. t \in Nodes /\ t \in From(problem, problem.initials)
    BY <1>1, EdgeIsReal
  <1>3. work[w] \in Work
    BY DEF Stored
  <1>4. /\ r \in Work /\ r.from = work[w].from /\ r.todo \subseteq work[w].todo
        /\ r.target \in {t, None}
    BY <1>2, <1>3 DEF Work
  <1>5. Settle(r) \in {r, Resting}
    BY DEF Settle
  <1>6. work' \in [Workers -> Work]
    BY <1>1, <1>4, <1>5, RestingIsWork DEF Stored
  <1>7. ASSUME NEW v \in Workers
        PROVE  /\ work'[v].todo # {} => /\ work'[v].from \in store'
                                        /\ work'[v].todo \subseteq problem.succ[work'[v].from]
               /\ work'[v].target # None => work'[v].target \in store'
    <2>1. CASE v # w
      BY <2>1, <1>1 DEF Stored
    <2>2. CASE v = w
      <3>1. work'[v] = Settle(r)
        BY <2>2, <1>1 DEF Stored
      <3>2. CASE Settle(r) = r
        <4>1. work'[v].todo # {} => work[w].todo # {}
          BY <3>1, <3>2, <1>4
        <4>. QED BY <3>1, <3>2, <4>1, <1>1, <1>4 DEF Stored
      <3>3. CASE Settle(r) = Resting
        BY <3>1, <3>3 DEF Resting
      <3>. QED BY <1>5, <3>2, <3>3
    <2>. QED BY <2>1, <2>2
  <1>8. /\ problem'.initials \subseteq store'
        /\ store' \subseteq From(problem', problem'.initials)
        /\ \A n \in Nodes : open'[n] > 0 => n \in store'
    BY <1>1, <1>2 DEF Stored
  <1>. QED BY <1>1, <1>6, <1>7, <1>8 DEF Stored

LEMMA PushStored ==
  ASSUME Stored, NEW w \in Workers, Push(w)
  PROVE  Stored'
  <1> DEFINE r == [work[w] EXCEPT !.target = None]
  <1>1. /\ work[w].target # None
        /\ open' = [open EXCEPT ![work[w].target] = @ + 1]
        /\ work' = [work EXCEPT ![w] = Settle(r)]
        /\ problem' = problem /\ store' = store
    BY DEF Push
  <1>2. work[w] \in Work /\ work[w].target \in store
    BY <1>1 DEF Stored
  <1>3. r \in Work /\ r.from = work[w].from /\ r.todo = work[w].todo /\ r.target = None
    BY <1>2 DEF Work
  <1>4. Settle(r) \in {r, Resting}
    BY DEF Settle
  <1>5. work' \in [Workers -> Work]
    BY <1>1, <1>3, <1>4, RestingIsWork DEF Stored
  <1>6. ASSUME NEW v \in Workers
        PROVE  /\ work'[v].todo # {} => /\ work'[v].from \in store
                                        /\ work'[v].todo \subseteq problem.succ[work'[v].from]
               /\ work'[v].target # None => work'[v].target \in store
    <2>1. CASE v # w
      BY <2>1, <1>1 DEF Stored
    <2>2. CASE v = w
      <3>1. work'[v] = Settle(r)
        BY <2>2, <1>1 DEF Stored
      <3>2. CASE Settle(r) = r
        BY <3>1, <3>2, <1>3 DEF Stored
      <3>3. CASE Settle(r) = Resting
        BY <3>1, <3>3 DEF Resting
      <3>. QED BY <1>4, <3>2, <3>3
    <2>. QED BY <2>1, <2>2
  <1>7. open' \in [Nodes -> Nat] /\ \A n \in Nodes : open'[n] > 0 => n \in store
    BY <1>1, <1>2, ReachableAreStates DEF Stored
  <1>. QED BY <1>1, <1>5, <1>6, <1>7 DEF Stored

LEMMA DropStored ==
  ASSUME Stored, Drop
  PROVE  Stored'
  <1>1. PICK n \in Nodes : open[n] > 0 /\ open' = [open EXCEPT ![n] = @ - 1]
    BY DEF Drop
  <1>2. problem' = problem /\ store' = store /\ work' = work
    BY DEF Drop
  <1>3. open' \in [Nodes -> Nat] /\ \A m \in Nodes : open'[m] > 0 => m \in store
    BY <1>1 DEF Stored
  <1>. QED BY <1>2, <1>3 DEF Stored

\* A section that starts from stored states.
LEMMA SectionStored ==
  ASSUME Stored, NEW next, NEW seeds, seeds \subseteq store, Section(next, seeds),
         problem' = problem, store' = store
  PROVE  Stored'
  <1>1. /\ open' = [n \in Nodes |-> IF n \in seeds THEN 1 ELSE 0]
        /\ work' = [w \in Workers |-> Resting]
    BY DEF Section
  <1>2. \A w \in Workers : work'[w].todo = {} /\ work'[w].target = None
    BY <1>1 DEF Resting
  <1>3. work' \in [Workers -> Work]
    BY <1>1, RestingIsWork
  <1>4. open' \in [Nodes -> Nat] /\ \A n \in Nodes : open'[n] > 0 => n \in store'
    BY <1>1
  <1>. QED BY <1>2, <1>3, <1>4 DEF Stored

\* How a run begins: the initial states are stored and queued.
LEMMA InitStored ==
  ASSUME problem \in Problems, store = problem.initials,
         open = [n \in Nodes |-> IF n \in problem.initials THEN 1 ELSE 0],
         work = [w \in Workers |-> Resting]
  PROVE  Stored
  <1>1. problem \in Graphs
    BY VisitAssumption DEF Graphs
  <1>2. store \subseteq From(problem, problem.initials)
    BY <1>1, FromItself DEF Graphs
  <1>3. \A w \in Workers : work[w].todo = {} /\ work[w].target = None
    BY DEF Resting
  <1>4. work \in [Workers -> Work]
    BY RestingIsWork
  <1>5. open \in [Nodes -> Nat] /\ \A n \in Nodes : open[n] > 0 => n \in store
    OBVIOUS
  <1>. QED BY <1>1, <1>2, <1>3, <1>4, <1>5 DEF Stored

-----------------------------------------------------------------------------
(* A section that stays within a set of states, which no edge leaves.      *)

Within(S) ==
  /\ \A n \in Nodes : open[n] > 0 => n \in S
  /\ \A w \in Workers : work[w].todo # {} => work[w].from \in S
  /\ \A w \in Workers : work[w].target # None => work[w].target \in S

LEMMA TakeWithin ==
  ASSUME Stored, NEW S, Within(S), NEW w \in Workers, Take(w)
  PROVE  Within(S)'
  <1>1. PICK n \in Nodes : /\ open[n] > 0
                           /\ open' = [open EXCEPT ![n] = @ - 1]
                           /\ work' = [work EXCEPT ![w] = Settle(
                                [from |-> n, todo |-> problem.succ[n], target |-> None])]
    BY DEF Take
  <1> DEFINE r == [from |-> n, todo |-> problem.succ[n], target |-> None]
  <1>2. work' = [work EXCEPT ![w] = Settle(r)]
    BY <1>1
  <1>3. n \in S /\ r.from = n /\ r.target = None /\ Settle(r) \in {r, Resting}
    BY <1>1 DEF Within, Settle
  <1>4. Resting.todo = {} /\ Resting.target = None
    BY DEF Resting
  <1>5. \A v \in Workers : v # w => work'[v] = work[v]
    BY <1>2 DEF Stored
  <1>6. work'[w] = Settle(r)
    BY <1>2 DEF Stored
  <1>7. /\ \A v \in Workers : work'[v].todo # {} => work'[v].from \in S
        /\ \A v \in Workers : work'[v].target # None => work'[v].target \in S
    BY <1>3, <1>4, <1>5, <1>6 DEF Within
  <1>8. \A m \in Nodes : open'[m] > 0 => m \in S
    BY <1>1 DEF Stored, Within
  <1>. QED BY <1>7, <1>8 DEF Within

LEMMA EdgeWithin ==
  ASSUME Stored, NEW S, Within(S), Closed(problem, S),
         NEW w \in Workers, NEW t, NEW action, Edge(w, t, action)
  PROVE  Within(S)'
  <1> DEFINE r == [from |-> work[w].from,
                   todo |-> IF action = "Terminate" THEN {} ELSE work[w].todo \ {t},
                   target |-> IF action = "Expand" \/ (action = "Follow" /\ t \notin store)
                              THEN t ELSE None]
  <1>1. /\ t \in work[w].todo /\ open' = open
        /\ work' = [work EXCEPT ![w] = Settle(r)]
    BY DEF Edge
  <1>2. work[w].from \in S /\ t \in S
    BY <1>1, EdgeIsReal DEF Within, Closed
  <1>3. r.from \in S /\ r.target \in {t, None} /\ Settle(r) \in {r, Resting}
    BY <1>2 DEF Settle
  <1>4. Resting.todo = {} /\ Resting.target = None
    BY DEF Resting
  <1>5. work'[w] = Settle(r) /\ \A v \in Workers : v # w => work'[v] = work[v]
    BY <1>1 DEF Stored
  <1> HIDE DEF r
  <1>6. /\ \A v \in Workers : work'[v].todo # {} => work'[v].from \in S
        /\ \A v \in Workers : work'[v].target # None => work'[v].target \in S
    BY <1>2, <1>3, <1>4, <1>5 DEF Within
  <1>. QED BY <1>1, <1>6 DEF Within

LEMMA PushWithin ==
  ASSUME Stored, NEW S, Within(S), NEW w \in Workers, Push(w)
  PROVE  Within(S)'
  <1> DEFINE r == [work[w] EXCEPT !.target = None]
  <1>1. /\ work[w].target # None
        /\ open' = [open EXCEPT ![work[w].target] = @ + 1]
        /\ work' = [work EXCEPT ![w] = Settle(r)]
    BY DEF Push
  <1>2. work[w] \in Work /\ work[w].target \in S
    BY <1>1 DEF Stored, Within
  <1>3. r.from = work[w].from /\ r.todo = work[w].todo /\ r.target = None
    BY <1>2 DEF Work
  <1>4. Settle(r) \in {r, Resting} /\ Resting.todo = {} /\ Resting.target = None
    BY DEF Settle, Resting
  <1>5. work'[w] = Settle(r) /\ \A v \in Workers : v # w => work'[v] = work[v]
    BY <1>1 DEF Stored
  <1> HIDE DEF r
  <1>6. /\ \A v \in Workers : work'[v].todo # {} => work'[v].from \in S
        /\ \A v \in Workers : work'[v].target # None => work'[v].target \in S
    BY <1>3, <1>4, <1>5 DEF Within
  <1>7. \A n \in Nodes : open'[n] > 0 => n \in S
    BY <1>1, <1>2 DEF Within, Stored
  <1>. QED BY <1>6, <1>7 DEF Within

LEMMA DropWithin ==
  ASSUME Stored, NEW S, Within(S), Drop
  PROVE  Within(S)'
  BY DEF Stored, Within, Drop

\* A section that starts in the set.
LEMMA SectionWithin ==
  ASSUME NEW S, NEW next, NEW seeds, seeds \subseteq S, Section(next, seeds)
  PROVE  Within(S)'
  BY DEF Section, Within, Resting

-----------------------------------------------------------------------------
(***************************************************************************)
(* MAP, for any shares of the table: the numbers that the states hold are  *)
(* those of accepting predecessors, in the middle of a section and after   *)
(* an interruption too, so that it never raises a false alarm.             *)
(***************************************************************************)

Counters == [accepting : Nat, eliminated : Nat, iteration : Nat]

\* The inductive invariant.
MapInv ==
  /\ Stored
  /\ ext \in [Nodes -> MapExtension]
  /\ shared \in Counters
  /\ found \in [Workers -> Nodes \cup {None}]
  /\ \A n \in Nodes : ext[n].map # None => IsPredecessor(problem, ext[n].map, n)
  /\ \A w \in Workers : found[w] # None => IsReal(problem, found[w])
  /\ verdict = "cycle" => \E n \in Nodes : IsReal(problem, n)

LEMMA RoundsType == \A i \in Nat : i % Rounds \in 0..(Rounds - 1)
  <1>1. Rounds \in Nat /\ Rounds > 0
    BY SMT DEF Rounds
  <1>. QED BY <1>1, SMT

LEMMA ElimType == {Candidate, NotYet, Eliminated, NeverAccepting} = 0..3
  BY DEF Candidate, NotYet, Eliminated, NeverAccepting

\* None of the helpers changes the number that a state holds.
LEMMA ExpandedType ==
  ASSUME NEW e \in MapExtension, NEW n
  PROVE  Expanded(e, n) \in MapExtension /\ Expanded(e, n).map = e.map
  BY DEF Expanded, MapExtension

LEMMA NotedType ==
  ASSUME ext \in [Nodes -> MapExtension], NEW n \in Nodes
  PROVE  Noted(n) \in MapExtension /\ Noted(n).map = ext[n].map
  BY DEF Noted, MapExtension

LEMMA CleanedType ==
  ASSUME NEW e \in MapExtension
  PROVE  Cleaned(e) \in MapExtension /\ Cleaned(e).map = None
  BY DEF Cleaned, MapExtension

\* What an edge sends on is the number of an accepting predecessor of its
\* target: that of the source, that of the target, or the target itself.
LEMMA PropagatedIsPredecessor ==
  ASSUME MapInv, NEW w \in Workers, NEW t \in work[w].todo,
         Propagated(work[w].from, t) # None
  PROVE  IsPredecessor(problem, Propagated(work[w].from, t), t)
  <1> DEFINE f == work[w].from
             own == IF StillAccepting(t) THEN t ELSE None
  <1>1. f \in Nodes /\ t \in Nodes /\ t \in problem.succ[f] /\ problem \in Graphs
    BY EdgeIsReal DEF MapInv, Stored
  <1>2. Propagated(f, t) \in {ext[f].map, ext[t].map, own}
    BY DEF Propagated, Greater
  <1>3. ASSUME ext[f].map # None PROVE IsPredecessor(problem, ext[f].map, t)
    BY <1>1, <1>3, FromNext DEF MapInv, IsPredecessor
  <1>4. ASSUME ext[t].map # None PROVE IsPredecessor(problem, ext[t].map, t)
    BY <1>1, <1>4 DEF MapInv
  <1>5. ASSUME own # None PROVE IsPredecessor(problem, own, t)
    BY <1>1, <1>5, FromItself DEF StillAccepting, Accepting, IsPredecessor
  <1>. QED BY <1>2, <1>3, <1>4, <1>5

\* A number that arrives at its own state shows a cycle through it.
LEMMA ArrivesIsReal ==
  ASSUME MapInv, NEW w \in Workers, NEW t \in work[w].todo, Arrives(work[w].from, t)
  PROVE  IsReal(problem, t)
  <1> DEFINE f == work[w].from
  <1>1. /\ f \in Nodes /\ t \in Nodes /\ t \in problem.succ[f] /\ problem \in Graphs
        /\ t \in From(problem, problem.initials)
    BY EdgeIsReal DEF MapInv, Stored
  <1>2. f \in From(problem, {t}) /\ t \in problem.accepting
    <2>1. CASE Accepting(f) /\ t = f
      BY <2>1, <1>1, FromItself DEF Accepting
    <2>2. CASE StillAccepting(t) /\ ext[f].map = t
      BY <2>2, <1>1, Numbers DEF MapInv, IsPredecessor
    <2>. QED BY <2>1, <2>2 DEF Arrives
  <1>3. OnCycleOf(problem, t)
    BY <1>1, <1>2, BackIsCycle
  <1>. QED BY <1>1, <1>2, <1>3 DEF IsReal

LEMMA InitMapInv == MapInit => MapInv
  <1> SUFFICES ASSUME MapInit PROVE MapInv
    OBVIOUS
  <1>1. Stored
    BY InitStored DEF MapInit
  <1>2. /\ Fresh \in MapExtension /\ Fresh.map = None
        /\ [Fresh EXCEPT !.iteration = 1] \in MapExtension
        /\ [Fresh EXCEPT !.iteration = 1].map = None
    <2>1. 1 \in 0..(Rounds - 1) /\ 0 \in 0..(Rounds - 1)
      BY SMT DEF Rounds
    <2>. QED BY <2>1, ElimType DEF Fresh, MapExtension, Candidate
  <1>3. \A n \in Nodes : ext[n] \in MapExtension /\ ext[n].map = None
    BY <1>2, ExpandedType DEF MapInit
  <1>4. ext \in [Nodes -> MapExtension]
    BY <1>3 DEF MapInit
  <1>5. shared \in Counters
    <2>1. Cardinality(problem.initials \cap problem.accepting) \in Nat
      BY <1>1, FewStates DEF Stored, Graphs
    <2>. QED BY <2>1 DEF MapInit, Counters
  <1>. QED BY <1>1, <1>3, <1>4, <1>5 DEF MapInv, MapInit

-----------------------------------------------------------------------------
(* Every step keeps it.                                                    *)

\* A step that changes neither the records nor what was found.
LEMMA MapSameRecords ==
  ASSUME MapInv, Stored', problem' = problem, ext' = ext, shared' = shared,
         found' = found, verdict' = verdict
  PROVE  MapInv'
  BY DEF MapInv

LEMMA VisitEdgeStep ==
  ASSUME MapInv, NEW w \in Workers, VisitEdge(w)
  PROVE  MapInv'
  <1> DEFINE f == work[w].from
  <1>1. PICK t \in work[w].todo :
          \/ /\ Arrives(f, t)
             /\ found' = [found EXCEPT ![w] = t]
             /\ ext' = [ext EXCEPT ![t] = IF Accepting(f) /\ t = f THEN @ ELSE Noted(t)]
             /\ Edge(w, t, "Terminate")
          \/ /\ found' = found
             /\ \/ /\ Propagated(f, t) > ext[t].map
                   /\ ext' = [ext EXCEPT ![t] =
                        [Noted(t) EXCEPT
                           !.map = Propagated(f, t),
                           !.elim = IF @ = Candidate /\ t < Propagated(f, t)
                                    THEN NotYet ELSE @]]
                \/ ext' = [ext EXCEPT ![t] =
                             [Noted(t) EXCEPT !.iteration = shared.iteration % Rounds]]
             /\ \E action : Edge(w, t, action)
    BY DEF VisitEdge
  <1>2. /\ f \in Nodes /\ t \in Nodes /\ ext \in [Nodes -> MapExtension] /\ shared' = shared
        /\ Noted(t) \in MapExtension /\ Noted(t).map = ext[t].map
    BY EdgeIsReal, NotedType DEF MapInv, VisitEdge
  <1>3. PICK action : Edge(w, t, action)
    BY <1>1
  <1>4. Stored' /\ problem' = problem /\ verdict' = verdict
    BY <1>3, EdgeStored DEF MapInv, Edge
  <1>5. CASE /\ Arrives(f, t)
             /\ found' = [found EXCEPT ![w] = t]
             /\ ext' = [ext EXCEPT ![t] = IF Accepting(f) /\ t = f THEN @ ELSE Noted(t)]
    <2>1. IsReal(problem, t)
      BY <1>5, ArrivesIsReal
    <2>2. ext' \in [Nodes -> MapExtension] /\ \A n \in Nodes : ext'[n].map = ext[n].map
      BY <1>2, <1>5
    <2>3. /\ found' \in [Workers -> Nodes \cup {None}]
          /\ \A v \in Workers : found'[v] # None => IsReal(problem, found'[v])
      BY <1>2, <1>5, <2>1 DEF MapInv
    <2>. QED BY <1>2, <1>4, <2>2, <2>3 DEF MapInv
  <1>6. CASE found' = found /\ ext' = [ext EXCEPT ![t] =
                                 [Noted(t) EXCEPT !.iteration = shared.iteration % Rounds]]
    <2>1. shared.iteration % Rounds \in 0..(Rounds - 1)
      BY RoundsType DEF MapInv, Counters
    <2>2. ext' \in [Nodes -> MapExtension] /\ \A n \in Nodes : ext'[n].map = ext[n].map
      BY <1>2, <1>6, <2>1 DEF MapExtension
    <2>. QED BY <1>2, <1>4, <1>6, <2>2 DEF MapInv
  <1>7. CASE /\ found' = found
             /\ Propagated(f, t) > ext[t].map
             /\ ext' = [ext EXCEPT ![t] =
                  [Noted(t) EXCEPT
                     !.map = Propagated(f, t),
                     !.elim = IF @ = Candidate /\ t < Propagated(f, t) THEN NotYet ELSE @]]
    <2> DEFINE m == Propagated(f, t)
    <2>1. m # None
      BY <1>2, <1>7, Numbers DEF MapExtension, None
    <2>2. IsPredecessor(problem, m, t)
      BY <2>1, PropagatedIsPredecessor
    <2>3. m \in Nodes
      BY <2>2 DEF IsPredecessor, MapInv, Stored, Graphs
    <2>4. ext'[t] \in MapExtension /\ ext'[t].map = m
      BY <1>2, <1>7, <2>3 DEF MapExtension
    <2>5. \A n \in Nodes : n # t => ext'[n] = ext[n]
      BY <1>2, <1>7
    <2>6. ext' \in [Nodes -> MapExtension]
      BY <1>2, <1>7, <2>4, <2>5
    <2>7. \A n \in Nodes : ext'[n].map # None => IsPredecessor(problem, ext'[n].map, n)
      BY <2>2, <2>4, <2>5 DEF MapInv
    <2>. QED BY <1>2, <1>4, <1>7, <2>6, <2>7 DEF MapInv
  <1>. QED BY <1>1, <1>5, <1>6, <1>7

LEMMA VisitExpansionStep ==
  ASSUME MapInv, NEW w \in Workers, VisitExpansion(w)
  PROVE  MapInv'
  <1> DEFINE t == work[w].target
  <1>1. Stored' /\ problem' = problem /\ verdict' = verdict /\ found' = found
    BY PushStored DEF VisitExpansion, MapInv, Push
  <1>2. t \in Nodes /\ ext' = [ext EXCEPT ![t] = Expanded(@, t)]
    BY ReachableAreStates DEF VisitExpansion, MapInv, Push, Stored
  <1>3. ext' \in [Nodes -> MapExtension] /\ \A n \in Nodes : ext'[n].map = ext[n].map
    BY <1>2, ExpandedType DEF MapInv
  <1>4. shared' \in Counters
    <2>1. NewAccepting({t}) \in Nat
      BY <1>2, FewStates DEF NewAccepting
    <2>2. shared' = [shared EXCEPT !.accepting = @ + NewAccepting({t})]
      BY DEF VisitExpansion
    <2> HIDE DEF t
    <2>. QED BY <2>1, <2>2 DEF MapInv, Counters
  <1>. QED BY <1>1, <1>3, <1>4 DEF MapInv

\* After the clean-up a state keeps its number, in a cell of nobody, or none.
LEMMA CleanUp ==
  ASSUME MapInv, NEW e \in [Nodes -> MapExtension],
         \A n \in Nodes : e[n].map \in {None, ext[n].map}
  PROVE  \A n \in Nodes : e[n].map # None => IsPredecessor(problem, e[n].map, n)
  BY DEF MapInv

LEMMA CountersStep ==
  ASSUME MapInv,
         shared' = [shared EXCEPT !.eliminated = EliminatedNow, !.iteration = @ + 1]
  PROVE  shared' \in Counters
  <1>1. EliminatedNow \in Nat
    <2>1. Iterated \subseteq Nodes
      BY ReachableAreStates DEF Iterated, MapInv
    <2>. QED BY <2>1, FewStates DEF EliminatedNow
  <1>2. PICK k \in Nat : shared' = [shared EXCEPT !.eliminated = k, !.iteration = @ + 1]
    BY <1>1
  <1>3. shared \in Counters /\ shared.iteration + 1 \in Nat
    BY DEF MapInv, Counters
  <1>. QED BY <1>2, <1>3 DEF Counters

LEMMA EndVisitStep ==
  ASSUME MapInv, EndVisit
  PROVE  MapInv'
  <1>1. /\ problem' = problem /\ store' = store /\ verdict' = verdict /\ found' = found
        /\ Section("visit", problem.initials)
        /\ ext' = [n \in Nodes |->
             LET e == IF n \in Iterated THEN Cleaned(ext[n]) ELSE ext[n]
             IN IF n \in problem.initials
                THEN [e EXCEPT !.iteration = (shared.iteration + 1) % Rounds] ELSE e]
    BY DEF EndVisit
  <1>2. Stored'
    BY <1>1, SectionStored DEF MapInv, Stored
  <1>3. ASSUME NEW n \in Nodes
        PROVE  ext'[n] \in MapExtension /\ ext'[n].map \in {None, ext[n].map}
    <2> DEFINE e == IF n \in Iterated THEN Cleaned(ext[n]) ELSE ext[n]
    <2>1. e \in MapExtension /\ e.map \in {None, ext[n].map}
      BY CleanedType DEF MapInv
    <2>2. (shared.iteration + 1) % Rounds \in 0..(Rounds - 1)
      BY RoundsType DEF MapInv, Counters
    <2>3. ext'[n] \in {e, [e EXCEPT !.iteration = (shared.iteration + 1) % Rounds]}
      BY <1>1
    <2> HIDE DEF e
    <2>. QED BY <2>1, <2>2, <2>3 DEF MapExtension
  <1>4. ext' \in [Nodes -> MapExtension]
    BY <1>1, <1>3
  <1>5. shared' \in Counters
    BY CountersStep DEF EndVisit
  <1>6. \A n \in Nodes : ext'[n].map # None => IsPredecessor(problem, ext'[n].map, n)
    BY <1>3, <1>4, CleanUp
  <1>. QED BY <1>1, <1>2, <1>4, <1>5, <1>6 DEF MapInv

LEMMA EndMapStep ==
  ASSUME MapInv, EndMap
  PROVE  MapInv'
  <1>1. /\ problem' = problem /\ store' = store /\ found' = found
        /\ open' = open /\ work' = work
        /\ verdict' = IF CycleFound THEN "cycle" ELSE "valid"
        /\ ext' = [n \in Nodes |-> IF n \in Iterated THEN Cleaned(ext[n]) ELSE ext[n]]
    BY DEF EndMap, Report
  <1>2. Stored'
    BY <1>1 DEF MapInv, Stored
  <1>3. ASSUME NEW n \in Nodes
        PROVE  ext'[n] \in MapExtension /\ ext'[n].map \in {None, ext[n].map}
    BY <1>1, CleanedType DEF MapInv
  <1>4. ext' \in [Nodes -> MapExtension]
    BY <1>1, <1>3
  <1>5. shared' \in Counters
    BY CountersStep DEF EndMap
  <1>6. \A n \in Nodes : ext'[n].map # None => IsPredecessor(problem, ext'[n].map, n)
    BY <1>3, <1>4, CleanUp
  <1>7. verdict' = "cycle" => \E n \in Nodes : IsReal(problem, n)
    <2>1. ASSUME CycleFound PROVE \E n \in Nodes : IsReal(problem, n)
      <3>1. PICK w \in Workers : found[w] # None
        BY <2>1 DEF CycleFound
      <3>2. found[w] \in Nodes /\ IsReal(problem, found[w])
        BY <3>1 DEF MapInv
      <3>. QED BY <3>2
    <2>. QED BY <1>1, <2>1
  <1>. QED BY <1>1, <1>2, <1>4, <1>5, <1>6, <1>7 DEF MapInv

LEMMA StepMapInv == MapInv /\ [MapNext]_vars => MapInv'
  <1> SUFFICES ASSUME MapInv, [MapNext]_vars PROVE MapInv'
    OBVIOUS
  <1>1. ASSUME NEW w \in Workers, Take(w) PROVE MapInv'
    BY <1>1, TakeStored, MapSameRecords DEF MapInv, Take
  <1>2. ASSUME NEW w \in Workers, VisitEdge(w) PROVE MapInv'
    BY <1>2, VisitEdgeStep
  <1>3. ASSUME NEW w \in Workers, VisitExpansion(w) PROVE MapInv'
    BY <1>3, VisitExpansionStep
  <1>4. CASE Drop
    BY <1>4, DropStored, MapSameRecords DEF MapInv, Drop
  <1>5. CASE EndVisit
    BY <1>5, EndVisitStep
  <1>6. CASE EndMap
    BY <1>6, EndMapStep
  <1>7. CASE UNCHANGED vars
    BY <1>7 DEF MapInv, Stored, vars
  <1>. QED
    BY <1>1, <1>2, <1>3, <1>4, <1>5, <1>6, <1>7 DEF MapNext, MapWork, MapMaster, Finished

LEMMA MapInvariant == MapSpec => []MapInv
  <1>. QED BY InitMapInv, StepMapInv, PTL DEF MapSpec

-----------------------------------------------------------------------------
\* The number of a state is always that of an accepting state which reaches it
\* (transition of Map::Main, _cleanup), however the workers race.
THEOREM MapMaximaArePredecessors == MapSpec => []MapIsPredecessor
  <1>1. MapInv => MapIsPredecessor
    <2> SUFFICES ASSUME MapInv, NEW n \in Nodes, ext[n].map # None
                 PROVE  Accepting(ext[n].map) /\ n \in CD!Reach({ext[n].map})
      BY DEF MapIsPredecessor
    <2>1. IsPredecessor(problem, ext[n].map, n)
      BY DEF MapInv
    <2>. QED BY <2>1, ReachIsFrom DEF IsPredecessor, Accepting
  <1>. QED BY <1>1, MapInvariant, PTL

\* What a worker puts down as the node of a cycle (ce.initial) is on one.
THEOREM MapFoundOnCycles == MapSpec => []FoundIsReal
  <1>1. MapInv => FoundIsReal
    BY RealIsReal DEF MapInv, FoundIsReal
  <1>. QED BY <1>1, MapInvariant, PTL

\* MAP says that the property does not hold only when there is an accepting
\* cycle, whatever the workers' shares of the table.
THEOREM NoFalseAlarms == MapSpec => []NoFalseAlarm
  <1>1. MapInv => NoFalseAlarm
    BY RealIsReal DEF MapInv, NoFalseAlarm, CD!AcceptingCycle, Accepting
  <1>. QED BY <1>1, MapInvariant, PTL

-----------------------------------------------------------------------------
(***************************************************************************)
(* OWCTY: the numbers that Initialise sends along are those of accepting   *)
(* predecessors, and what a worker puts down as the node of a cycle, there *)
(* or in FindCE, is on an accepting cycle.                                 *)
(***************************************************************************)

Master == [size : Int, oldsize : Int, iteration : Nat, candidate : Nodes \cup {None}]

\* FindCE looks at nothing but what the candidate reaches.
Trail ==
  /\ shared.candidate # None => shared.candidate \in problem.accepting
  /\ phase = "findCE" => Within(From(problem, {shared.candidate}))

\* The inductive invariant.
OwctyInv ==
  /\ Stored
  /\ ext \in [Nodes -> OwctyExtension]
  /\ shared \in Master
  /\ found \in [Workers -> Nodes \cup {None}]
  /\ \A n \in Nodes : ext[n].inF => Accepting(n)
  /\ \A n \in Nodes : ext[n].map # None => IsPredecessor(problem, ext[n].map, n)
  /\ \A w \in Workers : found[w] # None => IsReal(problem, found[w])
  /\ Trail

LEMMA WidthType ==
  /\ \A i \in Int : i % PredCounts \in 0..(PredCounts - 1)
  /\ \A i \in Nat : i % Iterations \in 0..(Iterations - 1)
  /\ 0 \in 0..(PredCounts - 1) /\ 1 \in 0..(PredCounts - 1) /\ 0 \in 0..(Iterations - 1)
  <1>1. PredCounts \in Nat /\ PredCounts > 1 /\ Iterations \in Nat /\ Iterations > 0
    BY SMT DEF PredCounts, Iterations
  <1>. QED BY <1>1, SMT

LEMMA MarkType == OwctyInv => Mark \in 0..(Iterations - 1)
  BY WidthType DEF OwctyInv, Master, Mark

\* What a state reaches is closed under the edges.
LEMMA FromIsClosed ==
  ASSUME NEW g \in Graphs, NEW N
  PROVE  Closed(g, From(g, N))
  <1>1. ASSUME NEW n \in From(g, N), NEW t \in g.succ[n] PROVE t \in From(g, N)
    BY FromNext
  <1>. QED BY <1>1 DEF Closed

LEMMA InitOwctyInv == OwctyInit => OwctyInv
  <1> SUFFICES ASSUME OwctyInit PROVE OwctyInv
    OBVIOUS
  <1>1. Stored
    BY InitStored DEF OwctyInit
  <1>2. ext \in [Nodes -> OwctyExtension]
    BY WidthType DEF OwctyInit, OwctyExtension
  <1>3. shared \in Master
    <2>1. Cardinality(problem.initials \cap problem.accepting) \in Nat
      <3>1. problem.initials \cap problem.accepting \in SUBSET Nodes
        BY <1>1 DEF Stored, Graphs
      <3>. QED BY <3>1, FewStates
    <2>. QED BY <2>1 DEF OwctyInit, Master
  <1>4. Trail
    BY DEF Trail, OwctyInit
  <1>. QED BY <1>1, <1>2, <1>3, <1>4 DEF OwctyInv, OwctyInit

-----------------------------------------------------------------------------
(* Every step keeps it.                                                    *)

\* A step of a worker within a section: what it leaves to show is what it
\* does to the records and to what was found.
LEMMA SectionStep ==
  ASSUME OwctyInv, NEW w \in Workers,
         \/ Take(w) \/ Push(w) \/ Drop \/ \E t, action : Edge(w, t, action),
         shared' \in Master, shared'.candidate = shared.candidate
  PROVE  Stored' /\ Trail' /\ problem' = problem
  <1>1. Stored' /\ problem' = problem /\ phase' = phase
    <2>1. CASE Take(w)
      BY <2>1, TakeStored DEF OwctyInv, Take
    <2>2. CASE Push(w)
      BY <2>2, PushStored DEF OwctyInv, Push
    <2>3. CASE Drop
      BY <2>3, DropStored DEF OwctyInv, Drop
    <2>4. ASSUME NEW t, NEW action, Edge(w, t, action)
          PROVE  Stored' /\ problem' = problem /\ phase' = phase
      BY <2>4, EdgeStored DEF OwctyInv, Edge
    <2>. QED BY <2>1, <2>2, <2>3, <2>4
  <1>2. PICK S : S = From(problem, {shared.candidate})
    OBVIOUS
  <1>3. ASSUME phase = "findCE" PROVE Within(S)'
    <2>1. Stored /\ Within(S) /\ Closed(problem, S)
      BY <1>2, <1>3, FromIsClosed DEF OwctyInv, Trail, Stored
    <2>2. CASE Take(w)
      BY <2>1, <2>2, TakeWithin
    <2>3. CASE Push(w)
      BY <2>1, <2>3, PushWithin
    <2>4. CASE Drop
      BY <2>1, <2>4, DropWithin
    <2>5. ASSUME NEW t, NEW action, Edge(w, t, action) PROVE Within(S)'
      BY <2>1, <2>5, EdgeWithin
    <2>. QED BY <2>2, <2>3, <2>4, <2>5
  <1>4. S = From(problem', {shared'.candidate})
    BY <1>1, <1>2
  <1>5. phase' = "findCE" => Within(From(problem, {shared.candidate}))'
    BY <1>1, <1>3, <1>4 DEF Within
  <1>. QED BY <1>1, <1>5 DEF OwctyInv, Trail

\* A step that changes neither the records nor what was found.
LEMMA OwctySameRecords ==
  ASSUME OwctyInv, Stored', Trail', problem' = problem, ext' = ext,
         shared' \in Master, found' = found
  PROVE  OwctyInv'
  BY DEF OwctyInv, Accepting

\* A step that changes the marks and the counts of the states only.
LEMMA OtherMarks ==
  ASSUME OwctyInv, Stored', Trail', problem' = problem, ext' \in [Nodes -> OwctyExtension],
         \A n \in Nodes : ext'[n].map = ext[n].map /\ ext'[n].inF = ext[n].inF,
         shared' \in Master, found' = found
  PROVE  OwctyInv'
  BY DEF OwctyInv, Accepting

LEMMA InitialiseEdgeStep ==
  ASSUME OwctyInv, NEW w \in Workers, InitialiseEdge(w)
  PROVE  OwctyInv'
  <1> DEFINE f == work[w].from
             own(t) == IF Accepting(f) /\ t # f THEN f ELSE None
             cycle(t) == (Accepting(f) /\ t = f) \/ t = ext[f].map
             map(t) == Greater(ext[t].map, Greater(ext[f].map, own(t)))
  <1>1. PICK t \in work[w].todo :
          /\ ext' = [ext EXCEPT ![t].map = map(t)]
          /\ found' = [found EXCEPT ![w] = IF cycle(t) THEN t ELSE @]
          /\ \E action : Edge(w, t, action)
    BY DEF InitialiseEdge
  <1>2. /\ f \in Nodes /\ t \in Nodes /\ t \in problem.succ[f] /\ problem \in Graphs
        /\ t \in From(problem, problem.initials)
    BY EdgeIsReal DEF OwctyInv, Stored
  <1>3. Stored' /\ Trail' /\ problem' = problem /\ shared' = shared
    BY <1>1, SectionStep DEF InitialiseEdge, OwctyInv
  <1>4. map(t) # None => IsPredecessor(problem, map(t), t)
    <2>1. map(t) \in {ext[t].map, ext[f].map, own(t)}
      BY DEF Greater
    <2>2. ASSUME ext[t].map # None PROVE IsPredecessor(problem, ext[t].map, t)
      BY <1>2, <2>2 DEF OwctyInv
    <2>3. ASSUME ext[f].map # None PROVE IsPredecessor(problem, ext[f].map, t)
      BY <1>2, <2>3, FromNext DEF OwctyInv, IsPredecessor
    <2>4. ASSUME own(t) # None PROVE IsPredecessor(problem, own(t), t)
      <3>1. own(t) = f /\ Accepting(f)
        BY <2>4
      <3>2. f \in From(problem, {f})
        BY <1>2, FromItself
      <3>. QED BY <1>2, <3>1, <3>2, FromNext DEF Accepting, IsPredecessor
    <2>. QED BY <2>1, <2>2, <2>3, <2>4
  <1>5. cycle(t) => IsReal(problem, t)
    <2> SUFFICES ASSUME cycle(t) PROVE IsReal(problem, t)
      OBVIOUS
    <2>1. f \in From(problem, {t}) /\ t \in problem.accepting
      <3>1. CASE Accepting(f) /\ t = f
        BY <3>1, <1>2, FromItself DEF Accepting
      <3>2. CASE t = ext[f].map
        BY <3>2, <1>2, Numbers DEF OwctyInv, IsPredecessor
      <3>. QED BY <3>1, <3>2
    <2>2. OnCycleOf(problem, t)
      BY <1>2, <2>1, BackIsCycle
    <2>. QED BY <1>2, <2>1, <2>2 DEF IsReal
  <1> HIDE DEF map, cycle
  <1>6. map(t) \in Nodes \cup {None}
    BY <1>2, <1>4 DEF IsPredecessor, Graphs
  <1>7. /\ ext' \in [Nodes -> OwctyExtension]
        /\ ext'[t].map = map(t) /\ ext'[t].inF = ext[t].inF
        /\ \A n \in Nodes : n # t => ext'[n] = ext[n]
    BY <1>1, <1>2, <1>6 DEF OwctyInv, OwctyExtension
  <1>8. /\ \A n \in Nodes : ext'[n].inF => n \in problem.accepting
        /\ \A n \in Nodes : ext'[n].map # None => IsPredecessor(problem, ext'[n].map, n)
    BY <1>4, <1>7 DEF OwctyInv, Accepting
  <1>9. /\ found' \in [Workers -> Nodes \cup {None}]
        /\ \A v \in Workers : found'[v] # None => IsReal(problem, found'[v])
    BY <1>1, <1>2, <1>5 DEF OwctyInv
  <1>. QED BY <1>3, <1>7, <1>8, <1>9 DEF OwctyInv, Accepting

LEMMA InitialiseExpansionStep ==
  ASSUME OwctyInv, NEW w \in Workers, InitialiseExpansion(w)
  PROVE  OwctyInv'
  <1> DEFINE t == work[w].target
  <1>1. /\ Push(w) /\ found' = found
        /\ ext' = [ext EXCEPT ![t].inS = Accepting(t), ![t].inF = Accepting(t)]
        /\ shared' = [shared EXCEPT !.size = @ + IF Accepting(t) THEN 1 ELSE 0]
    BY DEF InitialiseExpansion
  <1>2. t \in Nodes
    BY <1>1, ReachableAreStates DEF OwctyInv, Stored, Push
  <1>3. shared' \in Master /\ shared'.candidate = shared.candidate
    BY <1>1 DEF OwctyInv, Master
  <1>4. Stored' /\ Trail' /\ problem' = problem
    BY <1>1, <1>3, SectionStep
  <1>5. Accepting(t) \in BOOLEAN
    BY DEF Accepting
  <1>6. /\ ext' \in [Nodes -> OwctyExtension]
        /\ \A n \in Nodes : /\ ext'[n].map = ext[n].map
                            /\ n # t => ext'[n].inF = ext[n].inF
        /\ ext'[t].inF = Accepting(t)
    BY <1>1, <1>2, <1>5 DEF OwctyInv, OwctyExtension
  <1>. QED BY <1>1, <1>3, <1>4, <1>6 DEF OwctyInv, Accepting

LEMMA ReachabilityStep ==
  ASSUME OwctyInv, NEW w \in Workers, ReachabilityEdge(w) \/ ReachabilityExpansion(w)
  PROVE  OwctyInv'
  <1>1. CASE ReachabilityEdge(w)
    <2>1. PICK t \in work[w].todo :
            /\ ext' = [ext EXCEPT ![t].predCount = (@ + 1) % PredCounts,
                                  ![t].inS = TRUE,
                                  ![t].iteration = IF ext[t].inF THEN @ ELSE Mark]
            /\ \E action : Edge(w, t, action)
      BY <1>1 DEF ReachabilityEdge
    <2>2. t \in Nodes /\ shared' = shared /\ found' = found /\ Mark \in 0..(Iterations - 1)
      BY <1>1, EdgeIsReal, MarkType DEF ReachabilityEdge, OwctyInv
    <2>3. Stored' /\ Trail' /\ problem' = problem
      BY <2>1, <2>2, SectionStep DEF OwctyInv
    <2>4. ext[t].predCount + 1 \in Int
      BY <2>2 DEF OwctyInv, OwctyExtension
    <2>5. (ext[t].predCount + 1) % PredCounts \in 0..(PredCounts - 1)
      BY <2>4, WidthType
    <2>6. PICK k \in 0..(PredCounts - 1) : k = (ext[t].predCount + 1) % PredCounts
      BY <2>5
    <2>7. PICK i : i = IF ext[t].inF THEN ext[t].iteration ELSE Mark
      OBVIOUS
    <2>8. i \in 0..(Iterations - 1) /\ ext[t] \in OwctyExtension
      BY <2>2, <2>7 DEF OwctyInv, OwctyExtension
    <2>9. ext' = [ext EXCEPT ![t].predCount = k, ![t].inS = TRUE, ![t].iteration = i]
      BY <2>1, <2>2, <2>6, <2>7 DEF OwctyInv
    <2>10. /\ ext' \in [Nodes -> OwctyExtension]
           /\ \A n \in Nodes : ext'[n].map = ext[n].map /\ ext'[n].inF = ext[n].inF
      BY <2>2, <2>6, <2>8, <2>9 DEF OwctyInv, OwctyExtension
    <2>. QED BY <2>2, <2>3, <2>10, OtherMarks DEF OwctyInv
  <1>2. CASE ReachabilityExpansion(w)
    <2>1. /\ Push(w) /\ ext' = ext /\ found' = found
          /\ shared' = [shared EXCEPT !.size = @ + 1]
      BY <1>2 DEF ReachabilityExpansion
    <2>2. shared' \in Master /\ shared'.candidate = shared.candidate
      BY <2>1 DEF OwctyInv, Master
    <2>. QED BY <2>1, <2>2, SectionStep, OwctySameRecords
  <1>. QED BY <1>1, <1>2

LEMMA EliminationStep ==
  ASSUME OwctyInv, NEW w \in Workers, EliminationEdge(w) \/ EliminationExpansion(w)
  PROVE  OwctyInv'
  <1>1. CASE EliminationEdge(w)
    <2> DEFINE left(t) == (ext[t].predCount - 1) % PredCounts
    <2>1. PICK t \in work[w].todo :
            /\ ext' = [ext EXCEPT ![t].predCount = left(t),
                                  ![t].iteration = IF left(t) = 0 THEN Mark ELSE @]
            /\ \E action : Edge(w, t, action)
      BY <1>1 DEF EliminationEdge
    <2>2. t \in Nodes /\ shared' = shared /\ found' = found /\ Mark \in 0..(Iterations - 1)
      BY <1>1, EdgeIsReal, MarkType DEF EliminationEdge, OwctyInv
    <2>3. Stored' /\ Trail' /\ problem' = problem
      BY <2>1, <2>2, SectionStep DEF OwctyInv
    <2>4. ext[t].predCount - 1 \in Int
      BY <2>2 DEF OwctyInv, OwctyExtension
    <2>5. left(t) \in 0..(PredCounts - 1)
      BY <2>4, WidthType
    <2> HIDE DEF left
    <2>6. PICK k : k = left(t) /\ k \in 0..(PredCounts - 1)
      BY <2>5
    <2>7. PICK i \in 0..(Iterations - 1) : i = IF left(t) = 0 THEN Mark ELSE ext[t].iteration
      BY <2>2 DEF OwctyInv, OwctyExtension
    <2>8. ext' = [ext EXCEPT ![t].predCount = k, ![t].iteration = i]
      BY <2>1, <2>6, <2>7
    <2>9. /\ ext' \in [Nodes -> OwctyExtension]
          /\ \A n \in Nodes : ext'[n].map = ext[n].map /\ ext'[n].inF = ext[n].inF
      <3>1. ext \in [Nodes -> OwctyExtension] /\ ext[t] \in OwctyExtension
        BY <2>2 DEF OwctyInv
      <3>2. ext' = [ext EXCEPT ![t] = [@ EXCEPT !.predCount = k, !.iteration = i]]
        BY <2>8
      <3>3. DEFINE e == [ext[t] EXCEPT !.predCount = k, !.iteration = i]
      <3>4. e \in OwctyExtension /\ e.map = ext[t].map /\ e.inF = ext[t].inF
        BY <2>6, <2>7, <3>1 DEF OwctyExtension
      <3>5. ext' = [ext EXCEPT ![t] = e]
        BY <3>2
      <3> HIDE DEF e
      <3>. QED BY <2>2, <3>1, <3>4, <3>5
    <2>10. ext \in [Nodes -> OwctyExtension] /\ shared' \in Master
           /\ shared'.candidate = shared.candidate
      BY <2>2 DEF OwctyInv
    <2>. QED BY <2>2, <2>3, <2>9, <2>10, OtherMarks
  <1>2. CASE EliminationExpansion(w)
    <2> DEFINE t == work[w].target
    <2>1. /\ Push(w) /\ found' = found /\ ext' = [ext EXCEPT ![t].inS = FALSE]
          /\ shared' = [shared EXCEPT !.size = @ + IF ext[t].inF THEN 1 ELSE 0]
      BY <1>2 DEF EliminationExpansion
    <2>2. t \in Nodes
      BY <2>1, ReachableAreStates DEF OwctyInv, Stored, Push
    <2>3. shared' \in Master /\ shared'.candidate = shared.candidate
      BY <2>1 DEF OwctyInv, Master
    <2>4. Stored' /\ Trail' /\ problem' = problem
      BY <2>1, <2>3, SectionStep
    <2>5. /\ ext' \in [Nodes -> OwctyExtension]
          /\ \A n \in Nodes : ext'[n].map = ext[n].map /\ ext'[n].inF = ext[n].inF
      <3>1. ext \in [Nodes -> OwctyExtension] /\ ext[t] \in OwctyExtension
        BY <2>2 DEF OwctyInv
      <3>2. DEFINE e == [ext[t] EXCEPT !.inS = FALSE]
      <3>3. e \in OwctyExtension /\ e.map = ext[t].map /\ e.inF = ext[t].inF
        BY <3>1 DEF OwctyExtension
      <3>4. ext' = [ext EXCEPT ![t] = e]
        BY <2>1
      <3> HIDE DEF e
      <3>. QED BY <2>2, <3>1, <3>3, <3>4
    <2> HIDE DEF t
    <2>6. found' = found
      BY <2>1
    <2>. QED BY <2>3, <2>4, <2>5, <2>6, OtherMarks
  <1>. QED BY <1>1, <1>2

LEMMA FindCEStep ==
  ASSUME OwctyInv, NEW w \in Workers, FindCEEdge(w) \/ FindCEExpansion(w)
  PROVE  OwctyInv'
  <1>1. CASE FindCEEdge(w)
    <2> DEFINE f == work[w].from
               back(t) == ext[t].inS /\ t = shared.candidate
    <2>1. PICK t \in work[w].todo :
            /\ found' = [found EXCEPT ![w] = IF back(t) THEN t ELSE @]
            /\ ext' = [ext EXCEPT ![t].iteration =
                         IF ext[t].inS /\ ~back(t) THEN Mark ELSE @]
            /\ \E action : Edge(w, t, action)
      BY <1>1 DEF FindCEEdge
    <2>2. /\ t \in Nodes /\ f \in Nodes /\ t \in problem.succ[f] /\ problem \in Graphs
          /\ t \in From(problem, problem.initials)
          /\ shared' = shared /\ Mark \in 0..(Iterations - 1)
      BY <1>1, EdgeIsReal, MarkType DEF FindCEEdge, OwctyInv, Stored
    <2>3. Stored' /\ Trail' /\ problem' = problem
      BY <2>1, <2>2, SectionStep DEF OwctyInv
    <2>4. ASSUME back(t) PROVE IsReal(problem, t)
      <3>1. f \in From(problem, {t}) /\ t \in problem.accepting
        BY <1>1, <2>1, <2>2, <2>4, Numbers DEF OwctyInv, Trail, Within, FindCEEdge
      <3>2. OnCycleOf(problem, t)
        BY <2>2, <3>1, BackIsCycle
      <3>. QED BY <2>2, <3>1, <3>2 DEF IsReal
    <2> HIDE DEF back
    <2>5. /\ ext' \in [Nodes -> OwctyExtension]
          /\ \A n \in Nodes : ext'[n].map = ext[n].map /\ ext'[n].inF = ext[n].inF
      BY <2>1, <2>2 DEF OwctyInv, OwctyExtension
    <2>6. /\ found' \in [Workers -> Nodes \cup {None}]
          /\ \A v \in Workers : found'[v] # None => IsReal(problem, found'[v])
      BY <2>1, <2>2, <2>4 DEF OwctyInv
    <2>. QED BY <2>2, <2>3, <2>5, <2>6 DEF OwctyInv, Accepting
  <1>2. CASE FindCEExpansion(w)
    <2>1. Push(w) /\ ext' = ext /\ found' = found /\ shared' = shared
      BY <1>2 DEF FindCEExpansion
    <2>. QED BY <2>1, SectionStep, OwctySameRecords DEF OwctyInv
  <1>. QED BY <1>1, <1>2

\* What queueAll queues is stored.
LEMMA QueuedAreStates ==
  ASSUME OwctyInv
  PROVE  QueueAll \subseteq store /\ QueueAll \in SUBSET Nodes
  BY ReachableAreStates DEF OwctyInv, QueueAll, Iterated

LEMMA StartReachabilityStep ==
  ASSUME OwctyInv, EndInitialise \/ EndElimination
  PROVE  OwctyInv'
  <1>0. shared \in Master /\ shared.iteration + 1 \in Nat
    BY DEF OwctyInv, Master
  <1>1. /\ problem' = problem /\ store' = store /\ found' = found
        /\ Section("reachability", QueueAll)
        /\ ext' = [n \in Nodes |->
                     IF n \in QueueAll
                     THEN [ext[n] EXCEPT !.predCount = 1,
                                         !.iteration = shared'.iteration % Iterations]
                     ELSE IF n \in Iterated THEN [ext[n] EXCEPT !.predCount = 0] ELSE ext[n]]
    BY DEF EndInitialise, EndElimination, StartReachability
  <1>2. Stored'
    BY <1>1, SectionStored, QueuedAreStates DEF OwctyInv
  <1>3. shared' \in Master /\ shared'.candidate = shared.candidate
    <2>1. Cardinality(QueueAll) \in Int
      BY QueuedAreStates, FewStates
    <2>2. PICK k \in Int : k = Cardinality(QueueAll)
      BY <2>1
    <2>3. CASE EndInitialise
      BY <2>2, <2>3 DEF EndInitialise, OwctyInv, Master
    <2>4. CASE EndElimination
      <3>1. Left \in Int
        BY DEF OwctyInv, Master, Left
      <3>2. PICK l \in Int : l = Left
        BY <3>1
      <3>3. shared' = [shared EXCEPT !.oldsize = l, !.iteration = @ + 1, !.size = k]
        BY <2>2, <2>4, <3>2 DEF EndElimination
      <3>. QED BY <1>0, <3>3 DEF Master
    <2>. QED BY <2>3, <2>4
  <1>4. Trail'
    BY <1>1, <1>3 DEF OwctyInv, Trail, Section
  <1>5. shared'.iteration % Iterations \in 0..(Iterations - 1)
    BY <1>3, WidthType DEF Master
  <1>6. \A n \in Nodes : /\ ext'[n] \in OwctyExtension
                         /\ ext'[n].map = ext[n].map /\ ext'[n].inF = ext[n].inF
    BY <1>1, <1>5, WidthType DEF OwctyInv, OwctyExtension
  <1>7. ext' \in [Nodes -> OwctyExtension]
    BY <1>1, <1>6
  <1>. QED BY <1>1, <1>2, <1>3, <1>4, <1>6, <1>7, OtherMarks

LEMMA EndReachabilityStep ==
  ASSUME OwctyInv, EndReachability
  PROVE  OwctyInv'
  <1> DEFINE gone == {n \in QueueAll : ext[n].predCount = 1}
  <1>0. shared \in Master /\ shared.iteration + 1 \in Nat
    BY DEF OwctyInv, Master
  <1>1. /\ problem' = problem /\ store' = store /\ found' = found
        /\ Section("elimination", gone)
        /\ shared' = [shared EXCEPT !.iteration = @ + 1, !.size = Cardinality(gone)]
        /\ ext' = [n \in Nodes |->
                     IF n \notin QueueAll THEN ext[n]
                     ELSE [ext[n] EXCEPT
                             !.predCount = (@ - 1) % PredCounts,
                             !.inS = n \notin gone,
                             !.iteration = IF n \in gone THEN shared'.iteration % Iterations
                                           ELSE @]]
    BY DEF EndReachability
  <1>2. gone \subseteq store /\ gone \in SUBSET Nodes
    BY QueuedAreStates
  <1>3. Stored'
    BY <1>1, <1>2, SectionStored DEF OwctyInv
  <1>4. shared' \in Master /\ shared'.candidate = shared.candidate
    <2>1. PICK k \in Int : k = Cardinality(gone)
      BY <1>2, FewStates
    <2>2. shared' = [shared EXCEPT !.iteration = @ + 1, !.size = k]
      BY <1>1, <2>1
    <2>. QED BY <1>0, <2>2 DEF Master
  <1>5. Trail'
    BY <1>1, <1>4 DEF OwctyInv, Trail, Section
  <1>6. ASSUME NEW n \in Nodes
        PROVE  /\ ext'[n] \in OwctyExtension
               /\ ext'[n].map = ext[n].map /\ ext'[n].inF = ext[n].inF
    <2>1. ext[n] \in OwctyExtension /\ ext[n].predCount - 1 \in Int
      BY DEF OwctyInv, OwctyExtension
    <2>2. /\ shared'.iteration % Iterations \in 0..(Iterations - 1)
          /\ (ext[n].predCount - 1) % PredCounts \in 0..(PredCounts - 1)
      BY <1>4, <2>1, WidthType DEF Master
    <2> HIDE DEF gone
    <2>. QED BY <1>1, <2>1, <2>2 DEF OwctyExtension
  <1>7. ext' \in [Nodes -> OwctyExtension]
    BY <1>1, <1>6
  <1>. QED BY <1>1, <1>3, <1>4, <1>5, <1>6, <1>7, OtherMarks

LEMMA ReportStep ==
  ASSUME OwctyInv, EndEarly \/ EndValid \/ EndFindCE \/ (EndInvalid /\ phase' = "done")
  PROVE  OwctyInv'
  <1>1. CASE EndEarly \/ EndValid \/ EndFindCE
    BY <1>1 DEF EndEarly, EndValid, EndFindCE, Report, OwctyInv, Stored, Trail, Accepting
  <1>2. CASE EndInvalid /\ phase' = "done"
    <2>1. /\ problem' = problem /\ store' = store /\ ext' = ext /\ found' = found
          /\ open' = open /\ work' = work /\ shared' = shared
      BY <1>2 DEF EndInvalid, Report, Section
    <2>. QED BY <1>2, <2>1 DEF OwctyInv, Stored, Trail, Accepting
  <1>. QED BY <1>1, <1>2

LEMMA CandidateStep ==
  ASSUME OwctyInv, TryNext \/ (EndInvalid /\ phase' # "done")
  PROVE  OwctyInv'
  <1>0. shared \in Master /\ shared.iteration + 1 \in Nat
    BY DEF OwctyInv, Master
  <1>1. CASE TryNext
    <2>1. PICK n \in Candidates : /\ Section("findCE", {n})
                                  /\ ext' = [ext EXCEPT ![n].iteration = Mark]
                                  /\ shared' = [shared EXCEPT !.candidate = n]
      BY <1>1 DEF TryNext
    <2>2. problem' = problem /\ store' = store /\ found' = found
      BY <1>1 DEF TryNext
    <2>3. n \in store /\ n \in Nodes /\ n \in problem.accepting
      BY ReachableAreStates DEF Candidates, Iterated, OwctyInv, Accepting
    <2>4. shared' \in Master /\ shared'.candidate = n
      BY <2>1, <2>3 DEF OwctyInv, Master
    <2>5. Stored'
      BY <2>1, <2>2, <2>3, SectionStored DEF OwctyInv
    <2>6. PICK S : S = From(problem, {n})
      OBVIOUS
    <2>7. Within(S)'
      BY <2>1, <2>3, <2>6, FromItself, SectionWithin
    <2>8. Trail'
      BY <2>2, <2>3, <2>4, <2>6, <2>7 DEF Trail, Within
    <2>9. /\ ext' \in [Nodes -> OwctyExtension]
          /\ \A m \in Nodes : ext'[m].map = ext[m].map /\ ext'[m].inF = ext[m].inF
      BY <2>1, <2>3, MarkType DEF OwctyInv, OwctyExtension
    <2>. QED BY <2>2, <2>4, <2>5, <2>8, <2>9, OtherMarks
  <1>2. CASE EndInvalid /\ phase' # "done"
    <2>1. /\ problem' = problem /\ store' = store /\ ext' = ext /\ found' = found
          /\ Section("findCE", {})
          /\ shared' = [shared EXCEPT !.oldsize = Left, !.iteration = @ + 1]
      BY <1>2 DEF EndInvalid, Report
    <2>2. shared' \in Master /\ shared'.candidate = shared.candidate
      <3>1. PICK l \in Int : l = Left
        BY DEF OwctyInv, Master, Left
      <3>2. shared' = [shared EXCEPT !.oldsize = l, !.iteration = @ + 1]
        BY <2>1, <3>1
      <3>. QED BY <1>0, <3>2 DEF Master
    <2>3. Stored'
      BY <2>1, SectionStored DEF OwctyInv
    <2>4. PICK S : S = From(problem, {shared.candidate})
      OBVIOUS
    <2>5. Within(S)'
      BY <2>1, SectionWithin
    <2>6. Trail'
      BY <2>1, <2>2, <2>4, <2>5 DEF OwctyInv, Trail, Within
    <2>. QED BY <2>1, <2>2, <2>3, <2>6, OwctySameRecords
  <1>. QED BY <1>1, <1>2

LEMMA StepOwctyInv == OwctyInv /\ [OwctyNext]_vars => OwctyInv'
  <1> SUFFICES ASSUME OwctyInv, [OwctyNext]_vars PROVE OwctyInv'
    OBVIOUS
  <1>1. ASSUME NEW w \in Workers, Take(w) PROVE OwctyInv'
    <2>1. ext' = ext /\ found' = found /\ shared' = shared
      BY <1>1 DEF Take
    <2>. QED BY <1>1, <2>1, SectionStep, OwctySameRecords DEF OwctyInv
  <1>2. ASSUME NEW w \in Workers, InitialiseEdge(w) \/ InitialiseExpansion(w) PROVE OwctyInv'
    BY <1>2, InitialiseEdgeStep, InitialiseExpansionStep
  <1>3. ASSUME NEW w \in Workers, ReachabilityEdge(w) \/ ReachabilityExpansion(w) PROVE OwctyInv'
    BY <1>3, ReachabilityStep
  <1>4. ASSUME NEW w \in Workers, EliminationEdge(w) \/ EliminationExpansion(w) PROVE OwctyInv'
    BY <1>4, EliminationStep
  <1>5. ASSUME NEW w \in Workers, FindCEEdge(w) \/ FindCEExpansion(w) PROVE OwctyInv'
    BY <1>5, FindCEStep
  <1>6. CASE Drop
    <2>1. ext' = ext /\ found' = found /\ shared' = shared
      BY <1>6 DEF Drop
    <2>2. PICK w \in Workers : TRUE
      BY VisitAssumption
    <2>. QED BY <1>6, <2>1, <2>2, SectionStep, OwctySameRecords DEF OwctyInv
  <1>7. CASE EndInitialise \/ EndElimination
    BY <1>7, StartReachabilityStep
  <1>8. CASE EndReachability
    BY <1>8, EndReachabilityStep
  <1>9. CASE EndEarly \/ EndValid \/ EndFindCE \/ EndInvalid
    BY <1>9, ReportStep, CandidateStep
  <1>10. CASE TryNext
    BY <1>10, CandidateStep
  <1>11. CASE UNCHANGED vars
    BY <1>11 DEF OwctyInv, Stored, Trail, Within, Accepting, vars
  <1>. QED
    BY <1>1, <1>2, <1>3, <1>4, <1>5, <1>6, <1>7, <1>8, <1>9, <1>10, <1>11
    DEF OwctyNext, OwctyWork, OwctyMaster, Finished

LEMMA OwctyInvariant == OwctySpec => []OwctyInv
  <1>. QED BY InitOwctyInv, StepOwctyInv, PTL DEF OwctySpec

-----------------------------------------------------------------------------
\* The number of a state is always that of an accepting state which reaches it
\* (transition of Owcty::Initialise), however the workers race.
THEOREM OwctyMaximaArePredecessors == OwctySpec => []MapIsPredecessor
  <1>1. OwctyInv => MapIsPredecessor
    <2> SUFFICES ASSUME OwctyInv, NEW n \in Nodes, ext[n].map # None
                 PROVE  Accepting(ext[n].map) /\ n \in CD!Reach({ext[n].map})
      BY DEF MapIsPredecessor
    <2>1. IsPredecessor(problem, ext[n].map, n)
      BY DEF OwctyInv
    <2>. QED BY <2>1, ReachIsFrom DEF IsPredecessor, Accepting
  <1>. QED BY <1>1, OwctyInvariant, PTL

\* The node of a cycle that a worker puts down, while it sends numbers along or
\* while it looks for a counterexample, is on an accepting cycle.
THEOREM OwctyFoundOnCycles == OwctySpec => []FoundIsReal
  <1>1. OwctyInv => FoundIsReal
    BY RealIsReal DEF OwctyInv, FoundIsReal
  <1>. QED BY <1>1, OwctyInvariant, PTL

-----------------------------------------------------------------------------
(* OWCTY.  The counts of predecessors, in a round of two sections.         *)

\* What the widths of the fields and the shares of the table have room for
\* (Extension in owcty.h, firstIndex and lastIndex in store.h).
Fits(p) ==
  /\ \A n \in Nodes :
       Cell[n] < (TableSize \div Cardinality(Workers)) * Cardinality(Workers)
  /\ \A t \in Nodes : Cardinality({n \in Nodes : t \in p.succ[n]}) + 1 < PredCounts
InTime == shared.iteration < Iterations

\* How far a section has come.  A state is taken once: queued, about to be
\* expanded, or at a worker that follows its edges.
At(w, n) == work[w].from = n /\ work[w].todo # {}
Once ==
  \A n \in Nodes :
    /\ open[n] <= 1
    /\ open[n] = 1 => \A w \in Workers : work[w].target # n /\ ~At(w, n)
    /\ \A v, w \in Workers : work[v].target = n => ~At(w, n)
    /\ \A v, w \in Workers : work[v].target = n /\ work[w].target = n => v = w
    /\ \A v, w \in Workers : At(v, n) /\ At(w, n) => v = w

\* An edge of a state that was queued has been followed.
Followed(n, t) ==
  /\ open[n] = 0
  /\ \A w \in Workers : work[w].target # n /\ ~(work[w].from = n /\ t \in work[w].todo)

\* The states marked in this section, and those of this round of two sections.
Visited == {n \in Nodes : ext[n].iteration = shared.iteration}
Counted == {n \in Nodes : ext[n].iteration >= shared.iteration - 1}
Alive == {n \in Nodes : ext[n].inS /\ ext[n].inF}

\* The predecessors that the count of a state stands for: those from which it
\* has been reached, and those not eliminated yet.
Reached(t) == {n \in Visited : t \in problem.succ[n] /\ Followed(n, t)}
Remaining(t) == {n \in Counted : /\ t \in problem.succ[n]
                                 /\ ~(n \in Visited /\ Followed(n, t))}

\* What no section changes: the table holds all that can be reached.
Complete ==
  /\ Closed(problem, store)
  /\ \A n \in Nodes : ext[n].inF <=> n \in store /\ Accepting(n)
  /\ \A n \in Nodes : ext[n].iteration <= shared.iteration
  /\ \A n \in Nodes \ store : ~ext[n].inS /\ ext[n].predCount = 0

Survivors == \A n \in Nodes : IsReal(problem, n) => n \in Alive

Initialising ==
  /\ shared.iteration = 0 /\ \A n \in Nodes : ext[n].predCount = 0 /\ ext[n].iteration = 0
  /\ \A n \in Nodes : ext[n].inS = ext[n].inF
  /\ interrupted => CycleFound
  /\ ~interrupted =>
       /\ \A n \in Nodes : ext[n].inF <=> /\ n \in store /\ Accepting(n)
                                         /\ \A w \in Workers : work[w].target # n
       /\ shared.size = Cardinality(Alive)
       /\ \A n \in store : \A t \in problem.succ[n] : Followed(n, t) => t \in store

Reaching ==
  /\ Complete /\ Survivors /\ ~interrupted /\ shared.iteration > 0
  /\ Within(Visited) /\ Visited \subseteq store
  /\ \A n \in Nodes : ext[n].inF => (n \in Visited <=> ext[n].inS)
  /\ \A n \in Visited : ext[n].inS /\ ext[n].predCount > 0
  /\ \A n \in Visited : \E q \in Alive : n \in From(problem, {q})
  /\ \A t \in Nodes :
       ext[t].predCount = Cardinality(Reached(t)) + (IF t \in Alive THEN 1 ELSE 0)
  /\ \E C \in SUBSET Nodes : /\ Visited \subseteq C /\ Closed(problem, C)
                             /\ \A n \in C : ext[n].inF => ext[n].inS
  /\ \A n \in Visited : \A t \in problem.succ[n] : Followed(n, t) => t \in Visited
  /\ shared.oldsize = Cardinality(Alive)

Eliminating ==
  /\ Complete /\ Survivors /\ ~interrupted /\ shared.iteration > 1
  /\ Within(Visited) /\ Counted \subseteq store /\ Closed(problem, Counted)
  /\ Alive \subseteq Counted
  /\ \A n \in Counted : n \notin Visited => ext[n].inS
  /\ \A n \in Visited : ext[n].inS <=> \E w \in Workers : work[w].target = n
  /\ \A n \in Counted : \E q \in Counted : ext[q].inF /\ n \in From(problem, {q})
  /\ \A t \in Counted : /\ ext[t].predCount = Cardinality(Remaining(t))
                        /\ t \in Visited <=> ext[t].predCount = 0
  /\ Visited # {} => \E n \in Visited : ext[n].inF
  /\ \A K \in SUBSET Counted :
       (\A n \in K : \E p \in K : n \in problem.succ[p]) => K \cap Visited = {}
  /\ shared.size = Cardinality({n \in Counted : ext[n].inF /\ ~ext[n].inS})
  /\ shared.oldsize = shared.size + Cardinality(Alive)

\* The first of the accepting states that are left, in the order of the paths,
\* are on cycles, and no search from another visits them.
FirstOf(g, A, Z) ==
  /\ Z # {} /\ Z \subseteq A
  /\ \A z \in Z : OnCycleOf(g, z)
  /\ \A z \in Z : \A p \in A : z \in From(g, {p}) => p \in Z
First(Z) == FirstOf(problem, Alive, Z)
Avoids(Z) == \A n \in Visited : \A z \in Z : z \notin From(problem, {n})

Looking ==
  /\ Complete /\ Survivors /\ shared.iteration > 1
  /\ Within(Visited)
  /\ interrupted => CycleFound
  /\ shared.candidate # None => shared.candidate \in Visited
  /\ \E S \in SUBSET Nodes : /\ Visited \subseteq S /\ Closed(problem, S)
                             /\ Alive \subseteq S /\ \A n \in S : ext[n].inS
  /\ \E Z \in SUBSET Nodes :
       /\ First(Z)
       /\ \/ shared.candidate \in Z
          \/ /\ Avoids(Z)
             /\ shared.candidate # None => \A z \in Z : Cell[shared.candidate] < Cell[z]
  /\ CycleFound \/ \A n \in Visited : \A t \in problem.succ[n] :
                     Followed(n, t) => t \in Visited /\ t # shared.candidate

RoundsInv ==
  /\ ok /\ Once
  /\ phase \in {"initialise", "reachability", "elimination", "findCE", "done"}
  /\ phase = "initialise" => Initialising
  /\ phase = "reachability" => Reaching
  /\ phase = "elimination" => Eliminating
  /\ phase = "findCE" => Looking
  /\ phase \notin {"findCE", "done"} => shared.candidate = None
  /\ verdict = "cycle" => \E n \in Nodes : IsReal(problem, n)
  /\ verdict = "valid" => \A n \in Nodes : ~IsReal(problem, n)
  /\ phase # "done" => verdict = "none"

-----------------------------------------------------------------------------
(* Numbers, sets and paths.                                                *)

LEMMA SmallNumbers ==
  /\ \A k \in Nat : k < PredCounts => k % PredCounts = k
  /\ \A k \in Nat : k < Iterations => k % Iterations = k
  <1>1. PredCounts \in Nat /\ PredCounts > 0 /\ Iterations \in Nat /\ Iterations > 0
    BY SMT DEF PredCounts, Iterations
  <1>. QED BY <1>1, SMT

LEMMA FiniteStates ==
  ASSUME NEW S \in SUBSET Nodes
  PROVE  IsFiniteSet(S) /\ Cardinality(S) \in Nat
  BY VisitAssumption, FS_Subset, FS_CardinalityType

LEMMA NoStates ==
  ASSUME NEW S \in SUBSET Nodes
  PROVE  Cardinality(S) = 0 <=> S = {}
  BY FiniteStates, FS_EmptySet

LEMMA OneMore ==
  ASSUME NEW S \in SUBSET Nodes, NEW x \in Nodes, x \notin S
  PROVE  Cardinality(S \cup {x}) = Cardinality(S) + 1
  BY FiniteStates, FS_AddElement

LEMMA OneLess ==
  ASSUME NEW S \in SUBSET Nodes, NEW x \in S
  PROVE  Cardinality(S \ {x}) = Cardinality(S) - 1
  BY FiniteStates, FS_RemoveElement

LEMMA FewerStates ==
  ASSUME NEW S \in SUBSET Nodes, NEW T \in SUBSET S
  PROVE  Cardinality(T) <= Cardinality(S)
  BY FiniteStates, FS_Subset

\* From what is reachable nothing new is.
LEMMA FromWithin ==
  ASSUME NEW g \in Graphs, NEW N, NEW C \in SUBSET Nodes, N \subseteq C, Closed(g, C)
  PROVE  From(g, N) \subseteq C
  BY DEF From

LEMMA FromFrom ==
  ASSUME NEW g \in Graphs, NEW N, NEW M, M \subseteq From(g, N)
  PROVE  From(g, M) \subseteq From(g, N)
  <1>1. From(g, N) \in SUBSET Nodes
    BY DEF From
  <1>. QED BY <1>1, FromWithin, FromIsClosed

\* What a state reaches is the state itself, or what its successors reach.
LEMMA FromOneOrNext ==
  ASSUME NEW g \in Graphs, NEW p \in Nodes, NEW n \in From(g, {p})
  PROVE  n = p \/ n \in From(g, g.succ[p])
  <1>1. g.succ[p] \in SUBSET Nodes
    BY DEF Graphs
  <1> DEFINE C == {p} \cup From(g, g.succ[p])
  <1>2. C \in SUBSET Nodes /\ {p} \subseteq C
    BY DEF From
  <1>3. Closed(g, C)
    <2>1. g.succ[p] \subseteq From(g, g.succ[p])
      BY <1>1, FromItself
    <2>2. Closed(g, From(g, g.succ[p]))
      BY FromIsClosed
    <2>. QED BY <2>1, <2>2 DEF Closed
  <1>. QED BY <1>2, <1>3, FromWithin

LEMMA NextIsFrom ==
  ASSUME NEW g \in Graphs, NEW p \in Nodes
  PROVE  /\ g.succ[p] \subseteq From(g, g.succ[p])
         /\ From(g, g.succ[p]) \subseteq From(g, {p})
  <1>1. g.succ[p] \in SUBSET Nodes
    BY DEF Graphs
  <1>2. g.succ[p] \subseteq From(g, {p})
    <2>1. p \in From(g, {p})
      BY FromItself
    <2>. QED BY <2>1, FromNext
  <1>. QED BY <1>1, <1>2, FromItself, FromFrom

\* Whatever is reached is reached from a state that is.
LEMMA FromBefore ==
  ASSUME NEW g \in Graphs, NEW N \in SUBSET Nodes, NEW n \in From(g, N), n \notin N
  PROVE  \E p \in From(g, N) : n \in g.succ[p]
  <1> SUFFICES ASSUME \A p \in From(g, N) : n \notin g.succ[p] PROVE FALSE
    OBVIOUS
  <1> DEFINE C == From(g, N) \ {n}
  <1>1. C \in SUBSET Nodes /\ N \subseteq C
    BY FromItself DEF From
  <1>2. Closed(g, C)
    BY FromIsClosed DEF Closed
  <1>. QED BY <1>1, <1>2, FromWithin

\* A state on a cycle is in a set of states, all reached from it, each of which
\* has a predecessor in the set.
LEMMA CycleHolds ==
  ASSUME NEW g \in Graphs, NEW n \in Nodes, OnCycleOf(g, n)
  PROVE  \E K \in SUBSET From(g, {n}) :
           n \in K /\ \A m \in K : \E p \in K : m \in g.succ[p]
  <1> DEFINE K == From(g, g.succ[n])
  <1>1. n \in K /\ K \subseteq From(g, {n}) /\ g.succ[n] \in SUBSET Nodes
    BY NextIsFrom DEF OnCycleOf, Graphs
  <1>2. ASSUME NEW m \in K PROVE \E p \in K : m \in g.succ[p]
    <2>1. CASE m \in g.succ[n]
      BY <1>1, <2>1
    <2>2. CASE m \notin g.succ[n]
      BY <1>1, <2>2, FromBefore
    <2>. QED BY <2>1, <2>2
  <1>. QED BY <1>1, <1>2

-----------------------------------------------------------------------------
(* How a section comes on.                                                 *)

\* A worker that takes a state from the queue.
LEMMA TakeFollows ==
  ASSUME Stored, Once, NEW w \in Workers, Take(w)
  PROVE  /\ Once'
         /\ \A n \in Nodes : \A t \in problem.succ[n] : Followed(n, t)' <=> Followed(n, t)
         /\ \A v \in Workers : work'[v].target = work[v].target
  <1>1. PICK n \in Nodes : /\ open[n] > 0
                           /\ open' = [open EXCEPT ![n] = @ - 1]
                           /\ work' = [work EXCEPT ![w] = Settle(
                                [from |-> n, todo |-> problem.succ[n], target |-> None])]
    BY DEF Take
  <1> DEFINE r == [from |-> n, todo |-> problem.succ[n], target |-> None]
  <1>2. open \in [Nodes -> Nat] /\ work \in [Workers -> Work] /\ None \notin Nodes
    BY Numbers DEF Stored
  <1>3. open[n] = 1 /\ open'[n] = 0 /\ \A m \in Nodes : m # n => open'[m] = open[m]
    BY <1>1, <1>2 DEF Once
  <1>4. work[w] = Resting /\ Resting.from = None /\ Resting.todo = {} /\ Resting.target = None
    BY DEF Take, Resting
  <1>5. PICK s : s = work'[w]
    OBVIOUS
  <1>6. s.target = None /\ s.todo = problem.succ[n] /\ (s.todo # {} => s.from = n)
    <2>1. s = Settle(r)
      BY <1>1, <1>2, <1>5
    <2>. QED BY <2>1, <1>4 DEF Settle
  <1>7. \A v \in Workers : v # w => work'[v] = work[v]
    BY <1>1, <1>2
  <1>8. \A v \in Workers : work[v].target # n /\ ~At(v, n)
    BY <1>3 DEF Once
  <1>9. Once'
    <2> SUFFICES ASSUME NEW m \in Nodes
                 PROVE  /\ open'[m] <= 1
                        /\ open'[m] = 1 => \A v \in Workers : work'[v].target # m /\ ~At(v, m)'
                        /\ \A u, v \in Workers : work'[u].target = m => ~At(v, m)'
                        /\ \A u, v \in Workers : work'[u].target = m /\ work'[v].target = m => u = v
                        /\ \A u, v \in Workers : At(u, m)' /\ At(v, m)' => u = v
      BY DEF Once
    <2>1. open'[m] <= 1 /\ (open'[m] = 1 => m # n /\ open[m] = 1)
      BY <1>3 DEF Once
    <2>2. \A v \in Workers : v # w => (At(v, m)' <=> At(v, m))
      BY <1>7 DEF At
    <2>3. At(w, m)' => m = n
      BY <1>5, <1>6 DEF At
    <2>4. \A v \in Workers : /\ work'[v].target = m => v # w
                             /\ v # w => work'[v].target = work[v].target
      BY <1>2, <1>5, <1>6, <1>7
    <2>5. m = n => \A v \in Workers : v # w => ~At(v, m)' /\ work'[v].target # m
      BY <1>8, <2>2, <2>4
    <2>6. /\ open[m] = 1 => \A v \in Workers : work[v].target # m /\ ~At(v, m)
          /\ \A u, v \in Workers : work[u].target = m => ~At(v, m)
          /\ \A u, v \in Workers : work[u].target = m /\ work[v].target = m => u = v
          /\ \A u, v \in Workers : At(u, m) /\ At(v, m) => u = v
      BY DEF Once
    <2>. QED BY <2>1, <2>2, <2>3, <2>4, <2>5, <2>6
  <1>10. ASSUME NEW m \in Nodes, NEW t \in problem.succ[m]
         PROVE  Followed(m, t)' <=> Followed(m, t)
    <2>1. \A v \in Workers : /\ (work'[v].target = m) <=> (work[v].target = m)
                             /\ v # w => work'[v] = work[v]
      BY <1>2, <1>4, <1>5, <1>6, <1>7
    <2>2. ~(work[w].from = m /\ t \in work[w].todo)
      BY <1>4
    <2>3. CASE m = n
      <3>1. ~Followed(m, t)
        BY <2>3, <1>3 DEF Followed
      <3>2. s.from = m /\ t \in s.todo
        BY <2>3, <1>6
      <3>. QED BY <3>1, <3>2, <1>5 DEF Followed
    <2>4. CASE m # n
      <3>1. ~(s.from = m /\ t \in s.todo) /\ open'[m] = open[m]
        BY <2>4, <1>3, <1>6
      <3>. QED BY <3>1, <2>1, <2>2, <1>5 DEF Followed
    <2>. QED BY <2>3, <2>4
  <1>11. \A v \in Workers : work'[v].target = work[v].target
    BY <1>4, <1>5, <1>6, <1>7
  <1>. QED BY <1>9, <1>10, <1>11

\* A worker that follows an edge, and may be about to expand its target: a state
\* that is not one of the section so far.
LEMMA EdgeFollows ==
  ASSUME Stored, Once, NEW w \in Workers, NEW t, NEW action, Edge(w, t, action),
         NEW V \in SUBSET Nodes, Within(V),
         action # "Terminate", work'[w].target # None => t \notin V
  PROVE  /\ Once'
         /\ work[w].from \in V /\ ~Followed(work[w].from, t)
         /\ \A n \in V : \A m \in problem.succ[n] :
              Followed(n, m)' <=> Followed(n, m) \/ (n = work[w].from /\ m = t)
         /\ work'[w].target # None =>
              work'[w].target = t /\ \A m \in problem.succ[t] : ~Followed(t, m)'
         /\ \A v \in Workers : v # w => work'[v].target = work[v].target
         /\ work[w].target = None
  <1> DEFINE r == [from |-> work[w].from,
                   todo |-> IF action = "Terminate" THEN {} ELSE work[w].todo \ {t},
                   target |-> IF action = "Expand" \/ (action = "Follow" /\ t \notin store)
                              THEN t ELSE None]
  <1>1. /\ t \in work[w].todo /\ open' = open /\ work[w].target = None
        /\ work' = [work EXCEPT ![w] = Settle(r)]
    BY DEF Edge
  <1>2. open \in [Nodes -> Nat] /\ work \in [Workers -> Work] /\ None \notin Nodes
    BY Numbers DEF Stored
  <1>3. PICK f : f = work[w].from
    OBVIOUS
  <1>4. f \in V /\ f \in Nodes /\ t \in Nodes /\ t \in problem.succ[f]
    BY <1>1, <1>3, EdgeIsReal DEF Within
  <1>5. PICK s : s = work'[w]
    OBVIOUS
  <1>6. /\ s.target \in {t, None} /\ s.todo = work[w].todo \ {t}
        /\ s.todo # {} => s.from = f
    <2>1. s = Settle(r)
      BY <1>1, <1>2, <1>5
    <2>2. Resting.from = None /\ Resting.todo = {} /\ Resting.target = None
      BY DEF Resting
    <2>. QED BY <1>3, <2>1, <2>2 DEF Settle
  <1>7. \A v \in Workers : v # w => work'[v] = work[v]
    BY <1>1, <1>2
  <1>8. At(w, f) /\ open[f] = 0 /\ \A v \in Workers : work[v].target # f /\ (v # w => ~At(v, f))
    <2>1. At(w, f)
      BY <1>1, <1>3 DEF At
    <2>2. open[f] <= 1 /\ open[f] # 1 /\ open[f] \in Nat
      BY <1>2, <1>4, <2>1 DEF Once
    <2>. QED BY <1>4, <2>1, <2>2 DEF Once
  <1>9. ASSUME s.target # None
        PROVE  /\ s.target = t /\ t \notin V /\ t # f
               /\ open[t] = 0 /\ \A v \in Workers : work[v].target # t /\ ~At(v, t)
    <2>1. s.target = t /\ t \notin V
      BY <1>5, <1>6, <1>9
    <2>2. ~(open[t] > 0) /\ open[t] \in Nat
      BY <1>2, <1>4, <2>1 DEF Within
    <2>3. \A v \in Workers : work[v].target # t /\ ~At(v, t)
      BY <1>2, <1>4, <2>1 DEF Within, At
    <2>. QED BY <1>4, <2>1, <2>2, <2>3
  <1>10. Once'
    <2> SUFFICES ASSUME NEW m \in Nodes
                 PROVE  /\ open'[m] <= 1
                        /\ open'[m] = 1 => \A v \in Workers : work'[v].target # m /\ ~At(v, m)'
                        /\ \A u, v \in Workers : work'[u].target = m => ~At(v, m)'
                        /\ \A u, v \in Workers : work'[u].target = m /\ work'[v].target = m => u = v
                        /\ \A u, v \in Workers : At(u, m)' /\ At(v, m)' => u = v
      BY DEF Once
    <2>1. \A v \in Workers : v # w => (At(v, m)' <=> At(v, m)) /\ work'[v].target = work[v].target
      BY <1>7 DEF At
    <2>2. At(w, m)' => m = f /\ At(w, m)
      BY <1>5, <1>6, <1>8 DEF At
    <2>3. work'[w].target = m => m = t /\ s.target # None
      BY <1>2, <1>5, <1>6
    <2>4. work'[w].target = m => /\ open[m] = 0 /\ m # f
                                 /\ \A v \in Workers : work[v].target # m /\ ~At(v, m)
      BY <1>9, <2>3
    <2>5. /\ open[m] <= 1
          /\ open[m] = 1 => \A v \in Workers : work[v].target # m /\ ~At(v, m)
          /\ \A u, v \in Workers : work[u].target = m => ~At(v, m)
          /\ \A u, v \in Workers : work[u].target = m /\ work[v].target = m => u = v
          /\ \A u, v \in Workers : At(u, m) /\ At(v, m) => u = v
      BY DEF Once
    <2>6. open'[m] = open[m]
      BY <1>1
    <2>. QED BY <2>1, <2>2, <2>4, <2>5, <2>6
  <1>11. ~Followed(f, t)
    BY <1>1, <1>3 DEF Followed
  <1>12. ASSUME NEW n \in V, NEW m \in problem.succ[n]
         PROVE  Followed(n, m)' <=> Followed(n, m) \/ (n = f /\ m = t)
    <2>1. \A v \in Workers : v # w => work'[v] = work[v]
      BY <1>7
    <2>2. s.target # n /\ work[w].target # n /\ open'[n] = open[n]
      BY <1>1, <1>2, <1>6, <1>9
    <2>3. CASE n = f
      <3>1. s.from = n /\ m \in s.todo <=> work[w].from = n /\ m \in work[w].todo /\ m # t
        BY <2>3, <1>3, <1>6
      <3>2. \A v \in Workers : v # w => ~(work[v].from = n /\ m \in work[v].todo)
        BY <2>3, <1>8 DEF At
      <3>3. open[n] = 0 /\ \A v \in Workers : work[v].target # n
        BY <2>3, <1>8
      <3>4. Followed(n, m)' <=> ~(work[w].from = n /\ m \in work[w].todo /\ m # t)
        BY <2>1, <2>2, <3>1, <3>2, <3>3, <1>5 DEF Followed
      <3>5. Followed(n, m) <=> ~(work[w].from = n /\ m \in work[w].todo)
        BY <3>2, <3>3 DEF Followed
      <3>. QED BY <2>3, <3>4, <3>5, <1>11
    <2>4. CASE n # f
      <3>1. ~(s.from = n /\ m \in s.todo) /\ ~(work[w].from = n /\ m \in work[w].todo)
        BY <2>4, <1>3, <1>6
      <3>. QED BY <2>1, <2>2, <2>4, <3>1, <1>5 DEF Followed
    <2>. QED BY <2>3, <2>4
  <1>13. work'[w].target # None =>
           work'[w].target = t /\ \A m \in problem.succ[t] : ~Followed(t, m)'
    BY <1>5, <1>9 DEF Followed
  <1>. QED BY <1>1, <1>3, <1>4, <1>7, <1>10, <1>11, <1>12, <1>13

\* A worker that pushes what it has expanded.
LEMMA PushFollows ==
  ASSUME Stored, Once, NEW w \in Workers, Push(w)
  PROVE  /\ Once'
         /\ \A n \in Nodes : \A m : Followed(n, m)' <=> Followed(n, m)
         /\ work[w].target \in Nodes /\ work'[w].target = None
         /\ \A v \in Workers : v # w => /\ work'[v].target = work[v].target
                                        /\ work[v].target # work[w].target
  <1> DEFINE r == [work[w] EXCEPT !.target = None]
  <1>1. /\ work[w].target # None
        /\ open' = [open EXCEPT ![work[w].target] = @ + 1]
        /\ work' = [work EXCEPT ![w] = Settle(r)]
    BY DEF Push
  <1>2. open \in [Nodes -> Nat] /\ work \in [Workers -> Work] /\ None \notin Nodes
    BY Numbers DEF Stored
  <1>3. PICK t : t = work[w].target
    OBVIOUS
  <1>4. t \in Nodes /\ t # None
    BY <1>1, <1>2, <1>3 DEF Work
  <1>5. open[t] = 0 /\ \A v \in Workers : ~At(v, t) /\ (v # w => work[v].target # t)
    <2>1. open[t] <= 1 /\ open[t] # 1 /\ open[t] \in Nat
      BY <1>2, <1>3, <1>4 DEF Once
    <2>. QED BY <1>3, <1>4, <2>1 DEF Once
  <1>6. open'[t] = 1 /\ \A m \in Nodes : m # t => open'[m] = open[m]
    BY <1>1, <1>2, <1>3, <1>4, <1>5
  <1>7. PICK s : s = work'[w]
    OBVIOUS
  <1>8. /\ s.target = None /\ s.todo = work[w].todo
        /\ s.todo # {} => s.from = work[w].from
    <2>1. s = Settle(r) /\ work[w] \in Work
      BY <1>1, <1>2, <1>7
    <2>2. Resting.from = None /\ Resting.todo = {} /\ Resting.target = None
      BY DEF Resting
    <2>3. r.from = work[w].from /\ r.todo = work[w].todo /\ r.target = None
      BY <2>1 DEF Work
    <2>4. s = r \/ (s = Resting /\ r.todo = {})
      BY <2>1 DEF Settle
    <2>. QED BY <2>2, <2>3, <2>4
  <1>9. \A v \in Workers : v # w => work'[v] = work[v]
    BY <1>1, <1>2
  <1>10. Once'
    <2> SUFFICES ASSUME NEW m \in Nodes
                 PROVE  /\ open'[m] <= 1
                        /\ open'[m] = 1 => \A v \in Workers : work'[v].target # m /\ ~At(v, m)'
                        /\ \A u, v \in Workers : work'[u].target = m => ~At(v, m)'
                        /\ \A u, v \in Workers : work'[u].target = m /\ work'[v].target = m => u = v
                        /\ \A u, v \in Workers : At(u, m)' /\ At(v, m)' => u = v
      BY DEF Once
    <2>1. \A v \in Workers : At(v, m)' <=> At(v, m)
      <3>1. At(w, m)' <=> At(w, m)
        BY <1>7, <1>8 DEF At
      <3>. QED BY <1>9, <3>1 DEF At
    <2>2. \A v \in Workers : work'[v].target = m => v # w /\ work[v].target = m
      BY <1>2, <1>7, <1>8, <1>9
    <2>3. open'[m] <= 1 /\ (m # t => open'[m] = open[m])
      BY <1>6 DEF Once
    <2>4. /\ open[m] = 1 => \A v \in Workers : work[v].target # m /\ ~At(v, m)
          /\ \A u, v \in Workers : work[u].target = m => ~At(v, m)
          /\ \A u, v \in Workers : work[u].target = m /\ work[v].target = m => u = v
          /\ \A u, v \in Workers : At(u, m) /\ At(v, m) => u = v
      BY DEF Once
    <2>5. m = t => \A v \in Workers : ~At(v, m)' /\ work'[v].target # m
      BY <1>5, <2>1, <2>2
    <2>. QED BY <2>1, <2>2, <2>3, <2>4, <2>5
  <1>11. ASSUME NEW n \in Nodes, NEW m PROVE Followed(n, m)' <=> Followed(n, m)
    <2>1. \A v \in Workers : work'[v].from = n /\ m \in work'[v].todo
                             <=> work[v].from = n /\ m \in work[v].todo
      <3>1. s.from = n /\ m \in s.todo <=> work[w].from = n /\ m \in work[w].todo
        BY <1>8
      <3>. QED BY <3>1, <1>7, <1>9
    <2>2. CASE n = t
      <3>1. open'[n] # 0 /\ work[w].target = n
        BY <2>2, <1>3, <1>6
      <3>. QED BY <3>1 DEF Followed
    <2>3. CASE n # t
      <3>1. open'[n] = open[n]
        BY <2>3, <1>6
      <3>2. \A v \in Workers : work'[v].target = n <=> work[v].target = n
        BY <2>3, <1>2, <1>3, <1>7, <1>8, <1>9
      <3>. QED BY <2>1, <3>1, <3>2 DEF Followed
    <2>. QED BY <2>2, <2>3
  <1>. QED BY <1>3, <1>4, <1>5, <1>7, <1>8, <1>9, <1>10, <1>11

\* A new section: its first states are queued, and nothing else is left.
LEMMA SectionFollows ==
  ASSUME NEW next, NEW seeds \in SUBSET Nodes, Section(next, seeds)
  PROVE  /\ Once' /\ Within(seeds)' /\ interrupted' = FALSE /\ phase' = next
         /\ \A n \in Nodes : \A m : Followed(n, m)' <=> n \notin seeds
         /\ \A w \in Workers : work'[w].target = None
  <1>1. /\ open' = [n \in Nodes |-> IF n \in seeds THEN 1 ELSE 0]
        /\ work' = [w \in Workers |-> Resting]
    BY DEF Section
  <1>2. None \notin Nodes
    BY Numbers
  <1>3. \A w \in Workers : work'[w].target = None /\ work'[w].todo = {}
    BY <1>1 DEF Resting
  <1>4. Once'
    <2>1. \A w \in Workers : \A n \in Nodes : ~At(w, n)' /\ work'[w].target # n
      BY <1>2, <1>3 DEF At
    <2>2. \A n \in Nodes : open'[n] <= 1
      BY <1>1
    <2>. QED BY <2>1, <2>2 DEF Once
  <1>5. ASSUME NEW n \in Nodes, NEW m PROVE Followed(n, m)' <=> n \notin seeds
    <2>1. open'[n] = 0 <=> n \notin seeds
      BY <1>1
    <2>. QED BY <2>1, <1>2, <1>3 DEF Followed
  <1>6. Within(seeds)'
    BY SectionWithin
  <1>. QED BY <1>3, <1>4, <1>5, <1>6 DEF Section

\* At the end of a section every edge has been followed.
LEMMA QuietFollows ==
  ASSUME Quiet, NEW n \in Nodes, NEW m
  PROVE  Followed(n, m)
  <1>1. \A w \in Workers : work[w].target = None /\ work[w].todo = {}
    BY DEF Quiet, Resting
  <1>. QED BY <1>1, Numbers DEF Quiet, Followed

\* Once a worker has said Terminate, nothing is added.
LEMMA TerminateOnce ==
  ASSUME Stored, Once, NEW w \in Workers, NEW t, Edge(w, t, "Terminate")
  PROVE  /\ Once'
         /\ \A v \in Workers : work'[v].target = work[v].target
  <1> DEFINE r == [from |-> work[w].from, todo |-> {}, target |-> None]
  <1>1. open' = open /\ work[w].target = None /\ work' = [work EXCEPT ![w] = Settle(r)]
    BY DEF Edge
  <1>2. work \in [Workers -> Work] /\ None \notin Nodes
    BY Numbers DEF Stored
  <1>3. work'[w] = Settle(r) /\ \A v \in Workers : v # w => work'[v] = work[v]
    BY <1>1, <1>2
  <1>4. work'[w].target = None /\ work'[w].todo = {}
    BY <1>3 DEF Settle, Resting
  <1>5. \A v \in Workers : work'[v].target = work[v].target
    BY <1>1, <1>3, <1>4
  <1>6. \A n \in Nodes : \A v \in Workers : At(v, n)' => At(v, n)
    BY <1>3, <1>4 DEF At
  <1>7. Once'
    <2> HIDE DEF r
    <2> SUFFICES ASSUME NEW m \in Nodes
                 PROVE  /\ open'[m] <= 1
                        /\ open'[m] = 1 => \A v \in Workers : work'[v].target # m /\ ~At(v, m)'
                        /\ \A u, v \in Workers : work'[u].target = m => ~At(v, m)'
                        /\ \A u, v \in Workers : work'[u].target = m /\ work'[v].target = m => u = v
                        /\ \A u, v \in Workers : At(u, m)' /\ At(v, m)' => u = v
      BY DEF Once
    <2>1. /\ open[m] <= 1
          /\ open[m] = 1 => \A v \in Workers : work[v].target # m /\ ~At(v, m)
          /\ \A u, v \in Workers : work[u].target = m => ~At(v, m)
          /\ \A u, v \in Workers : work[u].target = m /\ work[v].target = m => u = v
          /\ \A u, v \in Workers : At(u, m) /\ At(v, m) => u = v
      BY DEF Once
    <2>2. \A v \in Workers : At(v, m)' => At(v, m)
      BY <1>6
    <2>3. open'[m] = open[m]
      BY <1>1
    <2>. QED BY <1>5, <2>1, <2>2, <2>3
  <1>. QED BY <1>5, <1>7

LEMMA DropOnce ==
  ASSUME Stored, Once, Drop
  PROVE  Once' /\ work' = work
  <1>1. PICK n \in Nodes : open[n] > 0 /\ open' = [open EXCEPT ![n] = @ - 1]
    BY DEF Drop
  <1>2. open \in [Nodes -> Nat] /\ work' = work
    BY DEF Drop, Stored
  <1>3. open[n] = 1 /\ open'[n] = 0 /\ \A m \in Nodes : m # n => open'[m] = open[m]
    BY <1>1, <1>2 DEF Once
  <1>4. \A m \in Nodes : \A v \in Workers : At(v, m)' <=> At(v, m)
    BY <1>2 DEF At
  <1>5. \A m \in Nodes : open'[m] <= 1 /\ (open'[m] = 1 => open[m] = 1)
    BY <1>3 DEF Once
  <1>. QED BY <1>2, <1>4, <1>5 DEF Once

\* Which state a worker is about to expand, once it has followed an edge.
LEMMA EdgeTarget ==
  ASSUME Stored, NEW w \in Workers, NEW t, NEW action, Edge(w, t, action)
  PROVE  /\ work'[w].target = IF action = "Expand" \/ (action = "Follow" /\ t \notin store)
                              THEN t ELSE None
         /\ t \in Nodes /\ t \in work[w].todo /\ work[w].from \in Nodes
         /\ t \in problem.succ[work[w].from]
         /\ store' = store \cup {t} /\ problem' = problem /\ phase' = phase /\ verdict' = verdict
         /\ interrupted' = (interrupted \/ action = "Terminate")
  <1>1. t \in Nodes /\ t \in work[w].todo /\ work[w].from \in Nodes
        /\ t \in problem.succ[work[w].from]
    BY EdgeIsReal DEF Edge
  <1>2. work \in [Workers -> Work]
    BY DEF Stored
  <1> DEFINE r == [from |-> work[w].from,
                   todo |-> IF action = "Terminate" THEN {} ELSE work[w].todo \ {t},
                   target |-> IF action = "Expand" \/ (action = "Follow" /\ t \notin store)
                              THEN t ELSE None]
  <1>3. work' = [work EXCEPT ![w] = Settle(r)]
    BY DEF Edge
  <1>4. work'[w] = Settle(r)
    BY <1>2, <1>3
  <1>5. Settle(r).target = r.target
    BY DEF Settle, Resting
  <1>. QED BY <1>1, <1>4, <1>5 DEF Edge

\* What a step of RoundsInv leaves alone when it changes no mark.
SameMarks ==
  /\ problem' = problem /\ store' = store /\ ext' = ext /\ shared' = shared
  /\ found' = found /\ interrupted' = interrupted /\ phase' = phase
  /\ verdict' = verdict /\ ok' = ok

LEMMA SameSets ==
  ASSUME SameMarks
  PROVE  /\ Visited' = Visited /\ Counted' = Counted /\ Alive' = Alive
         /\ CycleFound' = CycleFound
         /\ Complete => Complete'
         /\ Survivors => Survivors'
         /\ \A Z : First(Z) => First(Z)'
         /\ \A Z : Avoids(Z) => Avoids(Z)'
  <1>1. Visited' = Visited /\ Counted' = Counted /\ Alive' = Alive
    BY DEF SameMarks, Visited, Counted, Alive
  <1>2. CycleFound' = CycleFound
    BY DEF SameMarks, CycleFound
  <1>3. Complete => Complete'
    BY DEF SameMarks, Complete, Accepting
  <1>4. Survivors => Survivors'
    BY <1>1 DEF SameMarks, Survivors
  <1>5. ASSUME NEW Z, First(Z) PROVE First(Z)'
    BY <1>1, <1>5 DEF SameMarks, First
  <1>6. ASSUME NEW Z, Avoids(Z) PROVE Avoids(Z)'
    BY <1>1, <1>6 DEF SameMarks, Avoids
  <1>. QED BY <1>1, <1>2, <1>3, <1>4, <1>5, <1>6

LEMMA ReachingKept ==
  ASSUME Reaching, problem' = problem, store' = store, ext' = ext, interrupted' = interrupted,
         shared'.iteration = shared.iteration, shared'.oldsize = shared.oldsize,
         \A n \in Nodes : \A t \in problem.succ[n] : Followed(n, t)' <=> Followed(n, t),
         Within(Visited)'
  PROVE  Reaching'
  <1>1. Visited' = Visited /\ Alive' = Alive /\ Visited \subseteq Nodes
    BY DEF Visited, Alive
  <1>2. \A t \in Nodes : Reached(t)' = Reached(t)
    BY <1>1 DEF Reached
  <1>3. /\ Visited' \subseteq store'
        /\ \A n \in Nodes : ext'[n].inF => (n \in Visited' <=> ext'[n].inS)
        /\ \A n \in Visited' : ext'[n].inS /\ ext'[n].predCount > 0
        /\ \A n \in Visited' : \E q \in Alive' : n \in From(problem', {q})
        /\ shared'.oldsize = Cardinality(Alive')
        /\ ~interrupted' /\ shared'.iteration > 0
    BY <1>1 DEF Reaching
  <1>4. \A t \in Nodes :
          ext'[t].predCount = Cardinality(Reached(t)') + (IF t \in Alive' THEN 1 ELSE 0)
    BY <1>1, <1>2 DEF Reaching
  <1>5. \E C \in SUBSET Nodes : /\ Visited' \subseteq C /\ Closed(problem', C)
                                /\ \A n \in C : ext'[n].inF => ext'[n].inS
    BY <1>1 DEF Reaching
  <1>6. \A n \in Visited' : \A t \in problem'.succ[n] : Followed(n, t)' => t \in Visited'
    BY <1>1 DEF Reaching
  <1>7. Complete'
    BY DEF Reaching, Complete, Accepting
  <1>8. Survivors'
    BY <1>1 DEF Reaching, Survivors
  <1>. QED BY <1>3, <1>4, <1>5, <1>6, <1>7, <1>8 DEF Reaching

\* A step that follows no edge and marks nothing changes nothing of this.
LEMMA UnmarkedRounds ==
  ASSUME OwctyInv, RoundsInv, SameMarks, Once',
         \A n \in Nodes : \A t \in problem.succ[n] : Followed(n, t)' <=> Followed(n, t),
         \A v \in Workers : work'[v].target = work[v].target,
         Within(Visited) => Within(Visited)'
  PROVE  RoundsInv'
  <1>1. store \subseteq Nodes
    BY ReachableAreStates DEF OwctyInv
  <1>2. /\ Once'
        /\ \A n \in Nodes : \A t \in problem.succ[n] : Followed(n, t)' <=> Followed(n, t)
        /\ \A v \in Workers : work'[v].target = work[v].target
    OBVIOUS
  <1>3. /\ Visited' = Visited /\ Counted' = Counted /\ Alive' = Alive
        /\ CycleFound' = CycleFound
        /\ Complete => Complete'
        /\ Survivors => Survivors'
        /\ \A Z : First(Z) => First(Z)'
        /\ \A Z : Avoids(Z) => Avoids(Z)'
    BY SameSets
  <1>4. /\ problem' = problem /\ store' = store /\ ext' = ext /\ shared' = shared
        /\ found' = found /\ interrupted' = interrupted /\ phase' = phase
        /\ verdict' = verdict /\ ok' = ok
    BY DEF SameMarks
  <1>5. Within(Visited) => Within(Visited)'
    OBVIOUS
  <1>6. ASSUME Initialising PROVE Initialising'
    BY <1>1, <1>2, <1>3, <1>4, <1>6 DEF Initialising, Accepting
  <1>7. ASSUME Reaching PROVE Reaching'
    <2>1. Within(Visited)'
      BY <1>5, <1>7 DEF Reaching
    <2>. QED BY <2>1, <1>2, <1>4, <1>7, ReachingKept
  <1>8. ASSUME Eliminating PROVE Eliminating'
    <2>1. \A t \in Nodes : Remaining(t)' = Remaining(t)
      <3>1. Counted \subseteq Nodes
        BY DEF Counted
      <3>. QED BY <1>2, <1>3, <1>4, <3>1 DEF Remaining
    <2>2. /\ Counted' \subseteq store' /\ Closed(problem', Counted') /\ Alive' \subseteq Counted'
          /\ \A n \in Counted' : n \notin Visited' => ext'[n].inS
          /\ \A n \in Counted' : \E q \in Counted' : ext'[q].inF /\ n \in From(problem', {q})
          /\ Visited' # {} => \E n \in Visited' : ext'[n].inF
          /\ \A K \in SUBSET Counted' :
               (\A n \in K : \E p \in K : n \in problem'.succ[p]) => K \cap Visited' = {}
          /\ shared'.size = Cardinality({n \in Counted' : ext'[n].inF /\ ~ext'[n].inS})
          /\ shared'.oldsize = shared'.size + Cardinality(Alive')
          /\ ~interrupted' /\ shared'.iteration > 1
      BY <1>3, <1>4, <1>8 DEF Eliminating
    <2>3. \A t \in Counted' : /\ ext'[t].predCount = Cardinality(Remaining(t)')
                              /\ t \in Visited' <=> ext'[t].predCount = 0
      BY <1>3, <1>4, <1>8, <2>1 DEF Eliminating, Counted
    <2>4. \A n \in Visited' : ext'[n].inS <=> \E v \in Workers : work'[v].target = n
      BY <1>2, <1>3, <1>4, <1>8 DEF Eliminating
    <2>5. Complete' /\ Survivors' /\ Within(Visited)'
      BY <1>3, <1>5, <1>8 DEF Eliminating
    <2>. QED BY <2>2, <2>3, <2>4, <2>5 DEF Eliminating
  <1>9. ASSUME Looking PROVE Looking'
    <2>1. Visited \subseteq Nodes
      BY DEF Visited
    <2>2. /\ interrupted' => CycleFound'
          /\ shared'.candidate # None => shared'.candidate \in Visited'
          /\ \E S \in SUBSET Nodes : /\ Visited' \subseteq S /\ Closed(problem', S)
                                     /\ Alive' \subseteq S /\ \A n \in S : ext'[n].inS
          /\ shared'.iteration > 1
      BY <1>3, <1>4, <1>9 DEF Looking
    <2>3. CycleFound' \/ \A n \in Visited' : \A t \in problem'.succ[n] :
                           Followed(n, t)' => t \in Visited' /\ t # shared'.candidate
      BY <1>2, <1>3, <1>4, <1>9, <2>1 DEF Looking
    <2>4. \E Z \in SUBSET Nodes :
            /\ First(Z)'
            /\ \/ shared'.candidate \in Z
               \/ /\ Avoids(Z)'
                  /\ shared'.candidate # None => \A z \in Z : Cell[shared'.candidate] < Cell[z]
      BY <1>3, <1>4, <1>9 DEF Looking
    <2>5. Complete' /\ Survivors' /\ Within(Visited)'
      BY <1>3, <1>5, <1>9 DEF Looking
    <2>. QED BY <2>2, <2>3, <2>4, <2>5 DEF Looking
  <1>. QED BY <1>2, <1>4, <1>6, <1>7, <1>8, <1>9 DEF RoundsInv

\* A worker that takes a state from the queue changes nothing of this.
LEMMA TakeRounds ==
  ASSUME OwctyInv, RoundsInv, NEW w \in Workers, Take(w)
  PROVE  RoundsInv'
  <1>1. SameMarks
    BY DEF Take, SameMarks
  <1>2. Stored /\ Once
    BY DEF OwctyInv, RoundsInv
  <1>3. /\ Once'
        /\ \A n \in Nodes : \A t \in problem.succ[n] : Followed(n, t)' <=> Followed(n, t)
        /\ \A v \in Workers : work'[v].target = work[v].target
    BY <1>2, TakeFollows
  <1>4. Within(Visited) => Within(Visited)'
    <2>1. PICK S : S = Visited
      OBVIOUS
    <2>2. Within(S) => Within(S)'
      BY <1>2, TakeWithin
    <2>3. Visited' = Visited
      BY <1>1, SameSets
    <2>. QED BY <2>1, <2>2, <2>3 DEF Within
  <1>. QED BY <1>1, <1>3, <1>4, UnmarkedRounds

\* States that are cleared from the queue after an interruption are not missed.
LEMMA DropRounds ==
  ASSUME OwctyInv, RoundsInv, Drop
  PROVE  RoundsInv'
  <1>1. SameMarks
    BY DEF Drop, SameMarks
  <1>2. Stored /\ Once /\ interrupted
    BY DEF OwctyInv, RoundsInv, Drop
  <1>3. Once' /\ work' = work
    BY <1>2, DropOnce
  <1>4. /\ Visited' = Visited /\ Alive' = Alive
        /\ CycleFound' = CycleFound
        /\ Complete => Complete'
        /\ Survivors => Survivors'
        /\ \A Z : First(Z) => First(Z)'
        /\ \A Z : Avoids(Z) => Avoids(Z)'
    BY <1>1, SameSets
  <1>5. /\ problem' = problem /\ store' = store /\ ext' = ext /\ shared' = shared
        /\ found' = found /\ interrupted' = interrupted /\ phase' = phase
        /\ verdict' = verdict /\ ok' = ok
    BY <1>1 DEF SameMarks
  <1>6. Within(Visited) => Within(Visited)'
    <2>1. PICK S : S = Visited
      OBVIOUS
    <2>2. Within(S) => Within(S)'
      BY <1>2, DropWithin
    <2>. QED BY <1>4, <2>1, <2>2 DEF Within
  <1>7. ASSUME Initialising PROVE Initialising'
    BY <1>2, <1>4, <1>5, <1>7 DEF Initialising
  <1>8. ~Reaching /\ ~Eliminating
    BY <1>2 DEF Reaching, Eliminating
  <1>9. ASSUME Looking PROVE Looking'
    <2>1. /\ interrupted' => CycleFound'
          /\ shared'.candidate # None => shared'.candidate \in Visited'
          /\ \E S \in SUBSET Nodes : /\ Visited' \subseteq S /\ Closed(problem', S)
                                     /\ Alive' \subseteq S /\ \A n \in S : ext'[n].inS
          /\ shared'.iteration > 1
      BY <1>4, <1>5, <1>9 DEF Looking
    <2>2. CycleFound'
      BY <1>2, <1>4, <1>9 DEF Looking
    <2>3. \E Z \in SUBSET Nodes :
            /\ First(Z)'
            /\ \/ shared'.candidate \in Z
               \/ /\ Avoids(Z)'
                  /\ shared'.candidate # None => \A z \in Z : Cell[shared'.candidate] < Cell[z]
      BY <1>4, <1>5, <1>9 DEF Looking
    <2>4. Complete' /\ Survivors' /\ Within(Visited)'
      BY <1>4, <1>6, <1>9 DEF Looking
    <2>. QED BY <2>1, <2>2, <2>3, <2>4 DEF Looking
  <1>. QED BY <1>3, <1>5, <1>7, <1>8, <1>9 DEF RoundsInv

-----------------------------------------------------------------------------
(* Initialise: at its end the store holds whatever can be reached.         *)

LEMMA InitRounds == OwctyInit => RoundsInv
  <1>. SUFFICES ASSUME OwctyInit PROVE RoundsInv
    OBVIOUS
  <1>1. OwctyInv /\ None \notin Nodes
    BY InitOwctyInv, Numbers
  <1>2. \A w \in Workers : work[w].target = None /\ work[w].todo = {}
    BY DEF OwctyInit, Resting
  <1>3. \A n \in Nodes : open[n] = IF n \in problem.initials THEN 1 ELSE 0
    BY DEF OwctyInit
  <1>4. Once
    BY <1>1, <1>2, <1>3 DEF Once, At
  <1>5. /\ shared.iteration = 0
        /\ \A n \in Nodes : ext[n].predCount = 0 /\ ext[n].iteration = 0
        /\ \A n \in Nodes : /\ ext[n].inS = (n \in problem.initials /\ Accepting(n))
                            /\ ext[n].inF = (n \in problem.initials /\ Accepting(n))
        /\ ~interrupted /\ store = problem.initials
    BY DEF OwctyInit
  <1>6. shared.size = Cardinality(Alive)
    <2>1. Alive = problem.initials \cap problem.accepting
      BY <1>1, <1>5 DEF Alive, Accepting, OwctyInv, Stored, Graphs
    <2>. QED BY <2>1 DEF OwctyInit
  <1>7. \A n \in store : \A t \in problem.succ[n] : ~Followed(n, t)
    BY <1>1, <1>3, <1>5, ReachableAreStates DEF Followed, OwctyInv
  <1>8. Initialising
    BY <1>1, <1>2, <1>5, <1>6, <1>7 DEF Initialising
  <1>9. /\ phase = "initialise" /\ verdict = "none" /\ ok /\ shared.candidate = None
    BY DEF OwctyInit
  <1>. QED BY <1>4, <1>8, <1>9 DEF RoundsInv

LEMMA InitialiseEdgeRounds ==
  ASSUME OwctyInv, RoundsInv, NEW w \in Workers, InitialiseEdge(w)
  PROVE  RoundsInv'
  <1> DEFINE f == work[w].from
             own(t) == IF Accepting(f) /\ t # f THEN f ELSE None
             cycle(t) == (Accepting(f) /\ t = f) \/ t = ext[f].map
             map(t) == Greater(ext[t].map, Greater(ext[f].map, own(t)))
  <1>1. PICK t \in work[w].todo :
          /\ ext' = [ext EXCEPT ![t].map = map(t)]
          /\ found' = [found EXCEPT ![w] = IF cycle(t) THEN t ELSE @]
          /\ Edge(w, t, IF cycle(t) THEN "Terminate" ELSE "Follow")
    BY DEF InitialiseEdge
  <1>2. /\ phase = "initialise" /\ shared' = shared /\ ok' = ok
    BY DEF InitialiseEdge
  <1>3. Stored /\ Once /\ Initialising /\ ext \in [Nodes -> OwctyExtension]
        /\ found \in [Workers -> Nodes \cup {None}] /\ None \notin Nodes
        /\ problem \in Graphs /\ store \subseteq Nodes
    BY <1>2, Numbers, ReachableAreStates DEF OwctyInv, RoundsInv, Stored
  <1>4. PICK action \in {"Terminate", "Follow"} :
          /\ Edge(w, t, action)
          /\ action = "Terminate" <=> cycle(t)
    BY <1>1
  <1>5. /\ work'[w].target = IF action = "Follow" /\ t \notin store THEN t ELSE None
        /\ t \in Nodes /\ f \in Nodes /\ t \in problem.succ[f]
        /\ store' = store \cup {t} /\ problem' = problem /\ phase' = phase /\ verdict' = verdict
        /\ interrupted' = (interrupted \/ action = "Terminate")
    BY <1>3, <1>4, EdgeTarget
  <1> HIDE DEF own, map
  <1>6. \A n \in Nodes : /\ ext'[n].predCount = ext[n].predCount
                         /\ ext'[n].iteration = ext[n].iteration
                         /\ ext'[n].inS = ext[n].inS /\ ext'[n].inF = ext[n].inF
    BY <1>1, <1>3, <1>5 DEF OwctyExtension
  <1> HIDE DEF cycle
  <1>7. (CycleFound \/ action = "Terminate") => CycleFound'
    <2>1. ASSUME NEW v \in Workers, found[v] # None PROVE found'[v] # None
      BY <1>1, <1>3, <1>5, <2>1
    <2>2. action = "Terminate" => found'[w] # None
      BY <1>1, <1>3, <1>4, <1>5
    <2>. QED BY <2>1, <2>2 DEF CycleFound
  <1>8. Once'
    <2>1. CASE action = "Terminate"
      BY <2>1, <1>3, <1>4, TerminateOnce
    <2>2. CASE action = "Follow"
      <3>1. Within(store)
        BY <1>3 DEF Stored, Within
      <3>2. work'[w].target # None => t \notin store
        BY <1>5
      <3>. QED BY <2>2, <3>1, <3>2, <1>3, <1>4, EdgeFollows
    <2>. QED BY <2>1, <2>2
  <1>9. Alive' = Alive
    BY <1>6 DEF Alive
  <1>10. ASSUME ~interrupted'
         PROVE  /\ \A n \in Nodes : ext'[n].inF <=> /\ n \in store' /\ Accepting(n)'
                                                    /\ \A v \in Workers : work'[v].target # n
                /\ \A n \in store' : \A m \in problem'.succ[n] : Followed(n, m)' => m \in store'
    <2>1. action = "Follow" /\ ~interrupted
      BY <1>5, <1>10
    <2>2. Within(store)
      BY <1>3 DEF Stored, Within
    <2>3. work'[w].target # None => t \notin store
      BY <1>5
    <2>4. /\ \A n \in store : \A m \in problem.succ[n] :
               Followed(n, m)' <=> Followed(n, m) \/ (n = work[w].from /\ m = t)
          /\ work'[w].target # None => \A m \in problem.succ[t] : ~Followed(t, m)'
          /\ \A v \in Workers : v # w => work'[v].target = work[v].target
          /\ work[w].target = None
      BY <2>1, <2>2, <2>3, <1>3, <1>4, EdgeFollows
    <2>5. \A n \in Nodes : ext[n].inF <=> /\ n \in store /\ Accepting(n)
                                         /\ \A v \in Workers : work[v].target # n
      BY <2>1, <1>3 DEF Initialising
    <2>6. \A n \in store : \A m \in problem.succ[n] : Followed(n, m) => m \in store
      BY <2>1, <1>3 DEF Initialising
    <2>7. ASSUME NEW n \in Nodes
          PROVE  ext'[n].inF <=> /\ n \in store' /\ Accepting(n)'
                                 /\ \A v \in Workers : work'[v].target # n
      <3>1. Accepting(n)' <=> Accepting(n)
        BY <1>5 DEF Accepting
      <3>2. CASE n = t /\ t \notin store
        BY <3>2, <2>1, <2>5, <1>5, <1>6
      <3>3. CASE n # t \/ t \in store
        <4>1. n \in store' <=> n \in store
          BY <3>3, <1>5
        <4>2. \A v \in Workers : work'[v].target = n <=> work[v].target = n
          <5>1. work'[w].target # n /\ work[w].target # n
            BY <3>3, <2>4, <1>3, <1>5
          <5>. QED BY <5>1, <2>4
        <4>. QED BY <3>1, <4>1, <4>2, <2>5, <1>6
      <3>. QED BY <3>2, <3>3
    <2>8. ASSUME NEW n \in store', NEW m \in problem'.succ[n], Followed(n, m)'
          PROVE  m \in store'
      <3>1. CASE n \in store
        BY <2>4, <2>6, <2>8, <3>1, <1>5
      <3>2. CASE n = t /\ t \notin store
        <4>1. work'[w].target # None
          BY <3>2, <2>1, <1>3, <1>5
        <4>. QED BY <2>4, <2>8, <3>2, <4>1, <1>5
      <3>. QED BY <3>1, <3>2, <1>5
    <2>. QED BY <2>7, <2>8
  <1>11. Initialising'
    <2>1. /\ shared'.iteration = 0
          /\ \A n \in Nodes : ext'[n].predCount = 0 /\ ext'[n].iteration = 0
          /\ \A n \in Nodes : ext'[n].inS = ext'[n].inF
      BY <1>2, <1>3, <1>6 DEF Initialising
    <2>2. interrupted' => CycleFound'
      BY <1>3, <1>5, <1>7 DEF Initialising
    <2>3. ~interrupted' => shared'.size = Cardinality(Alive')
      BY <1>2, <1>3, <1>5, <1>9 DEF Initialising
    <2>. QED BY <2>1, <2>2, <2>3, <1>10 DEF Initialising
  <1>. QED BY <1>2, <1>5, <1>8, <1>11 DEF RoundsInv

LEMMA InitialiseExpansionRounds ==
  ASSUME OwctyInv, RoundsInv, NEW w \in Workers, InitialiseExpansion(w)
  PROVE  RoundsInv'
  <1>1. PICK t : t = work[w].target
    OBVIOUS
  <1>2. /\ phase = "initialise" /\ Push(w) /\ found' = found /\ ok' = ok
        /\ ext' = [ext EXCEPT ![t].inS = Accepting(t), ![t].inF = Accepting(t)]
        /\ shared' = [shared EXCEPT !.size = @ + IF Accepting(t) THEN 1 ELSE 0]
    BY <1>1 DEF InitialiseExpansion
  <1>3. Stored /\ Once /\ Initialising /\ ext \in [Nodes -> OwctyExtension]
        /\ shared \in Master /\ None \notin Nodes
        /\ problem \in Graphs /\ store \subseteq Nodes
    BY <1>2, Numbers, ReachableAreStates DEF OwctyInv, RoundsInv, Stored
  <1>4. /\ Once'
        /\ \A n \in Nodes : \A m : Followed(n, m)' <=> Followed(n, m)
        /\ t \in Nodes /\ work'[w].target = None
        /\ \A v \in Workers : v # w => /\ work'[v].target = work[v].target
                                       /\ work[v].target # t
    BY <1>1, <1>2, <1>3, PushFollows
  <1>5. /\ problem' = problem /\ phase' = phase /\ verdict' = verdict /\ store' = store
        /\ interrupted' = interrupted
    BY <1>2 DEF Push
  <1>6. /\ \A n \in Nodes : /\ ext'[n].predCount = ext[n].predCount
                            /\ ext'[n].iteration = ext[n].iteration
                            /\ n # t => /\ ext'[n].inS = ext[n].inS
                                        /\ ext'[n].inF = ext[n].inF
        /\ ext'[t].inS = Accepting(t) /\ ext'[t].inF = Accepting(t)
    BY <1>2, <1>3, <1>4 DEF OwctyExtension
  <1>7. /\ shared'.iteration = shared.iteration /\ shared'.candidate = shared.candidate
        /\ shared'.size = shared.size + (IF Accepting(t) THEN 1 ELSE 0)
    BY <1>2, <1>3 DEF Master
  <1>8. t \in store
    BY <1>1, <1>3, <1>4 DEF Stored
  <1>9. ASSUME ~interrupted'
        PROVE  /\ \A n \in Nodes : ext'[n].inF <=> /\ n \in store' /\ Accepting(n)'
                                                   /\ \A v \in Workers : work'[v].target # n
               /\ shared'.size = Cardinality(Alive')
               /\ \A n \in store' : \A m \in problem'.succ[n] : Followed(n, m)' => m \in store'
    <2>1. /\ \A n \in Nodes : ext[n].inF <=> /\ n \in store /\ Accepting(n)
                                             /\ \A v \in Workers : work[v].target # n
          /\ shared.size = Cardinality(Alive)
          /\ \A n \in store : \A m \in problem.succ[n] : Followed(n, m) => m \in store
      BY <1>3, <1>5, <1>9 DEF Initialising
    <2>2. ASSUME NEW n \in Nodes
          PROVE  ext'[n].inF <=> /\ n \in store' /\ Accepting(n)'
                                 /\ \A v \in Workers : work'[v].target # n
      <3>1. Accepting(n)' <=> Accepting(n)
        BY <1>5 DEF Accepting
      <3>2. CASE n = t
        <4>1. \A v \in Workers : work'[v].target # n
          BY <3>2, <1>3, <1>4
        <4>. QED BY <3>1, <3>2, <4>1, <1>5, <1>6, <1>8
      <3>3. CASE n # t
        <4>1. \A v \in Workers : work'[v].target = n <=> work[v].target = n
          BY <3>3, <1>1, <1>3, <1>4
        <4>. QED BY <3>1, <3>3, <4>1, <2>1, <1>5, <1>6
      <3>. QED BY <3>2, <3>3
    <2>3. t \notin Alive /\ Alive \in SUBSET Nodes
      BY <1>1, <1>4, <2>1 DEF Alive
    <2>4. Alive' = IF Accepting(t) THEN Alive \cup {t} ELSE Alive
      <3>1. \A n \in Nodes : n \in Alive' <=> ext'[n].inS /\ ext'[n].inF
        BY DEF Alive
      <3>2. \A n \in Nodes : n \in Alive <=> ext[n].inS /\ ext[n].inF
        BY DEF Alive
      <3>3. Alive' \subseteq Nodes
        BY DEF Alive
      <3>4. CASE Accepting(t)
        <4>1. \A n \in Nodes : n \in Alive' <=> n \in Alive \/ n = t
          BY <3>1, <3>2, <3>4, <1>6
        <4>. QED BY <2>3, <3>3, <3>4, <4>1, <1>4
      <3>5. CASE ~Accepting(t)
        <4>1. \A n \in Nodes : n \in Alive' <=> n \in Alive
          BY <2>3, <3>1, <3>2, <3>5, <1>6
        <4>. QED BY <2>3, <3>3, <3>5, <4>1
      <3>. QED BY <3>4, <3>5
    <2>5. shared'.size = Cardinality(Alive')
      <3>1. Accepting(t) => Cardinality(Alive \cup {t}) = Cardinality(Alive) + 1
        BY <2>3, <1>4, OneMore
      <3>2. Cardinality(Alive) \in Nat
        BY <2>3, FiniteStates
      <3>. QED BY <2>1, <2>4, <3>1, <3>2, <1>7
    <2>6. \A n \in store' : \A m \in problem'.succ[n] : Followed(n, m)' => m \in store'
      BY <2>1, <1>3, <1>4, <1>5
    <2>. QED BY <2>2, <2>5, <2>6
  <1>10. CycleFound' <=> CycleFound
    BY <1>2 DEF CycleFound
  <1>11. \A n \in Nodes : ext'[n].inS = ext'[n].inF
    BY <1>3, <1>6 DEF Initialising
  <1>12. Initialising'
    <2>1. /\ shared'.iteration = 0
          /\ \A n \in Nodes : ext'[n].predCount = 0 /\ ext'[n].iteration = 0
          /\ interrupted' => CycleFound'
      BY <1>3, <1>5, <1>6, <1>7, <1>10 DEF Initialising
    <2>. QED BY <2>1, <1>9, <1>11 DEF Initialising
  <1>. QED BY <1>2, <1>4, <1>5, <1>7, <1>12 DEF RoundsInv

\* A round starts: nothing has been followed, and each state left is counted once.
LEMMA ReachabilityStarts ==
  ASSUME OwctyInv, Fits(problem), InTime', StartReachability,
         problem' = problem, store' = store, shared'.iteration \in Nat \ {0},
         Closed(problem, store), Survivors,
         \A n \in Nodes : ext[n].inF <=> n \in store /\ Accepting(n),
         \A n \in Nodes : ext[n].iteration < shared'.iteration,
         \A n \in Nodes \ store : ~ext[n].inS /\ ext[n].predCount = 0,
         \E C \in SUBSET Nodes : /\ Alive \subseteq C /\ Closed(problem, C)
                                 /\ \A n \in C : ext[n].inF => ext[n].inS,
         shared'.oldsize = Cardinality(Alive)
  PROVE  Reaching' /\ Once'
  <1>1. ext \in [Nodes -> OwctyExtension] /\ store \subseteq Nodes
    BY ReachableAreStates DEF OwctyInv
  <1>2. Iterated = store
    BY <1>1 DEF Fits, Iterated
  <1>3. QueueAll = Alive /\ Alive \subseteq store /\ Alive \in SUBSET Nodes
    BY <1>1, <1>2 DEF QueueAll, Alive
  <1>4. PICK i : i = shared'.iteration
    OBVIOUS
  <1>5. i \in Nat \ {0} /\ i % Iterations = i
    BY <1>4, SmallNumbers DEF InTime
  <1>6. /\ Section("reachability", Alive)
        /\ ext' = [n \in Nodes |->
                     IF n \in QueueAll
                     THEN [ext[n] EXCEPT !.predCount = 1,
                                         !.iteration = shared'.iteration % Iterations]
                     ELSE IF n \in Iterated THEN [ext[n] EXCEPT !.predCount = 0] ELSE ext[n]]
    BY <1>3 DEF StartReachability
  <1>0. PICK S : S = Alive
    OBVIOUS
  <1>7. /\ Once' /\ Within(S)' /\ interrupted' = FALSE
        /\ \A n \in Nodes : \A m : Followed(n, m)' <=> n \notin Alive
    <2>1. S \in SUBSET Nodes /\ Section("reachability", S)
      BY <1>0, <1>3, <1>6
    <2>2. /\ Once' /\ Within(S)' /\ interrupted' = FALSE
          /\ \A n \in Nodes : \A m : Followed(n, m)' <=> n \notin S
      BY <2>1, SectionFollows
    <2>. QED BY <2>2, <1>0
  <1>8. ASSUME NEW n \in Nodes
        PROVE  /\ ext'[n].inS = ext[n].inS /\ ext'[n].inF = ext[n].inF
               /\ ext'[n].iteration = IF n \in Alive THEN i ELSE ext[n].iteration
               /\ ext'[n].predCount = IF n \in Alive THEN 1 ELSE 0
    <2>1. ext[n] \in OwctyExtension
      BY <1>1
    <2>2. shared'.iteration % Iterations = i
      BY <1>4, <1>5
    <2>3. ext'[n] = IF n \in Alive
                    THEN [ext[n] EXCEPT !.predCount = 1, !.iteration = i]
                    ELSE IF n \in store THEN [ext[n] EXCEPT !.predCount = 0] ELSE ext[n]
      BY <1>2, <1>3, <1>6, <2>2
    <2>. QED BY <2>1, <2>3 DEF OwctyExtension
  <1>9. Visited' = Alive /\ Alive' = Alive
    <2>1. \A n \in Nodes : ext[n].iteration \in Nat /\ ext[n].iteration < i
      BY <1>1, <1>4 DEF OwctyExtension
    <2>2. \A n \in Nodes : ext'[n].iteration = shared'.iteration <=> n \in Alive
      BY <2>1, <1>4, <1>5, <1>8
    <2>3. Visited' = Alive
      BY <2>2, <1>3 DEF Visited
    <2>4. Alive' = Alive
      BY <1>8 DEF Alive
    <2>. QED BY <2>3, <2>4
  <1>10. Complete'
    <2>1. \A n \in Nodes : ext'[n].iteration <= shared'.iteration
      <3>1. \A n \in Nodes : ext[n].iteration \in Nat /\ ext[n].iteration < i
        BY <1>1, <1>4 DEF OwctyExtension
      <3>. QED BY <3>1, <1>4, <1>5, <1>8
    <2>2. \A n \in Nodes : ext'[n].inF <=> n \in store' /\ Accepting(n)'
      BY <1>8 DEF Accepting
    <2>3. \A n \in Nodes \ store' : ~ext'[n].inS /\ ext'[n].predCount = 0
      BY <1>3, <1>8
    <2>. QED BY <2>1, <2>2, <2>3 DEF Complete
  <1>11. Survivors'
    BY <1>9 DEF Survivors
  <1>12. Within(Visited)'
    BY <1>0, <1>7, <1>9 DEF Within
  <1>13. \A n \in Visited' : \E q \in Alive' : n \in From(problem', {q})
    BY <1>3, <1>9, FromItself
  <1>14. ASSUME NEW t \in Nodes
         PROVE  ext'[t].predCount = Cardinality(Reached(t)') + (IF t \in Alive' THEN 1 ELSE 0)
    <2>1. Reached(t)' = {}
      BY <1>3, <1>7, <1>9 DEF Reached
    <2>2. Cardinality({}) = 0
      BY FS_EmptySet
    <2>. QED BY <2>1, <2>2, <1>8, <1>9
  <1>15. \E C \in SUBSET Nodes : /\ Visited' \subseteq C /\ Closed(problem', C)
                                 /\ \A n \in C : ext'[n].inF => ext'[n].inS
    BY <1>8, <1>9
  <1>16. /\ \A n \in Nodes : ext'[n].inF => (n \in Visited' <=> ext'[n].inS)
         /\ \A n \in Visited' : ext'[n].inS /\ ext'[n].predCount > 0
    BY <1>3, <1>8, <1>9 DEF Alive
  <1>17. \A n \in Visited' : \A t \in problem'.succ[n] : Followed(n, t)' => t \in Visited'
    BY <1>3, <1>7, <1>9
  <1>18. Visited' \subseteq store' /\ shared'.oldsize = Cardinality(Alive')
         /\ ~interrupted' /\ shared'.iteration > 0
    BY <1>3, <1>7, <1>9
  <1>. QED
    BY <1>7, <1>10, <1>11, <1>12, <1>13, <1>14, <1>15, <1>16, <1>17, <1>18 DEF Reaching

LEMMA EndInitialiseRounds ==
  ASSUME OwctyInv, Fits(problem), RoundsInv, InTime', EndInitialise
  PROVE  RoundsInv'
  <1>1. /\ phase = "initialise" /\ Quiet /\ ~CycleFound /\ StartReachability
        /\ problem' = problem /\ verdict' = verdict /\ store' = store /\ ok' = ok
        /\ shared' = [shared EXCEPT !.oldsize = shared.size, !.iteration = 1,
                                    !.size = Cardinality(QueueAll)]
    BY DEF EndInitialise
  <1>2. Initialising /\ ~interrupted /\ shared \in Master /\ Stored
        /\ problem \in Graphs /\ store \subseteq Nodes /\ None \notin Nodes
    BY <1>1, Numbers, ReachableAreStates DEF RoundsInv, Initialising, OwctyInv, Stored
  <1>3. shared'.iteration = 1 /\ shared'.oldsize = shared.size
        /\ shared'.candidate = shared.candidate
    BY <1>1, <1>2 DEF Master
  <1>4. \A n \in Nodes : ext[n].inF <=> n \in store /\ Accepting(n)
    <2>1. \A n \in Nodes : \A w \in Workers : work[w].target # n
      BY <1>1, <1>2 DEF Quiet, Resting
    <2>. QED BY <2>1, <1>2 DEF Initialising
  <1>5. Closed(problem, store)
    <2>1. \A n \in store : \A t \in problem.succ[n] : t \in store
      BY <1>1, <1>2, QuietFollows DEF Initialising
    <2>. QED BY <2>1 DEF Closed
  <1>6. \A n \in Nodes : n \in Alive <=> n \in store /\ Accepting(n)
    BY <1>2, <1>4 DEF Alive, Initialising
  <1>7. Survivors
    <2> SUFFICES ASSUME NEW n \in Nodes, IsReal(problem, n) PROVE n \in Alive
      BY DEF Survivors
    <2>1. n \in From(problem, problem.initials) /\ Accepting(n)
      BY DEF IsReal, Accepting
    <2>2. From(problem, problem.initials) \subseteq store
      BY <1>2, <1>5, FromWithin DEF Stored
    <2>. QED BY <2>1, <2>2, <1>6
  <1>8. /\ \A n \in Nodes : ext[n].iteration < shared'.iteration
        /\ \A n \in Nodes \ store : ~ext[n].inS /\ ext[n].predCount = 0
    BY <1>2, <1>3, <1>4 DEF Initialising
  <1>9. \E C \in SUBSET Nodes : /\ Alive \subseteq C /\ Closed(problem, C)
                                /\ \A n \in C : ext[n].inF => ext[n].inS
    <2>1. Alive \subseteq Nodes /\ Closed(problem, Nodes)
      BY <1>2 DEF Alive, Closed, Graphs
    <2>. QED BY <2>1, <1>2 DEF Initialising
  <1>10. shared'.oldsize = Cardinality(Alive) /\ shared'.iteration \in Nat \ {0}
    BY <1>2, <1>3 DEF Initialising
  <1>11. Reaching' /\ Once'
    BY <1>1, <1>4, <1>5, <1>7, <1>8, <1>9, <1>10, ReachabilityStarts
  <1>12. phase' = "reachability"
    BY <1>1 DEF StartReachability, Section
  <1>. QED BY <1>1, <1>3, <1>11, <1>12 DEF RoundsInv

LEMMA EndEarlyRounds ==
  ASSUME OwctyInv, RoundsInv, EndEarly
  PROVE  RoundsInv'
  <1>1. /\ phase' = "done" /\ verdict' = "cycle" /\ CycleFound
        /\ problem' = problem /\ ok' = ok /\ open' = open /\ work' = work
    BY DEF EndEarly, Report
  <1>2. PICK w \in Workers : found[w] # None
    BY <1>1 DEF CycleFound
  <1>3. IsReal(problem, found[w]) /\ found[w] \in Nodes
    BY <1>2 DEF OwctyInv
  <1>4. Once'
    BY <1>1 DEF RoundsInv, Once, At
  <1>. QED BY <1>1, <1>3, <1>4 DEF RoundsInv

-----------------------------------------------------------------------------
(* Reachability counts the predecessors from which each state was reached. *)

LEMMA EdgeAdds ==
  ASSUME Stored, NEW V, Within(V), NEW w \in Workers, NEW t, NEW action, Edge(w, t, action),
         NEW S, V \subseteq S, t \in S
  PROVE  Within(S)'
  <1> DEFINE r == [from |-> work[w].from,
                   todo |-> IF action = "Terminate" THEN {} ELSE work[w].todo \ {t},
                   target |-> IF action = "Expand" \/ (action = "Follow" /\ t \notin store)
                              THEN t ELSE None]
  <1>1. /\ t \in work[w].todo /\ open' = open
        /\ work' = [work EXCEPT ![w] = Settle(r)]
    BY DEF Edge
  <1>2. work[w].from \in S
    BY <1>1 DEF Within
  <1>3. r.from \in S /\ r.target \in {t, None} /\ Settle(r) \in {r, Resting}
    BY <1>2 DEF Settle
  <1>4. Resting.todo = {} /\ Resting.target = None
    BY DEF Resting
  <1>5. work'[w] = Settle(r) /\ \A v \in Workers : v # w => work'[v] = work[v]
    BY <1>1 DEF Stored
  <1> HIDE DEF r
  <1>6. /\ \A v \in Workers : work'[v].todo # {} => work'[v].from \in S
        /\ \A v \in Workers : work'[v].target # None => work'[v].target \in S
    BY <1>3, <1>4, <1>5 DEF Within
  <1>7. \A n \in Nodes : open'[n] > 0 => n \in S
    BY <1>1 DEF Within
  <1>. QED BY <1>6, <1>7 DEF Within

\* No more predecessors are counted than there are.
LEMMA CountsFit ==
  ASSUME Fits(problem), NEW t \in Nodes, NEW S \in SUBSET {n \in Nodes : t \in problem.succ[n]}
  PROVE  Cardinality(S) \in Nat /\ Cardinality(S) + 1 < PredCounts
  <1>1. PICK P : P = {n \in Nodes : t \in problem.succ[n]}
    OBVIOUS
  <1>2. P \in SUBSET Nodes /\ S \in SUBSET P /\ Cardinality(P) + 1 < PredCounts
    BY <1>1 DEF Fits
  <1>3. Cardinality(S) <= Cardinality(P) /\ Cardinality(S) \in Nat /\ Cardinality(P) \in Nat
    BY <1>2, FewerStates, FiniteStates
  <1>4. PredCounts \in Nat
    BY SMT DEF PredCounts
  <1>. QED BY <1>2, <1>3, <1>4

LEMMA ReachabilityEdgeRounds ==
  ASSUME OwctyInv, Fits(problem), InTime, RoundsInv, NEW w \in Workers, ReachabilityEdge(w)
  PROVE  RoundsInv'
  <1>1. /\ phase = "reachability" /\ shared' = shared /\ found' = found /\ ok' = ok
    BY DEF ReachabilityEdge
  <1>2. PICK t \in work[w].todo :
          /\ ext' = [ext EXCEPT ![t].predCount = (@ + 1) % PredCounts,
                                ![t].inS = TRUE,
                                ![t].iteration = IF ext[t].inF THEN @ ELSE Mark]
          /\ Edge(w, t, IF ext[t].inF THEN "Forget" ELSE Revisit(t))
    BY DEF ReachabilityEdge
  <1>3. Stored /\ Once /\ Reaching /\ ext \in [Nodes -> OwctyExtension]
        /\ shared \in Master /\ None \notin Nodes
        /\ problem \in Graphs /\ store \subseteq Nodes
    BY <1>1, Numbers, ReachableAreStates DEF OwctyInv, RoundsInv, Stored
  <1>4. PICK f, i : f = work[w].from /\ i = shared.iteration
    OBVIOUS
  <1>5. i \in Nat /\ Mark = i
    BY <1>3, <1>4, SmallNumbers DEF Mark, InTime, Master
  <1>6. PICK action \in {"Forget", "Expand"} :
          /\ Edge(w, t, action)
          /\ action = "Forget" <=> ext[t].inF \/ ext[t].iteration = i
    BY <1>2, <1>4 DEF Revisit
  <1>7. /\ work'[w].target = IF action = "Expand" THEN t ELSE None
        /\ t \in Nodes /\ f \in Nodes /\ t \in problem.succ[f]
        /\ store' = store \cup {t} /\ problem' = problem /\ phase' = phase /\ verdict' = verdict
        /\ ~interrupted'
    <2>1. /\ work'[w].target = IF action = "Expand" \/ (action = "Follow" /\ t \notin store)
                               THEN t ELSE None
          /\ t \in Nodes /\ work[w].from \in Nodes /\ t \in problem.succ[work[w].from]
          /\ store' = store \cup {t} /\ problem' = problem /\ phase' = phase
          /\ verdict' = verdict
          /\ interrupted' = (interrupted \/ action = "Terminate")
      BY <1>3, <1>6, EdgeTarget
    <2>2. ~interrupted
      BY <1>3 DEF Reaching
    <2>3. action # "Follow" /\ action # "Terminate"
      BY <1>6
    <2>. QED BY <2>1, <2>2, <2>3, <1>4
  <1>8. PICK V : V = Visited
    OBVIOUS
  <1>9. /\ Within(V) /\ V \in SUBSET Nodes /\ f \in V
        /\ \A n \in Nodes : n \in V <=> ext[n].iteration = i
    BY <1>2, <1>3, <1>4, <1>8 DEF Reaching, Visited, Within
  <1>10. PICK C \in SUBSET Nodes : /\ V \subseteq C /\ Closed(problem, C)
                                   /\ \A n \in C : ext[n].inF => ext[n].inS
    BY <1>3, <1>8 DEF Reaching
  <1>11. t \in C /\ (ext[t].inF => ext[t].inS /\ t \in V)
    <2>1. t \in C
      BY <1>7, <1>9, <1>10 DEF Closed
    <2>. QED BY <1>3, <1>7, <1>8, <1>10, <2>1 DEF Reaching
  <1>12. t \in store /\ store' = store
    <2>1. f \in store /\ Closed(problem, store)
      BY <1>3, <1>8, <1>9 DEF Reaching, Complete
    <2>2. t \in store
      BY <2>1, <1>7 DEF Closed
    <2>. QED BY <2>2, <1>7
  <1>13. action = "Forget" <=> t \in V
    BY <1>6, <1>7, <1>9, <1>11
  <1>14. /\ Once' /\ ~Followed(f, t)
         /\ \A n \in V : \A m \in problem.succ[n] :
              Followed(n, m)' <=> Followed(n, m) \/ (n = f /\ m = t)
         /\ t \notin V => \A m \in problem.succ[t] : ~Followed(t, m)'
    <2>1. action # "Terminate" /\ (work'[w].target # None => t \notin V)
      BY <1>6, <1>7, <1>13
    <2>2. t \notin V => work'[w].target # None
      BY <1>3, <1>6, <1>7, <1>13
    <2>3. /\ Once'
          /\ ~Followed(work[w].from, t)
          /\ \A n \in V : \A m \in problem.succ[n] :
              Followed(n, m)' <=> Followed(n, m) \/ (n = work[w].from /\ m = t)
          /\ work'[w].target # None => \A m \in problem.succ[t] : ~Followed(t, m)'
      BY <2>1, <1>3, <1>6, <1>9, EdgeFollows
    <2>. QED BY <2>2, <2>3, <1>4
  <1>15. PICK c \in Nat : c = ext[t].predCount
    BY <1>3, <1>7 DEF OwctyExtension
  <1>16. /\ ext'[t].predCount = (c + 1) % PredCounts /\ ext'[t].inS = TRUE
         /\ ext'[t].iteration = i /\ ext'[t].inF = ext[t].inF
         /\ \A n \in Nodes : n # t => ext'[n] = ext[n]
    <2>1. ext[t] \in OwctyExtension
      BY <1>3, <1>7
    <2>2. (IF ext[t].inF THEN ext[t].iteration ELSE Mark) = i
      BY <1>5, <1>7, <1>9, <1>11
    <2>3. ext' = [ext EXCEPT ![t].predCount = (c + 1) % PredCounts, ![t].inS = TRUE,
                             ![t].iteration = i]
      BY <1>2, <1>3, <1>7, <1>15, <2>2
    <2>4. ext'[t] = [ext[t] EXCEPT !.predCount = (c + 1) % PredCounts, !.inS = TRUE,
                                   !.iteration = i]
      BY <2>3, <1>3, <1>7
    <2>5. PICK k : k = (c + 1) % PredCounts
      OBVIOUS
    <2>6. ext'[t] = [ext[t] EXCEPT !.predCount = k, !.inS = TRUE, !.iteration = i]
      BY <2>4, <2>5
    <2>7. /\ ext'[t].predCount = k /\ ext'[t].inS = TRUE
          /\ ext'[t].iteration = i /\ ext'[t].inF = ext[t].inF
      BY <2>1, <2>6 DEF OwctyExtension
    <2>8. \A n \in Nodes : n # t => ext'[n] = ext[n]
      BY <2>3, <1>3
    <2>. QED BY <2>5, <2>7, <2>8
  <1>17. Visited' = V \cup {t} /\ Alive' = Alive
    <2>1. \A n \in Nodes : ext'[n].iteration = shared'.iteration <=> n \in V \/ n = t
      BY <1>1, <1>4, <1>9, <1>16
    <2>2. Visited' = V \cup {t}
      BY <2>1, <1>7, <1>9 DEF Visited
    <2>3. \A n \in Nodes : ext'[n].inS /\ ext'[n].inF <=> ext[n].inS /\ ext[n].inF
      BY <1>11, <1>16
    <2>4. Alive' = Alive
      BY <2>3 DEF Alive
    <2>. QED BY <2>2, <2>4
  <1>18. /\ \A m \in Nodes : m # t => Reached(m)' = Reached(m)
         /\ Reached(t)' = Reached(t) \cup {f} /\ f \notin Reached(t)
    <2>1. ASSUME NEW m \in Nodes, NEW n \in Nodes
          PROVE  n \in Reached(m)' <=> n \in Reached(m) \/ (n = f /\ m = t)
      <3>1. n \in Reached(m) <=> n \in V /\ m \in problem.succ[n] /\ Followed(n, m)
        BY <1>8 DEF Reached
      <3>2. n \in Reached(m)' <=> /\ n \in V \cup {t} /\ m \in problem.succ[n]
                                  /\ Followed(n, m)'
        BY <1>7, <1>17 DEF Reached
      <3>3. CASE n \in V
        BY <3>1, <3>2, <3>3, <1>7, <1>14
      <3>4. CASE n \notin V
        BY <3>1, <3>2, <3>4, <1>9, <1>14
      <3>. QED BY <3>3, <3>4
    <2>2. \A m : Reached(m) \subseteq Nodes /\ Reached(m)' \subseteq Nodes
      BY <1>7, <1>8, <1>9, <1>17 DEF Reached
    <2>3. f \notin Reached(t)
      BY <1>14 DEF Reached
    <2>. QED BY <2>1, <2>2, <2>3, <1>7
  <1>19. ASSUME NEW m \in Nodes
         PROVE  ext'[m].predCount = Cardinality(Reached(m)') + (IF m \in Alive' THEN 1 ELSE 0)
    <2>1. ext[m].predCount = Cardinality(Reached(m)) + (IF m \in Alive THEN 1 ELSE 0)
      BY <1>3 DEF Reaching
    <2>2. CASE m # t
      BY <2>1, <2>2, <1>16, <1>17, <1>18
    <2>3. CASE m = t
      <3>1. PICK k, l : k = Cardinality(Reached(t)) /\ l = Cardinality(Reached(t)')
        OBVIOUS
      <3>2. Reached(t) \in SUBSET Nodes
        BY <1>8, <1>9 DEF Reached
      <3>3. k \in Nat /\ l = k + 1
        BY <3>1, <3>2, <1>7, <1>18, OneMore, FiniteStates
      <3>4. l + 1 < PredCounts
        <4>1. PICK R : R = Reached(t)'
          OBVIOUS
        <4>2. R \in SUBSET {n \in Nodes : t \in problem.succ[n]}
          BY <4>1, <3>2, <1>7, <1>18 DEF Reached
        <4>. QED BY <3>1, <4>1, <4>2, <1>7, CountsFit
      <3>5. PICK d \in {0, 1} : d = IF t \in Alive THEN 1 ELSE 0
        OBVIOUS
      <3>6. c = k + d
        BY <2>1, <2>3, <3>1, <3>5, <1>15
      <3>7. PredCounts \in Nat
        BY SMT DEF PredCounts
      <3>8. c + 1 = l + d /\ c + 1 < PredCounts /\ c + 1 \in Nat
        BY <3>3, <3>4, <3>5, <3>6, <3>7
      <3>9. (c + 1) % PredCounts = l + d
        BY <3>8, SmallNumbers
      <3>. QED BY <2>3, <3>1, <3>5, <3>9, <1>16, <1>17
    <2>. QED BY <2>2, <2>3
  <1>20. ext'[t].predCount > 0
    <2>1. Reached(t)' \in SUBSET Nodes /\ Reached(t)' # {}
      BY <1>7, <1>8, <1>9, <1>18 DEF Reached
    <2>2. PICK l : l = Cardinality(Reached(t)')
      OBVIOUS
    <2>3. l \in Nat /\ l # 0
      BY <2>1, <2>2, NoStates, FiniteStates
    <2>4. PICK d \in {0, 1} : d = IF t \in Alive' THEN 1 ELSE 0
      OBVIOUS
    <2>5. l + d > 0
      BY <2>3, <2>4
    <2>. QED BY <2>2, <2>4, <2>5, <1>7, <1>19
  <1>21. Complete'
    <2>1. \A n \in Nodes : ext'[n].iteration <= shared'.iteration
      BY <1>1, <1>3, <1>4, <1>5, <1>16 DEF Reaching, Complete
    <2>2. \A n \in Nodes : ext'[n].inF <=> n \in store' /\ Accepting(n)'
      BY <1>3, <1>7, <1>12, <1>16 DEF Reaching, Complete, Accepting
    <2>3. \A n \in Nodes \ store' : ~ext'[n].inS /\ ext'[n].predCount = 0
      BY <1>3, <1>12, <1>16 DEF Reaching, Complete
    <2>4. Closed(problem', store')
      BY <1>3, <1>7, <1>12 DEF Reaching, Complete
    <2>. QED BY <2>1, <2>2, <2>3, <2>4 DEF Complete
  <1>22. Survivors'
    BY <1>3, <1>7, <1>17 DEF Reaching, Survivors
  <1>23. Within(Visited)'
    <2>1. PICK S : S = V \cup {t}
      OBVIOUS
    <2>2. Within(S)'
      BY <2>1, <1>3, <1>6, <1>9, EdgeAdds
    <2>. QED BY <2>1, <2>2, <1>17 DEF Within
  <1>24. /\ Visited' \subseteq store'
         /\ \A n \in Nodes : ext'[n].inF => (n \in Visited' <=> ext'[n].inS)
         /\ \A n \in Visited' : ext'[n].inS /\ ext'[n].predCount > 0
    BY <1>3, <1>8, <1>9, <1>12, <1>16, <1>17, <1>20 DEF Reaching
  <1>25. ASSUME NEW n \in Visited' PROVE \E q \in Alive' : n \in From(problem', {q})
    <2>1. \A m \in V : \E q \in Alive : m \in From(problem, {q})
      BY <1>3, <1>8 DEF Reaching
    <2>2. CASE n \in V
      BY <2>1, <2>2, <1>7, <1>17
    <2>3. CASE n = t
      <3>1. PICK q \in Alive : f \in From(problem, {q})
        BY <2>1, <1>9
      <3>2. t \in From(problem, {q})
        BY <3>1, <1>3, <1>7, FromNext
      <3>. QED BY <2>3, <3>2, <1>7, <1>17
    <2>. QED BY <2>2, <2>3, <1>17
  <1>26. \E D \in SUBSET Nodes : /\ Visited' \subseteq D /\ Closed(problem', D)
                                 /\ \A n \in D : ext'[n].inF => ext'[n].inS
    <2>1. Visited' \subseteq C /\ Closed(problem', C)
      BY <1>7, <1>10, <1>11, <1>17
    <2>2. \A n \in C : ext'[n].inF => ext'[n].inS
      BY <1>10, <1>16
    <2>. QED BY <2>1, <2>2
  <1>27. ASSUME NEW n \in Visited', NEW m \in problem'.succ[n], Followed(n, m)'
         PROVE  m \in Visited'
    <2>1. CASE n \in V
      BY <2>1, <1>3, <1>7, <1>8, <1>14, <1>17, <1>27 DEF Reaching
    <2>2. CASE n \notin V
      BY <2>2, <1>7, <1>14, <1>17, <1>27
    <2>. QED BY <2>1, <2>2
  <1>28. shared'.oldsize = Cardinality(Alive') /\ ~interrupted' /\ shared'.iteration > 0
    BY <1>1, <1>3, <1>7, <1>17 DEF Reaching
  <1>29. Reaching'
    BY <1>19, <1>21, <1>22, <1>23, <1>24, <1>25, <1>26, <1>27, <1>28 DEF Reaching
  <1>. QED BY <1>1, <1>7, <1>14, <1>29 DEF RoundsInv

\* The assertion of Reachability's expansion: what it expands has been counted.
LEMMA ReachabilityExpansionRounds ==
  ASSUME OwctyInv, RoundsInv, NEW w \in Workers, ReachabilityExpansion(w)
  PROVE  RoundsInv'
  <1>1. PICK t : t = work[w].target
    OBVIOUS
  <1>2. /\ phase = "reachability" /\ Push(w) /\ ext' = ext /\ found' = found
        /\ ok' = (ok /\ ext[t].predCount > 0 /\ ext[t].inS)
        /\ shared' = [shared EXCEPT !.size = @ + 1]
    BY <1>1 DEF ReachabilityExpansion, Raise
  <1>3. Stored /\ Once /\ Reaching /\ shared \in Master /\ None \notin Nodes
    BY <1>2, Numbers DEF OwctyInv, RoundsInv
  <1>4. /\ Once'
        /\ \A n \in Nodes : \A m : Followed(n, m)' <=> Followed(n, m)
        /\ t \in Nodes
    BY <1>1, <1>2, <1>3, PushFollows
  <1>5. /\ problem' = problem /\ phase' = phase /\ verdict' = verdict /\ store' = store
        /\ interrupted' = interrupted
    BY <1>2 DEF Push
  <1>6. t \in Visited
    BY <1>1, <1>3, <1>4 DEF Reaching, Within
  <1>7. ok'
    BY <1>2, <1>3, <1>6 DEF Reaching, RoundsInv
  <1>8. /\ shared'.iteration = shared.iteration /\ shared'.oldsize = shared.oldsize
        /\ shared'.candidate = shared.candidate
    BY <1>2, <1>3 DEF Master
  <1>9. Within(Visited)'
    <2>1. PICK S : S = Visited
      OBVIOUS
    <2>2. Within(S)'
      BY <2>1, <1>2, <1>3, PushWithin DEF Reaching
    <2>3. Visited' = Visited
      BY <1>2, <1>8 DEF Visited
    <2>. QED BY <2>1, <2>2, <2>3 DEF Within
  <1>10. Reaching'
    BY <1>2, <1>3, <1>4, <1>5, <1>8, <1>9, ReachingKept
  <1>. QED BY <1>2, <1>4, <1>5, <1>7, <1>8, <1>10 DEF RoundsInv

-----------------------------------------------------------------------------
(* Elimination: what is on a cycle always keeps a predecessor.             *)

LEMMA SplitStates ==
  ASSUME NEW S \in SUBSET Nodes, NEW T \in SUBSET S
  PROVE  Cardinality(S) = Cardinality(T) + Cardinality(S \ T)
  <1>1. IsFiniteSet(S) /\ IsFiniteSet(T) /\ S \cap T = T
    BY FiniteStates
  <1>2. Cardinality(S \ T) = Cardinality(S) - Cardinality(T)
    BY <1>1, FS_Difference
  <1>3. Cardinality(S) \in Nat /\ Cardinality(T) \in Nat /\ Cardinality(S \ T) \in Nat
    BY FiniteStates
  <1>. QED BY <1>2, <1>3

LEMMA EndReachabilityRounds ==
  ASSUME OwctyInv, Fits(problem), RoundsInv, InTime', EndReachability
  PROVE  RoundsInv'
  <1> DEFINE G == {n \in QueueAll : ext[n].predCount = 1}
  <1>1. /\ phase = "reachability" /\ Quiet /\ Section("elimination", G)
        /\ problem' = problem /\ verdict' = verdict /\ store' = store
        /\ shared' = [shared EXCEPT !.iteration = @ + 1, !.size = Cardinality(G)]
        /\ ext' = [n \in Nodes |->
                     IF n \notin QueueAll THEN ext[n]
                     ELSE [ext[n] EXCEPT
                             !.predCount = (@ - 1) % PredCounts,
                             !.inS = n \notin G,
                             !.iteration = IF n \in G THEN shared'.iteration % Iterations
                                           ELSE @]]
        /\ ok' = (ok /\ \A n \in QueueAll : ext[n].predCount >= 1)
    BY DEF EndReachability, Raise
  <1>2. Reaching /\ Complete /\ ext \in [Nodes -> OwctyExtension] /\ shared \in Master
        /\ problem \in Graphs /\ store \subseteq Nodes /\ ok
    BY <1>1, ReachableAreStates DEF RoundsInv, Reaching, OwctyInv, Stored
  <1>3. PICK V, A, gone : V = Visited /\ A = Alive /\ gone = G
    OBVIOUS
  <1> HIDE DEF G
  <1>4. QueueAll = A /\ A \in SUBSET Nodes /\ V \in SUBSET Nodes
    <2>1. Iterated = store
      BY <1>2 DEF Fits, Iterated
    <2>2. Alive \subseteq store
      BY <1>2 DEF Alive, Complete
    <2>. QED BY <2>1, <2>2, <1>2, <1>3 DEF QueueAll, Alive, Visited
  <1>5. A \subseteq V /\ \A n \in V : ext[n].inF => n \in A
    BY <1>2, <1>3 DEF Reaching, Alive, Visited
  <1>6. Closed(problem, V)
    <2>1. \A n \in V : \A t \in problem.succ[n] : Followed(n, t)
      BY <1>1, <1>4, QuietFollows
    <2>. QED BY <2>1, <1>2, <1>3 DEF Reaching, Closed
  <1>7. \A t \in Nodes : Reached(t) = {n \in V : t \in problem.succ[n]}
    <2>1. \A n \in V : \A t \in problem.succ[n] : Followed(n, t)
      BY <1>1, <1>4, QuietFollows
    <2>. QED BY <2>1, <1>3 DEF Reached
  <1>8. ASSUME NEW t \in Nodes
        PROVE  \E k \in Nat : /\ k = Cardinality({n \in V : t \in problem.succ[n]})
                              /\ k + 1 < PredCounts /\ k < PredCounts
                              /\ ext[t].predCount = k + (IF t \in A THEN 1 ELSE 0)
                              /\ (k = 0 <=> ~\E n \in V : t \in problem.succ[n])
    <2>1. PICK R : R = {n \in V : t \in problem.succ[n]}
      OBVIOUS
    <2>2. R \in SUBSET {n \in Nodes : t \in problem.succ[n]} /\ R \in SUBSET Nodes
      BY <2>1, <1>4
    <2>3. PICK k : k = Cardinality(R)
      OBVIOUS
    <2>4. k \in Nat /\ k + 1 < PredCounts /\ (k = 0 <=> R = {})
      BY <2>2, <2>3, CountsFit, NoStates
    <2>5. ext[t].predCount = k + (IF t \in A THEN 1 ELSE 0)
      BY <2>1, <2>3, <1>2, <1>3, <1>7 DEF Reaching
    <2>6. PredCounts \in Nat
      BY SMT DEF PredCounts
    <2>7. k < PredCounts
      BY <2>4, <2>6
    <2>8. k = 0 <=> ~\E n \in V : t \in problem.succ[n]
      BY <2>1, <2>4
    <2>9. k = Cardinality({n \in V : t \in problem.succ[n]})
      BY <2>1, <2>3
    <2>. QED BY <2>4, <2>5, <2>7, <2>8, <2>9, Zenon
  <1>9. gone = {n \in A : ~\E p \in V : n \in problem.succ[p]} /\ gone \in SUBSET A
    <2>1. ASSUME NEW n \in A PROVE ext[n].predCount = 1 <=> ~\E p \in V : n \in problem.succ[p]
      <3>1. PICK k \in Nat : /\ ext[n].predCount = k + 1
                             /\ (k = 0 <=> ~\E p \in V : n \in problem.succ[p])
        BY <1>4, <1>8
      <3>. QED BY <3>1
    <2>2. gone = {n \in A : ext[n].predCount = 1}
      BY <1>3, <1>4 DEF G
    <2>. QED BY <2>1, <2>2
  <1>10. PICK i : i = shared.iteration
    OBVIOUS
  <1>11. /\ i \in Nat /\ i > 0 /\ shared'.iteration = i + 1 /\ (i + 1) % Iterations = i + 1
         /\ shared'.oldsize = shared.oldsize /\ shared'.size = Cardinality(gone)
         /\ shared'.candidate = shared.candidate
    <2>1. shared'.iteration = i + 1 /\ i \in Nat
      BY <1>1, <1>2, <1>10 DEF Master
    <2>2. (i + 1) % Iterations = i + 1
      BY <2>1, SmallNumbers DEF InTime
    <2>3. shared'.oldsize = shared.oldsize /\ shared'.size = Cardinality(gone)
          /\ shared'.candidate = shared.candidate
      BY <1>1, <1>2, <1>3 DEF Master
    <2>4. i > 0
      BY <1>2, <1>10 DEF Reaching
    <2>. QED BY <2>1, <2>2, <2>3, <2>4
  <1>12. /\ Once' /\ Within(gone)' /\ interrupted' = FALSE /\ phase' = "elimination"
         /\ \A n \in Nodes : \A m : Followed(n, m)' <=> n \notin gone
         /\ \A w \in Workers : work'[w].target = None
    <2>1. gone \in SUBSET Nodes /\ Section("elimination", gone)
      BY <1>1, <1>3, <1>4, <1>9
    <2>. QED BY <2>1, SectionFollows
  <1>13. ASSUME NEW n \in Nodes
         PROVE  /\ ext'[n].inF = ext[n].inF
                /\ ext'[n].inS = (IF n \in A THEN n \notin gone ELSE ext[n].inS)
                /\ ext'[n].iteration = (IF n \in gone THEN i + 1 ELSE ext[n].iteration)
                /\ ext'[n].predCount = (IF n \in A THEN ext[n].predCount - 1
                                        ELSE ext[n].predCount)
    <2>1. ext[n] \in OwctyExtension
      BY <1>2
    <2>2. PICK k \in Nat : k < PredCounts /\ ext[n].predCount = k + (IF n \in A THEN 1 ELSE 0)
      BY <1>8
    <2>3. n \in A => (ext[n].predCount - 1) % PredCounts = k /\ k = ext[n].predCount - 1
      <3>1. k % PredCounts = k /\ (k + 1) - 1 = k
        BY <2>2, SmallNumbers
      <3>. QED BY <2>2, <3>1
    <2>4. shared'.iteration % Iterations = i + 1
      BY <1>11
    <2>5. ext'[n] = IF n \notin A THEN ext[n]
                    ELSE [ext[n] EXCEPT !.predCount = k, !.inS = n \notin gone,
                                        !.iteration = IF n \in gone THEN i + 1 ELSE @]
      BY <2>3, <2>4, <1>1, <1>3, <1>4
    <2>6. CASE n \in A
      BY <2>1, <2>3, <2>5, <2>6 DEF OwctyExtension
    <2>7. CASE n \notin A
      BY <2>5, <2>7, <1>9
    <2>. QED BY <2>6, <2>7
  <1>14. \A n \in Nodes : /\ ext[n].iteration \in Nat /\ ext[n].iteration <= i
                          /\ (n \in V <=> ext[n].iteration = i)
    BY <1>2, <1>3, <1>10 DEF OwctyExtension, Complete, Visited
  <1>15. Visited' = gone /\ Counted' = V /\ Alive' = A \ gone
    <2>1. \A n \in Nodes : ext'[n].iteration = i + 1 <=> n \in gone
      BY <1>11, <1>13, <1>14
    <2>2. Visited' = gone
      BY <2>1, <1>4, <1>9, <1>11 DEF Visited
    <2>3. \A n \in Nodes : ext'[n].iteration >= (i + 1) - 1 <=> n \in V
      BY <1>5, <1>9, <1>11, <1>13, <1>14
    <2>4. Counted' = V
      BY <2>3, <1>4, <1>11 DEF Counted
    <2>5. \A n \in Nodes : ext'[n].inS /\ ext'[n].inF <=> n \in A \ gone
      BY <1>3, <1>13 DEF Alive
    <2>6. Alive' = A \ gone
      BY <2>5, <1>4 DEF Alive
    <2>. QED BY <2>2, <2>4, <2>6
  <1>16. Complete'
    <2>1. \A n \in Nodes : ext'[n].iteration <= shared'.iteration
      BY <1>11, <1>13, <1>14
    <2>2. \A n \in Nodes : ext'[n].inF <=> n \in store' /\ Accepting(n)'
      BY <1>1, <1>2, <1>13 DEF Complete, Accepting
    <2>3. A \subseteq store
      BY <1>3, <1>2 DEF Alive, Complete
    <2>4. \A n \in Nodes \ store' : ~ext'[n].inS /\ ext'[n].predCount = 0
      BY <2>3, <1>1, <1>2, <1>13 DEF Complete
    <2>. QED BY <2>1, <2>2, <2>4, <1>1, <1>2 DEF Complete
  <1>17. Survivors'
    <2> SUFFICES ASSUME NEW n \in Nodes, IsReal(problem, n)
                 PROVE  n \in A \ gone
      BY <1>1, <1>15 DEF Survivors
    <2>1. n \in A /\ n \in V
      BY <1>2, <1>3, <1>5 DEF Reaching, Survivors
    <2>2. PICK K \in SUBSET From(problem, {n}) :
            n \in K /\ \A m \in K : \E p \in K : m \in problem.succ[p]
      BY <1>2, CycleHolds DEF IsReal
    <2>3. From(problem, {n}) \subseteq V
      BY <2>1, <1>2, <1>4, <1>6, FromWithin
    <2>. QED BY <2>1, <2>2, <2>3, <1>9
  <1>18. Within(Visited)'
    BY <1>12, <1>15 DEF Within
  <1>19. /\ Counted' \subseteq store' /\ Closed(problem', Counted') /\ Alive' \subseteq Counted'
         /\ \A n \in Counted' : n \notin Visited' => ext'[n].inS
    <2>1. V \subseteq store /\ \A n \in V : ext[n].inS
      BY <1>2, <1>3 DEF Reaching
    <2>. QED BY <2>1, <1>1, <1>4, <1>5, <1>6, <1>9, <1>13, <1>15
  <1>20. \A n \in Visited' : ext'[n].inS <=> \E w \in Workers : work'[w].target = n
    <2>1. \A n \in gone : ~ext'[n].inS /\ n \in Nodes
      BY <1>4, <1>9, <1>13
    <2>. QED BY <2>1, <1>12, <1>15, Numbers
  <1>21. \A n \in Counted' : \E q \in Counted' : ext'[q].inF /\ n \in From(problem', {q})
    <2>1. \A n \in V : \E q \in A : n \in From(problem, {q})
      BY <1>2, <1>3 DEF Reaching
    <2>2. \A q \in A : q \in V /\ ext'[q].inF
      BY <1>3, <1>4, <1>5, <1>13 DEF Alive
    <2>. QED BY <2>1, <2>2, <1>1, <1>15
  <1>22. ASSUME NEW t \in Counted'
         PROVE  /\ ext'[t].predCount = Cardinality(Remaining(t)')
                /\ t \in Visited' <=> ext'[t].predCount = 0
    <2>1. t \in V /\ t \in Nodes
      BY <1>4, <1>15
    <2>2. PICK R : R = {n \in V : t \in problem.succ[n]}
      OBVIOUS
    <2>3. Remaining(t)' = R
      BY <2>2, <1>1, <1>4, <1>12, <1>15 DEF Remaining
    <2>4. PICK k \in Nat : /\ k = Cardinality(R)
                           /\ ext[t].predCount = k + (IF t \in A THEN 1 ELSE 0)
                           /\ (k = 0 <=> ~\E n \in V : t \in problem.succ[n])
      BY <2>1, <2>2, <1>8
    <2>5. ext'[t].predCount = k
      BY <2>1, <2>4, <1>13
    <2>6. t \notin A => k # 0
      BY <2>1, <2>4, <1>2, <1>3 DEF Reaching
    <2>. QED BY <2>1, <2>3, <2>4, <2>5, <2>6, <1>9, <1>15
  <1>23. Visited' # {} => \E n \in Visited' : ext'[n].inF
    BY <1>3, <1>4, <1>9, <1>13, <1>15 DEF Alive
  <1>24. \A K \in SUBSET Counted' :
           (\A n \in K : \E p \in K : n \in problem'.succ[p]) => K \cap Visited' = {}
    BY <1>1, <1>9, <1>15
  <1>25. /\ shared'.size = Cardinality({n \in Counted' : ext'[n].inF /\ ~ext'[n].inS})
         /\ shared'.oldsize = shared'.size + Cardinality(Alive')
    <2>1. \A n \in V : ext'[n].inF /\ ~ext'[n].inS <=> n \in gone
      BY <1>3, <1>4, <1>5, <1>9, <1>13 DEF Alive
    <2>2. {n \in Counted' : ext'[n].inF /\ ~ext'[n].inS} = gone
      BY <2>1, <1>5, <1>9, <1>15
    <2>3. shared.oldsize = Cardinality(A)
      BY <1>2, <1>3 DEF Reaching
    <2>4. Cardinality(A) = Cardinality(gone) + Cardinality(A \ gone)
      BY <1>4, <1>9, SplitStates
    <2>. QED BY <2>2, <2>3, <2>4, <1>11, <1>15
  <1>26. Eliminating'
    <2>1. shared'.iteration > 1 /\ ~interrupted'
      BY <1>11, <1>12
    <2>. QED BY <2>1, <1>16, <1>17, <1>18, <1>19, <1>20, <1>21, <1>22, <1>23, <1>24, <1>25
             DEF Eliminating
  <1>27. ok'
    <2>1. \A n \in A : ext[n].predCount > 0 /\ ext[n].predCount \in Nat
      BY <1>2, <1>3, <1>4, <1>5 DEF Reaching, OwctyExtension
    <2>2. \A n \in QueueAll : ext[n].predCount >= 1
      BY <2>1, <1>4
    <2>. QED BY <2>2, <1>1, <1>2
  <1>28. shared'.candidate = None /\ verdict' = "none"
    BY <1>1, <1>11 DEF RoundsInv
  <1>. QED BY <1>12, <1>26, <1>27, <1>28 DEF RoundsInv

\* The assertions of Elimination's transition: an edge leads to a state that is
\* still counted, and that has this predecessor left.
LEMMA EliminationEdgeRounds ==
  ASSUME OwctyInv, Fits(problem), InTime, RoundsInv, NEW w \in Workers, EliminationEdge(w)
  PROVE  RoundsInv'
  <1>1. phase = "elimination" /\ shared' = shared /\ found' = found
    BY DEF EliminationEdge
  <1>2. PICK t \in work[w].todo :
          LET left == (ext[t].predCount - 1) % PredCounts
          IN /\ ok' = (ok /\ ext[t].inS /\ ext[t].predCount >= 1)
             /\ ext' = [ext EXCEPT ![t].predCount = left,
                                   ![t].iteration = IF left = 0 THEN Mark ELSE @]
             /\ Edge(w, t, IF left = 0 THEN Revisit(t) ELSE "Forget")
    BY DEF EliminationEdge, Raise
  <1>3. Stored /\ Once /\ Eliminating /\ Complete /\ ext \in [Nodes -> OwctyExtension]
        /\ shared \in Master /\ None \notin Nodes
        /\ problem \in Graphs /\ store \subseteq Nodes /\ ok
    BY <1>1, Numbers, ReachableAreStates DEF OwctyInv, RoundsInv, Eliminating, Stored
  <1>4. PICK f, i, V, B, left :
          /\ f = work[w].from /\ i = shared.iteration /\ V = Visited /\ B = Counted
          /\ left = (ext[t].predCount - 1) % PredCounts
    OBVIOUS
  <1>5. PICK action : action = IF left = 0 THEN Revisit(t) ELSE "Forget"
    OBVIOUS
  <1>6. /\ ok' = (ok /\ ext[t].inS /\ ext[t].predCount >= 1)
        /\ ext' = [ext EXCEPT ![t].predCount = left,
                              ![t].iteration = IF left = 0 THEN Mark ELSE @]
        /\ Edge(w, t, action)
    BY <1>2, <1>4, <1>5
  <1>7. /\ work'[w].target = IF action = "Expand" \/ (action = "Follow" /\ t \notin store)
                             THEN t ELSE None
        /\ t \in Nodes /\ f \in Nodes /\ t \in problem.succ[f]
        /\ store' = store \cup {t} /\ problem' = problem /\ phase' = phase /\ verdict' = verdict
        /\ interrupted' = (interrupted \/ action = "Terminate")
    BY <1>3, <1>4, <1>6, EdgeTarget
  <1>8. i \in Nat /\ i > 1 /\ Mark = i
    BY <1>3, <1>4, SmallNumbers DEF Mark, InTime, Master, Eliminating
  <1>9. /\ \A n \in Nodes : /\ ext[n].iteration \in Nat /\ ext[n].iteration <= i
                            /\ (n \in V <=> ext[n].iteration = i)
                            /\ (n \in B <=> ext[n].iteration >= i - 1)
        /\ V \in SUBSET Nodes /\ B \in SUBSET Nodes
    BY <1>3, <1>4 DEF OwctyExtension, Complete, Visited, Counted
  <1>10. V \subseteq B
    BY <1>8, <1>9
  <1>11. Within(V) /\ f \in V /\ t \in B /\ t \in store /\ store' = store
    <2>1. Within(V) /\ f \in V
      BY <1>2, <1>3, <1>4 DEF Eliminating, Within
    <2>2. t \in B /\ B \subseteq store
      BY <2>1, <1>3, <1>4, <1>7, <1>10 DEF Eliminating, Closed
    <2>. QED BY <2>1, <2>2, <1>7
  <1>12. ~Followed(f, t)
    BY <1>2, <1>4 DEF Followed
  <1>13. PICK R : R = Remaining(t)
    OBVIOUS
  <1>14. PICK k \in Nat : /\ k = Cardinality(R) /\ k + 1 < PredCounts
                          /\ k > 0 /\ Cardinality(R \ {f}) = k - 1
                          /\ (k - 1 = 0 <=> R \ {f} = {})
    <2>1. R \in SUBSET {n \in Nodes : t \in problem.succ[n]} /\ R \in SUBSET Nodes
      BY <1>4, <1>9, <1>13 DEF Remaining
    <2>2. f \in R
      BY <1>4, <1>7, <1>10, <1>11, <1>12, <1>13 DEF Remaining
    <2>3. PICK k : k = Cardinality(R)
      OBVIOUS
    <2>4. k \in Nat /\ k + 1 < PredCounts
      BY <2>1, <2>3, <1>7, CountsFit
    <2>5. k # 0
      BY <2>1, <2>2, <2>3, NoStates
    <2>6. Cardinality(R \ {f}) = k - 1
      BY <2>1, <2>2, <2>3, OneLess
    <2>7. k - 1 = 0 <=> R \ {f} = {}
      <3>1. R \ {f} \in SUBSET Nodes
        BY <2>1
      <3>. QED BY <3>1, <2>6, NoStates
    <2>. QED BY <2>3, <2>4, <2>5, <2>6, <2>7
  <1>15. ext[t].predCount = k /\ t \notin V /\ ext[t].inS /\ left = k - 1
    <2>1. ext[t].predCount = k /\ (t \in V <=> k = 0)
      BY <1>3, <1>4, <1>11, <1>13, <1>14 DEF Eliminating
    <2>2. t \notin V /\ ext[t].inS
      BY <2>1, <1>3, <1>4, <1>11, <1>14 DEF Eliminating
    <2>3. k - 1 \in Nat /\ k - 1 < PredCounts
      <3>1. PredCounts \in Nat
        BY SMT DEF PredCounts
      <3>. QED BY <3>1, <1>14
    <2>4. (k - 1) % PredCounts = k - 1
      BY <2>3, SmallNumbers
    <2>. QED BY <2>1, <2>2, <2>4, <1>4
  <1>16. ok'
    <2>1. ext[t].predCount >= 1
      BY <1>14, <1>15
    <2>. QED BY <2>1, <1>3, <1>6, <1>15
  <1>17. action = IF left = 0 THEN "Expand" ELSE "Forget"
    BY <1>4, <1>5, <1>7, <1>9, <1>15 DEF Revisit
  <1>18. work'[w].target = (IF left = 0 THEN t ELSE None) /\ ~interrupted'
    BY <1>3, <1>7, <1>17 DEF Eliminating
  <1>19. /\ Once'
         /\ \A n \in V : \A m \in problem.succ[n] :
              Followed(n, m)' <=> Followed(n, m) \/ (n = f /\ m = t)
         /\ left = 0 => \A m \in problem.succ[t] : ~Followed(t, m)'
         /\ \A v \in Workers : v # w => work'[v].target = work[v].target
         /\ work[w].target = None
    <2>1. action # "Terminate" /\ (work'[w].target # None => t \notin V)
      BY <1>15, <1>17
    <2>2. /\ Once'
          /\ \A n \in V : \A m \in problem.succ[n] :
               Followed(n, m)' <=> Followed(n, m) \/ (n = work[w].from /\ m = t)
          /\ work'[w].target # None => \A m \in problem.succ[t] : ~Followed(t, m)'
          /\ \A v \in Workers : v # w => work'[v].target = work[v].target
          /\ work[w].target = None
      BY <2>1, <1>3, <1>6, <1>9, <1>11, EdgeFollows
    <2>3. left = 0 => work'[w].target # None
      BY <1>3, <1>7, <1>18
    <2>. QED BY <2>2, <2>3, <1>4
  <1>20. /\ ext'[t].predCount = left /\ ext'[t].inS = ext[t].inS /\ ext'[t].inF = ext[t].inF
         /\ ext'[t].iteration = (IF left = 0 THEN i ELSE ext[t].iteration)
         /\ \A n \in Nodes : n # t => ext'[n] = ext[n]
    <2>1. ext[t] \in OwctyExtension
      BY <1>3, <1>7
    <2>2. ext'[t] = [ext[t] EXCEPT !.predCount = left,
                                   !.iteration = IF left = 0 THEN i ELSE @]
      BY <1>3, <1>6, <1>7, <1>8
    <2>3. \A n \in Nodes : n # t => ext'[n] = ext[n]
      BY <1>3, <1>6
    <2>. QED BY <2>1, <2>2, <2>3 DEF OwctyExtension
  <1>21. Visited' = (IF left = 0 THEN V \cup {t} ELSE V) /\ Counted' = B /\ Alive' = Alive
    <2>1. \A n \in Nodes : ext'[n].iteration = i <=> n \in V \/ (n = t /\ left = 0)
      BY <1>9, <1>15, <1>20
    <2>2. Visited' = (IF left = 0 THEN V \cup {t} ELSE V)
      BY <2>1, <1>1, <1>4, <1>7, <1>9 DEF Visited
    <2>3. \A n \in Nodes : ext'[n].iteration >= i - 1 <=> n \in B
      BY <1>8, <1>9, <1>11, <1>20
    <2>4. Counted' = B
      BY <2>3, <1>1, <1>4, <1>9 DEF Counted
    <2>5. \A n \in Nodes : ext'[n].inS /\ ext'[n].inF <=> ext[n].inS /\ ext[n].inF
      BY <1>20
    <2>6. Alive' = Alive
      BY <2>5 DEF Alive
    <2>. QED BY <2>2, <2>4, <2>6
  <1>22. /\ \A m \in Nodes : m # t => Remaining(m)' = Remaining(m)
         /\ Remaining(t)' = R \ {f}
    <2>1. ASSUME NEW m \in Nodes, NEW n \in Nodes
          PROVE  n \in Remaining(m)' <=> n \in Remaining(m) /\ ~(n = f /\ m = t)
      <3>1. n \in Remaining(m) <=> /\ n \in B /\ m \in problem.succ[n]
                                   /\ ~(n \in V /\ Followed(n, m))
        BY <1>4 DEF Remaining
      <3>2. n \in Remaining(m)' <=> /\ n \in B /\ m \in problem.succ[n]
                                    /\ ~(n \in Visited' /\ Followed(n, m)')
        BY <1>7, <1>21 DEF Remaining
      <3>3. CASE n \in V
        BY <3>1, <3>2, <3>3, <1>19, <1>21
      <3>4. CASE n \notin V
        BY <3>1, <3>2, <3>4, <1>11, <1>19, <1>21
      <3>. QED BY <3>3, <3>4
    <2>2. \A m : Remaining(m) \subseteq Nodes /\ Remaining(m)' \subseteq Nodes
      BY <1>4, <1>9, <1>21 DEF Remaining
    <2>. QED BY <2>1, <2>2, <1>7, <1>13
  <1>23. ASSUME NEW m \in Counted'
         PROVE  /\ ext'[m].predCount = Cardinality(Remaining(m)')
                /\ m \in Visited' <=> ext'[m].predCount = 0
    <2>1. m \in B /\ m \in Nodes
      BY <1>9, <1>21
    <2>2. CASE m = t
      BY <2>2, <1>14, <1>15, <1>20, <1>21, <1>22
    <2>3. CASE m # t
      <3>1. /\ ext[m].predCount = Cardinality(Remaining(m))
            /\ m \in V <=> ext[m].predCount = 0
        BY <2>1, <1>3, <1>4 DEF Eliminating
      <3>2. m \in Visited' <=> m \in V
        BY <2>3, <1>21
      <3>. QED BY <2>1, <2>3, <3>1, <3>2, <1>20, <1>22
    <2>. QED BY <2>2, <2>3
  <1>24. Complete'
    <2>1. \A n \in Nodes : ext'[n].iteration <= shared'.iteration
      BY <1>1, <1>4, <1>8, <1>9, <1>20
    <2>2. \A n \in Nodes : ext'[n].inF <=> n \in store' /\ Accepting(n)'
      BY <1>3, <1>7, <1>11, <1>20 DEF Complete, Accepting
    <2>3. \A n \in Nodes \ store' : ~ext'[n].inS /\ ext'[n].predCount = 0
      BY <1>3, <1>11, <1>20 DEF Complete
    <2>4. Closed(problem', store')
      BY <1>3, <1>7, <1>11 DEF Complete
    <2>. QED BY <2>1, <2>2, <2>3, <2>4 DEF Complete
  <1>25. Survivors'
    BY <1>3, <1>7, <1>21 DEF Eliminating, Survivors
  <1>26. Within(Visited)'
    <2>1. CASE left = 0
      <3>1. PICK S : S = V \cup {t}
        OBVIOUS
      <3>2. Within(S)'
        BY <3>1, <1>3, <1>6, <1>11, EdgeAdds
      <3>. QED BY <2>1, <3>1, <3>2, <1>21 DEF Within
    <2>2. CASE left # 0
      <3>1. /\ \A n \in Nodes : open'[n] > 0 => n \in V
            /\ \A v \in Workers : v # w => work'[v] = work[v]
        BY <1>3, <1>6, <1>11 DEF Edge, Stored, Within
      <3>2. work'[w].todo # {} => work'[w].from \in V
        <4>1. PICK s : s = [from |-> work[w].from,
                            todo |-> IF action = "Terminate" THEN {} ELSE work[w].todo \ {t},
                            target |-> IF action = "Expand" \/ (action = "Follow" /\ t \notin store)
                                       THEN t ELSE None]
          OBVIOUS
        <4>2. work'[w] = Settle(s)
          BY <4>1, <1>3, <1>6 DEF Edge, Stored
        <4>3. Settle(s) = s \/ Settle(s).todo = {}
          BY DEF Settle, Resting
        <4>4. s.from \in V
          BY <4>1, <1>4, <1>11
        <4>. QED BY <4>2, <4>3, <4>4
      <3>3. work'[w].target = None
        BY <2>2, <1>18
      <3>4. /\ \A v \in Workers : v # w => (work'[v].todo # {} => work'[v].from \in V)
            /\ \A v \in Workers : v # w => (work'[v].target # None => work'[v].target \in V)
        BY <3>1, <1>11 DEF Within
      <3>. QED BY <2>2, <3>1, <3>2, <3>3, <3>4, <1>21 DEF Within
    <2>. QED BY <2>1, <2>2
  <1>27. /\ Counted' \subseteq store' /\ Closed(problem', Counted') /\ Alive' \subseteq Counted'
         /\ \A n \in Counted' : n \notin Visited' => ext'[n].inS
    <2>1. /\ B \subseteq store /\ Closed(problem, B) /\ Alive \subseteq B
          /\ \A n \in B : n \notin V => ext[n].inS
      BY <1>3, <1>4 DEF Eliminating
    <2>2. V \subseteq Visited'
      BY <1>21
    <2>. QED BY <2>1, <2>2, <1>7, <1>9, <1>11, <1>20, <1>21
  <1>28. ASSUME NEW n \in Visited'
         PROVE  ext'[n].inS <=> \E v \in Workers : work'[v].target = n
    <2>1. CASE n \in V
      <3>1. ext[n].inS <=> \E v \in Workers : work[v].target = n
        BY <2>1, <1>3, <1>4 DEF Eliminating
      <3>2. n \in Nodes /\ n # t /\ work'[w].target # n /\ work[w].target # n
        BY <2>1, <1>3, <1>9, <1>15, <1>18, <1>19
      <3>. QED BY <3>1, <3>2, <1>19, <1>20
    <2>2. CASE n \notin V
      BY <2>2, <1>15, <1>18, <1>20, <1>21
    <2>. QED BY <2>1, <2>2
  <1>29. \A n \in Counted' : \E q \in Counted' : ext'[q].inF /\ n \in From(problem', {q})
    <2>1. \A n \in B : \E q \in B : ext[q].inF /\ n \in From(problem, {q})
      BY <1>3, <1>4 DEF Eliminating
    <2>2. \A q \in B : ext'[q].inF = ext[q].inF
      BY <1>9, <1>20
    <2>. QED BY <2>1, <2>2, <1>7, <1>21
  <1>30. \E n \in Visited' : ext'[n].inF
    <2>1. PICK n \in V : ext[n].inF
      BY <1>3, <1>4, <1>11 DEF Eliminating
    <2>2. n \in Visited' /\ n \in Nodes
      BY <1>9, <1>21
    <2>. QED BY <2>1, <2>2, <1>20
  <1>31. ASSUME NEW K \in SUBSET Counted', \A n \in K : \E p \in K : n \in problem'.succ[p]
         PROVE  K \cap Visited' = {}
    <2>1. K \subseteq B /\ \A n \in K : \E p \in K : n \in problem.succ[p]
      BY <1>7, <1>21, <1>31
    <2>2. K \cap V = {}
      BY <2>1, <1>3, <1>4 DEF Eliminating
    <2>3. ASSUME left = 0, t \in K PROVE FALSE
      <3>1. PICK p \in K : t \in problem.succ[p]
        BY <2>1, <2>3
      <3>2. p \in B /\ p \notin V
        BY <2>1, <2>2
      <3>3. p \in R /\ p # f
        BY <3>1, <3>2, <1>4, <1>11, <1>13 DEF Remaining
      <3>. QED BY <2>3, <3>3, <1>14, <1>15
    <2>. QED BY <2>2, <2>3, <1>21
  <1>32. /\ shared'.size = Cardinality({n \in Counted' : ext'[n].inF /\ ~ext'[n].inS})
         /\ shared'.oldsize = shared'.size + Cardinality(Alive')
    <2>1. {n \in Counted' : ext'[n].inF /\ ~ext'[n].inS} = {n \in B : ext[n].inF /\ ~ext[n].inS}
      BY <1>9, <1>20, <1>21
    <2>2. /\ shared.size = Cardinality({n \in B : ext[n].inF /\ ~ext[n].inS})
          /\ shared.oldsize = shared.size + Cardinality(Alive)
      BY <1>3, <1>4 DEF Eliminating
    <2>. QED BY <2>1, <2>2, <1>1, <1>21
  <1>33. Eliminating'
    <2>1. shared'.iteration > 1 /\ ~interrupted'
      BY <1>1, <1>4, <1>8, <1>18
    <2>. QED BY <2>1, <1>23, <1>24, <1>25, <1>26, <1>27, <1>28, <1>29, <1>30, <1>31, <1>32
             DEF Eliminating
  <1>. QED BY <1>1, <1>7, <1>16, <1>19, <1>33 DEF RoundsInv

\* The assertion of Elimination's expansion: what goes has no predecessor left.
LEMMA EliminationExpansionRounds ==
  ASSUME OwctyInv, RoundsInv, NEW w \in Workers, EliminationExpansion(w)
  PROVE  RoundsInv'
  <1>1. PICK t, V, B, A : t = work[w].target /\ V = Visited /\ B = Counted /\ A = Alive
    OBVIOUS
  <1>2. /\ phase = "elimination" /\ Push(w) /\ found' = found
        /\ ok' = (ok /\ ext[t].predCount = 0)
        /\ ext' = [ext EXCEPT ![t].inS = FALSE]
        /\ shared' = [shared EXCEPT !.size = @ + IF ext[t].inF THEN 1 ELSE 0]
    BY <1>1 DEF EliminationExpansion, Raise
  <1>3. Stored /\ Once /\ Eliminating /\ Complete /\ ext \in [Nodes -> OwctyExtension]
        /\ shared \in Master /\ None \notin Nodes /\ problem \in Graphs
        /\ store \subseteq Nodes /\ ok
    BY <1>2, Numbers, ReachableAreStates DEF OwctyInv, RoundsInv, Eliminating, Stored
  <1>4. /\ Once'
        /\ \A n \in Nodes : \A m : Followed(n, m)' <=> Followed(n, m)
        /\ t \in Nodes /\ work'[w].target = None
        /\ \A v \in Workers : v # w => /\ work'[v].target = work[v].target
                                       /\ work[v].target # t
    BY <1>1, <1>2, <1>3, PushFollows
  <1>5. /\ problem' = problem /\ phase' = phase /\ verdict' = verdict /\ store' = store
        /\ interrupted' = interrupted
    BY <1>2 DEF Push
  <1>6. V \in SUBSET Nodes /\ B \in SUBSET Nodes /\ A \in SUBSET Nodes
    BY <1>1 DEF Visited, Counted, Alive
  <1>7. t \in V /\ V \subseteq B /\ t \in B /\ t \in store
    <2>1. t \in V
      BY <1>1, <1>3, <1>4 DEF Eliminating, Within
    <2>2. V \subseteq B
      BY <1>1, <1>3 DEF Visited, Counted, OwctyExtension, Master
    <2>3. B \subseteq store
      BY <1>1, <1>3 DEF Eliminating
    <2>. QED BY <2>1, <2>2, <2>3
  <1>8. ext[t].inS /\ ext[t].predCount = 0
    BY <1>1, <1>3, <1>7 DEF Eliminating
  <1>9. /\ \A n \in Nodes : /\ ext'[n].predCount = ext[n].predCount
                            /\ ext'[n].iteration = ext[n].iteration
                            /\ ext'[n].inF = ext[n].inF
                            /\ n # t => ext'[n].inS = ext[n].inS
        /\ ext'[t].inS = FALSE
    BY <1>2, <1>3, <1>4 DEF OwctyExtension
  <1>10. /\ shared'.iteration = shared.iteration /\ shared'.candidate = shared.candidate
         /\ shared'.oldsize = shared.oldsize
         /\ shared'.size = shared.size + (IF ext[t].inF THEN 1 ELSE 0)
    BY <1>2, <1>3 DEF Master
  <1>11. Visited' = V /\ Counted' = B /\ Alive' = A \ {t}
    <2>1. Visited' = V /\ Counted' = B
      BY <1>1, <1>9, <1>10 DEF Visited, Counted
    <2>2. \A n \in Nodes : ext'[n].inS /\ ext'[n].inF <=> n \in A /\ n # t
      BY <1>1, <1>9 DEF Alive
    <2>3. Alive' = A \ {t}
      BY <2>2, <1>6 DEF Alive
    <2>. QED BY <2>1, <2>3
  <1>12. Complete'
    <2>1. \A n \in Nodes \ store' : ~ext'[n].inS /\ ext'[n].predCount = 0
      BY <1>3, <1>5, <1>7, <1>9 DEF Complete
    <2>. QED BY <2>1, <1>3, <1>5, <1>9, <1>10 DEF Complete, Accepting
  <1>13. Survivors'
    <2> SUFFICES ASSUME NEW n \in Nodes, IsReal(problem, n)
                 PROVE  n \in A \ {t}
      BY <1>5, <1>11 DEF Survivors
    <2>1. n \in A /\ n \in B
      BY <1>1, <1>3 DEF Eliminating, Survivors
    <2>2. PICK K \in SUBSET From(problem, {n}) :
            n \in K /\ \A m \in K : \E p \in K : m \in problem.succ[p]
      BY <1>3, CycleHolds DEF IsReal
    <2>3. From(problem, {n}) \subseteq B
      <3>1. Closed(problem, B)
        BY <1>1, <1>3 DEF Eliminating
      <3>. QED BY <3>1, <2>1, <1>3, <1>6, FromWithin
    <2>4. K \cap V = {}
      BY <2>2, <2>3, <1>1, <1>3 DEF Eliminating
    <2>. QED BY <2>1, <2>2, <2>4, <1>7
  <1>14. Within(Visited)'
    <2>1. Within(V)
      BY <1>1, <1>3 DEF Eliminating
    <2>2. Within(V)'
      BY <2>1, <1>2, <1>3, PushWithin
    <2>. QED BY <2>2, <1>11 DEF Within
  <1>15. /\ Counted' \subseteq store' /\ Closed(problem', Counted') /\ Alive' \subseteq Counted'
         /\ \A n \in Counted' : n \notin Visited' => ext'[n].inS
    <2>1. /\ B \subseteq store /\ Closed(problem, B) /\ A \subseteq B
          /\ \A n \in B : n \notin V => ext[n].inS
      BY <1>1, <1>3 DEF Eliminating
    <2>. QED BY <2>1, <1>5, <1>6, <1>7, <1>9, <1>11
  <1>16. ASSUME NEW n \in Visited'
         PROVE  ext'[n].inS <=> \E v \in Workers : work'[v].target = n
    <2>1. n \in V /\ n \in Nodes
      BY <1>6, <1>11
    <2>2. ext[n].inS <=> \E v \in Workers : work[v].target = n
      BY <2>1, <1>1, <1>3 DEF Eliminating
    <2>3. CASE n = t
      <3>1. \A v \in Workers : work'[v].target # n
        BY <2>3, <1>3, <1>4
      <3>. QED BY <2>3, <3>1, <1>9
    <2>4. CASE n # t
      <3>1. \A v \in Workers : work'[v].target = n <=> work[v].target = n
        BY <2>1, <2>4, <1>1, <1>3, <1>4
      <3>. QED BY <2>1, <2>2, <2>4, <3>1, <1>9
    <2>. QED BY <2>3, <2>4
  <1>17. \A n \in Counted' : \E q \in Counted' : ext'[q].inF /\ n \in From(problem', {q})
    <2>1. \A n \in B : \E q \in B : ext[q].inF /\ n \in From(problem, {q})
      BY <1>1, <1>3 DEF Eliminating
    <2>. QED BY <2>1, <1>5, <1>6, <1>9, <1>11
  <1>18. \A m \in Counted' : /\ ext'[m].predCount = Cardinality(Remaining(m)')
                             /\ m \in Visited' <=> ext'[m].predCount = 0
    <2>1. \A m \in Nodes : Remaining(m)' = Remaining(m)
      BY <1>1, <1>4, <1>5, <1>6, <1>11 DEF Remaining
    <2>2. \A m \in B : /\ ext[m].predCount = Cardinality(Remaining(m))
                       /\ m \in V <=> ext[m].predCount = 0
      BY <1>1, <1>3 DEF Eliminating
    <2>. QED BY <2>1, <2>2, <1>6, <1>9, <1>11
  <1>19. /\ Visited' # {} => \E n \in Visited' : ext'[n].inF
         /\ \A K \in SUBSET Counted' :
              (\A n \in K : \E p \in K : n \in problem'.succ[p]) => K \cap Visited' = {}
    <2>1. V # {} => \E n \in V : ext[n].inF
      BY <1>1, <1>3 DEF Eliminating
    <2>2. \A K \in SUBSET B :
            (\A n \in K : \E p \in K : n \in problem.succ[p]) => K \cap V = {}
      BY <1>1, <1>3 DEF Eliminating
    <2>. QED BY <2>1, <2>2, <1>5, <1>6, <1>9, <1>11
  <1>20. /\ shared'.size = Cardinality({n \in Counted' : ext'[n].inF /\ ~ext'[n].inS})
         /\ shared'.oldsize = shared'.size + Cardinality(Alive')
    <2>1. PICK E : E = {n \in B : ext[n].inF /\ ~ext[n].inS}
      OBVIOUS
    <2>2. PICK e, a : e = Cardinality(E) /\ a = Cardinality(A)
      OBVIOUS
    <2>3. E \in SUBSET Nodes /\ t \notin E /\ e \in Nat /\ a \in Nat
      BY <2>1, <2>2, <1>6, <1>8, FiniteStates
    <2>4. shared.size = e /\ shared.oldsize = e + a
      BY <2>1, <2>2, <1>1, <1>3 DEF Eliminating
    <2>5. PICK D : D = {n \in Counted' : ext'[n].inF /\ ~ext'[n].inS}
      OBVIOUS
    <2>6. \A n \in B : n \in D <=> n \in E \/ (n = t /\ ext[t].inF)
      BY <2>1, <2>5, <1>6, <1>9, <1>11
    <2>7. CASE ext[t].inF
      <3>1. D = E \cup {t}
        BY <2>1, <2>5, <2>6, <2>7, <1>7, <1>11
      <3>2. Cardinality(D) = e + 1
        BY <2>2, <2>3, <3>1, <1>4, OneMore
      <3>3. t \in A
        BY <2>7, <1>1, <1>4, <1>8 DEF Alive
      <3>4. Cardinality(A \ {t}) = a - 1
        BY <2>2, <3>3, <1>6, OneLess
      <3>5. shared'.size = e + 1 /\ shared'.oldsize = e + a
        BY <2>4, <2>7, <1>10
      <3>6. e + a = (e + 1) + (a - 1)
        BY <2>3
      <3>. QED BY <2>5, <3>2, <3>4, <3>5, <3>6, <1>11
    <2>8. CASE ~ext[t].inF
      <3>1. D = E
        BY <2>1, <2>5, <2>6, <2>8, <1>11
      <3>2. A \ {t} = A
        BY <2>8, <1>1 DEF Alive
      <3>3. shared'.size = e /\ shared'.oldsize = e + a
        BY <2>3, <2>4, <2>8, <1>10
      <3>. QED BY <2>2, <2>5, <3>1, <3>2, <3>3, <1>11
    <2>. QED BY <2>7, <2>8
  <1>21. Eliminating'
    <2>1. shared'.iteration > 1 /\ ~interrupted'
      BY <1>3, <1>5, <1>10 DEF Eliminating
    <2>. QED BY <2>1, <1>12, <1>13, <1>14, <1>15, <1>16, <1>17, <1>18, <1>19, <1>20
             DEF Eliminating
  <1>. QED BY <1>2, <1>3, <1>4, <1>5, <1>8, <1>10, <1>21 DEF RoundsInv

\* What is left once an elimination is over: the states that are still counted,
\* no edge of which leads to one that went.
LEMMA EliminationEnds ==
  ASSUME OwctyInv, RoundsInv, phase = "elimination", Quiet
  PROVE  /\ Eliminating /\ \A n \in Visited : ~ext[n].inS
         /\ Closed(problem, Counted \ Visited) /\ Alive \subseteq Counted \ Visited
         /\ \A n \in Counted \ Visited : ext[n].inS
         /\ \A t \in Counted \ Visited : \E n \in Counted : t \in problem.succ[n]
         /\ Left = Cardinality(Alive) /\ (Left # shared.oldsize <=> shared.size # 0)
         /\ shared.size = Cardinality({n \in Counted : ext[n].inF /\ ~ext[n].inS})
  <1>1. Eliminating /\ shared \in Master /\ problem \in Graphs /\ None \notin Nodes
    BY Numbers DEF RoundsInv, OwctyInv, Stored
  <1>2. Visited \in SUBSET Nodes /\ Counted \in SUBSET Nodes /\ Alive \in SUBSET Nodes
    BY DEF Visited, Counted, Alive
  <1>3. \A n \in Visited : ~ext[n].inS
    <2>1. \A w \in Workers : work[w].target = None
      BY DEF Quiet, Resting
    <2>. QED BY <2>1, <1>1, <1>2 DEF Eliminating
  <1>4. \A n \in Nodes : \A m : Followed(n, m)
    BY QuietFollows
  <1>5. \A t \in Nodes : Remaining(t) = {n \in Counted \ Visited : t \in problem.succ[n]}
    BY <1>2, <1>4 DEF Remaining
  <1>6. \A t \in Counted : t \in Visited <=> ~\E n \in Counted \ Visited : t \in problem.succ[n]
    <2> SUFFICES ASSUME NEW t \in Counted
                 PROVE  t \in Visited <=> ~\E n \in Counted \ Visited : t \in problem.succ[n]
      OBVIOUS
    <2>1. PICK R : R = Remaining(t)
      OBVIOUS
    <2>2. R \in SUBSET Nodes /\ t \in Nodes
      BY <2>1, <1>2, <1>5
    <2>3. t \in Visited <=> Cardinality(R) = 0
      BY <2>1, <1>1 DEF Eliminating
    <2>4. R = {n \in Counted \ Visited : t \in problem.succ[n]}
      BY <2>1, <2>2, <1>5
    <2>. QED BY <2>2, <2>3, <2>4, NoStates
  <1>7. Closed(problem, Counted \ Visited)
    <2> SUFFICES ASSUME NEW n \in Counted \ Visited, NEW t \in problem.succ[n]
                 PROVE  t \in Counted \ Visited
      BY DEF Closed
    <2>1. t \in Counted
      BY <1>1 DEF Eliminating, Closed
    <2>. QED BY <2>1, <1>6
  <1>8. Alive \subseteq Counted \ Visited
    BY <1>1, <1>3 DEF Eliminating, Alive
  <1>9. \A n \in Counted \ Visited : ext[n].inS
    BY <1>1 DEF Eliminating
  <1>10. /\ shared.size = Cardinality({n \in Counted : ext[n].inF /\ ~ext[n].inS})
         /\ shared.oldsize = shared.size + Cardinality(Alive)
    BY <1>1 DEF Eliminating
  <1>11. Left = Cardinality(Alive) /\ (Left # shared.oldsize <=> shared.size # 0)
    <2>1. PICK a \in Nat : a = Cardinality(Alive)
      BY <1>2, FiniteStates
    <2>2. shared.size \in Int /\ shared.oldsize = shared.size + a
      BY <2>1, <1>1, <1>10 DEF Master
    <2>. QED BY <2>1, <2>2 DEF Left
  <1>. QED BY <1>1, <1>3, <1>6, <1>7, <1>8, <1>9, <1>10, <1>11

LEMMA EndEliminationRounds ==
  ASSUME OwctyInv, Fits(problem), RoundsInv, InTime', EndElimination
  PROVE  RoundsInv'
  <1>1. /\ phase = "elimination" /\ Quiet /\ StartReachability
        /\ problem' = problem /\ verdict' = verdict /\ store' = store /\ ok' = ok
        /\ shared' = [shared EXCEPT !.oldsize = Left, !.iteration = @ + 1,
                                    !.size = Cardinality(QueueAll)]
    BY DEF EndElimination
  <1>2. /\ Eliminating /\ Complete
        /\ Closed(problem, Counted \ Visited) /\ Alive \subseteq Counted \ Visited
        /\ \A n \in Counted \ Visited : ext[n].inS
        /\ Left = Cardinality(Alive)
    BY <1>1, EliminationEnds DEF Eliminating
  <1>3. shared \in Master /\ ext \in [Nodes -> OwctyExtension]
    BY DEF OwctyInv
  <1>4. /\ shared'.iteration = shared.iteration + 1 /\ shared'.oldsize = Left
        /\ shared'.candidate = shared.candidate
    BY <1>1, <1>3 DEF Master
  <1>5. shared'.iteration \in Nat \ {0}
    BY <1>3, <1>4 DEF Master
  <1>6. \A n \in Nodes : ext[n].iteration < shared'.iteration
    <2>1. \A n \in Nodes : ext[n].iteration \in Nat /\ ext[n].iteration <= shared.iteration
      BY <1>2, <1>3 DEF Complete, OwctyExtension
    <2>. QED BY <2>1, <1>3, <1>4 DEF Master
  <1>7. \E C \in SUBSET Nodes : /\ Alive \subseteq C /\ Closed(problem, C)
                                /\ \A n \in C : ext[n].inF => ext[n].inS
    <2>1. Counted \ Visited \in SUBSET Nodes
      BY DEF Counted
    <2>. QED BY <2>1, <1>2
  <1>8. /\ Closed(problem, store) /\ Survivors
        /\ \A n \in Nodes : ext[n].inF <=> n \in store /\ Accepting(n)
        /\ \A n \in Nodes \ store : ~ext[n].inS /\ ext[n].predCount = 0
    BY <1>2 DEF Complete, Eliminating
  <1>9. Reaching' /\ Once'
    BY <1>1, <1>2, <1>4, <1>5, <1>6, <1>7, <1>8, ReachabilityStarts
  <1>10. phase' = "reachability"
    BY <1>1 DEF StartReachability, Section
  <1>. QED BY <1>1, <1>4, <1>9, <1>10 DEF RoundsInv

\* When no accepting state is left there was none on a cycle.
LEMMA EndValidRounds ==
  ASSUME OwctyInv, RoundsInv, EndValid
  PROVE  RoundsInv'
  <1>1. /\ phase = "elimination" /\ Quiet /\ Left = 0 /\ phase' = "done" /\ verdict' = "valid"
        /\ problem' = problem /\ ok' = ok /\ open' = open /\ work' = work
    BY DEF EndValid, Report
  <1>2. Eliminating /\ Left = Cardinality(Alive)
    BY <1>1, EliminationEnds
  <1>3. Alive = {}
    <2>1. Alive \in SUBSET Nodes
      BY DEF Alive
    <2>. QED BY <2>1, <1>1, <1>2, NoStates
  <1>4. \A n \in Nodes : ~IsReal(problem, n)
    BY <1>2, <1>3 DEF Eliminating, Survivors
  <1>5. Once'
    BY <1>1 DEF RoundsInv, Once, At
  <1>. QED BY <1>1, <1>4, <1>5 DEF RoundsInv

\* Where every state has a predecessor, and is reached from a state of A, some
\* states of A are on cycles: the first ones in the order of the paths.
Preceded(g, B) == \A n \in B : \E p \in B : n \in g.succ[p]
Sources(g, A, B) == A \subseteq B /\ \A n \in B : \E q \in A : n \in From(g, {q})

LEMMA FirstExists ==
  ASSUME NEW g \in Graphs, NEW B \in SUBSET Nodes, NEW A, A # {},
         Preceded(g, B), Sources(g, A, B)
  PROVE  \E Z : FirstOf(g, A, Z)
  <1> DEFINE Before(q) == {p \in A : q \in From(g, g.succ[p])}
             All == {Before(q) : q \in A}
  <1>0. /\ A \in SUBSET B
        /\ \A n \in B : \E p \in B : n \in g.succ[p]
        /\ \A n \in B : \E q \in A : n \in From(g, {q})
    BY DEF Preceded, Sources
  <1>1. ASSUME NEW q \in A PROVE Before(q) # {}
    <2>1. PICK p \in B : q \in g.succ[p]
      BY <1>0
    <2>2. PICK r \in A : p \in From(g, {r})
      BY <1>0
    <2>3. r \in Nodes
      BY <1>0
    <2>4. p = r \/ p \in From(g, g.succ[r])
      BY <2>2, <2>3, FromOneOrNext
    <2>5. q \in From(g, g.succ[r])
      <3>1. CASE p = r
        BY <2>1, <2>3, <3>1, NextIsFrom
      <3>2. CASE p \in From(g, g.succ[r])
        BY <2>1, <3>2, FromNext
      <3>. QED BY <2>4, <3>1, <3>2
    <2>. QED BY <2>5
  <1>2. ASSUME NEW q \in A, NEW p \in Before(q) PROVE Before(p) \subseteq Before(q)
    <2> SUFFICES ASSUME NEW r \in A, p \in From(g, g.succ[r]) PROVE q \in From(g, g.succ[r])
      OBVIOUS
    <2>1. q \in From(g, g.succ[p]) /\ p \in Nodes
      BY <1>0
    <2>2. From(g, g.succ[p]) \subseteq From(g, {p})
      BY <2>1, NextIsFrom
    <2>3. From(g, {p}) \subseteq From(g, g.succ[r])
      <3>1. {p} \subseteq From(g, g.succ[r])
        OBVIOUS
      <3>. QED BY <3>1, FromFrom
    <2>. QED BY <2>1, <2>2, <2>3
  <1>3. PICK Z \in All : \A Y \in All : ~(<<Y, Z>> \in StrictSubsetOrdering(Nodes))
    <2>1. IsWellFoundedOn(StrictSubsetOrdering(Nodes), FiniteSubsetsOf(Nodes))
      BY FS_StrictSubsetOrderingWellFounded
    <2>2. FiniteSubsetsOf(Nodes) = SUBSET Nodes
      BY VisitAssumption, FS_FiniteSubsetsOfFinite
    <2>3. All \subseteq SUBSET Nodes /\ All # {}
      <3>1. PICK q : q \in A
        OBVIOUS
      <3>2. Before(q) \in All
        BY <3>1
      <3>. QED BY <3>2, <1>0
    <2> HIDE DEF All
    <2>. QED BY <2>1, <2>2, <2>3, WFMin
  <1>4. PICK q \in A : Z = Before(q)
    BY <1>3
  <1>5. ASSUME NEW z \in Z PROVE Before(z) = Z
    <2>1. z \in A /\ Before(z) \subseteq Z /\ Before(z) \in All
      BY <1>2, <1>4
    <2>2. Before(z) \in SUBSET Nodes /\ Z \in SUBSET Nodes
      BY <1>0, <1>4
    <2>3. ~(<<Before(z), Z>> \in StrictSubsetOrdering(Nodes))
      BY <2>1, <1>3
    <2> HIDE DEF Before
    <2>. QED BY <2>1, <2>2, <2>3 DEF StrictSubsetOrdering
  <1>6. \A z \in Z : OnCycleOf(g, z)
    <2>1. ASSUME NEW z \in Z PROVE z \in From(g, g.succ[z])
      <3>1. z \in Before(z)
        BY <1>5
      <3>. QED BY <3>1
    <2>. QED BY <2>1 DEF OnCycleOf
  <1>7. ASSUME NEW z \in Z, NEW p \in A, z \in From(g, {p}) PROVE p \in Z
    <2>1. CASE z = p
      BY <2>1
    <2>2. CASE z \in From(g, g.succ[p])
      <3>1. p \in Before(z)
        BY <2>2
      <3>. QED BY <3>1, <1>5
    <2>. QED BY <2>1, <2>2, <1>0, <1>7, FromOneOrNext
  <1>8. Z # {} /\ Z \in SUBSET A
    BY <1>1, <1>4
  <1>. QED BY <1>6, <1>7, <1>8 DEF FirstOf

\* When an elimination takes nothing away, some states of S are on cycles.
LEMMA FirstIsThere ==
  ASSUME OwctyInv, RoundsInv, phase = "elimination", Quiet,
         Left = shared.oldsize, Left # 0
  PROVE  (\E Z \in SUBSET Nodes : First(Z)) /\ \E n \in Nodes : IsReal(problem, n)
  <1>1. /\ Eliminating /\ Complete /\ problem \in Graphs /\ store \subseteq Nodes
        /\ store \subseteq From(problem, problem.initials)
    BY EliminationEnds, ReachableAreStates DEF Eliminating, OwctyInv, Stored
  <1>2. PICK V, B, A : V = Visited /\ B = Counted /\ A = Alive
    OBVIOUS
  <1>3. V \in SUBSET Nodes /\ B \in SUBSET Nodes /\ A \in SUBSET Nodes
    BY <1>2 DEF Visited, Counted, Alive
  <1>4. /\ \A n \in V : ~ext[n].inS
        /\ A \subseteq B \ V /\ \A n \in B \ V : ext[n].inS
        /\ \A t \in B \ V : \E n \in B : t \in problem.succ[n]
        /\ Left = Cardinality(A) /\ (Left # shared.oldsize <=> shared.size # 0)
        /\ shared.size = Cardinality({n \in B : ext[n].inF /\ ~ext[n].inS})
    BY <1>2, EliminationEnds
  <1>5. V \subseteq B
    <2>1. shared.iteration \in Nat /\ shared.iteration >= shared.iteration - 1
      BY DEF OwctyInv, Master
    <2>. QED BY <2>1, <1>2 DEF Visited, Counted
  <1>6. V = {}
    <2>1. {n \in B : ext[n].inF /\ ~ext[n].inS} = {}
      <3>1. PICK E : E = {n \in B : ext[n].inF /\ ~ext[n].inS}
        OBVIOUS
      <3>2. E \in SUBSET Nodes /\ Cardinality(E) = 0
        BY <3>1, <1>3, <1>4
      <3>. QED BY <3>1, <3>2, NoStates
    <2>2. V # {} => \E n \in V : ext[n].inF
      BY <1>1, <1>2 DEF Eliminating
    <2>. QED BY <2>1, <2>2, <1>4, <1>5
  <1>7. A # {}
    BY <1>3, <1>4, NoStates
  <1>8. A = {n \in B : ext[n].inF}
    BY <1>2, <1>3, <1>4, <1>6 DEF Alive
  <1>9. \A n \in B : \E q \in A : n \in From(problem, {q})
    <2>1. \A n \in B : \E q \in B : ext[q].inF /\ n \in From(problem, {q})
      BY <1>1, <1>2 DEF Eliminating
    <2>. QED BY <2>1, <1>8
  <1>10. PICK Z : FirstOf(problem, A, Z)
    <2>1. Preceded(problem, B) /\ Sources(problem, A, B)
      BY <1>4, <1>6, <1>9 DEF Preceded, Sources
    <2>. QED BY <2>1, <1>1, <1>3, <1>7, FirstExists
  <1>11. Z \in SUBSET Nodes /\ First(Z)
    BY <1>2, <1>3, <1>10 DEF First, FirstOf
  <1>12. \E n \in Nodes : IsReal(problem, n)
    <2>1. PICK z \in Z : TRUE
      BY <1>10 DEF FirstOf
    <2>2. z \in Nodes /\ ext[z].inF
      BY <2>1, <1>3, <1>8, <1>10 DEF FirstOf
    <2>3. z \in store /\ Accepting(z)
      BY <2>2, <1>1 DEF Complete
    <2>. QED BY <2>1, <2>2, <2>3, <1>1, <1>10 DEF IsReal, Accepting, FirstOf
  <1>. QED BY <1>11, <1>12

LEMMA EndInvalidRounds ==
  ASSUME OwctyInv, RoundsInv, EndInvalid
  PROVE  RoundsInv'
  <1>1. /\ phase = "elimination" /\ Quiet /\ Left = shared.oldsize /\ Left # 0
        /\ problem' = problem /\ store' = store /\ ext' = ext /\ found' = found /\ ok' = ok
    BY DEF EndInvalid
  <1>2. (\E Z \in SUBSET Nodes : First(Z)) /\ \E n \in Nodes : IsReal(problem, n)
    BY <1>1, FirstIsThere
  <1>3. CASE Report("cycle") /\ UNCHANGED shared
    <2>1. phase' = "done" /\ verdict' = "cycle" /\ open' = open /\ work' = work
      BY <1>3 DEF Report
    <2>2. Once'
      BY <2>1 DEF RoundsInv, Once, At
    <2>. QED BY <2>1, <2>2, <1>1, <1>2 DEF RoundsInv
  <1>4. CASE /\ Section("findCE", {})
             /\ shared' = [shared EXCEPT !.oldsize = Left, !.iteration = @ + 1]
             /\ UNCHANGED verdict
    <2>1. /\ Once' /\ Within({})' /\ interrupted' = FALSE /\ phase' = "findCE"
      BY <1>4, SectionFollows
    <2>2. shared \in Master /\ ext \in [Nodes -> OwctyExtension] /\ shared.iteration \in Nat
      BY DEF OwctyInv, Master
    <2>3. shared'.iteration = shared.iteration + 1 /\ shared'.candidate = None
      BY <1>1, <1>4, <2>2 DEF Master, RoundsInv
    <2>4. Eliminating /\ Complete /\ Survivors /\ shared.iteration > 1
      BY <1>1, EliminationEnds DEF Eliminating
    <2>5. \A n \in Nodes : ext[n].iteration \in Nat /\ ext[n].iteration < shared'.iteration
      BY <2>2, <2>3, <2>4 DEF Complete, OwctyExtension
    <2>6. Visited' = {} /\ Alive' = Alive
      <3>1. \A n \in Nodes : ext'[n].iteration # shared'.iteration
        BY <2>2, <2>3, <2>5, <1>1
      <3>. QED BY <3>1, <1>1 DEF Visited, Alive
    <2>7. Complete'
      <3>1. \A n \in Nodes : ext'[n].iteration <= shared'.iteration
        BY <2>2, <2>3, <2>5, <1>1
      <3>. QED BY <3>1, <2>4, <1>1 DEF Complete, Accepting
    <2>8. Survivors'
      BY <2>4, <2>6, <1>1 DEF Survivors
    <2>9. Within(Visited)'
      BY <2>1, <2>6 DEF Within
    <2>10. \E S \in SUBSET Nodes : /\ Visited' \subseteq S /\ Closed(problem', S)
                                   /\ Alive' \subseteq S /\ \A n \in S : ext'[n].inS
      <3>1. PICK S : S = Counted \ Visited
        OBVIOUS
      <3>2. /\ S \in SUBSET Nodes /\ Closed(problem, S) /\ Alive \subseteq S
            /\ \A n \in S : ext[n].inS
        BY <3>1, <1>1, EliminationEnds DEF Counted
      <3>. QED BY <3>2, <2>6, <1>1
    <2>11. PICK Z \in SUBSET Nodes : First(Z)
      BY <1>2
    <2>12. First(Z)' /\ Avoids(Z)'
      BY <2>6, <2>11, <1>1 DEF First, Avoids
    <2>13. shared'.iteration > 1
      BY <2>2, <2>3, <2>4
    <2>14. Looking'
      BY <2>1, <2>3, <2>6, <2>7, <2>8, <2>9, <2>10, <2>11, <2>12, <2>13 DEF Looking
    <2>. QED BY <2>1, <2>3, <2>14, <1>1, <1>4 DEF RoundsInv
  <1>. QED BY <1>3, <1>4 DEF EndInvalid

-----------------------------------------------------------------------------
(* FindCE: the search from the first of the states on cycles, in the order *)
(* of the cells, comes back, for no search before visited it.              *)

\* Between two searches the first states on cycles are still to be tried.
LEMMA BetweenSearches ==
  ASSUME OwctyInv, Fits(problem), Looking, Quiet, ~CycleFound
  PROVE  /\ Closed(problem, Visited)
         /\ \E Z \in SUBSET Candidates :
              /\ First(Z) /\ Avoids(Z)
              /\ shared.candidate # None => \A z \in Z : Cell[shared.candidate] < Cell[z]
  <1>1. /\ problem \in Graphs /\ store \subseteq Nodes /\ Complete /\ None \notin Nodes
    BY Numbers, ReachableAreStates DEF OwctyInv, Stored, Looking
  <1>2. PICK V, c : V = Visited /\ c = shared.candidate
    OBVIOUS
  <1>3. V \in SUBSET Nodes /\ (c # None => c \in V)
    BY <1>2 DEF Visited, Looking
  <1>4. \A n \in V : \A t \in problem.succ[n] : t \in V /\ t # c
    <2>1. \A n \in V : \A t \in problem.succ[n] : Followed(n, t)
      BY <1>3, QuietFollows
    <2>. QED BY <2>1, <1>2 DEF Looking
  <1>5. Closed(problem, V)
    BY <1>4 DEF Closed
  <1>6. PICK Z \in SUBSET Nodes :
          /\ First(Z)
          /\ \/ c \in Z
             \/ Avoids(Z) /\ (c # None => \A z \in Z : Cell[c] < Cell[z])
    BY <1>2 DEF Looking
  <1>7. c \notin Z
    <2> SUFFICES ASSUME c \in Z PROVE FALSE
      OBVIOUS
    <2>1. c \in V /\ c \in Nodes /\ OnCycleOf(problem, c)
      BY <1>1, <1>3, <1>6 DEF First, FirstOf
    <2>2. problem.succ[c] \subseteq V \ {c} /\ V \ {c} \in SUBSET Nodes
      BY <2>1, <1>3, <1>4
    <2>3. Closed(problem, V \ {c})
      BY <1>4 DEF Closed
    <2>4. From(problem, problem.succ[c]) \subseteq V \ {c}
      BY <2>2, <2>3, <1>1, FromWithin
    <2>. QED BY <2>1, <2>4 DEF OnCycleOf
  <1>8. Z \in SUBSET Candidates
    <2> SUFFICES ASSUME NEW z \in Z PROVE z \in Candidates
      OBVIOUS
    <2>1. z \in Nodes /\ ext[z].inS /\ ext[z].inF
      BY <1>6 DEF First, FirstOf, Alive
    <2>2. z \in Iterated
      <3>1. z \in store
        BY <2>1, <1>1 DEF Complete
      <3>. QED BY <2>1, <3>1 DEF Fits, Iterated
    <2>3. ext[z].iteration # shared.iteration
      <3>1. {z} \in SUBSET Nodes
        BY <2>1
      <3>2. z \in From(problem, {z})
        BY <3>1, FromItself
      <3>. QED BY <2>1, <3>2, <1>6, <1>7 DEF Avoids, Visited
    <2>4. c = None \/ Cell[z] > Cell[c]
      <3>1. c # None => Cell[c] < Cell[z] /\ c \in Nodes
        BY <1>3, <1>6, <1>7
      <3>2. Cell \in [Nodes -> Int]
        BY VisitAssumption DEF Injection, IsInjective
      <3>. QED BY <2>1, <3>1, <3>2
    <2>. QED BY <2>1, <2>2, <2>3, <2>4, <1>2 DEF Candidates
  <1>. QED BY <1>2, <1>5, <1>6, <1>7, <1>8

LEMMA TryNextRounds ==
  ASSUME OwctyInv, Fits(problem), InTime, RoundsInv, TryNext
  PROVE  RoundsInv'
  <1>1. PICK n \in Candidates :
          /\ \A m \in Candidates : Cell[n] <= Cell[m]
          /\ Section("findCE", {n})
          /\ ext' = [ext EXCEPT ![n].iteration = Mark]
          /\ shared' = [shared EXCEPT !.candidate = n]
    BY DEF TryNext
  <1>2. /\ phase = "findCE" /\ Quiet /\ ~CycleFound
        /\ problem' = problem /\ verdict' = verdict /\ store' = store /\ found' = found
        /\ ok' = ok
    BY DEF TryNext
  <1>3. /\ problem \in Graphs /\ store \subseteq Nodes /\ Looking /\ Complete /\ Survivors
        /\ None \notin Nodes /\ shared \in Master /\ ext \in [Nodes -> OwctyExtension]
        /\ shared.iteration > 1
    BY <1>2, Numbers, ReachableAreStates DEF OwctyInv, Stored, Looking, RoundsInv
  <1>4. /\ n \in Nodes /\ n \in Alive /\ n \notin Visited /\ n # None
    <2>1. n \in Nodes
      BY <1>1, <1>3 DEF Candidates, Iterated
    <2>. QED BY <2>1, <1>1, <1>3 DEF Candidates, Alive, Visited
  <1>5. PICK V, A, i : V = Visited /\ A = Alive /\ i = shared.iteration
    OBVIOUS
  <1>6. i \in Nat /\ Mark = i /\ V \in SUBSET Nodes
    BY <1>3, <1>5, SmallNumbers DEF Mark, InTime, Master, Visited
  <1>7. shared'.candidate = n /\ shared'.iteration = i
    BY <1>1, <1>3, <1>5 DEF Master
  <1>8. /\ ext'[n].iteration = i
        /\ \A m \in Nodes : /\ ext'[m].inS = ext[m].inS /\ ext'[m].inF = ext[m].inF
                            /\ ext'[m].predCount = ext[m].predCount
                            /\ m # n => ext'[m].iteration = ext[m].iteration
    BY <1>1, <1>3, <1>4, <1>6 DEF OwctyExtension
  <1>9. Visited' = V \cup {n} /\ Alive' = A
    <2>1. \A m \in Nodes : ext'[m].iteration = i <=> m \in V \/ m = n
      BY <1>5, <1>8 DEF Visited
    <2>2. Visited' = V \cup {n}
      BY <2>1, <1>4, <1>6, <1>7 DEF Visited
    <2>3. Alive' = A
      BY <1>5, <1>8 DEF Alive
    <2>. QED BY <2>2, <2>3
  <1>10. /\ Once' /\ Within({n})' /\ interrupted' = FALSE /\ phase' = "findCE"
         /\ \A m \in Nodes : \A t : Followed(m, t)' <=> m # n
    <2>1. {n} \in SUBSET Nodes
      BY <1>4
    <2>. QED BY <2>1, <1>1, SectionFollows
  <1>11. Complete'
    <2>1. \A m \in Nodes : ext'[m].iteration <= shared'.iteration
      BY <1>3, <1>5, <1>6, <1>7, <1>8 DEF Complete
    <2>. QED BY <2>1, <1>2, <1>3, <1>8 DEF Complete, Accepting
  <1>12. Survivors'
    BY <1>2, <1>3, <1>5, <1>9 DEF Survivors
  <1>13. Within(Visited)'
    BY <1>9, <1>10 DEF Within
  <1>14. \E S \in SUBSET Nodes : /\ Visited' \subseteq S /\ Closed(problem', S)
                                 /\ Alive' \subseteq S /\ \A m \in S : ext'[m].inS
    <2>1. PICK S \in SUBSET Nodes : /\ V \subseteq S /\ Closed(problem, S)
                                    /\ A \subseteq S /\ \A m \in S : ext[m].inS
      BY <1>3, <1>5 DEF Looking
    <2>2. Visited' \subseteq S /\ \A m \in S : ext'[m].inS
      BY <2>1, <1>4, <1>5, <1>8, <1>9
    <2>. QED BY <2>1, <2>2, <1>2, <1>9
  <1>15. Closed(problem, V)
    BY <1>2, <1>3, <1>5, BetweenSearches
  <1>16. PICK Z \in SUBSET Candidates :
           /\ First(Z) /\ Avoids(Z)
           /\ shared.candidate # None => \A z \in Z : Cell[shared.candidate] < Cell[z]
    BY <1>2, <1>3, BetweenSearches
  <1>17. Z \in SUBSET Nodes /\ First(Z)'
    <2>1. Z \in SUBSET Nodes
      BY <1>16 DEF First, FirstOf, Alive
    <2>. QED BY <2>1, <1>2, <1>5, <1>9, <1>16 DEF First
  <1>18. n \in Z \/ (Avoids(Z)' /\ \A z \in Z : Cell[n] < Cell[z])
    <2> SUFFICES ASSUME n \notin Z PROVE Avoids(Z)' /\ \A z \in Z : Cell[n] < Cell[z]
      OBVIOUS
    <2>1. \A z \in Z : z \notin From(problem, {n})
      BY <1>4, <1>16 DEF First, FirstOf
    <2>2. \A m \in V : \A z \in Z : z \notin From(problem, {m})
      BY <1>5, <1>16 DEF Avoids
    <2>3. Avoids(Z)'
      BY <2>1, <2>2, <1>2, <1>9 DEF Avoids
    <2>4. ASSUME NEW z \in Z PROVE Cell[n] < Cell[z]
      <3>1. Cell[n] <= Cell[z] /\ z \in Nodes /\ z # n
        BY <1>1, <1>16, <1>17
      <3>2. Cell[z] # Cell[n] /\ Cell[z] \in Int /\ Cell[n] \in Int
        BY <3>1, <1>4, VisitAssumption DEF Injection, IsInjective
      <3>. QED BY <3>1, <3>2
    <2>. QED BY <2>3, <2>4
  <1>19. \A m \in Visited' : \A t \in problem'.succ[m] :
           Followed(m, t)' => t \in Visited' /\ t # shared'.candidate
    <2> SUFFICES ASSUME NEW m \in Visited', NEW t \in problem.succ[m], Followed(m, t)'
                 PROVE  t \in Visited' /\ t # n
      BY <1>2, <1>7
    <2>1. m # n /\ m \in V
      BY <1>4, <1>6, <1>9, <1>10
    <2>2. t \in V
      BY <2>1, <1>15 DEF Closed
    <2>. QED BY <2>2, <1>4, <1>5, <1>9
  <1>20. Looking'
    <2>1. shared'.iteration > 1 /\ ~interrupted' /\ shared'.candidate \in Visited'
      BY <1>3, <1>5, <1>7, <1>9, <1>10
    <2>2. \E Y \in SUBSET Nodes :
            /\ First(Y)'
            /\ \/ shared'.candidate \in Y
               \/ /\ Avoids(Y)'
                  /\ shared'.candidate # None => \A z \in Y : Cell[shared'.candidate] < Cell[z]
      BY <1>7, <1>17, <1>18
    <2>. QED BY <2>1, <2>2, <1>11, <1>12, <1>13, <1>14, <1>19 DEF Looking
  <1>. QED BY <1>2, <1>10, <1>20 DEF RoundsInv

LEMMA FindCEEdgeRounds ==
  ASSUME OwctyInv, InTime, RoundsInv, NEW w \in Workers, FindCEEdge(w)
  PROVE  RoundsInv'
  <1>1. PICK t \in work[w].todo :
          LET back == ext[t].inS /\ t = shared.candidate
          IN /\ found' = [found EXCEPT ![w] = IF back THEN t ELSE @]
             /\ ext' = [ext EXCEPT ![t].iteration = IF ext[t].inS /\ ~back THEN Mark ELSE @]
             /\ Edge(w, t, IF back THEN "Terminate"
                           ELSE IF ext[t].inS THEN Revisit(t) ELSE "Forget")
    BY DEF FindCEEdge
  <1>2. phase = "findCE" /\ shared' = shared /\ ok' = ok
    BY DEF FindCEEdge
  <1>3. /\ Stored /\ Once /\ problem \in Graphs /\ store \subseteq Nodes /\ Looking /\ Complete
        /\ Survivors /\ None \notin Nodes /\ shared \in Master
        /\ ext \in [Nodes -> OwctyExtension] /\ shared.iteration > 1
        /\ found \in [Workers -> Nodes \cup {None}]
    BY <1>2, Numbers, ReachableAreStates DEF OwctyInv, Stored, Looking, RoundsInv
  <1>4. PICK f, V, A, i, c : /\ f = work[w].from /\ V = Visited /\ A = Alive
                             /\ i = shared.iteration /\ c = shared.candidate
    OBVIOUS
  <1>5. i \in Nat /\ Mark = i /\ V \in SUBSET Nodes
    BY <1>3, <1>4, SmallNumbers DEF Mark, InTime, Master, Visited
  <1>6. PICK S \in SUBSET Nodes : /\ V \subseteq S /\ Closed(problem, S)
                                  /\ A \subseteq S /\ \A m \in S : ext[m].inS
    BY <1>3, <1>4 DEF Looking
  <1>7. Within(V) /\ f \in V /\ f \in Nodes /\ t \in Nodes /\ t \in problem.succ[f]
        /\ t \in S /\ ext[t].inS /\ t \in store
    <2>1. Within(V) /\ f \in V
      BY <1>1, <1>3, <1>4 DEF Looking, Within
    <2>2. f \in store /\ t \in problem.succ[f]
      BY <1>1, <1>3, <1>4 DEF Stored
    <2>3. t \in S
      BY <2>1, <2>2, <1>6 DEF Closed
    <2>4. t \in store
      BY <2>2, <1>3 DEF Complete, Closed
    <2>. QED BY <2>1, <2>2, <2>3, <2>4, <1>3, <1>6
  <1>8. PICK action : action = IF t = c THEN "Terminate" ELSE IF t \in V THEN "Forget"
                                                                   ELSE "Expand"
    OBVIOUS
  <1>9. /\ found' = [found EXCEPT ![w] = IF t = c THEN t ELSE @]
        /\ ext' = [ext EXCEPT ![t].iteration = IF t # c THEN i ELSE @]
        /\ Edge(w, t, action)
    <2>1. Revisit(t) = IF t \in V THEN "Forget" ELSE "Expand"
      BY <1>4, <1>7 DEF Revisit, Visited
    <2>. QED BY <2>1, <1>1, <1>4, <1>5, <1>7, <1>8
  <1>10. /\ work'[w].target = IF action = "Expand" THEN t ELSE None
         /\ problem' = problem /\ phase' = phase /\ verdict' = verdict /\ store' = store
         /\ interrupted' = (interrupted \/ action = "Terminate")
    <2>1. action # "Follow"
      BY <1>8
    <2>2. /\ work'[w].target = IF action = "Expand" \/ (action = "Follow" /\ t \notin store)
                               THEN t ELSE None
          /\ store' = store \cup {t} /\ problem' = problem /\ phase' = phase
          /\ verdict' = verdict
          /\ interrupted' = (interrupted \/ action = "Terminate")
      BY <1>3, <1>9, EdgeTarget
    <2>. QED BY <2>1, <2>2, <1>7
  <1>11. /\ ext'[t].iteration = (IF t # c THEN i ELSE ext[t].iteration)
         /\ \A m \in Nodes : /\ ext'[m].inS = ext[m].inS /\ ext'[m].inF = ext[m].inF
                             /\ ext'[m].predCount = ext[m].predCount
                             /\ m # t => ext'[m].iteration = ext[m].iteration
    BY <1>3, <1>7, <1>9 DEF OwctyExtension
  <1>12. Visited' = V \cup {t} /\ Alive' = A /\ (t = c => t \in V)
    <2>1. t = c => t \in V
      BY <1>3, <1>4, <1>7 DEF Looking
    <2>2. \A m \in Nodes : m \in V <=> ext[m].iteration = i
      BY <1>4 DEF Visited
    <2>3. \A m \in Nodes : ext'[m].iteration = i <=> m \in V \/ m = t
      BY <2>1, <2>2, <1>7, <1>11
    <2>4. Visited' = V \cup {t}
      BY <2>3, <1>2, <1>4, <1>5, <1>7 DEF Visited
    <2>5. Alive' = A
      BY <1>4, <1>11 DEF Alive
    <2>. QED BY <2>1, <2>4, <2>5
  <1>13. /\ CycleFound => CycleFound'
         /\ t = c => CycleFound'
    <2>1. \A v \in Workers : found[v] # None => found'[v] # None
      BY <1>3, <1>7, <1>9
    <2>2. t = c => found'[w] # None
      BY <1>3, <1>7, <1>9
    <2>. QED BY <2>1, <2>2 DEF CycleFound
  <1>14. interrupted' => CycleFound'
    BY <1>3, <1>8, <1>10, <1>13 DEF Looking
  <1>15. Once'
    <2>1. CASE t = c
      <3>1. Edge(w, t, "Terminate")
        BY <2>1, <1>8, <1>9
      <3>. QED BY <3>1, <1>3, TerminateOnce
    <2>2. CASE t # c
      <3>1. action # "Terminate" /\ (work'[w].target # None => t \notin V)
        BY <2>2, <1>8, <1>10
      <3>. QED BY <3>1, <1>3, <1>5, <1>7, <1>9, EdgeFollows
    <2>. QED BY <2>1, <2>2
  <1>16. Complete'
    <2>1. \A m \in Nodes : ext'[m].iteration <= shared'.iteration
      BY <1>2, <1>3, <1>4, <1>5, <1>7, <1>11 DEF Complete
    <2>. QED BY <2>1, <1>3, <1>10, <1>11 DEF Complete, Accepting
  <1>17. Survivors'
    BY <1>3, <1>4, <1>10, <1>12 DEF Survivors
  <1>18. Within(Visited)'
    <2>1. PICK U : U = V \cup {t}
      OBVIOUS
    <2>2. Within(U)'
      BY <2>1, <1>3, <1>7, <1>9, EdgeAdds
    <2>. QED BY <2>1, <2>2, <1>12 DEF Within
  <1>19. shared'.candidate # None => shared'.candidate \in Visited'
    BY <1>2, <1>3, <1>4, <1>12 DEF Looking
  <1>20. \E U \in SUBSET Nodes : /\ Visited' \subseteq U /\ Closed(problem', U)
                                 /\ Alive' \subseteq U /\ \A m \in U : ext'[m].inS
    BY <1>6, <1>7, <1>10, <1>11, <1>12
  <1>21. \E Z \in SUBSET Nodes :
           /\ First(Z)'
           /\ \/ shared'.candidate \in Z
              \/ /\ Avoids(Z)'
                 /\ shared'.candidate # None => \A z \in Z : Cell[shared'.candidate] < Cell[z]
    <2>1. PICK Z \in SUBSET Nodes :
            /\ First(Z)
            /\ \/ c \in Z
               \/ Avoids(Z) /\ (c # None => \A z \in Z : Cell[c] < Cell[z])
      BY <1>3, <1>4 DEF Looking
    <2>2. First(Z)'
      BY <2>1, <1>4, <1>10, <1>12 DEF First
    <2>3. Avoids(Z) => Avoids(Z)'
      <3> SUFFICES ASSUME Avoids(Z) PROVE Avoids(Z)'
        OBVIOUS
      <3>1. \A m \in V : \A z \in Z : z \notin From(problem, {m})
        BY <1>4 DEF Avoids
      <3>2. From(problem, {t}) \subseteq From(problem, {f})
        <4>1. {t} \subseteq From(problem, {f})
          <5>1. t \in From(problem, problem.succ[f])
                /\ From(problem, problem.succ[f]) \subseteq From(problem, {f})
            BY <1>3, <1>7, NextIsFrom
          <5>. QED BY <5>1
        <4>. QED BY <4>1, <1>3, FromFrom
      <3>3. \A z \in Z : z \notin From(problem, {t})
        BY <3>1, <3>2, <1>7
      <3>. QED BY <3>1, <3>3, <1>10, <1>12 DEF Avoids
    <2>. QED BY <2>1, <2>2, <2>3, <1>2, <1>4
  <1>22. CycleFound' \/ \A n \in Visited' : \A m \in problem'.succ[n] :
                           Followed(n, m)' => m \in Visited' /\ m # shared'.candidate
    <2> SUFFICES ASSUME ~CycleFound', NEW n \in Visited', NEW m \in problem.succ[n],
                        Followed(n, m)'
                 PROVE  m \in Visited' /\ m # c
      BY <1>2, <1>4, <1>10
    <2>1. ~CycleFound /\ t # c
      BY <1>13
    <2>2. action # "Terminate" /\ (work'[w].target # None => t \notin V)
      BY <2>1, <1>8, <1>10
    <2>3. /\ \A x \in V : \A y \in problem.succ[x] :
               Followed(x, y)' <=> Followed(x, y) \/ (x = work[w].from /\ y = t)
          /\ work'[w].target # None => \A y \in problem.succ[t] : ~Followed(t, y)'
      BY <2>2, <1>3, <1>5, <1>7, <1>9, EdgeFollows
    <2>4. CASE n \in V
      <3>1. Followed(n, m) => m \in V /\ m # c
        BY <2>1, <2>4, <1>3, <1>4 DEF Looking
      <3>. QED BY <2>1, <2>3, <2>4, <3>1, <1>12
    <2>5. CASE n \notin V
      <3>1. n = t /\ work'[w].target # None
        BY <2>1, <2>5, <1>3, <1>7, <1>8, <1>10, <1>12
      <3>. QED BY <2>3, <3>1
    <2>. QED BY <2>4, <2>5
  <1>23. Looking'
    <2>1. shared'.iteration > 1
      BY <1>2, <1>3
    <2>. QED BY <2>1, <1>14, <1>16, <1>17, <1>18, <1>19, <1>20, <1>21, <1>22 DEF Looking
  <1>. QED BY <1>2, <1>10, <1>15, <1>23 DEF RoundsInv

LEMMA FindCEExpansionRounds ==
  ASSUME OwctyInv, RoundsInv, NEW w \in Workers, FindCEExpansion(w)
  PROVE  RoundsInv'
  <1>1. /\ phase = "findCE" /\ Push(w) /\ ext' = ext /\ found' = found /\ shared' = shared
        /\ ok' = ok
    BY DEF FindCEExpansion
  <1>2. /\ problem' = problem /\ phase' = phase /\ verdict' = verdict /\ store' = store
        /\ interrupted' = interrupted
    BY <1>1 DEF Push
  <1>3. SameMarks /\ Stored /\ Once /\ Looking
    BY <1>1, <1>2 DEF SameMarks, OwctyInv, RoundsInv
  <1>4. /\ Once'
        /\ \A n \in Nodes : \A m : Followed(n, m)' <=> Followed(n, m)
    BY <1>1, <1>3, PushFollows
  <1>5. /\ Visited' = Visited /\ Alive' = Alive
        /\ CycleFound' = CycleFound
        /\ Complete => Complete'
        /\ Survivors => Survivors'
        /\ \A Z : First(Z) => First(Z)'
        /\ \A Z : Avoids(Z) => Avoids(Z)'
    BY <1>3, SameSets
  <1>6. Within(Visited)'
    <2>1. PICK V : V = Visited
      OBVIOUS
    <2>2. Within(V)'
      BY <2>1, <1>1, <1>3, PushWithin DEF Looking
    <2>. QED BY <2>1, <2>2, <1>5 DEF Within
  <1>7. Looking'
    <2>1. Visited \subseteq Nodes
      BY DEF Visited
    <2>2. /\ interrupted' => CycleFound'
          /\ shared'.candidate # None => shared'.candidate \in Visited'
          /\ \E S \in SUBSET Nodes : /\ Visited' \subseteq S /\ Closed(problem', S)
                                     /\ Alive' \subseteq S /\ \A n \in S : ext'[n].inS
          /\ shared'.iteration > 1
      BY <1>1, <1>2, <1>3, <1>5 DEF Looking
    <2>3. CycleFound' \/ \A n \in Visited' : \A t \in problem'.succ[n] :
                           Followed(n, t)' => t \in Visited' /\ t # shared'.candidate
      BY <2>1, <1>1, <1>2, <1>3, <1>4, <1>5 DEF Looking
    <2>4. \E Z \in SUBSET Nodes :
            /\ First(Z)'
            /\ \/ shared'.candidate \in Z
               \/ /\ Avoids(Z)'
                  /\ shared'.candidate # None => \A z \in Z : Cell[shared'.candidate] < Cell[z]
      BY <1>1, <1>3, <1>5 DEF Looking
    <2>5. Complete' /\ Survivors'
      BY <1>3, <1>5 DEF Looking
    <2>. QED BY <2>2, <2>3, <2>4, <2>5, <1>6 DEF Looking
  <1>. QED BY <1>1, <1>2, <1>4, <1>7 DEF RoundsInv

\* The assertion of counterexample(): a cycle has been found.
LEMMA EndFindCERounds ==
  ASSUME OwctyInv, Fits(problem), RoundsInv, EndFindCE
  PROVE  RoundsInv'
  <1>1. /\ phase = "findCE" /\ Quiet /\ (CycleFound \/ Candidates = {})
        /\ ok' = (ok /\ CycleFound) /\ phase' = "done" /\ verdict' = "cycle"
        /\ problem' = problem /\ open' = open /\ work' = work
    BY DEF EndFindCE, Raise, Report
  <1>2. CycleFound
    <2> SUFFICES ASSUME ~CycleFound PROVE FALSE
      OBVIOUS
    <2>1. PICK Z \in SUBSET Candidates : First(Z)
      BY <1>1, BetweenSearches DEF RoundsInv
    <2>. QED BY <2>1, <1>1 DEF First, FirstOf
  <1>3. PICK w \in Workers : found[w] # None
    BY <1>2 DEF CycleFound
  <1>4. IsReal(problem, found[w]) /\ found[w] \in Nodes
    BY <1>3 DEF OwctyInv
  <1>5. Once' /\ ok'
    BY <1>1, <1>2 DEF RoundsInv, Once, At
  <1>. QED BY <1>1, <1>4, <1>5 DEF RoundsInv

-----------------------------------------------------------------------------
(* All together: every step keeps the invariant, while the iteration fits  *)
(* its field; the iteration only grows, and a round that is not the last   *)
(* takes an accepting state away.                                          *)

LEMMA StepRounds ==
  ASSUME OwctyInv, Fits(problem), RoundsInv, InTime, InTime', [OwctyNext]_vars
  PROVE  RoundsInv'
  <1>1. ASSUME NEW w \in Workers, OwctyWork(w) PROVE RoundsInv'
    <2>1. CASE Take(w)
      BY <2>1, TakeRounds
    <2>2. CASE InitialiseEdge(w) \/ InitialiseExpansion(w)
      BY <2>2, InitialiseEdgeRounds, InitialiseExpansionRounds
    <2>3. CASE ReachabilityEdge(w) \/ ReachabilityExpansion(w)
      BY <2>3, ReachabilityEdgeRounds, ReachabilityExpansionRounds
    <2>4. CASE EliminationEdge(w) \/ EliminationExpansion(w)
      BY <2>4, EliminationEdgeRounds, EliminationExpansionRounds
    <2>5. CASE FindCEEdge(w) \/ FindCEExpansion(w)
      BY <2>5, FindCEEdgeRounds, FindCEExpansionRounds
    <2>. QED BY <1>1, <2>1, <2>2, <2>3, <2>4, <2>5 DEF OwctyWork
  <1>2. CASE Drop
    BY <1>2, DropRounds
  <1>3. CASE EndEarly \/ EndInitialise
    BY <1>3, EndEarlyRounds, EndInitialiseRounds
  <1>4. CASE EndReachability \/ EndElimination
    BY <1>4, EndReachabilityRounds, EndEliminationRounds
  <1>5. CASE EndValid \/ EndInvalid
    BY <1>5, EndValidRounds, EndInvalidRounds
  <1>6. CASE TryNext \/ EndFindCE
    BY <1>6, TryNextRounds, EndFindCERounds
  <1>7. CASE UNCHANGED vars
    <2>1. /\ problem' = problem /\ store' = store /\ ext' = ext /\ shared' = shared
          /\ found' = found /\ interrupted' = interrupted /\ phase' = phase
          /\ verdict' = verdict /\ ok' = ok /\ open' = open /\ work' = work
      BY <1>7 DEF vars
    <2>2. SameMarks
      BY <2>1 DEF SameMarks
    <2>3. Once'
      BY <2>1 DEF RoundsInv, Once, At
    <2>4. \A n \in Nodes : \A t \in problem.succ[n] : Followed(n, t)' <=> Followed(n, t)
      BY <2>1 DEF Followed
    <2>5. Within(Visited) => Within(Visited)'
      BY <2>1 DEF Within, Visited
    <2>. QED BY <2>1, <2>2, <2>3, <2>4, <2>5, UnmarkedRounds
  <1>. QED BY <1>1, <1>2, <1>3, <1>4, <1>5, <1>6, <1>7 DEF OwctyNext, OwctyMaster, Finished

\* How many sections there have been, against the accepting states left.
Started == phase = "initialise" => shared.iteration = 0
Paced ==
  /\ phase \in {"initialise", "reachability", "elimination", "findCE", "done"}
  /\ phase = "reachability" =>
       shared.oldsize >= 0 /\ shared.iteration + 2 * shared.oldsize <= 2 * Cardinality(Nodes) + 1
  /\ phase = "elimination" =>
       shared.oldsize >= 0 /\ shared.iteration + 2 * shared.oldsize <= 2 * Cardinality(Nodes) + 2
  /\ phase \in {"findCE", "done"} => shared.iteration <= 2 * Cardinality(Nodes) + 3

\* What most steps leave alone, and what the others make of it.
LEMMA OwctySteps ==
  ASSUME [OwctyNext]_vars
  PROVE  /\ problem' = problem
         /\ \/ verdict' = verdict
            \/ phase # "done" /\ verdict' \in {"cycle", "valid"}
  <1>1. ASSUME NEW w \in Workers, OwctyWork(w) PROVE problem' = problem /\ verdict' = verdict
    <2>1. CASE Take(w)
      BY <2>1 DEF Take
    <2>2. CASE InitialiseEdge(w) \/ ReachabilityEdge(w) \/ EliminationEdge(w) \/ FindCEEdge(w)
      <3>1. ASSUME NEW t, NEW action, Edge(w, t, action)
            PROVE  problem' = problem /\ verdict' = verdict
        BY <3>1 DEF Edge
      <3>2. \E t, action : Edge(w, t, action)
        BY <2>2 DEF InitialiseEdge, ReachabilityEdge, EliminationEdge, FindCEEdge
      <3>. QED BY <3>1, <3>2
    <2>3. CASE \/ InitialiseExpansion(w) \/ ReachabilityExpansion(w)
               \/ EliminationExpansion(w) \/ FindCEExpansion(w)
      BY <2>3 DEF InitialiseExpansion, ReachabilityExpansion, EliminationExpansion,
                  FindCEExpansion, Push
    <2>. QED BY <1>1, <2>1, <2>2, <2>3 DEF OwctyWork
  <1>2. CASE Drop \/ EndInitialise \/ EndReachability \/ EndElimination \/ TryNext
             \/ UNCHANGED vars
    BY <1>2 DEF Drop, EndInitialise, EndReachability, EndElimination, TryNext, vars
  <1>3. CASE EndEarly \/ EndValid \/ EndFindCE
    BY <1>3 DEF EndEarly, EndValid, EndFindCE, Report
  <1>4. CASE EndInvalid
    BY <1>4 DEF EndInvalid, Report
  <1>. QED BY <1>1, <1>2, <1>3, <1>4 DEF OwctyNext, OwctyMaster, Finished

LEMMA WorkPaced ==
  ASSUME OwctyInv, NEW w \in Workers, OwctyWork(w)
  PROVE  /\ phase' = phase /\ shared'.iteration = shared.iteration
         /\ shared'.oldsize = shared.oldsize
  <1>1. shared \in Master
    BY DEF OwctyInv
  <1>2. CASE Take(w)
    BY <1>2 DEF Take
  <1>3. CASE InitialiseEdge(w) \/ ReachabilityEdge(w) \/ EliminationEdge(w) \/ FindCEEdge(w)
    BY <1>3 DEF InitialiseEdge, ReachabilityEdge, EliminationEdge, FindCEEdge, Edge
  <1>4. CASE \/ InitialiseExpansion(w) \/ ReachabilityExpansion(w)
             \/ EliminationExpansion(w) \/ FindCEExpansion(w)
    <2>1. phase' = phase /\ (shared' = shared \/ \E k : shared' = [shared EXCEPT !.size = k])
      BY <1>4 DEF InitialiseExpansion, ReachabilityExpansion, EliminationExpansion,
                  FindCEExpansion, Push
    <2>. QED BY <1>1, <2>1 DEF Master
  <1>. QED BY <1>2, <1>3, <1>4 DEF OwctyWork

\* The iteration only grows.
LEMMA TimePasses ==
  ASSUME OwctyInv, Started, [OwctyNext]_vars
  PROVE  shared'.iteration >= shared.iteration /\ Started'
  <1>1. shared \in Master /\ shared.iteration \in Nat
    BY DEF OwctyInv, Master
  <1>2. ASSUME NEW w \in Workers, OwctyWork(w)
        PROVE  shared'.iteration >= shared.iteration /\ Started'
    BY <1>1, <1>2, WorkPaced DEF Started
  <1>3. CASE Drop \/ EndEarly \/ EndValid \/ EndFindCE \/ UNCHANGED vars
    <2>1. shared' = shared /\ phase' \in {phase, "done"}
      BY <1>3 DEF Drop, EndEarly, EndValid, EndFindCE, vars, Report
    <2>. QED BY <1>1, <2>1 DEF Started
  <1>4. CASE EndInitialise
    <2>1. shared.iteration = 0 /\ shared'.iteration = 1 /\ phase' = "reachability"
      BY <1>1, <1>4 DEF EndInitialise, Started, Master, StartReachability, Section
    <2>. QED BY <2>1 DEF Started
  <1>5. CASE EndReachability \/ EndElimination \/ EndInvalid
    <2>1. /\ shared'.iteration = shared.iteration + 1 \/ shared' = shared
          /\ phase' \in {"reachability", "elimination", "findCE", "done"}
      BY <1>1, <1>5 DEF EndReachability, EndElimination, EndInvalid, Master,
                        StartReachability, Section, Report
    <2>. QED BY <1>1, <2>1 DEF Started
  <1>6. CASE TryNext
    <2>1. shared'.iteration = shared.iteration /\ phase' = "findCE"
      BY <1>1, <1>6 DEF TryNext, Master, Section
    <2>. QED BY <1>1, <2>1 DEF Started
  <1>. QED BY <1>2, <1>3, <1>4, <1>5, <1>6 DEF OwctyNext, OwctyMaster, Finished

LEMMA StepPaced ==
  ASSUME OwctyInv, RoundsInv, Started, Paced, [OwctyNext]_vars
  PROVE  Paced'
  <1>1. PICK N : N = Cardinality(Nodes)
    OBVIOUS
  <1>2. shared \in Master /\ shared.iteration \in Nat /\ N \in Nat
    BY <1>1, FewStates DEF OwctyInv, Master
  <1>3. ASSUME NEW w \in Workers, OwctyWork(w) PROVE Paced'
    BY <1>3, WorkPaced DEF Paced
  <1>4. CASE Drop \/ UNCHANGED vars
    BY <1>4 DEF Drop, vars, Paced
  <1>5. CASE EndEarly \/ EndValid \/ EndFindCE
    <2>1. shared' = shared /\ phase' = "done"
      BY <1>5 DEF EndEarly, EndValid, EndFindCE, Report
    <2>2. shared.iteration <= 2 * N + 3
      <3>1. PICK i, o \in Int : i = shared.iteration /\ o = shared.oldsize
        BY <1>2 DEF Master
      <3>2. i = 0 \/ (o >= 0 /\ i + 2 * o <= 2 * N + 2) \/ i <= 2 * N + 3
        BY <3>1, <1>1, <1>5 DEF EndEarly, EndValid, EndFindCE, Started, Paced
      <3>. QED BY <3>1, <3>2, <1>2
    <2>. QED BY <2>1, <2>2, <1>1 DEF Paced
  <1>6. CASE EndInitialise
    <2>1. Initialising /\ ~interrupted
      BY <1>6 DEF EndInitialise, RoundsInv, Initialising
    <2>2. PICK a \in Nat : a = Cardinality(Alive) /\ a <= N
      <3>1. Alive \in SUBSET Nodes /\ Nodes \in SUBSET Nodes
        BY DEF Alive
      <3>. QED BY <3>1, <1>1, FiniteStates, FewerStates
    <2>3. shared'.iteration = 1 /\ shared'.oldsize = a /\ phase' = "reachability"
      BY <2>1, <2>2, <1>2, <1>6
      DEF EndInitialise, Initialising, Master, StartReachability, Section
    <2>4. a >= 0 /\ 1 + 2 * a <= 2 * N + 1
      BY <2>2, <1>2
    <2>. QED BY <2>3, <2>4, <1>1 DEF Paced
  <1>7. CASE EndReachability
    <2>1. /\ shared'.iteration = shared.iteration + 1 /\ shared'.oldsize = shared.oldsize
          /\ phase' = "elimination"
      BY <1>2, <1>7 DEF EndReachability, Master, Section
    <2>2. PICK i, o \in Int : i = shared.iteration /\ o = shared.oldsize
      BY <1>2 DEF Master
    <2>3. o >= 0 /\ i + 2 * o <= 2 * N + 1
      BY <2>2, <1>1, <1>7 DEF EndReachability, Paced
    <2>4. o >= 0 /\ (i + 1) + 2 * o <= 2 * N + 2
      BY <2>2, <2>3, <1>2
    <2>. QED BY <2>1, <2>2, <2>4, <1>1 DEF Paced
  <1>8. CASE EndElimination \/ EndInvalid
    <2>1. phase = "elimination" /\ Quiet
      BY <1>8 DEF EndElimination, EndInvalid
    <2>2. /\ Left = Cardinality(Alive) /\ (Left # shared.oldsize <=> shared.size # 0)
          /\ shared.size = Cardinality({n \in Counted : ext[n].inF /\ ~ext[n].inS})
      BY <2>1, EliminationEnds
    <2>3. PICK i, o, s \in Int : /\ i = shared.iteration /\ o = shared.oldsize
                                 /\ s = shared.size
      BY <1>2 DEF Master
    <2>4. s \in Nat /\ o - s \in Nat /\ Left = o - s
      <3>1. Alive \in SUBSET Nodes /\ {n \in Counted : ext[n].inF /\ ~ext[n].inS} \in SUBSET Nodes
        BY DEF Alive, Counted
      <3>2. Cardinality(Alive) \in Nat /\ s \in Nat
        BY <2>2, <2>3, <3>1, FiniteStates
      <3>. QED BY <2>2, <2>3, <3>2 DEF Left
    <2>5. o >= 0 /\ i + 2 * o <= 2 * N + 2
      BY <2>1, <2>3, <1>1 DEF Paced
    <2>6. CASE EndElimination
      <3>1. /\ shared'.iteration = i + 1 /\ shared'.oldsize = o - s
            /\ phase' = "reachability" /\ s # 0
        BY <2>2, <2>3, <2>4, <2>6, <1>2
        DEF EndElimination, Master, StartReachability, Section
      <3>2. o - s >= 0 /\ o - s <= o - 1
        <4>1. s >= 1 /\ o - s \in Nat /\ o \in Int
          BY <2>3, <2>4, <3>1
        <4>. QED BY <4>1, <2>3
      <3>3. (i + 1) + 2 * (o - s) <= 2 * N + 1
        BY <2>3, <2>5, <3>2, <1>2
      <3>. QED BY <3>1, <3>2, <3>3, <1>1 DEF Paced
    <2>7. CASE EndInvalid
      <3>1. phase' \in {"findCE", "done"} /\ shared'.iteration \in {i, i + 1}
        BY <2>3, <2>7, <1>2 DEF EndInvalid, Report, Section, Master
      <3>2. i <= 2 * N + 3 /\ i + 1 <= 2 * N + 3
        BY <2>3, <2>5, <1>2
      <3>. QED BY <3>1, <3>2, <1>1 DEF Paced
    <2>. QED BY <1>8, <2>6, <2>7
  <1>9. CASE TryNext
    <2>1. phase = "findCE" /\ phase' = "findCE" /\ shared'.iteration = shared.iteration
      BY <1>2, <1>9 DEF TryNext, Section, Master
    <2>. QED BY <2>1 DEF Paced
  <1>. QED BY <1>3, <1>4, <1>5, <1>6, <1>7, <1>8, <1>9 DEF OwctyNext, OwctyMaster, Finished

-----------------------------------------------------------------------------
\* The shares of the workers are the whole table, and no state has more edges
\* leading to it than its count holds.
EnoughRoom == \A p \in Problems : Fits(p)

\* The inductive invariant: nothing is said of what comes after 2^10 sections.
OwctyRounds ==
  /\ OwctyInv /\ Fits(problem) /\ Started
  /\ InTime => RoundsInv /\ Paced

LEMMA InitOwctyRounds == OwctyInit /\ EnoughRoom => OwctyRounds
  <1> SUFFICES ASSUME OwctyInit, EnoughRoom PROVE OwctyRounds
    OBVIOUS
  <1>1. OwctyInv /\ RoundsInv
    BY InitOwctyInv, InitRounds
  <1>2. Fits(problem)
    BY DEF OwctyInit, EnoughRoom
  <1>3. shared.iteration = 0 /\ phase = "initialise"
    BY DEF OwctyInit
  <1>. QED BY <1>1, <1>2, <1>3 DEF OwctyRounds, Started, Paced

LEMMA StepOwctyRounds == OwctyRounds /\ [OwctyNext]_vars => OwctyRounds'
  <1> SUFFICES ASSUME OwctyRounds, [OwctyNext]_vars PROVE OwctyRounds'
    OBVIOUS
  <1>1. OwctyInv /\ Fits(problem) /\ Started /\ (InTime => RoundsInv /\ Paced)
    BY DEF OwctyRounds
  <1>2. OwctyInv' /\ problem' = problem
    BY <1>1, StepOwctyInv, OwctySteps
  <1>3. Fits(problem)'
    BY <1>1, <1>2 DEF Fits
  <1>4. Started' /\ shared'.iteration >= shared.iteration
    BY <1>1, TimePasses
  <1>5. InTime' => InTime
    <2>1. shared.iteration \in Nat /\ shared'.iteration \in Nat
      BY <1>1, <1>2 DEF OwctyInv, Master
    <2>2. Iterations \in Nat
      BY SMT DEF Iterations
    <2>. QED BY <2>1, <2>2, <1>4 DEF InTime
  <1>6. InTime' => RoundsInv' /\ Paced'
    BY <1>1, <1>5, StepRounds, StepPaced
  <1>. QED BY <1>2, <1>3, <1>4, <1>6 DEF OwctyRounds

LEMMA OwctyRoundsInvariant == OwctySpec /\ EnoughRoom => []OwctyRounds
  <1>. QED BY InitOwctyRounds, StepOwctyRounds, PTL DEF OwctySpec

LEMMA RealCycles ==
  ASSUME OwctyInv
  PROVE  CD!AcceptingCycle <=> \E n \in Nodes : IsReal(problem, n)
  <1>1. problem.accepting \subseteq Nodes
    BY DEF OwctyInv, Stored, Graphs
  <1>2. \A n : IsReal(problem, n) <=> /\ Accepting(n) /\ n \in CD!Reach(problem.initials)
                                     /\ CD!OnCycle(n)
    BY RealIsReal
  <1>3. \A n : IsReal(problem, n) => n \in Nodes
    BY <1>1 DEF IsReal
  <1>. QED BY <1>2, <1>3 DEF CD!AcceptingCycle, Accepting

-----------------------------------------------------------------------------
\* While the number of the section fits its field, the assertions of OWCTY hold:
\* what Reachability expands has been counted, no edge of Elimination leads to a
\* state that is gone or has no predecessor left, and FindCE finds a cycle (the
\* ASSERTs of owcty.h), however the workers race for the states.
THEOREM OwctyAssertions == OwctySpec /\ EnoughRoom => [](InTime => AssertionsHold)
  <1>1. OwctyRounds => (InTime => AssertionsHold)
    BY DEF OwctyRounds, RoundsInv, AssertionsHold
  <1>. QED BY <1>1, OwctyRoundsInvariant, PTL

\* And no elimination takes an accepting state of a cycle away.
THEOREM OwctyCyclesSurvive == OwctySpec /\ EnoughRoom => [](InTime => CyclesSurvive)
  <1>1. OwctyRounds => (InTime => CyclesSurvive)
    <2> SUFFICES ASSUME OwctyRounds, InTime, phase \in {"reachability", "elimination", "findCE"},
                        NEW n \in problem.accepting,
                        n \in CD!Reach(problem.initials), CD!OnCycle(n)
                 PROVE  ext[n].inS /\ ext[n].inF
      BY DEF CyclesSurvive
    <2>1. Survivors
      BY DEF OwctyRounds, RoundsInv, Reaching, Eliminating, Looking
    <2>2. IsReal(problem, n)
      BY RealIsReal DEF Accepting
    <2>3. n \in Nodes
      BY DEF OwctyRounds, OwctyInv, Stored, Graphs
    <2>. QED BY <2>1, <2>2, <2>3 DEF Survivors, Alive
  <1>. QED BY <1>1, OwctyRoundsInvariant, PTL

\* Each round but the last takes an accepting state away: on a graph of fewer
\* than 511 states the number of the section always fits its field.
THEOREM OwctyIsInTime ==
  OwctySpec /\ EnoughRoom /\ 2 * Cardinality(Nodes) + 3 < Iterations => []InTime
  <1> SUFFICES ASSUME 2 * Cardinality(Nodes) + 3 < Iterations
               PROVE  OwctySpec /\ EnoughRoom => []InTime
    OBVIOUS
  <1>1. Cardinality(Nodes) \in Nat /\ Iterations \in Nat
    BY FewStates, SMT DEF Iterations
  <1>2. OwctyInit => InTime
    BY <1>1 DEF OwctyInit, InTime
  <1>3. OwctyRounds /\ InTime /\ [OwctyNext]_vars => InTime'
    <2> SUFFICES ASSUME OwctyRounds, InTime, [OwctyNext]_vars PROVE InTime'
      OBVIOUS
    <2>1. OwctyInv' /\ Started' /\ Paced'
      BY StepOwctyRounds, StepPaced DEF OwctyRounds
    <2>2. PICK N, i, o : N = Cardinality(Nodes) /\ i = shared'.iteration /\ o = shared'.oldsize
      OBVIOUS
    <2>3. N \in Nat /\ i \in Nat /\ o \in Int /\ 2 * N + 3 < Iterations
      BY <2>1, <2>2, <1>1 DEF OwctyInv, Master
    <2>4. i = 0 \/ (o >= 0 /\ i + 2 * o <= 2 * N + 2) \/ i <= 2 * N + 3
      <3>1. o >= 0 /\ i + 2 * o <= 2 * N + 1 => o >= 0 /\ i + 2 * o <= 2 * N + 2
        BY <2>3
      <3>. QED BY <2>1, <2>2, <3>1 DEF Started, Paced
    <2>5. i < Iterations
      BY <2>3, <2>4, <1>1
    <2>. QED BY <2>2, <2>5 DEF InTime
  <1>. QED BY <1>2, <1>3, OwctyRoundsInvariant, PTL DEF OwctySpec

\* What OWCTY says is right: it refines CycleDetection but for the promise that
\* an answer comes.  "cycle" is said only of a graph with an accepting cycle that
\* can be reached, and "valid" only of one without.
THEOREM OwctyIsSound == OwctySpec /\ EnoughRoom /\ []InTime => CD!Sound
  <1>1. OwctyInit => CD!Init
    BY DEF OwctyInit, CD!Init
  <1>2. OwctyRounds /\ InTime /\ OwctyRounds' /\ InTime' /\ [OwctyNext]_vars
          => [CD!Decide]_(CD!vars)
    <2> SUFFICES ASSUME OwctyRounds, InTime, OwctyRounds', InTime', [OwctyNext]_vars
                 PROVE  [CD!Decide]_(CD!vars)
      OBVIOUS
    <2>1. /\ problem' = problem
          /\ verdict' = verdict \/ (phase # "done" /\ verdict' \in {"cycle", "valid"})
      BY OwctySteps
    <2>2. OwctyInv /\ RoundsInv /\ RoundsInv'
      BY DEF OwctyRounds
    <2>3. CASE verdict' = verdict
      BY <2>1, <2>3 DEF CD!vars
    <2>4. CASE verdict' # verdict
      <3>1. phase # "done" /\ verdict' \in {"cycle", "valid"}
        BY <2>1, <2>4
      <3>2. verdict = "none"
        BY <2>2, <3>1 DEF RoundsInv
      <3>3. /\ verdict' = "cycle" => \E n \in Nodes : IsReal(problem, n)
            /\ verdict' = "valid" => \A n \in Nodes : ~IsReal(problem, n)
        BY <2>1, <2>2, <3>1 DEF RoundsInv
      <3>4. CD!AcceptingCycle <=> \E n \in Nodes : IsReal(problem, n)
        BY <2>2, RealCycles
      <3>5. CD!Decide
        BY <2>1, <3>1, <3>2, <3>3, <3>4 DEF CD!Decide
      <3>. QED BY <3>5
    <2>. QED BY <2>3, <2>4
  <1>. QED BY <1>1, <1>2, OwctyRoundsInvariant, PTL DEF OwctySpec, CD!Sound

-----------------------------------------------------------------------------
(***************************************************************************)
(* MAP misses no cycle.  Its assertion needs no hypothesis: what has been  *)
(* eliminated was counted when it was seen.                                *)
(***************************************************************************)

AcceptingSeen == {n \in Nodes : ext[n].seen /\ Accepting(n)}

MapCounts ==
  /\ ok /\ shared.iteration > 0
  /\ phase \in {"visit", "done"} /\ (phase = "visit" => verdict = "none")
  /\ \A n \in Nodes \ store : ext[n] = Fresh
  /\ \A n \in Nodes : ext[n].map \in store \cup {None}
  /\ \A n \in store : ext[n].seen \/ \E w \in Workers : work[w].target = n
  /\ \A n \in Nodes : ext[n].seen /\ ~Accepting(n) => ext[n].elim = NeverAccepting
  /\ shared.accepting = Cardinality(AcceptingSeen)
  /\ interrupted => CycleFound

\* Every cell is in the share of a worker (firstIndex, lastIndex in store.h), and
\* the number of the iteration fits its field (Extension in map.h).
WholeShares == \A n \in Nodes :
                 Cell[n] < (TableSize \div Cardinality(Workers)) * Cardinality(Workers)
InRounds == shared.iteration < Rounds

\* The states that this iteration has come to.
Active == {n \in Nodes : ext[n].iteration = shared.iteration \/ ext[n].map # None}

\* What holds of an edge once it has been followed, until its source is to be
\* expanded again.
Spread(n, t) ==
  /\ t \in Active
  /\ ext[n].oldmap = ext[t].oldmap => /\ ext[n].map <= ext[t].map
                                      /\ StillAccepting(t) => t <= ext[t].map
  /\ StillAccepting(t) => ext[n].map # t

\* A state of a cycle through n.
Around(g, n, m) == m \in From(g, {n}) /\ n \in From(g, {m})

Gone == {n \in Nodes : ext[n].elim = Eliminated}

\* What holds of a state during an iteration, as long as no cycle has been found.
Numbered(n) ==
  /\ ext[n].iteration <= shared.iteration
  /\ ext[n].elim = NotYet => n < ext[n].map
  /\ Accepting(n) /\ ext[n].elim = Candidate => ext[n].map <= n
  /\ ext[n].elim \in {NotYet, Eliminated} => Accepting(n)
  /\ ext[n].map # None => StillAccepting(ext[n].map)
  /\ IsReal(problem, n) => ext[n].elim \in {Candidate, NotYet}
  /\ IsReal(problem, n) => \A m \in Nodes :
       Around(problem, n, m) => ext[m].oldmap = ext[n].oldmap

\* And how far the iteration has come.
Mapping ==
  /\ shared.eliminated = Cardinality(Gone)
  /\ \A n \in Nodes : Numbered(n)
  /\ problem.initials \subseteq Active
  /\ \A n \in Active : \A t \in problem.succ[n] : Followed(n, t) => Spread(n, t)

MapRounds ==
  InRounds => /\ phase = "visit" /\ ~CycleFound => Mapping
              /\ verdict = "valid" => \A n \in Nodes : ~IsReal(problem, n)

\* No iteration but the last leaves the number of the eliminated states as it is.
MapPaced ==
  /\ phase = "visit" => /\ shared.iteration <= shared.eliminated + 1
                        /\ shared.eliminated <= Cardinality(Nodes)
  /\ phase = "done" => shared.iteration <= Cardinality(Nodes) + 2

-----------------------------------------------------------------------------
(* How an iteration comes on: a state may be queued more than once in it.  *)

\* A worker that takes a state from the queue has all its edges before it.
LEMMA TakeAgain ==
  ASSUME Stored, NEW w \in Workers, Take(w)
  PROVE  /\ \A n \in Nodes : \A t \in problem.succ[n] : Followed(n, t)' => Followed(n, t)
         /\ \A v \in Workers : work'[v].target = work[v].target
  <1>1. PICK n \in Nodes : /\ open[n] > 0
                           /\ open' = [open EXCEPT ![n] = @ - 1]
                           /\ work' = [work EXCEPT ![w] = Settle(
                                [from |-> n, todo |-> problem.succ[n], target |-> None])]
    BY DEF Take
  <1> DEFINE r == [from |-> n, todo |-> problem.succ[n], target |-> None]
  <1>2. open \in [Nodes -> Nat] /\ work \in [Workers -> Work]
    BY DEF Stored
  <1>3. work[w] = Resting /\ Resting.todo = {} /\ Resting.target = None
    BY DEF Take, Resting
  <1>4. PICK s : s = work'[w]
    OBVIOUS
  <1>5. s.target = None /\ s.todo = problem.succ[n] /\ (s.todo # {} => s.from = n)
    <2>1. s = Settle(r)
      BY <1>1, <1>2, <1>4
    <2>. QED BY <2>1, <1>3 DEF Settle
  <1>6. \A v \in Workers : v # w => work'[v] = work[v]
    BY <1>1, <1>2
  <1>7. \A v \in Workers : work'[v].target = work[v].target
    BY <1>3, <1>4, <1>5, <1>6
  <1>8. ASSUME NEW m \in Nodes, NEW t \in problem.succ[m], Followed(m, t)'
        PROVE  Followed(m, t)
    <2>1. m # n
      <3>1. m = n => s.from = m /\ t \in s.todo
        BY <1>5
      <3>. QED BY <3>1, <1>4, <1>8 DEF Followed
    <2>2. open[m] = 0
      BY <2>1, <1>1, <1>2, <1>8 DEF Followed
    <2>3. ASSUME NEW v \in Workers PROVE ~(work[v].from = m /\ t \in work[v].todo)
      BY <1>3, <1>6, <1>8 DEF Followed
    <2>. QED BY <2>2, <2>3, <1>7, <1>8 DEF Followed
  <1>. QED BY <1>7, <1>8

\* An edge that is followed leaves all others as they are.
LEMMA EdgeAgain ==
  ASSUME Stored, NEW w \in Workers, NEW t, NEW action, Edge(w, t, action),
         action # "Terminate"
  PROVE  /\ \A n \in Nodes : \A m \in problem.succ[n] :
              Followed(n, m)' => Followed(n, m) \/ (n = work[w].from /\ m = t)
         /\ \A v \in Workers : v # w => work'[v].target = work[v].target
         /\ work[w].target = None
  <1> DEFINE r == [from |-> work[w].from,
                   todo |-> IF action = "Terminate" THEN {} ELSE work[w].todo \ {t},
                   target |-> IF action = "Expand" \/ (action = "Follow" /\ t \notin store)
                              THEN t ELSE None]
  <1>1. /\ t \in work[w].todo /\ open' = open /\ work[w].target = None
        /\ work' = [work EXCEPT ![w] = Settle(r)]
    BY DEF Edge
  <1>2. work \in [Workers -> Work] /\ None \notin Nodes
    BY Numbers DEF Stored
  <1>3. PICK f : f = work[w].from
    OBVIOUS
  <1>4. PICK s : s = work'[w]
    OBVIOUS
  <1>5. s.todo = work[w].todo \ {t} /\ (s.todo # {} => s.from = f)
    <2>1. s = Settle(r)
      BY <1>1, <1>2, <1>4
    <2>2. Resting.todo = {}
      BY DEF Resting
    <2>. QED BY <1>3, <2>1, <2>2 DEF Settle
  <1>6. \A v \in Workers : v # w => work'[v] = work[v]
    BY <1>1, <1>2
  <1>7. ASSUME NEW n \in Nodes, NEW m \in problem.succ[n], Followed(n, m)', ~(n = f /\ m = t)
        PROVE  Followed(n, m)
    <2>1. open[n] = 0
      BY <1>1, <1>7 DEF Followed
    <2>2. ASSUME NEW v \in Workers
          PROVE  work[v].target # n /\ ~(work[v].from = n /\ m \in work[v].todo)
      <3>1. CASE v # w
        BY <3>1, <1>6, <1>7 DEF Followed
      <3>2. CASE v = w
        <4>1. work[w].target # n
          BY <1>1, <1>2
        <4>2. ~(s.from = n /\ m \in s.todo)
          BY <1>4, <1>7 DEF Followed
        <4>3. ~(f = n /\ m \in work[w].todo)
          BY <4>2, <1>5, <1>7
        <4>. QED BY <4>1, <4>3, <1>3, <3>2
      <3>. QED BY <3>1, <3>2
    <2>. QED BY <2>1, <2>2 DEF Followed
  <1>. QED BY <1>1, <1>3, <1>6, <1>7

LEMMA PushAgain ==
  ASSUME Stored, NEW w \in Workers, Push(w)
  PROVE  /\ \A n \in Nodes : \A m : Followed(n, m)' => Followed(n, m)
         /\ work[w].target \in Nodes /\ work[w].target \in store
         /\ work'[w].target = None
         /\ \A v \in Workers : v # w => work'[v].target = work[v].target
         /\ problem' = problem /\ verdict' = verdict /\ phase' = phase /\ store' = store
         /\ interrupted' = interrupted
  <1> DEFINE r == [work[w] EXCEPT !.target = None]
  <1>1. /\ work[w].target # None
        /\ open' = [open EXCEPT ![work[w].target] = @ + 1]
        /\ work' = [work EXCEPT ![w] = Settle(r)]
    BY DEF Push
  <1>2. open \in [Nodes -> Nat] /\ work \in [Workers -> Work] /\ None \notin Nodes
    BY Numbers DEF Stored
  <1>3. PICK t : t = work[w].target
    OBVIOUS
  <1>4. t \in Nodes /\ t \in store
    BY <1>1, <1>2, <1>3 DEF Work, Stored
  <1>5. open'[t] > 0 /\ \A m \in Nodes : m # t => open'[m] = open[m]
    BY <1>1, <1>2, <1>3, <1>4
  <1>6. PICK s : s = work'[w]
    OBVIOUS
  <1>7. s.target = None /\ s.todo = work[w].todo /\ (s.todo # {} => s.from = work[w].from)
    <2>1. s = Settle(r) /\ work[w] \in Work
      BY <1>1, <1>2, <1>6
    <2>2. Resting.from = None /\ Resting.todo = {} /\ Resting.target = None
      BY DEF Resting
    <2>3. r.from = work[w].from /\ r.todo = work[w].todo /\ r.target = None
      BY <2>1 DEF Work
    <2>4. s = r \/ (s = Resting /\ r.todo = {})
      BY <2>1 DEF Settle
    <2>. QED BY <2>2, <2>3, <2>4
  <1>8. \A v \in Workers : v # w => work'[v] = work[v]
    BY <1>1, <1>2
  <1>9. ASSUME NEW n \in Nodes, NEW m, Followed(n, m)' PROVE Followed(n, m)
    <2>1. n # t /\ open[n] = 0
      <3>1. open'[n] = 0
        BY <1>9 DEF Followed
      <3>. QED BY <3>1, <1>5
    <2>2. ASSUME NEW v \in Workers
          PROVE  work[v].target # n /\ ~(work[v].from = n /\ m \in work[v].todo)
      <3>1. CASE v # w
        BY <3>1, <1>8, <1>9 DEF Followed
      <3>2. CASE v = w
        <4>1. ~(s.from = n /\ m \in s.todo)
          BY <1>6, <1>9 DEF Followed
        <4>. QED BY <4>1, <3>2, <2>1, <1>3, <1>7
      <3>. QED BY <3>1, <3>2
    <2>. QED BY <2>1, <2>2 DEF Followed
  <1>. QED BY <1>3, <1>4, <1>6, <1>7, <1>8, <1>9 DEF Push

-----------------------------------------------------------------------------
(* What has been counted.                                                  *)

\* The three ways in which an edge is followed.
Spreads(f, t) == ~Apart(f, t) /\ ext[t].map < Propagated(f, t)

Raised(f, t) ==
  [Noted(t) EXCEPT !.map = Propagated(f, t),
                   !.elim = IF @ = Candidate /\ t < Propagated(f, t) THEN NotYet ELSE @]

CycleEdge(w, f, t) ==
  /\ Arrives(f, t) /\ Edge(w, t, "Terminate")
  /\ found' = [found EXCEPT ![w] = t]
  /\ ext' = [ext EXCEPT ![t] = IF Accepting(f) /\ t = f THEN @ ELSE Noted(t)]

SpreadEdge(w, f, t) ==
  /\ ~Arrives(f, t) /\ Spreads(f, t) /\ Edge(w, t, "Expand")
  /\ found' = found
  /\ ext' = [ext EXCEPT ![t] = Raised(f, t)]

OtherEdge(w, f, t) ==
  /\ ~Arrives(f, t) /\ ~Spreads(f, t)
  /\ Edge(w, t, IF ext[t].iteration # shared.iteration THEN "Expand" ELSE "Forget")
  /\ found' = found
  /\ ext' = [ext EXCEPT ![t] = [Noted(t) EXCEPT !.iteration = shared.iteration % Rounds]]

LEMMA VisitEdgeWays ==
  ASSUME MapInv, NEW w \in Workers, VisitEdge(w)
  PROVE  /\ phase = "visit" /\ shared' = shared /\ ok' = ok
         /\ \E t \in work[w].todo : \/ CycleEdge(w, work[w].from, t)
                                    \/ SpreadEdge(w, work[w].from, t)
                                    \/ OtherEdge(w, work[w].from, t)
  <1>1. PICK f : f = work[w].from
    OBVIOUS
  <1>2. \A t \in work[w].todo : f # None
    BY <1>1, EdgeIsReal, Numbers DEF MapInv
  <1>3. PICK t \in work[w].todo :
       LET map == Propagated(f, t)
           spreads == ~Apart(f, t) /\ ext[t].map < map
       IN IF f # None /\ Arrives(f, t)
          THEN /\ found' = [found EXCEPT ![w] = t]
               /\ ext' = [ext EXCEPT ![t] = IF Accepting(f) /\ t = f THEN @ ELSE Noted(t)]
               /\ Edge(w, t, "Terminate")
          ELSE /\ ext' = [ext EXCEPT ![t] =
                    IF spreads
                    THEN [Noted(t) EXCEPT
                            !.map = map,
                            !.elim = IF @ = Candidate /\ t < map THEN NotYet ELSE @]
                    ELSE [Noted(t) EXCEPT !.iteration = shared.iteration % Rounds]]
               /\ Edge(w, t, IF spreads \/ ext[t].iteration # shared.iteration
                             THEN "Expand" ELSE "Forget")
               /\ UNCHANGED found
    BY <1>1 DEF VisitEdge
  <1>4. CASE Arrives(f, t)
    <2>1. CycleEdge(w, f, t)
      BY <1>2, <1>3, <1>4 DEF CycleEdge
    <2>. QED BY <2>1, <1>1 DEF VisitEdge
  <1>5. CASE ~Arrives(f, t) /\ Spreads(f, t)
    <2>1. SpreadEdge(w, f, t)
      BY <1>3, <1>5 DEF SpreadEdge, Spreads, Raised
    <2>. QED BY <2>1, <1>1 DEF VisitEdge
  <1>6. CASE ~Arrives(f, t) /\ ~Spreads(f, t)
    <2>1. OtherEdge(w, f, t)
      BY <1>3, <1>6 DEF OtherEdge, Spreads
    <2>. QED BY <2>1, <1>1 DEF VisitEdge
  <1>. QED BY <1>4, <1>5, <1>6

\* What an edge does to the record of its target, and to no other.
LEMMA VisitEdgeRecords ==
  ASSUME MapInv, NEW w \in Workers, NEW f, f = work[w].from, NEW t \in work[w].todo,
         CycleEdge(w, f, t) \/ SpreadEdge(w, f, t) \/ OtherEdge(w, f, t)
  PROVE  /\ f \in store /\ f \in Nodes /\ t \in Nodes /\ t \in problem.succ[f]
         /\ ext' \in [Nodes -> MapExtension]
         /\ \A n \in Nodes : n # t => ext'[n] = ext[n]
         /\ ext'[t].seen = ext[t].seen /\ ext'[t].oldmap = ext[t].oldmap
         /\ ext'[t].map = IF SpreadEdge(w, f, t) THEN Propagated(f, t) ELSE ext[t].map
         /\ ext'[t].iteration = IF OtherEdge(w, f, t) THEN shared.iteration % Rounds
                                ELSE ext[t].iteration
         /\ Propagated(f, t) \in Nodes \cup {None}
         /\ ext'[t].elim \in {ext[t].elim, Noted(t).elim,
                              IF Noted(t).elim = Candidate THEN NotYet ELSE Noted(t).elim}
         /\ Noted(t).elim = IF ext[t].elim < Eliminated /\ ~Accepting(t)
                            THEN NeverAccepting ELSE ext[t].elim
         /\ SpreadEdge(w, f, t) => ext'[t].elim =
              IF Noted(t).elim = Candidate /\ t < Propagated(f, t) THEN NotYet
              ELSE Noted(t).elim
         /\ ~SpreadEdge(w, f, t) => ext'[t].elim \in {ext[t].elim, Noted(t).elim}
  <1>1. f \in store /\ f \in Nodes /\ t \in Nodes /\ t \in problem.succ[f]
    BY EdgeIsReal DEF MapInv
  <1>2. ext \in [Nodes -> MapExtension] /\ Noted(t) \in MapExtension
    BY <1>1, NotedType DEF MapInv
  <1>3. PICK e \in MapExtension : e = Noted(t)
    BY <1>2
  <1>4. /\ e.map = ext[t].map /\ e.oldmap = ext[t].oldmap /\ e.seen = ext[t].seen
        /\ e.iteration = ext[t].iteration
        /\ e.elim = IF ext[t].elim < Eliminated /\ ~Accepting(t)
                    THEN NeverAccepting ELSE ext[t].elim
    BY <1>1, <1>2, <1>3 DEF Noted, MapExtension
  <1>5. PICK p : p = Propagated(f, t)
    OBVIOUS
  <1>6. p \in Nodes \cup {None}
    <2>1. p \in {ext[f].map, ext[t].map, t, None}
      BY <1>5 DEF Propagated, Greater
    <2>. QED BY <2>1, <1>1, <1>2 DEF MapExtension
  <1>7. CASE CycleEdge(w, f, t)
    <2>1. ~SpreadEdge(w, f, t) /\ ~OtherEdge(w, f, t)
      BY <1>7 DEF CycleEdge, SpreadEdge, OtherEdge
    <2>2. ext' = [ext EXCEPT ![t] = IF Accepting(f) /\ t = f THEN @ ELSE e]
      BY <1>3, <1>7 DEF CycleEdge
    <2>3. ext'[t] \in {ext[t], e} /\ ext' \in [Nodes -> MapExtension]
      BY <2>2, <1>1, <1>2
    <2>4. \A n \in Nodes : n # t => ext'[n] = ext[n]
      BY <2>2, <1>2
    <2>. QED BY <2>1, <2>3, <2>4, <1>1, <1>3, <1>4, <1>5, <1>6
  <1>8. CASE SpreadEdge(w, f, t)
    <2>1. ~OtherEdge(w, f, t)
      BY <1>8 DEF SpreadEdge, OtherEdge
    <2>2. ext' = [ext EXCEPT ![t] =
             [e EXCEPT !.map = p, !.elim = IF @ = Candidate /\ t < p THEN NotYet ELSE @]]
      BY <1>3, <1>5, <1>8 DEF SpreadEdge, Raised
    <2>3. PICK d : d = [e EXCEPT !.map = p, !.elim = IF @ = Candidate /\ t < p THEN NotYet ELSE @]
      OBVIOUS
    <2>4. /\ d \in MapExtension
          /\ d.map = p /\ d.seen = e.seen /\ d.oldmap = e.oldmap /\ d.iteration = e.iteration
          /\ d.elim = IF e.elim = Candidate /\ t < p THEN NotYet ELSE e.elim
      BY <2>3, <1>3, <1>6 DEF MapExtension
    <2>5. ext'[t] = d /\ ext' \in [Nodes -> MapExtension]
      BY <2>2, <2>3, <2>4, <1>1, <1>2
    <2>6. \A n \in Nodes : n # t => ext'[n] = ext[n]
      BY <2>2, <1>2
    <2>. QED BY <2>1, <2>4, <2>5, <2>6, <1>1, <1>3, <1>4, <1>5, <1>6, <1>8
  <1>9. CASE OtherEdge(w, f, t)
    <2>1. ~SpreadEdge(w, f, t)
      BY <1>9 DEF SpreadEdge, OtherEdge
    <2>2. PICK k : k = shared.iteration % Rounds
      OBVIOUS
    <2>3. k \in 0..(Rounds - 1)
      BY <2>2, RoundsType DEF MapInv, Counters
    <2>4. ext' = [ext EXCEPT ![t] = [e EXCEPT !.iteration = k]]
      BY <1>3, <1>9, <2>2 DEF OtherEdge
    <2>5. PICK d : d = [e EXCEPT !.iteration = k]
      OBVIOUS
    <2>6. /\ d \in MapExtension
          /\ d.map = e.map /\ d.seen = e.seen /\ d.oldmap = e.oldmap /\ d.iteration = k
          /\ d.elim = e.elim
      BY <2>3, <2>5, <1>3 DEF MapExtension
    <2>7. ext'[t] = d /\ ext' \in [Nodes -> MapExtension]
      BY <2>4, <2>5, <2>6, <1>1, <1>2
    <2>8. \A n \in Nodes : n # t => ext'[n] = ext[n]
      BY <2>4, <1>2
    <2>. QED BY <2>1, <2>2, <2>6, <2>7, <2>8, <1>1, <1>3, <1>4, <1>5, <1>6, <1>9
  <1>. QED BY <1>7, <1>8, <1>9

\* A step that leaves the records, the targets and the counters alone.
LEMMA CountsKept ==
  ASSUME MapCounts, problem' = problem, store' = store, ext' = ext, shared' = shared,
         found' = found, phase' = phase, verdict' = verdict, ok' = ok,
         interrupted' = interrupted, \A v \in Workers : work'[v].target = work[v].target
  PROVE  MapCounts'
  <1>1. AcceptingSeen' = AcceptingSeen /\ CycleFound' = CycleFound
    BY DEF AcceptingSeen, Accepting, CycleFound
  <1>. QED BY <1>1 DEF MapCounts, Accepting

LEMMA VisitEdgeCounts ==
  ASSUME MapInv, MapCounts, NEW w \in Workers, VisitEdge(w)
  PROVE  MapCounts'
  <1>1. PICK f : f = work[w].from
    OBVIOUS
  <1>2. PICK t \in work[w].todo : CycleEdge(w, f, t) \/ SpreadEdge(w, f, t) \/ OtherEdge(w, f, t)
    BY <1>1, VisitEdgeWays
  <1>3. /\ f \in store /\ f \in Nodes /\ t \in Nodes /\ t \in problem.succ[f]
        /\ ext' \in [Nodes -> MapExtension]
        /\ \A n \in Nodes : n # t => ext'[n] = ext[n]
        /\ ext'[t].seen = ext[t].seen
        /\ ext'[t].map = IF SpreadEdge(w, f, t) THEN Propagated(f, t) ELSE ext[t].map
        /\ ext'[t].elim \in {ext[t].elim, Noted(t).elim,
                             IF Noted(t).elim = Candidate THEN NotYet ELSE Noted(t).elim}
        /\ Noted(t).elim = IF ext[t].elim < Eliminated /\ ~Accepting(t)
                           THEN NeverAccepting ELSE ext[t].elim
    BY <1>1, <1>2, VisitEdgeRecords
  <1>4. phase = "visit" /\ shared' = shared /\ ok' = ok
    BY VisitEdgeWays
  <1>5. PICK action : Edge(w, t, action)
    BY <1>2 DEF CycleEdge, SpreadEdge, OtherEdge
  <1>6. /\ store' = store \cup {t} /\ problem' = problem /\ phase' = phase /\ verdict' = verdict
        /\ interrupted' = (interrupted \/ action = "Terminate")
        /\ work'[w].target = IF action = "Expand" \/ (action = "Follow" /\ t \notin store)
                             THEN t ELSE None
    BY <1>5, EdgeTarget DEF MapInv
  <1>7. work[w].target = None /\ \A v \in Workers : v # w => work'[v] = work[v]
    BY <1>5 DEF Edge, MapInv, Stored
  <1>8. None \notin Nodes
    BY Numbers
  <1>9. t \in store \/ ext[t] = Fresh
    BY <1>3 DEF MapCounts
  <1>10. ext'[t].map \in store' \cup {None}
    <2>1. ext[t].map \in store \cup {None} /\ ext[f].map \in store \cup {None}
      BY <1>3 DEF MapCounts
    <2>2. Propagated(f, t) \in {ext[f].map, ext[t].map, t, None}
      BY DEF Propagated, Greater
    <2>. QED BY <2>1, <2>2, <1>3, <1>6
  <1>11. \A n \in Nodes : ext'[n].map \in store' \cup {None}
    BY <1>3, <1>6, <1>10 DEF MapCounts
  <1>12. \A n \in Nodes \ store' : ext'[n] = Fresh
    BY <1>3, <1>6 DEF MapCounts
  <1>13. \A n \in Nodes : ext'[n].seen /\ ~Accepting(n)' => ext'[n].elim = NeverAccepting
    <2>1. \A n \in Nodes : ext[n].seen /\ ~Accepting(n) => ext[n].elim = NeverAccepting
      BY DEF MapCounts
    <2>2. Accepting(t)' <=> Accepting(t)
      BY <1>6 DEF Accepting
    <2>3. \A n \in Nodes : Accepting(n)' <=> Accepting(n)
      BY <1>6 DEF Accepting
    <2>4. ext[t].elim = NeverAccepting => ext'[t].elim = NeverAccepting
      BY <1>3 DEF NeverAccepting, Eliminated, Candidate
    <2>. QED BY <2>1, <2>3, <2>4, <1>3
  <1>14. AcceptingSeen' = AcceptingSeen
    <2>1. \A n \in Nodes : ext'[n].seen = ext[n].seen
      BY <1>3
    <2>. QED BY <2>1, <1>6 DEF AcceptingSeen, Accepting
  <1>15. ASSUME t \notin store PROVE work'[w].target = t
    <2>1. ~Arrives(f, t)
      <3>1. t # f /\ ext[f].map # t
        BY <1>3, <1>8, <1>15 DEF MapCounts
      <3>. QED BY <3>1 DEF Arrives
    <2>2. ext[t].iteration # shared.iteration
      BY <1>9, <1>15 DEF MapCounts, MapInv, Counters, Fresh
    <2>3. Edge(w, t, "Expand")
      BY <1>2, <2>1, <2>2 DEF CycleEdge, SpreadEdge, OtherEdge
    <2>. QED BY <2>3, EdgeTarget DEF MapInv
  <1>16. ASSUME NEW n \in store'
         PROVE  ext'[n].seen \/ \E v \in Workers : work'[v].target = n
    <2>1. CASE n \in store
      <3>1. n \in Nodes
        BY <2>1, ReachableAreStates DEF MapInv
      <3>2. ext'[n].seen = ext[n].seen
        BY <3>1, <1>3
      <3>3. ASSUME NEW v \in Workers, work[v].target = n PROVE work'[v].target = n
        BY <3>1, <3>3, <1>7, <1>8
      <3>. QED BY <2>1, <3>2, <3>3 DEF MapCounts
    <2>2. CASE n \notin store
      <3>1. n = t
        BY <2>2, <1>6
      <3>2. work'[w].target = t
        BY <2>2, <3>1, <1>6, <1>15
      <3>. QED BY <3>1, <3>2
    <2>. QED BY <2>1, <2>2
  <1>17. interrupted' => CycleFound'
    <2>1. CASE CycleEdge(w, f, t)
      <3>1. found'[w] = t
        BY <2>1 DEF CycleEdge, MapInv
      <3>. QED BY <3>1, <1>3, <1>8 DEF CycleFound
    <2>2. CASE ~CycleEdge(w, f, t)
      <3>1. PICK a \in {"Expand", "Forget"} : Edge(w, t, a) /\ found' = found
        BY <1>2, <2>2 DEF SpreadEdge, OtherEdge
      <3>2. interrupted' => interrupted
        BY <3>1 DEF Edge
      <3>. QED BY <3>1, <3>2 DEF CycleFound, MapCounts
    <2>. QED BY <2>1, <2>2
  <1>. QED BY <1>4, <1>6, <1>11, <1>12, <1>13, <1>14, <1>16, <1>17 DEF MapCounts

\* A state is counted when it is seen, if it is accepting.
LEMMA VisitExpansionCounts ==
  ASSUME MapInv, MapCounts, NEW w \in Workers, VisitExpansion(w)
  PROVE  MapCounts'
  <1>1. PICK t : t = work[w].target
    OBVIOUS
  <1>2. /\ t \in Nodes /\ t \in store /\ work'[w].target = None
        /\ \A v \in Workers : v # w => work'[v].target = work[v].target
        /\ problem' = problem /\ verdict' = verdict /\ phase' = phase /\ store' = store
        /\ interrupted' = interrupted
    BY <1>1, PushAgain DEF MapInv, VisitExpansion
  <1>3. /\ ext' = [ext EXCEPT ![t] = Expanded(@, t)]
        /\ shared' = [shared EXCEPT !.accepting = @ + NewAccepting({t})]
        /\ found' = found /\ ok' = ok
    BY <1>1 DEF VisitExpansion
  <1>4. ext \in [Nodes -> MapExtension] /\ shared \in Counters
    BY DEF MapInv
  <1>5. /\ \A n \in Nodes : n # t => ext'[n] = ext[n]
        /\ ext'[t] = Expanded(ext[t], t)
    BY <1>2, <1>3, <1>4
  <1>6. /\ ext'[t].seen /\ ext'[t].map = ext[t].map
        /\ ~Accepting(t) => ext'[t].elim = NeverAccepting
    <2>1. ext[t] \in MapExtension
      BY <1>2, <1>4
    <2>2. ~ext[t].seen => ext'[t] = [ext[t] EXCEPT !.seen = TRUE,
                                       !.elim = IF Accepting(t) THEN @ ELSE NeverAccepting]
      BY <1>5 DEF Expanded
    <2>3. ext[t].seen => ext'[t] = ext[t]
      BY <1>5 DEF Expanded
    <2>4. ext[t].seen /\ ~Accepting(t) => ext[t].elim = NeverAccepting
      BY <1>2 DEF MapCounts
    <2>. QED BY <2>1, <2>2, <2>3, <2>4 DEF MapExtension
  <1>7. shared'.iteration = shared.iteration
        /\ shared'.accepting = shared.accepting + NewAccepting({t})
    BY <1>3, <1>4 DEF Counters
  <1>8. shared'.accepting = Cardinality(AcceptingSeen')
    <2>1. AcceptingSeen \in SUBSET Nodes
      BY DEF AcceptingSeen
    <2>2. \A n \in Nodes : n # t => ext'[n].seen = ext[n].seen
      BY <1>5
    <2>3. CASE ~ext[t].seen /\ Accepting(t)
      <3>1. AcceptingSeen' = AcceptingSeen \cup {t} /\ t \notin AcceptingSeen
        BY <2>2, <2>3, <1>2, <1>6 DEF AcceptingSeen, Accepting
      <3>2. {n \in {t} : ~ext[n].seen /\ Accepting(n)} = {t}
        BY <2>3
      <3>3. NewAccepting({t}) = 1
        BY <3>2, FS_Singleton DEF NewAccepting
      <3>. QED BY <2>1, <3>1, <3>3, <1>2, <1>7, OneMore DEF MapCounts
    <2>4. CASE ext[t].seen \/ ~Accepting(t)
      <3>1. AcceptingSeen' = AcceptingSeen
        BY <2>2, <2>4, <1>2, <1>6 DEF AcceptingSeen, Accepting
      <3>2. {n \in {t} : ~ext[n].seen /\ Accepting(n)} = {}
        BY <2>4
      <3>3. NewAccepting({t}) = 0
        BY <3>2, FS_EmptySet DEF NewAccepting
      <3>. QED BY <3>1, <3>3, <1>4, <1>7 DEF MapCounts, Counters
    <2>. QED BY <2>3, <2>4
  <1>9. \A n \in store : ext'[n].seen \/ \E v \in Workers : work'[v].target = n
    <2> SUFFICES ASSUME NEW n \in store, n # t
                 PROVE  ext'[n].seen \/ \E v \in Workers : work'[v].target = n
      BY <1>6
    <2>1. n \in Nodes
      BY ReachableAreStates DEF MapInv
    <2>2. ext'[n].seen = ext[n].seen
      BY <2>1, <1>5
    <2>3. ASSUME NEW v \in Workers, work[v].target = n PROVE work'[v].target = n
      BY <2>3, <1>1, <1>2
    <2>. QED BY <2>2, <2>3 DEF MapCounts
  <1>10. \A n \in Nodes : ext'[n].seen /\ ~Accepting(n)' => ext'[n].elim = NeverAccepting
    <2>1. \A n \in Nodes : Accepting(n)' <=> Accepting(n)
      BY <1>2 DEF Accepting
    <2>. QED BY <2>1, <1>5, <1>6 DEF MapCounts
  <1>11. /\ \A n \in Nodes : ext'[n].map \in store' \cup {None}
         /\ \A n \in Nodes \ store' : ext'[n] = Fresh
    BY <1>2, <1>5, <1>6 DEF MapCounts
  <1>12. CycleFound' = CycleFound
    BY <1>3 DEF CycleFound
  <1>. QED BY <1>2, <1>3, <1>7, <1>8, <1>9, <1>10, <1>11, <1>12 DEF MapCounts

\* At the end of an iteration everything stored has been seen, so that what is
\* eliminated is part of what was counted.
LEMMA QuietSeen ==
  ASSUME MapInv, MapCounts, Quiet
  PROVE  /\ \A n \in store : ext[n].seen
         /\ EliminatedNow \in Nat /\ EliminatedNow <= shared.accepting
  <1>1. \A w \in Workers : work[w].target = None
    BY DEF Quiet, Resting
  <1>2. \A n \in store : n # None
    BY ReachableAreStates, Numbers DEF MapInv
  <1>3. \A n \in store : ext[n].seen
    BY <1>1, <1>2 DEF MapCounts
  <1>4. PICK E : E = {n \in Iterated : ext[n].elim \in {Candidate, Eliminated}}
    OBVIOUS
  <1>5. E \in SUBSET AcceptingSeen
    <2> SUFFICES ASSUME NEW n \in E PROVE n \in AcceptingSeen
      OBVIOUS
    <2>1. n \in store /\ n \in Nodes /\ ext[n].elim # NeverAccepting
      <3>1. n \in store /\ ext[n].elim \in {Candidate, Eliminated}
        BY <1>4 DEF Iterated
      <3>. QED BY <3>1, ReachableAreStates DEF MapInv, Candidate, Eliminated, NeverAccepting
    <2>. QED BY <2>1, <1>3 DEF MapCounts, AcceptingSeen
  <1>6. AcceptingSeen \in SUBSET Nodes
    BY DEF AcceptingSeen
  <1>7. Cardinality(E) <= Cardinality(AcceptingSeen) /\ Cardinality(E) \in Nat
    <2>1. PICK S : S = AcceptingSeen
      OBVIOUS
    <2>2. E \in SUBSET S /\ S \in SUBSET Nodes /\ E \in SUBSET Nodes
      BY <2>1, <1>5, <1>6
    <2>. QED BY <2>1, <2>2, FewerStates, FiniteStates
  <1>. QED BY <1>3, <1>4, <1>7 DEF EliminatedNow, MapCounts

\* The clean-up between two iterations.
LEMMA CleanedFields ==
  ASSUME NEW e \in MapExtension
  PROVE  /\ Cleaned(e).seen = e.seen /\ Cleaned(e).iteration = e.iteration
         /\ Cleaned(e).oldmap = e.map
         /\ e.elim = NeverAccepting => Cleaned(e).elim = NeverAccepting
         /\ e.elim = NotYet => Cleaned(e).elim = Candidate
         /\ e.elim \in {Candidate, Eliminated} => Cleaned(e).elim = Eliminated
  <1>1. PICK k : k = CASE e.elim = NeverAccepting -> NeverAccepting
                       [] e.elim = NotYet -> Candidate
                       [] OTHER -> Eliminated
    OBVIOUS
  <1>2. /\ e.elim = NeverAccepting => k = NeverAccepting
        /\ e.elim = NotYet => k = Candidate
        /\ e.elim \in {Candidate, Eliminated} => k = Eliminated
    BY <1>1 DEF Candidate, NotYet, Eliminated, NeverAccepting
  <1>3. Cleaned(e) = [e EXCEPT !.oldmap = e.map, !.map = None, !.elim = k]
    BY <1>1 DEF Cleaned
  <1>. QED BY <1>2, <1>3 DEF MapExtension

LEMMA CleanedRecords ==
  ASSUME MapInv, MapCounts, NEW n \in Nodes,
         NEW e \in {ext[n], Cleaned(ext[n])}, NEW i
  PROVE  /\ e \in MapExtension
         /\ e.seen = ext[n].seen /\ e.iteration = ext[n].iteration
         /\ ext[n].elim = NeverAccepting => e.elim = NeverAccepting
         /\ e.map \in {None, ext[n].map}
         /\ [e EXCEPT !.iteration = i].seen = e.seen
         /\ [e EXCEPT !.iteration = i].elim = e.elim
         /\ [e EXCEPT !.iteration = i].map = e.map
         /\ [e EXCEPT !.iteration = i].oldmap = e.oldmap
         /\ [e EXCEPT !.iteration = i].iteration = i
  <1>1. ext[n] \in MapExtension
    BY DEF MapInv
  <1>2. Cleaned(ext[n]) \in MapExtension /\ Cleaned(ext[n]).map = None
    BY <1>1, CleanedType
  <1>3. /\ Cleaned(ext[n]).seen = ext[n].seen
        /\ Cleaned(ext[n]).iteration = ext[n].iteration
        /\ ext[n].elim = NeverAccepting => Cleaned(ext[n]).elim = NeverAccepting
    BY <1>1, CleanedFields
  <1>4. e \in MapExtension
    BY <1>1, <1>2
  <1>5. /\ [e EXCEPT !.iteration = i].seen = e.seen
        /\ [e EXCEPT !.iteration = i].elim = e.elim
        /\ [e EXCEPT !.iteration = i].map = e.map
        /\ [e EXCEPT !.iteration = i].oldmap = e.oldmap
        /\ [e EXCEPT !.iteration = i].iteration = i
    BY <1>4 DEF MapExtension
  <1>. QED BY <1>2, <1>3, <1>4, <1>5

LEMMA EndCounts ==
  ASSUME MapInv, MapCounts, EndVisit \/ EndMap
  PROVE  MapCounts'
  <1>1. PICK k : k = (shared.iteration + 1) % Rounds
    OBVIOUS
  <1>2. ASSUME NEW n \in Nodes
        PROVE  \E e \in {ext[n], Cleaned(ext[n])} :
                 /\ ext'[n] \in {e, [e EXCEPT !.iteration = k]}
                 /\ n \notin store => ext'[n] = ext[n]
    <2>1. PICK e : e = IF n \in Iterated THEN Cleaned(ext[n]) ELSE ext[n]
      OBVIOUS
    <2>2. n \notin store => e = ext[n] /\ n \notin problem.initials
      BY <2>1 DEF Iterated, MapInv, Stored
    <2>3. CASE EndVisit
      <3>1. ext'[n] = IF n \in problem.initials THEN [e EXCEPT !.iteration = k] ELSE e
        BY <2>1, <2>3, <1>1 DEF EndVisit
      <3>. QED BY <3>1, <2>1, <2>2
    <2>4. CASE EndMap
      <3>1. ext'[n] = e
        BY <2>1, <2>4 DEF EndMap
      <3>. QED BY <3>1, <2>1, <2>2
    <2>. QED BY <2>3, <2>4
  <1>3. ASSUME NEW n \in Nodes
        PROVE  /\ ext'[n].seen = ext[n].seen
               /\ ext[n].elim = NeverAccepting => ext'[n].elim = NeverAccepting
               /\ ext'[n].map \in {None, ext[n].map}
               /\ n \notin store => ext'[n] = ext[n]
    <2>1. PICK e \in {ext[n], Cleaned(ext[n])} :
                 /\ ext'[n] \in {e, [e EXCEPT !.iteration = k]}
                 /\ n \notin store => ext'[n] = ext[n]
      BY <1>2
    <2>2. PICK d : d = [e EXCEPT !.iteration = k]
      OBVIOUS
    <2>3. /\ e.seen = ext[n].seen /\ d.seen = e.seen /\ d.elim = e.elim /\ d.map = e.map
          /\ ext[n].elim = NeverAccepting => e.elim = NeverAccepting
          /\ e.map \in {None, ext[n].map}
      BY <2>2, CleanedRecords
    <2>4. ext'[n] \in {e, d}
      BY <2>1, <2>2
    <2>. QED BY <2>1, <2>3, <2>4
  <1>4. /\ problem' = problem /\ store' = store /\ found' = found /\ Quiet
        /\ Raise(EliminatedNow <= shared.accepting)
        /\ shared' = [shared EXCEPT !.eliminated = EliminatedNow, !.iteration = @ + 1]
    BY DEF EndVisit, EndMap
  <1>5. /\ interrupted' => interrupted
        /\ phase' \in {"visit", "done"} /\ (phase' = "visit" => verdict' = "none")
    BY DEF EndVisit, EndMap, Section, Report, MapCounts
  <1>6. shared'.accepting = shared.accepting /\ shared'.iteration > 0
    <2>1. PICK j : j = EliminatedNow
      OBVIOUS
    <2>2. shared' = [shared EXCEPT !.eliminated = j, !.iteration = @ + 1] /\ shared \in Counters
      BY <2>1, <1>4 DEF MapInv
    <2>. QED BY <2>2 DEF Counters
  <1>7. ok'
    BY <1>4, QuietSeen DEF Raise, MapCounts
  <1>8. AcceptingSeen' = AcceptingSeen
    BY <1>3, <1>4 DEF AcceptingSeen, Accepting
  <1>9. \A n \in store : ext'[n].seen
    <2>1. \A n \in store : n \in Nodes
      BY ReachableAreStates DEF MapInv
    <2>. QED BY <2>1, <1>3, <1>4, QuietSeen
  <1>10. \A n \in Nodes : ext'[n].seen /\ ~Accepting(n)' => ext'[n].elim = NeverAccepting
    <2>1. \A n \in Nodes : Accepting(n)' <=> Accepting(n)
      BY <1>4 DEF Accepting
    <2>. QED BY <2>1, <1>3 DEF MapCounts
  <1>11. /\ \A n \in Nodes : ext'[n].map \in store \cup {None}
         /\ \A n \in Nodes \ store : ext'[n] = Fresh
    BY <1>3 DEF MapCounts
  <1>12. interrupted' => CycleFound'
    BY <1>4, <1>5 DEF MapCounts, CycleFound
  <1>. QED BY <1>4, <1>5, <1>6, <1>7, <1>8, <1>9, <1>10, <1>11, <1>12 DEF MapCounts

LEMMA InitMapCounts == MapInit => MapCounts
  <1> SUFFICES ASSUME MapInit PROVE MapCounts
    OBVIOUS
  <1>1. Fresh \in MapExtension /\ problem \in Graphs
    <2>1. 0 \in 0..(Rounds - 1)
      BY SMT DEF Rounds
    <2>2. Fresh \in MapExtension
      BY <2>1, ElimType DEF Fresh, MapExtension, Candidate
    <2>. QED BY <2>2, VisitAssumption DEF MapInit, Graphs
  <1>2. PICK d : d = [Fresh EXCEPT !.iteration = 1]
    OBVIOUS
  <1>3. /\ d.seen = FALSE /\ d.map = None /\ Fresh.seen = FALSE /\ Fresh.map = None
    BY <1>2 DEF Fresh
  <1>4. \A n \in Nodes : ext[n] = IF n \in problem.initials THEN Expanded(d, n) ELSE Fresh
    BY <1>2 DEF MapInit
  <1>5. ASSUME NEW n PROVE /\ Expanded(d, n).seen /\ Expanded(d, n).map = None
                           /\ ~Accepting(n) => Expanded(d, n).elim = NeverAccepting
    BY <1>2, <1>3 DEF Expanded, Fresh
  <1>6. problem.initials \in SUBSET Nodes /\ store = problem.initials
    BY <1>1 DEF MapInit, Graphs
  <1>7. \A n \in Nodes : /\ ext[n].seen <=> n \in store
                         /\ ext[n].map = None
                         /\ n \in store /\ ~Accepting(n) => ext[n].elim = NeverAccepting
                         /\ n \notin store => ext[n] = Fresh
    BY <1>3, <1>4, <1>5, <1>6
  <1>8. AcceptingSeen = problem.initials \cap problem.accepting
    BY <1>6, <1>7 DEF AcceptingSeen, Accepting
  <1>9. /\ ok /\ interrupted = FALSE /\ phase = "visit" /\ verdict = "none"
        /\ shared.accepting = Cardinality(problem.initials \cap problem.accepting)
        /\ shared.iteration = 1
    BY DEF MapInit
  <1>. QED BY <1>6, <1>7, <1>8, <1>9 DEF MapCounts

LEMMA StepMapCounts == MapInv /\ MapCounts /\ [MapNext]_vars => MapCounts'
  <1> SUFFICES ASSUME MapInv, MapCounts, [MapNext]_vars PROVE MapCounts'
    OBVIOUS
  <1>1. ASSUME NEW w \in Workers, Take(w) PROVE MapCounts'
    <2>1. \A v \in Workers : work'[v].target = work[v].target
      BY <1>1, TakeAgain DEF MapInv
    <2>. QED BY <2>1, <1>1, CountsKept DEF Take
  <1>2. ASSUME NEW w \in Workers, VisitEdge(w) PROVE MapCounts'
    BY <1>2, VisitEdgeCounts
  <1>3. ASSUME NEW w \in Workers, VisitExpansion(w) PROVE MapCounts'
    BY <1>3, VisitExpansionCounts
  <1>4. CASE Drop \/ UNCHANGED vars
    BY <1>4, CountsKept DEF Drop, vars
  <1>5. CASE EndVisit \/ EndMap
    BY <1>5, EndCounts
  <1>. QED BY <1>1, <1>2, <1>3, <1>4, <1>5 DEF MapNext, MapWork, MapMaster, Finished

LEMMA MapCountsInvariant == MapSpec => [](MapInv /\ MapCounts)
  <1>. QED BY InitMapInv, StepMapInv, InitMapCounts, StepMapCounts, PTL DEF MapSpec

\* Never are more states eliminated than there are accepting ones (the ASSERT of
\* run in map.h), whatever the graph, the table and its shares.
THEOREM MapAssertions == MapSpec => []AssertionsHold
  <1>1. MapInv /\ MapCounts => AssertionsHold
    BY DEF MapCounts, AssertionsHold
  <1>. QED BY <1>1, MapCountsInvariant, PTL

-----------------------------------------------------------------------------
(* Cycles: a number that does not fall along the edges is the same on all  *)
(* the states of a cycle.                                                  *)

LEMMA AroundNext ==
  ASSUME NEW g \in Graphs, NEW n \in Nodes, NEW a, Around(g, n, a),
         NEW x \in From(g, {a}), n \in From(g, {x})
  PROVE  Around(g, n, x)
  <1>1. From(g, {a}) \subseteq From(g, {n})
    <2>1. {a} \subseteq From(g, {n})
      BY DEF Around
    <2>. QED BY <2>1, FromFrom
  <1>. QED BY <1>1 DEF Around

LEMMA AroundSame ==
  ASSUME NEW g \in Graphs, NEW n \in Nodes, NEW M \in [Nodes -> Nat],
         \A a, b \in Nodes : Around(g, n, a) /\ Around(g, n, b) /\ b \in g.succ[a]
                             => M[a] <= M[b],
         NEW a \in Nodes, NEW b \in Nodes, Around(g, n, a), Around(g, n, b)
  PROVE  M[a] <= M[b]
  <1> DEFINE C == {x \in From(g, {a}) : n \in From(g, {x}) => M[a] <= M[x]}
  <1>1. C \in SUBSET Nodes
    BY DEF From
  <1>2. {a} \subseteq C
    <2>1. a \in From(g, {a})
      BY FromItself
    <2>. QED BY <2>1
  <1>3. Closed(g, C)
    <2> SUFFICES ASSUME NEW x \in C, NEW y \in g.succ[x] PROVE y \in C
      BY DEF Closed
    <2>1. x \in From(g, {a}) /\ x \in Nodes /\ y \in From(g, {a}) /\ y \in Nodes
      <3>1. x \in From(g, {a})
        OBVIOUS
      <3>2. y \in From(g, {a})
        BY <3>1, FromNext
      <3>. QED BY <3>1, <3>2 DEF From
    <2>2. ASSUME n \in From(g, {y}) PROVE M[a] <= M[y]
      <3>1. y \in From(g, {x})
        <4>1. x \in From(g, {x})
          BY <2>1, FromItself
        <4>. QED BY <4>1, FromNext
      <3>2. n \in From(g, {x})
        <4>1. From(g, {y}) \subseteq From(g, {x})
          BY <3>1, FromFrom
        <4>. QED BY <4>1, <2>2
      <3>3. Around(g, n, x) /\ Around(g, n, y)
        BY <2>1, <2>2, <3>2, AroundNext
      <3>4. M[a] <= M[x] /\ M[x] <= M[y]
        BY <2>1, <3>2, <3>3
      <3>5. M[a] \in Nat /\ M[x] \in Nat /\ M[y] \in Nat
        BY <2>1
      <3>. QED BY <3>4, <3>5
    <2>. QED BY <2>1, <2>2
  <1>4. b \in From(g, {a})
    <2>1. {n} \subseteq From(g, {a})
      BY DEF Around
    <2>2. From(g, {n}) \subseteq From(g, {a})
      BY <2>1, FromFrom
    <2>. QED BY <2>2 DEF Around
  <1>5. b \in C
    BY <1>1, <1>2, <1>3, <1>4, FromWithin
  <1>. QED BY <1>5 DEF Around

\* A state on a cycle has a state of the cycle before it.
LEMMA CycleBefore ==
  ASSUME NEW g \in Graphs, NEW n \in Nodes, OnCycleOf(g, n)
  PROVE  Around(g, n, n) /\ \E f \in Nodes : Around(g, n, f) /\ n \in g.succ[f]
  <1>1. PICK K \in SUBSET From(g, {n}) :
           n \in K /\ \A m \in K : \E p \in K : m \in g.succ[p]
    BY CycleHolds
  <1>2. PICK f \in K : n \in g.succ[f]
    BY <1>1
  <1>3. f \in Nodes /\ f \in From(g, {n})
    BY <1>2 DEF From
  <1>4. n \in From(g, {f}) /\ n \in From(g, {n})
    <2>1. f \in From(g, {f}) /\ n \in From(g, {n})
      BY <1>3, FromItself
    <2>. QED BY <2>1, <1>2, FromNext
  <1>. QED BY <1>2, <1>3, <1>4 DEF Around

-----------------------------------------------------------------------------
(* The end of an iteration that has found no cycle.                        *)

LEMMA QuietSpread ==
  ASSUME MapInv, Mapping, Quiet
  PROVE  /\ From(problem, problem.initials) \subseteq Active
         /\ \A n \in Active : \A t \in problem.succ[n] : Spread(n, t)
  <1>1. problem \in Graphs
    BY DEF MapInv, Stored
  <1>2. \A n \in Active : \A t \in problem.succ[n] : Spread(n, t)
    <2>1. \A n \in Active : n \in Nodes
      BY DEF Active
    <2>. QED BY <2>1, QuietFollows DEF Mapping, Numbered
  <1>3. PICK A \in SUBSET Nodes : A = Active
    BY DEF Active
  <1>4. Closed(problem, A)
    BY <1>2, <1>3 DEF Closed, Spread
  <1>5. From(problem, problem.initials) \subseteq A
    BY <1>1, <1>3, <1>4, FromWithin DEF Mapping
  <1>. QED BY <1>2, <1>3, <1>5

\* The states of an accepting cycle hold the same number, which is greater than
\* that of its accepting state, or else the cycle would have been found.
LEMMA CycleKeepsState ==
  ASSUME MapInv, Mapping, Quiet, NEW n \in Nodes, IsReal(problem, n)
  PROVE  /\ ext[n].elim = NotYet
         /\ \A m \in Nodes : Around(problem, n, m) => ext[m].map = ext[n].map
  <1>1. PICK g \in Graphs : g = problem
    BY DEF MapInv, Stored
  <1>2. ext \in [Nodes -> MapExtension] /\ None \in Nat
    BY DEF MapInv, None
  <1>3. PICK M \in [Nodes -> Nat] : \A m \in Nodes : M[m] = ext[m].map
    <2> DEFINE L == [m \in Nodes |-> ext[m].map]
    <2>1. \A m \in Nodes : ext[m].map \in Nat
      BY <1>2, Numbers DEF MapExtension
    <2>2. L \in [Nodes -> Nat] /\ \A m \in Nodes : L[m] = ext[m].map
      BY <2>1
    <2>. QED BY <2>2
  <1>4. OnCycleOf(g, n) /\ n \in From(g, g.initials)
    BY <1>1 DEF IsReal
  <1>5. ASSUME NEW m \in Nodes, Around(g, n, m)
        PROVE  m \in Active /\ ext[m].oldmap = ext[n].oldmap
    <2>1. m \in From(g, g.initials)
      <3>1. {n} \subseteq From(g, g.initials)
        BY <1>4
      <3>2. From(g, {n}) \subseteq From(g, g.initials)
        BY <3>1, FromFrom
      <3>. QED BY <3>2, <1>5 DEF Around
    <2>. QED BY <2>1, <1>1, <1>5, QuietSpread DEF Mapping, Numbered
  <1>6. ASSUME NEW a \in Nodes, NEW b \in Nodes, Around(g, n, a), Around(g, n, b),
               b \in g.succ[a]
        PROVE  Spread(a, b) /\ M[a] <= M[b]
    <2>1. Spread(a, b)
      BY <1>1, <1>5, <1>6, QuietSpread
    <2>2. ext[a].oldmap = ext[b].oldmap
      BY <1>5, <1>6
    <2>. QED BY <2>1, <2>2, <1>3, <1>6 DEF Spread
  <1>7. ASSUME NEW a \in Nodes, NEW b \in Nodes, Around(g, n, a), Around(g, n, b)
        PROVE  M[a] <= M[b]
    BY <1>6, <1>7, AroundSame
  <1>8. Around(g, n, n)
    BY <1>4, CycleBefore
  <1>9. ASSUME NEW m \in Nodes, Around(g, n, m) PROVE M[m] = M[n]
    <2>1. M[m] <= M[n] /\ M[n] <= M[m]
      BY <1>7, <1>8, <1>9
    <2>2. M[m] \in Nat /\ M[n] \in Nat
      BY <1>9
    <2>. QED BY <2>1, <2>2
  <1>10. PICK f \in Nodes : Around(g, n, f) /\ n \in g.succ[f]
    BY <1>4, CycleBefore
  <1>11. StillAccepting(n) /\ ext[n].elim \in {Candidate, NotYet}
    BY DEF Mapping, Numbered, IsReal, StillAccepting, Accepting, Candidate, NotYet, Eliminated
  <1>12. n <= M[n] /\ M[f] # n
    <2>1. Spread(f, n) /\ ext[f].oldmap = ext[n].oldmap
      BY <1>5, <1>6, <1>8, <1>10
    <2>. QED BY <2>1, <1>3, <1>10, <1>11 DEF Spread
  <1>13. ~(M[n] <= n)
    <2>1. n \in Nat /\ M[n] \in Nat
      BY Numbers
    <2>2. M[f] = M[n]
      BY <1>9, <1>10
    <2>. QED BY <2>1, <2>2, <1>12
  <1>14. ext[n].elim # Candidate
    BY <1>3, <1>11, <1>13 DEF Mapping, Numbered, StillAccepting
  <1>. QED BY <1>1, <1>3, <1>9, <1>11, <1>14

\* Among states each of which knows of a greater one, there is no last.
LEMMA NoneIsLast ==
  ASSUME NEW Y \in SUBSET Nodes, \A q \in Y : \E p \in Y : q < p
  PROVE  Y = {}
  <1> SUFFICES ASSUME Y # {} PROVE FALSE
    OBVIOUS
  <1> DEFINE Up(q) == {p \in Nodes : q < p}
             All == {Up(q) : q \in Y}
  <1>1. PICK Z \in All : \A X \in All : ~(<<X, Z>> \in StrictSubsetOrdering(Nodes))
    <2>1. IsWellFoundedOn(StrictSubsetOrdering(Nodes), FiniteSubsetsOf(Nodes))
      BY FS_StrictSubsetOrderingWellFounded
    <2>2. FiniteSubsetsOf(Nodes) = SUBSET Nodes
      BY VisitAssumption, FS_FiniteSubsetsOfFinite
    <2>3. All \subseteq SUBSET Nodes /\ All # {}
      <3>1. PICK q : q \in Y
        OBVIOUS
      <3>2. Up(q) \in All
        BY <3>1
      <3>. QED BY <3>2
    <2> HIDE DEF All
    <2>. QED BY <2>1, <2>2, <2>3, WFMin
  <1>2. PICK q \in Y : Z = Up(q)
    BY <1>1
  <1>3. PICK p \in Y : q < p
    OBVIOUS
  <1>4. q \in Nat /\ p \in Nat /\ \A k \in Nodes : k \in Nat
    BY Numbers
  <1>5. Up(p) \subseteq Up(q) /\ p \in Up(q) /\ p \notin Up(p)
    <2>1. \A k \in Nodes : p < k => q < k
      BY <1>3, <1>4
    <2>2. ~(p < p)
      BY <1>4
    <2> HIDE DEF All
    <2>3. Up(p) \subseteq Up(q)
      BY <2>1
    <2>4. p \in Up(q)
      BY <1>3
    <2>5. p \notin Up(p)
      BY <2>2
    <2>. QED BY <2>3, <2>4, <2>5
  <1>6. Up(p) \in All /\ Up(p) \in SUBSET Nodes /\ Z \in SUBSET Nodes
    BY <1>2
  <1>7. <<Up(p), Z>> \in StrictSubsetOrdering(Nodes)
    <2> HIDE DEF Up
    <2>. QED BY <1>2, <1>5, <1>6 DEF StrictSubsetOrdering
  <1>. QED BY <1>1, <1>6, <1>7

LEMMA AllIterated ==
  ASSUME MapInv, WholeShares
  PROVE  Iterated = store
  <1>1. store \subseteq Nodes
    BY ReachableAreStates DEF MapInv
  <1>. QED BY <1>1 DEF WholeShares, Iterated

\* When nothing more is eliminated, or everything is, there was no cycle.
LEMMA EndsRight ==
  ASSUME MapInv, MapCounts, Mapping, Quiet, WholeShares, ~GoesOn, ~CycleFound
  PROVE  \A n \in Nodes : ~IsReal(problem, n)
  <1> SUFFICES ASSUME NEW n \in Nodes, IsReal(problem, n) PROVE FALSE
    OBVIOUS
  <1>1. ext \in [Nodes -> MapExtension] /\ shared \in Counters
    BY DEF MapInv
  <1>2. Candidate = 0 /\ NotYet = 1 /\ Eliminated = 2 /\ NeverAccepting = 3
    BY DEF Candidate, NotYet, Eliminated, NeverAccepting
  <1>3. \A k \in Nodes : ext[k].elim # Candidate => k \in store
    BY DEF MapCounts, Fresh
  <1>4. PICK E \in SUBSET Nodes : E = {k \in store : ext[k].elim \in {Candidate, Eliminated}}
    <2>1. store \subseteq Nodes
      BY ReachableAreStates DEF MapInv
    <2>. QED BY <2>1
  <1>5. EliminatedNow = Cardinality(E) /\ Cardinality(E) \in Nat
    BY <1>4, AllIterated, FiniteStates DEF EliminatedNow
  <1>6. PICK S \in SUBSET Nodes : S = AcceptingSeen
    BY DEF AcceptingSeen
  <1>7. PICK G \in SUBSET Nodes : G = Gone
    BY DEF Gone
  <1>8. ext[n].elim = NotYet
    BY CycleKeepsState
  <1>9. n \in S /\ n \notin E
    <2>1. n \in store
      BY <1>2, <1>3, <1>8
    <2>2. ext[n].seen
      BY <2>1, QuietSeen
    <2>3. Accepting(n)
      BY DEF IsReal, Accepting
    <2>. QED BY <2>1, <2>2, <2>3, <1>2, <1>4, <1>6, <1>8 DEF AcceptingSeen
  <1>10. E \subseteq S
    <2> SUFFICES ASSUME NEW k \in E PROVE k \in S
      OBVIOUS
    <2>1. k \in Nodes /\ ext[k].seen /\ ext[k].elim # NeverAccepting
      BY <1>2, <1>4, QuietSeen
    <2>. QED BY <2>1, <1>6 DEF MapCounts, AcceptingSeen
  <1>11. Cardinality(E) < shared.accepting
    <2>1. E \in SUBSET (S \ {n}) /\ S \ {n} \in SUBSET Nodes
      BY <1>9, <1>10
    <2>2. Cardinality(E) <= Cardinality(S \ {n})
      BY <2>1, FewerStates
    <2>3. Cardinality(S \ {n}) = Cardinality(S) - 1
      BY <1>9, OneLess
    <2>4. Cardinality(S) \in Nat
      BY FiniteStates
    <2>5. shared.accepting = Cardinality(S)
      BY <1>6 DEF MapCounts
    <2>. QED BY <2>2, <2>3, <2>4, <2>5, <1>5
  <1>12. Cardinality(E) <= Cardinality(G)
    <2>1. shared.eliminated = Cardinality(G)
      BY <1>7 DEF Mapping, Numbered
    <2>2. ~(Cardinality(E) > shared.eliminated)
      BY <1>5, <1>11 DEF GoesOn
    <2>. QED BY <2>1, <2>2, <1>1, <1>5 DEF Counters
  <1>13. G \subseteq E
    BY <1>2, <1>3, <1>4, <1>7 DEF Gone
  <1>14. E = G
    <2>1. IsFiniteSet(E)
      BY FiniteStates
    <2>2. Cardinality(G) <= Cardinality(E) /\ (Cardinality(E) = Cardinality(G) => E = G)
      BY <2>1, <1>13, FS_Subset
    <2>3. Cardinality(G) \in Nat
      BY FiniteStates
    <2>. QED BY <2>2, <2>3, <1>5, <1>12
  <1>15. PICK Y \in SUBSET Nodes : Y = {k \in Nodes : ext[k].elim = NotYet}
    OBVIOUS
  <1>16. ASSUME NEW q \in Y PROVE \E p \in Y : q < p
    <2>1. PICK p : p = ext[q].map
      OBVIOUS
    <2>2. q < p /\ q \in Nat
      BY <2>1, <1>15, Numbers DEF Mapping, Numbered
    <2>3. p \in Nodes \cup {None}
      BY <2>1, <1>1, <1>15 DEF MapExtension
    <2>4. p # None /\ p \in Nodes
      BY <2>2, <2>3 DEF None
    <2>5. StillAccepting(p)
      BY <2>1, <2>4, <1>15 DEF Mapping, Numbered
    <2>6. p \in store
      BY <2>1, <2>4, <1>15 DEF MapCounts
    <2>7. ext[p].elim \in {Candidate, NotYet}
      BY <2>4, <2>5, <1>1, <1>2 DEF StillAccepting, MapExtension
    <2>8. ext[p].elim # Candidate
      BY <2>6, <1>2, <1>4, <1>7, <1>14 DEF Gone
    <2>. QED BY <2>2, <2>4, <2>7, <2>8, <1>15
  <1>17. Y = {}
    BY <1>16, NoneIsLast
  <1>. QED BY <1>8, <1>15, <1>17

-----------------------------------------------------------------------------
(* Every step of an iteration keeps what holds of the edges behind it.     *)

\* A step that changes the records only in what nothing else looks at.
LEMMA MappingKept ==
  ASSUME MapInv, Mapping, problem' = problem,
         shared'.iteration = shared.iteration, shared'.eliminated = shared.eliminated,
         \A n \in Nodes : /\ ext'[n].iteration = ext[n].iteration
                          /\ ext'[n].map = ext[n].map /\ ext'[n].oldmap = ext[n].oldmap
                          /\ Accepting(n) => ext'[n].elim = ext[n].elim
                          /\ ~Accepting(n) => ext'[n].elim \in {ext[n].elim, NeverAccepting},
         \A n \in Nodes : \A t \in problem.succ[n] : Followed(n, t)' => Followed(n, t)
  PROVE  Mapping'
  <1>1. \A n : Accepting(n)' <=> Accepting(n)
    BY DEF Accepting
  <1>2. problem.succ \in [Nodes -> SUBSET Nodes] /\ problem.accepting \subseteq Nodes
    BY DEF MapInv, Stored, Graphs
  <1>3. \A n : StillAccepting(n)' <=> StillAccepting(n)
    <2>1. \A n : Accepting(n) => n \in Nodes
      BY <1>2 DEF Accepting
    <2>. QED BY <2>1, <1>1 DEF StillAccepting
  <1>4. Active' = Active /\ Active \subseteq Nodes
    BY DEF Active
  <1>5. Gone' = Gone
    <2>1. ASSUME NEW n \in Nodes PROVE ext'[n].elim = Eliminated <=> ext[n].elim = Eliminated
      <3>1. CASE Accepting(n)
        BY <3>1
      <3>2. CASE ~Accepting(n)
        <4>1. ext[n].elim # Eliminated
          BY <3>2 DEF Mapping, Numbered
        <4>. QED BY <3>2, <4>1 DEF Eliminated, NeverAccepting
      <3>. QED BY <3>1, <3>2
    <2>. QED BY <2>1 DEF Gone
  <1>6. ASSUME NEW n \in Nodes
        PROVE  Numbered(n)'
    <2>1. /\ ext[n].iteration <= shared.iteration
          /\ ext[n].elim = NotYet => n < ext[n].map
          /\ Accepting(n) /\ ext[n].elim = Candidate => ext[n].map <= n
          /\ ext[n].elim \in {NotYet, Eliminated} => Accepting(n)
          /\ ext[n].map # None => StillAccepting(ext[n].map)
          /\ IsReal(problem, n) => ext[n].elim \in {Candidate, NotYet}
          /\ IsReal(problem, n) => \A m \in Nodes :
               Around(problem, n, m) => ext[m].oldmap = ext[n].oldmap
      BY DEF Mapping, Numbered
    <2>2. ext'[n].elim \in {NotYet, Eliminated} => Accepting(n) /\ ext'[n].elim = ext[n].elim
      <3>1. CASE Accepting(n)
        BY <3>1
      <3>2. CASE ~Accepting(n)
        BY <2>1, <3>2 DEF NotYet, Eliminated, NeverAccepting
      <3>. QED BY <3>1, <3>2
    <2>3. IsReal(problem, n) => Accepting(n)
      BY DEF IsReal, Accepting
    <2>4. PICK k : k = ext[n].map
      OBVIOUS
    <2>5. k # None => ext'[k].elim < Eliminated /\ k \in problem'.accepting
      BY <2>1, <2>4, <1>3 DEF StillAccepting, Accepting
    <2>6. (ext[n].map # None => StillAccepting(ext[n].map))'
      BY <2>4, <2>5, ext'[n].map = ext[n].map DEF StillAccepting, Accepting
    <2>7. IsReal(problem, n) => ext'[n].elim \in {Candidate, NotYet}
      BY <2>1, <2>3
    <2>8. IsReal(problem, n) => \A m \in Nodes :
            Around(problem, n, m) => ext'[m].oldmap = ext'[n].oldmap
      BY <2>1
    <2>. QED BY <2>1, <2>2, <2>6, <2>7, <2>8, <1>1 DEF Numbered
  <1>7. ASSUME NEW n \in Active, NEW t \in problem.succ[n], Followed(n, t)'
        PROVE  Spread(n, t)'
    <2>1. n \in Nodes /\ t \in Nodes
      BY <1>2, <1>4
    <2>2. Spread(n, t)
      BY <1>7, <2>1 DEF Mapping
    <2>. QED BY <2>1, <2>2, <1>3, <1>4 DEF Spread
  <1>8. problem'.initials \subseteq Active'
    BY <1>4 DEF Mapping
  <1>. QED BY <1>4, <1>5, <1>6, <1>7, <1>8 DEF Mapping

LEMMA VisitExpansionMapping ==
  ASSUME MapInv, Mapping, NEW w \in Workers, VisitExpansion(w)
  PROVE  Mapping'
  <1>1. PICK t : t = work[w].target
    OBVIOUS
  <1>2. /\ t \in Nodes /\ problem' = problem
        /\ \A n \in Nodes : \A m : Followed(n, m)' => Followed(n, m)
    BY <1>1, PushAgain DEF MapInv, VisitExpansion
  <1>3. ext' = [ext EXCEPT ![t] = Expanded(@, t)] /\ ext \in [Nodes -> MapExtension]
    BY <1>1 DEF VisitExpansion, MapInv
  <1>4. PICK k : k = NewAccepting({t})
    OBVIOUS
  <1>5. shared' = [shared EXCEPT !.accepting = @ + k] /\ shared \in Counters
    BY <1>1, <1>4 DEF VisitExpansion, MapInv
  <1>6. shared'.iteration = shared.iteration /\ shared'.eliminated = shared.eliminated
    BY <1>5 DEF Counters
  <1>7. ASSUME NEW n \in Nodes
        PROVE  /\ ext'[n].iteration = ext[n].iteration
               /\ ext'[n].map = ext[n].map /\ ext'[n].oldmap = ext[n].oldmap
               /\ Accepting(n) => ext'[n].elim = ext[n].elim
               /\ ~Accepting(n) => ext'[n].elim \in {ext[n].elim, NeverAccepting}
    <2>1. CASE n # t
      BY <2>1, <1>2, <1>3
    <2>2. CASE n = t
      <3>1. PICK e \in MapExtension : e = ext[t]
        BY <1>2, <1>3
      <3>2. ext'[t] = Expanded(e, t)
        BY <3>1, <1>2, <1>3
      <3>3. CASE e.seen
        BY <2>2, <3>1, <3>2, <3>3 DEF Expanded
      <3>4. CASE ~e.seen
        <4>1. ext'[t] = [e EXCEPT !.seen = TRUE,
                                  !.elim = IF Accepting(t) THEN @ ELSE NeverAccepting]
          BY <3>2, <3>4 DEF Expanded
        <4>. QED BY <2>2, <3>1, <4>1 DEF MapExtension
      <3>. QED BY <3>3, <3>4
    <2>. QED BY <2>1, <2>2
  <1>. QED BY <1>2, <1>6, <1>7, MappingKept

\* An edge that does not come back to the state of its number.
LEMMA VisitEdgeMapping ==
  ASSUME MapInv, MapCounts, Mapping, InRounds, NEW w \in Workers, NEW f, f = work[w].from,
         NEW t \in work[w].todo, SpreadEdge(w, f, t) \/ OtherEdge(w, f, t), shared' = shared
  PROVE  Mapping'
  <1>1. /\ f \in Nodes /\ t \in Nodes /\ t \in problem.succ[f]
        /\ ext' \in [Nodes -> MapExtension] /\ ext \in [Nodes -> MapExtension]
        /\ \A n \in Nodes : n # t => ext'[n] = ext[n]
        /\ ext'[t].oldmap = ext[t].oldmap
        /\ ext'[t].map = IF SpreadEdge(w, f, t) THEN Propagated(f, t) ELSE ext[t].map
        /\ ext'[t].iteration = IF OtherEdge(w, f, t) THEN shared.iteration % Rounds
                               ELSE ext[t].iteration
        /\ Propagated(f, t) \in Nodes \cup {None}
    BY VisitEdgeRecords DEF MapInv
  <1>2. PICK p : p = Propagated(f, t)
    OBVIOUS
  <1>3. PICK a \in {"Expand", "Forget"} : /\ Edge(w, t, a) /\ ~Arrives(f, t)
                                          /\ SpreadEdge(w, f, t) => a = "Expand"
                                          /\ a = "Forget" => ext[t].iteration = shared.iteration
    BY DEF SpreadEdge, OtherEdge
  <1>4. problem' = problem /\ work'[w].target = IF a = "Expand" THEN t ELSE None
    <2>1. a # "Follow"
      BY <1>3
    <2>. QED BY <2>1, <1>3, EdgeTarget DEF MapInv
  <1>5. \A n \in Nodes : \A m \in problem.succ[n] :
          Followed(n, m)' => Followed(n, m) \/ (n = f /\ m = t)
    BY <1>3, EdgeAgain DEF MapInv
  <1>6. \A n \in Nodes \cup {None} : n \in Nat
    BY Numbers DEF None
  <1>7. Candidate = 0 /\ NotYet = 1 /\ Eliminated = 2 /\ NeverAccepting = 3
    BY DEF Candidate, NotYet, Eliminated, NeverAccepting
  <1>8. PICK k, d \in 0..3 : k = ext[t].elim /\ d = ext'[t].elim
    BY <1>1, ElimType DEF MapExtension
  <1>9. /\ Accepting(t) => d = k \/ (d = NotYet /\ k = Candidate /\ SpreadEdge(w, f, t) /\ t < p)
        /\ ~Accepting(t) => d \in {k, NeverAccepting}
        /\ Accepting(t) /\ SpreadEdge(w, f, t) /\ k = Candidate /\ t < p => d = NotYet
    <2>1. /\ Noted(t).elim = IF k < Eliminated /\ ~Accepting(t) THEN NeverAccepting ELSE k
          /\ SpreadEdge(w, f, t) =>
               d = IF Noted(t).elim = Candidate /\ t < p THEN NotYet ELSE Noted(t).elim
          /\ ~SpreadEdge(w, f, t) => d \in {k, Noted(t).elim}
      BY <1>2, <1>8, VisitEdgeRecords
    <2>2. PICK c : c = Noted(t).elim
      OBVIOUS
    <2>. QED BY <2>1, <2>2, <1>7, <1>8
  <1>10. /\ ext[t].map \in Nat /\ ext[f].map \in Nat /\ t \in Nat /\ p \in Nat
         /\ ext'[t].map \in Nat /\ ext[t].map <= ext'[t].map
         /\ SpreadEdge(w, f, t) => ext'[t].map = p /\ ext[t].map < p
         /\ ~SpreadEdge(w, f, t) => ext'[t].map = ext[t].map
    <2>1. ext[t].map \in Nodes \cup {None} /\ ext[f].map \in Nodes \cup {None}
      BY <1>1 DEF MapExtension
    <2>2. ext[t].map \in Nat /\ ext[f].map \in Nat /\ t \in Nat /\ p \in Nat
      BY <2>1, <1>1, <1>2, <1>6
    <2>3. SpreadEdge(w, f, t) => ext[t].map < p
      BY <1>2 DEF SpreadEdge, Spreads
    <2>. QED BY <2>2, <2>3, <1>1, <1>2
  <1>11. /\ p \in {ext[f].map, ext[t].map} \/ (StillAccepting(t) /\ p = t)
         /\ p = None \/ StillAccepting(p)
         /\ ext[f].map <= p /\ (StillAccepting(t) => t <= p)
    <2>1. PICK x, y, z \in Nat : /\ x = ext[f].map /\ y = ext[t].map
                                 /\ z = IF StillAccepting(t) THEN t ELSE None
      BY <1>10 DEF None
    <2>2. p = Greater(Greater(x, y), z)
      BY <2>1, <1>2 DEF Propagated
    <2>3. p \in {x, y, z} /\ x <= p /\ z <= p
      BY <2>1, <2>2 DEF Greater
    <2>4. x = None \/ StillAccepting(x)
      BY <2>1, <1>1 DEF Mapping, Numbered
    <2>5. y = None \/ StillAccepting(y)
      BY <2>1, <1>1 DEF Mapping, Numbered
    <2>6. p \in {ext[f].map, ext[t].map} \/ (StillAccepting(t) /\ p = t)
      <3>1. CASE p = z /\ ~StillAccepting(t)
        <4>1. p = 0 /\ x <= 0
          BY <2>1, <2>3, <3>1 DEF None
        <4>. QED BY <4>1, <2>1
      <3>. QED BY <3>1, <2>1, <2>3
    <2>. QED BY <2>1, <2>3, <2>4, <2>5, <2>6
  <1>12. \A n : Accepting(n)' <=> Accepting(n)
    BY <1>4 DEF Accepting
  <1>13. \A n : Accepting(n) => n \in Nodes
    BY DEF MapInv, Stored, Graphs, Accepting
  <1>14. ASSUME NEW n PROVE StillAccepting(n)' <=> StillAccepting(n)
    <2>1. CASE n # t
      BY <2>1, <1>1, <1>12, <1>13 DEF StillAccepting
    <2>2. CASE n = t
      BY <2>2, <1>7, <1>8, <1>9, <1>12 DEF StillAccepting
    <2>. QED BY <2>1, <2>2
  <1>15. Gone' = Gone
    <2>1. ~Accepting(t) => k # Eliminated
      BY <1>1, <1>8 DEF Mapping, Numbered
    <2>2. d = Eliminated <=> k = Eliminated
      BY <2>1, <1>7, <1>9
    <2>. QED BY <2>2, <1>1, <1>8 DEF Gone
  <1>16. /\ ext'[t].iteration \in {ext[t].iteration, shared.iteration}
         /\ OtherEdge(w, f, t) => ext'[t].iteration = shared.iteration
    <2>1. shared.iteration \in Nat /\ Rounds \in Nat
      <3>1. Rounds \in Nat
        BY SMT DEF Rounds
      <3>. QED BY <3>1 DEF MapInv, Counters
    <2>2. shared.iteration % Rounds = shared.iteration
      BY <2>1, SMT DEF InRounds
    <2>. QED BY <2>2, <1>1
  <1>17. Active' = Active \cup {t}
    <2>1. t \in Active'
      <3>1. CASE SpreadEdge(w, f, t)
        BY <3>1, <1>1, <1>10 DEF Active, None
      <3>2. CASE OtherEdge(w, f, t)
        BY <3>2, <1>1, <1>16 DEF Active
      <3>. QED BY <3>1, <3>2
    <2>2. \A n \in Nodes : n # t => (n \in Active' <=> n \in Active)
      BY <1>1 DEF Active
    <2>3. Active \subseteq Nodes /\ Active' \subseteq Nodes
      BY DEF Active
    <2>. QED BY <2>1, <2>2, <2>3, <1>1
  <1>18. ASSUME NEW n \in Nodes
         PROVE  Numbered(n)'
    <2>1. /\ ext[n].iteration <= shared.iteration
          /\ ext[n].elim = NotYet => n < ext[n].map
          /\ Accepting(n) /\ ext[n].elim = Candidate => ext[n].map <= n
          /\ ext[n].elim \in {NotYet, Eliminated} => Accepting(n)
          /\ ext[n].map # None => StillAccepting(ext[n].map)
          /\ IsReal(problem, n) => ext[n].elim \in {Candidate, NotYet}
          /\ IsReal(problem, n) => \A m \in Nodes :
               Around(problem, n, m) => ext[m].oldmap = ext[n].oldmap
      BY DEF Mapping, Numbered
    <2>2. \A m \in Nodes : ext'[m].oldmap = ext[m].oldmap
      BY <1>1
    <2>3. CASE n # t
      <3>1. ext'[n] = ext[n]
        BY <2>3, <1>1
      <3>2. PICK x : x = ext[n].map
        OBVIOUS
      <3>3. x # None => ext'[x].elim < Eliminated /\ x \in problem'.accepting
        BY <2>1, <3>2, <1>14 DEF StillAccepting, Accepting
      <3>4. (ext[n].map # None => StillAccepting(ext[n].map))'
        BY <3>1, <3>2, <3>3 DEF StillAccepting, Accepting
      <3>5. IsReal(problem, n) => \A m \in Nodes :
              Around(problem, n, m) => ext'[m].oldmap = ext'[n].oldmap
        BY <2>1, <2>2
      <3>. QED BY <2>1, <3>1, <3>4, <3>5, <1>4, <1>12 DEF Numbered
    <2>4. CASE n = t
      <3>1. ext'[t].iteration <= shared'.iteration
        <4>1. shared.iteration \in Nat
          BY DEF MapInv, Counters
        <4>. QED BY <2>1, <2>4, <4>1, <1>16
      <3>2. d = NotYet => Accepting(t) /\ t < ext'[t].map
        <4>1. k = NotYet => t < ext[t].map /\ Accepting(t)
          BY <2>1, <2>4, <1>8
        <4>2. CASE d = k
          BY <4>1, <4>2, <1>10
        <4>3. CASE d # k
          BY <4>3, <1>7, <1>9, <1>10
        <4>. QED BY <4>2, <4>3
      <3>3. Accepting(t) /\ d = Candidate => ext'[t].map <= t
        <4>1. Accepting(t) /\ k = Candidate => ext[t].map <= t
          BY <2>1, <2>4, <1>8
        <4>2. Accepting(t) /\ d = Candidate => k = Candidate /\ ~(SpreadEdge(w, f, t) /\ t < p)
          BY <1>7, <1>9
        <4>. QED BY <4>1, <4>2, <1>10
      <3>4. d = Eliminated => Accepting(t)
        BY <2>1, <2>4, <1>7, <1>8, <1>9
      <3>5. (ext[t].map # None => StillAccepting(ext[t].map))'
        <4>1. PICK x, y : x = ext'[t].map /\ y = ext[t].map
          OBVIOUS
        <4>2. x # None => StillAccepting(x)
          BY <4>1, <2>1, <2>4, <1>10, <1>11
        <4>3. x # None => ext'[x].elim < Eliminated /\ x \in problem'.accepting
          BY <4>2, <1>14 DEF StillAccepting, Accepting
        <4>. QED BY <4>1, <4>3 DEF StillAccepting, Accepting
      <3>6. IsReal(problem, t) => d \in {Candidate, NotYet}
        <4>1. IsReal(problem, t) => Accepting(t)
          BY DEF IsReal, Accepting
        <4>. QED BY <2>1, <2>4, <4>1, <1>8, <1>9
      <3>7. IsReal(problem, t) => \A m \in Nodes :
              Around(problem, t, m) => ext'[m].oldmap = ext'[t].oldmap
        BY <2>1, <2>2, <2>4
      <3>. QED BY <2>4, <3>1, <3>2, <3>3, <3>4, <3>5, <3>6, <3>7, <1>4, <1>8, <1>12 DEF Numbered
    <2>. QED BY <2>3, <2>4
  <1>19. ASSUME NEW n \in Active', NEW u \in problem.succ[n], Followed(n, u)'
         PROVE  Spread(n, u)'
    <2>1. n \in Nodes /\ u \in Nodes
      BY DEF Active, MapInv, Stored, Graphs
    <2>2. n = t => a = "Forget" /\ t \in Active /\ ~SpreadEdge(w, f, t)
      <3>1. work'[w].target # n
        BY <1>19 DEF Followed
      <3>2. n = t => a = "Forget"
        BY <3>1, <1>3, <1>4
      <3>. QED BY <3>2, <1>1, <1>3 DEF Active
    <2>3. n \in Active /\ ext'[n].map = ext[n].map /\ ext'[n].oldmap = ext[n].oldmap
      BY <2>1, <2>2, <1>1, <1>10, <1>17
    <2>4. /\ ext[n].map \in Nat /\ ext[u].map \in Nat /\ ext'[u].map \in Nat /\ u \in Nat
          /\ ext[u].map <= ext'[u].map /\ ext'[u].oldmap = ext[u].oldmap
      <3>1. \A m \in Nodes : ext[m].map \in Nodes \cup {None}
        BY <1>1 DEF MapExtension
      <3>2. ext[n].map \in Nat /\ ext[u].map \in Nat /\ u \in Nat
        BY <2>1, <3>1, <1>6
      <3>3. u # t => ext'[u] = ext[u]
        BY <2>1, <1>1
      <3>. QED BY <3>2, <3>3, <1>1, <1>10
    <2>5. CASE Followed(n, u)
      <3>1. Spread(n, u)
        BY <2>3, <2>5 DEF Mapping
      <3>2. u \in Active'
        BY <3>1, <1>17 DEF Spread
      <3>3. ext[n].oldmap = ext[u].oldmap => /\ ext[n].map <= ext'[u].map
                                             /\ StillAccepting(u) => u <= ext'[u].map
        BY <2>4, <3>1 DEF Spread
      <3>4. StillAccepting(u) => ext[n].map # u
        BY <3>1 DEF Spread
      <3>. QED BY <2>3, <2>4, <3>2, <3>3, <3>4, <1>14 DEF Spread
    <2>6. CASE n = f /\ u = t
      <3>1. t \in Active'
        BY <1>17
      <3>2. StillAccepting(t) => ext[f].map # t
        BY <1>3 DEF Arrives
      <3>3. ext[f].oldmap = ext[t].oldmap => p <= ext'[t].map
        <4>1. CASE SpreadEdge(w, f, t)
          BY <4>1, <1>10
        <4>2. CASE ~SpreadEdge(w, f, t)
          <5>1. Apart(f, t) \/ ~(ext[t].map < p)
            BY <4>2, <1>2 DEF OtherEdge, Spreads
          <5>. QED BY <4>2, <5>1, <1>10 DEF Apart
        <4>. QED BY <4>1, <4>2
      <3>4. ext[f].oldmap = ext[t].oldmap => /\ ext[f].map <= ext'[t].map
                                             /\ StillAccepting(t) => t <= ext'[t].map
        BY <3>3, <1>10, <1>11
      <3>. QED BY <2>3, <2>4, <2>6, <3>1, <3>2, <3>4, <1>14 DEF Spread
    <2>. QED BY <2>1, <2>5, <2>6, <1>5, <1>19
  <1>20. problem'.initials \subseteq Active'
    BY <1>4, <1>17 DEF Mapping
  <1>. QED BY <1>4, <1>15, <1>18, <1>19, <1>20 DEF Mapping

\* The clean-up makes every state of a cycle a candidate again.
LEMMA EndVisitMapping ==
  ASSUME MapInv, MapCounts, Mapping, WholeShares, EndVisit, InRounds'
  PROVE  Mapping'
  <1>1. /\ Quiet /\ Section("visit", problem.initials) /\ problem' = problem
        /\ shared' = [shared EXCEPT !.eliminated = EliminatedNow, !.iteration = @ + 1]
    BY DEF EndVisit
  <1>2. /\ problem.initials \subseteq store /\ store \subseteq Nodes
        /\ problem.initials \subseteq Nodes
        /\ problem.succ \in [Nodes -> SUBSET Nodes] /\ problem.accepting \subseteq Nodes
    BY ReachableAreStates DEF MapInv, Stored, Graphs
  <1>3. PICK i \in Nat : i = shared.iteration
    BY DEF MapInv, Counters
  <1>4. PICK j : j = EliminatedNow
    OBVIOUS
  <1>5. shared'.iteration = i + 1 /\ shared'.eliminated = j
    BY <1>1, <1>3, <1>4 DEF MapInv, Counters
  <1>6. (i + 1) % Rounds = i + 1
    <2>1. Rounds \in Nat /\ i + 1 < Rounds
      BY <1>5, SMT DEF InRounds, Rounds
    <2>. QED BY <2>1, <1>3, SMT
  <1>7. Candidate = 0 /\ NotYet = 1 /\ Eliminated = 2 /\ NeverAccepting = 3
    BY DEF Candidate, NotYet, Eliminated, NeverAccepting
  <1>8. Iterated = store
    BY AllIterated
  <1>9. ASSUME NEW n \in Nodes
        PROVE  /\ ext'[n].map = None /\ ext'[n].oldmap = ext[n].map
               /\ ext'[n].iteration = IF n \in problem.initials THEN i + 1
                                      ELSE ext[n].iteration
               /\ ext[n].elim \in {Candidate, NotYet, Eliminated, NeverAccepting}
               /\ n \in store =>
                    /\ ext[n].elim = NeverAccepting => ext'[n].elim = NeverAccepting
                    /\ ext[n].elim = NotYet => ext'[n].elim = Candidate
                    /\ ext[n].elim \in {Candidate, Eliminated} => ext'[n].elim = Eliminated
               /\ n \notin store => ext[n].elim = Candidate /\ ext'[n].elim = Candidate
    <2>1. PICK e : e = IF n \in Iterated THEN Cleaned(ext[n]) ELSE ext[n]
      OBVIOUS
    <2>2. ext'[n] = IF n \in problem.initials THEN [e EXCEPT !.iteration = i + 1] ELSE e
      BY <2>1, <1>3, <1>6 DEF EndVisit
    <2>3. ext[n] \in MapExtension
      BY DEF MapInv
    <2>4. ext[n].elim \in {Candidate, NotYet, Eliminated, NeverAccepting}
      BY <2>3 DEF MapExtension
    <2>5. CASE n \in store
      <3>1. e = Cleaned(ext[n])
        BY <2>1, <2>5, <1>8
      <3>2. e.map = None /\ e.oldmap = ext[n].map /\ e.iteration = ext[n].iteration
        BY <2>3, <3>1, CleanedType, CleanedFields
      <3>3. /\ ext[n].elim = NeverAccepting => e.elim = NeverAccepting
            /\ ext[n].elim = NotYet => e.elim = Candidate
            /\ ext[n].elim \in {Candidate, Eliminated} => e.elim = Eliminated
        BY <2>3, <3>1, CleanedFields
      <3>4. PICK d : d = [e EXCEPT !.iteration = i + 1]
        OBVIOUS
      <3>5. /\ d.elim = e.elim /\ d.map = e.map /\ d.oldmap = e.oldmap /\ d.iteration = i + 1
        BY <3>1, <3>4, CleanedRecords
      <3>6. ext'[n] = IF n \in problem.initials THEN d ELSE e
        BY <2>2, <3>4
      <3>7. CASE n \in problem.initials
        BY <2>4, <2>5, <3>2, <3>3, <3>5, <3>6, <3>7
      <3>8. CASE n \notin problem.initials
        BY <2>4, <2>5, <3>2, <3>3, <3>6, <3>8
      <3>. QED BY <3>7, <3>8
    <2>6. CASE n \notin store
      <3>1. ext'[n] = ext[n] /\ ext[n] = Fresh /\ n \notin problem.initials
        BY <2>1, <2>2, <2>6, <1>2, <1>8 DEF MapCounts
      <3>. QED BY <2>6, <3>1 DEF Fresh
    <2>. QED BY <2>5, <2>6
  <1>10. \A n \in Nodes : ext[n].iteration \in Nat /\ ext[n].iteration <= i
    <2>1. \A n \in Nodes : ext[n].iteration \in Nat
      <3>1. Rounds \in Nat
        BY SMT DEF Rounds
      <3>. QED BY <3>1 DEF MapInv, MapExtension
    <2>. QED BY <2>1, <1>3 DEF Mapping, Numbered
  <1>11. Active' = problem.initials
    <2>1. \A n \in Nodes : ext'[n].iteration = i + 1 <=> n \in problem.initials
      <3> SUFFICES ASSUME NEW n \in Nodes
                   PROVE  ext'[n].iteration = i + 1 <=> n \in problem.initials
        OBVIOUS
      <3>1. PICK k \in Nat : k = ext[n].iteration /\ k <= i
        BY <1>10
      <3>2. ext'[n].iteration = IF n \in problem.initials THEN i + 1 ELSE k
        BY <3>1, <1>9
      <3>3. k # i + 1
        BY <3>1, <1>3
      <3>. QED BY <3>2, <3>3
    <2>. QED BY <2>1, <1>2, <1>5, <1>9 DEF Active
  <1>12. shared'.eliminated = Cardinality(Gone')
    <2>1. PICK E : E = {n \in store : ext[n].elim \in {Candidate, Eliminated}}
      OBVIOUS
    <2>2. j = Cardinality(E)
      BY <2>1, <1>4, <1>8 DEF EliminatedNow
    <2>3. \A n \in Nodes : ext'[n].elim = Eliminated
                           <=> n \in store /\ ext[n].elim \in {Candidate, Eliminated}
      <3> SUFFICES ASSUME NEW n \in Nodes
                   PROVE  ext'[n].elim = Eliminated
                          <=> n \in store /\ ext[n].elim \in {Candidate, Eliminated}
        OBVIOUS
      <3>1. PICK k, d : k = ext[n].elim /\ d = ext'[n].elim
        OBVIOUS
      <3>2. /\ k \in {Candidate, NotYet, Eliminated, NeverAccepting}
            /\ n \in store => /\ k = NeverAccepting => d = NeverAccepting
                              /\ k = NotYet => d = Candidate
                              /\ k \in {Candidate, Eliminated} => d = Eliminated
            /\ n \notin store => d = Candidate
        BY <3>1, <1>9
      <3>. QED BY <3>1, <3>2, <1>7
    <2>4. Gone' = E
      BY <2>1, <2>3, <1>2 DEF Gone
    <2>. QED BY <2>2, <2>4, <1>5
  <1>13. ASSUME NEW n \in Nodes PROVE Numbered(n)'
    <2>1. ext'[n].iteration <= shared'.iteration
      <3>1. PICK k \in Nat : k = ext[n].iteration /\ k <= i
        BY <1>10
      <3>2. ext'[n].iteration = i + 1 \/ ext'[n].iteration = k
        BY <3>1, <1>9
      <3>. QED BY <3>1, <3>2, <1>3, <1>5
    <2>2. ext'[n].elim # NotYet
      <3>1. PICK k, d : k = ext[n].elim /\ d = ext'[n].elim
        OBVIOUS
      <3>2. /\ k \in {Candidate, NotYet, Eliminated, NeverAccepting}
            /\ d \in {Candidate, Eliminated, NeverAccepting}
        BY <3>1, <1>9
      <3>. QED BY <3>1, <3>2, <1>7
    <2>3. ext'[n].map <= n
      BY <1>9, Numbers DEF None
    <2>4. ext'[n].elim = Eliminated => Accepting(n)'
      <3> SUFFICES ASSUME ext'[n].elim = Eliminated, ~Accepting(n) PROVE FALSE
        BY <1>1 DEF Accepting
      <3>1. n \in store
        BY <1>7, <1>9
      <3>2. ext[n].seen
        BY <3>1, QuietSeen, <1>1
      <3>3. ext[n].elim = NeverAccepting
        BY <3>2 DEF MapCounts
      <3>. QED BY <3>1, <3>3, <1>7, <1>9
    <2>5. ASSUME IsReal(problem, n)
          PROVE  /\ ext[n].elim = NotYet
                 /\ \A m \in Nodes : Around(problem, n, m) => ext[m].map = ext[n].map
      BY <2>5, <1>1, CycleKeepsState
    <2>6. ASSUME IsReal(problem, n)
          PROVE  /\ ext'[n].elim = Candidate
                 /\ \A m \in Nodes : Around(problem, n, m) => ext'[m].oldmap = ext'[n].oldmap
      <3>1. ext[n].elim = NotYet
        BY <2>5, <2>6
      <3>2. ext'[n].elim = Candidate
        BY <3>1, <1>7, <1>9
      <3>3. \A m \in Nodes : Around(problem, n, m) => ext'[m].oldmap = ext'[n].oldmap
        BY <2>5, <2>6, <1>9
      <3>. QED BY <3>2, <3>3
    <2>7. ext'[n].map = None
      BY <1>9
    <2>. QED BY <2>1, <2>2, <2>3, <2>4, <2>6, <2>7, <1>1 DEF Numbered
  <1>14. ASSUME NEW n \in Active', NEW m PROVE ~Followed(n, m)'
    BY <1>1, <1>2, <1>11, <1>14, SectionFollows
  <1>. QED BY <1>1, <1>11, <1>12, <1>13, <1>14 DEF Mapping

LEMMA InitMapping == MapInit => Mapping
  <1> SUFFICES ASSUME MapInit PROVE Mapping
    OBVIOUS
  <1>1. problem.initials \in SUBSET Nodes /\ problem.accepting \subseteq Nodes
    BY VisitAssumption DEF MapInit, Graphs
  <1>2. Candidate = 0 /\ NotYet = 1 /\ Eliminated = 2 /\ NeverAccepting = 3
    BY DEF Candidate, NotYet, Eliminated, NeverAccepting
  <1>3. PICK d : d = [Fresh EXCEPT !.iteration = 1]
    OBVIOUS
  <1>4. /\ d.seen = FALSE /\ d.map = None /\ d.oldmap = None /\ d.iteration = 1
        /\ d.elim = Candidate
        /\ Fresh.map = None /\ Fresh.oldmap = None /\ Fresh.iteration = 0
        /\ Fresh.elim = Candidate
    BY <1>3 DEF Fresh
  <1>5. ASSUME NEW n
        PROVE  /\ Expanded(d, n).map = None /\ Expanded(d, n).oldmap = None
               /\ Expanded(d, n).iteration = 1
               /\ Expanded(d, n).elim = IF Accepting(n) THEN Candidate ELSE NeverAccepting
    BY <1>3, <1>4 DEF Expanded, Fresh
  <1>6. ASSUME NEW n \in Nodes
        PROVE  /\ ext[n].map = None /\ ext[n].oldmap = None
               /\ ext[n].iteration = IF n \in problem.initials THEN 1 ELSE 0
               /\ ext[n].elim \in {Candidate, NeverAccepting}
               /\ Accepting(n) => ext[n].elim = Candidate
    <2>1. ext[n] = IF n \in problem.initials THEN Expanded(d, n) ELSE Fresh
      BY <1>3 DEF MapInit
    <2>. QED BY <2>1, <1>4, <1>5
  <1>7. shared.iteration = 1 /\ shared.eliminated = 0
    BY DEF MapInit
  <1>8. Active = problem.initials
    BY <1>1, <1>6, <1>7 DEF Active
  <1>9. Gone = {}
    BY <1>2, <1>6 DEF Gone
  <1>10. shared.eliminated = Cardinality(Gone)
    <2>1. Cardinality({}) = 0
      BY FS_EmptySet
    <2>. QED BY <2>1, <1>7, <1>9
  <1>11. ASSUME NEW n \in Nodes PROVE Numbered(n)
    <2>1. ext[n].iteration <= shared.iteration
      BY <1>6, <1>7
    <2>2. ext[n].elim \notin {NotYet, Eliminated}
      BY <1>2, <1>6
    <2>3. ext[n].map <= n
      BY <1>6, Numbers DEF None
    <2>4. IsReal(problem, n) => ext[n].elim \in {Candidate, NotYet}
      BY <1>6 DEF IsReal, Accepting
    <2>. QED BY <2>1, <2>2, <2>3, <2>4, <1>6 DEF Numbered
  <1>12. ASSUME NEW n \in Active, NEW t PROVE ~Followed(n, t)
    BY <1>1, <1>8, <1>12 DEF MapInit, Followed
  <1>. QED BY <1>8, <1>10, <1>11, <1>12 DEF Mapping

\* A step of a worker.
LEMMA WorkMapping ==
  ASSUME MapInv, MapCounts, InRounds, ~CycleFound => Mapping,
         NEW w \in Workers, MapWork(w), ~CycleFound'
  PROVE  Mapping'
  <1>1. CASE Take(w)
    <2>1. CycleFound' = CycleFound /\ ext' = ext /\ shared' = shared /\ problem' = problem
      BY <1>1 DEF Take, CycleFound
    <2>2. \A n \in Nodes : \A t \in problem.succ[n] : Followed(n, t)' => Followed(n, t)
      BY <1>1, TakeAgain DEF MapInv
    <2>. QED BY <2>1, <2>2, MappingKept
  <1>2. CASE VisitEdge(w)
    <2>1. PICK f : f = work[w].from
      OBVIOUS
    <2>2. PICK t \in work[w].todo :
             CycleEdge(w, f, t) \/ SpreadEdge(w, f, t) \/ OtherEdge(w, f, t)
      BY <2>1, <1>2, VisitEdgeWays
    <2>3. t \in Nodes /\ shared' = shared
      BY <2>1, <2>2, <1>2, VisitEdgeWays, VisitEdgeRecords
    <2>4. ~CycleEdge(w, f, t)
      <3> SUFFICES ASSUME CycleEdge(w, f, t) PROVE CycleFound'
        OBVIOUS
      <3>1. found' = [found EXCEPT ![w] = t] /\ found \in [Workers -> Nodes \cup {None}]
        BY DEF CycleEdge, MapInv
      <3>2. found'[w] = t /\ t # None
        BY <3>1, <2>3, Numbers
      <3>. QED BY <3>2 DEF CycleFound
    <2>5. CycleFound' = CycleFound
      BY <2>2, <2>4 DEF SpreadEdge, OtherEdge, CycleFound
    <2>. QED BY <2>1, <2>2, <2>3, <2>4, <2>5, VisitEdgeMapping
  <1>3. CASE VisitExpansion(w)
    <2>1. CycleFound' = CycleFound
      BY <1>3 DEF VisitExpansion, CycleFound
    <2>. QED BY <2>1, <1>3, VisitExpansionMapping
  <1>. QED BY <1>1, <1>2, <1>3 DEF MapWork

\* What a step of a worker leaves as it is.
LEMMA WorkKeeps ==
  ASSUME MapInv, NEW w \in Workers, MapWork(w)
  PROVE  /\ phase' = phase /\ verdict' = verdict /\ problem' = problem
         /\ shared'.iteration = shared.iteration /\ shared'.eliminated = shared.eliminated
  <1>1. CASE Take(w)
    BY <1>1 DEF Take
  <1>2. CASE VisitEdge(w)
    <2>1. shared' = shared /\ \E t : \E a : Edge(w, t, a)
      BY <1>2, VisitEdgeWays DEF CycleEdge, SpreadEdge, OtherEdge
    <2>. QED BY <2>1 DEF Edge
  <1>3. CASE VisitExpansion(w)
    <2>1. PICK k : k = NewAccepting({work[w].target})
      OBVIOUS
    <2>2. shared' = [shared EXCEPT !.accepting = @ + k] /\ shared \in Counters
      BY <2>1, <1>3 DEF VisitExpansion, MapInv
    <2>3. shared'.iteration = shared.iteration /\ shared'.eliminated = shared.eliminated
      BY <2>2 DEF Counters
    <2>. QED BY <2>3, <1>3 DEF VisitExpansion, Push
  <1>. QED BY <1>1, <1>2, <1>3 DEF MapWork

LEMMA StepMapRounds ==
  ASSUME MapInv, MapCounts, MapRounds, WholeShares, [MapNext]_vars
  PROVE  MapRounds'
  <1> SUFFICES ASSUME InRounds'
               PROVE  /\ phase' = "visit" /\ ~CycleFound' => Mapping'
                      /\ verdict' = "valid" => \A n \in Nodes : ~IsReal(problem', n)
    BY DEF MapRounds
  <1>1. ASSUME shared'.iteration = shared.iteration
        PROVE  /\ InRounds
               /\ phase = "visit" /\ ~CycleFound => Mapping
               /\ verdict = "valid" => \A n \in Nodes : ~IsReal(problem, n)
    BY <1>1 DEF InRounds, MapRounds
  <1>2. ASSUME NEW w \in Workers, MapWork(w)
        PROVE  /\ phase' = "visit" /\ ~CycleFound' => Mapping'
               /\ verdict' = "valid" => \A n \in Nodes : ~IsReal(problem', n)
    <2>1. /\ phase' = phase /\ verdict' = verdict /\ problem' = problem
          /\ shared'.iteration = shared.iteration
      BY <1>2, WorkKeeps
    <2>. QED BY <2>1, <1>1, <1>2, WorkMapping
  <1>3. CASE Drop
    <2>1. /\ interrupted /\ CycleFound' = CycleFound /\ shared' = shared
          /\ verdict' = verdict /\ problem' = problem
      BY <1>3 DEF Drop, CycleFound
    <2>2. CycleFound
      BY <2>1 DEF MapCounts
    <2>. QED BY <2>1, <2>2, <1>1
  <1>4. CASE UNCHANGED vars
    <2>1. /\ CycleFound' = CycleFound /\ shared' = shared /\ verdict' = verdict
          /\ problem' = problem /\ phase' = phase /\ ext' = ext
      BY <1>4 DEF vars, CycleFound
    <2>2. \A n : \A t : Followed(n, t)' <=> Followed(n, t)
      BY <1>4 DEF vars, Followed
    <2>3. Mapping => Mapping'
      BY <2>1, <2>2, MappingKept
    <2>. QED BY <2>1, <2>3, <1>1
  <1>5. ASSUME EndVisit \/ EndMap
        PROVE  /\ InRounds /\ phase = "visit" /\ verdict = "none" /\ problem' = problem
               /\ found' = found /\ Quiet
    <2>1. /\ phase = "visit" /\ problem' = problem /\ found' = found /\ Quiet
          /\ shared' = [shared EXCEPT !.eliminated = EliminatedNow, !.iteration = @ + 1]
      BY <1>5 DEF EndVisit, EndMap
    <2>2. PICK j : j = EliminatedNow
      OBVIOUS
    <2>3. PICK i \in Nat : i = shared.iteration
      BY DEF MapInv, Counters
    <2>4. shared'.iteration = i + 1
      BY <2>1, <2>2, <2>3 DEF MapInv, Counters
    <2>5. Rounds \in Nat
      BY SMT DEF Rounds
    <2>6. i < Rounds
      BY <2>3, <2>4, <2>5 DEF InRounds
    <2>. QED BY <2>1, <2>3, <2>6 DEF InRounds, MapCounts
  <1>6. CASE EndVisit
    <2>1. ~CycleFound /\ verdict' = verdict
      BY <1>6 DEF EndVisit, GoesOn
    <2>2. Mapping
      BY <2>1, <1>5, <1>6 DEF MapRounds
    <2>3. Mapping'
      BY <2>2, <1>6, EndVisitMapping
    <2>. QED BY <2>1, <2>3, <1>5, <1>6
  <1>7. CASE EndMap
    <2>1. ~GoesOn /\ phase' = "done" /\ verdict' = IF CycleFound THEN "cycle" ELSE "valid"
      BY <1>7 DEF EndMap, Report
    <2>2. ASSUME verdict' = "valid" PROVE \A n \in Nodes : ~IsReal(problem, n)
      <3>1. ~CycleFound
        BY <2>1, <2>2
      <3>2. Mapping
        BY <3>1, <1>5, <1>7 DEF MapRounds
      <3>. QED BY <2>1, <3>1, <3>2, <1>5, <1>7, EndsRight
    <2>. QED BY <2>1, <2>2, <1>5, <1>7
  <1>. QED BY <1>2, <1>3, <1>4, <1>6, <1>7 DEF MapNext, MapMaster, Finished

LEMMA MapRoundsInvariant == MapSpec /\ WholeShares => [](MapInv /\ MapCounts /\ MapRounds)
  <1>1. MapInit => MapRounds
    <2>1. MapInit => verdict # "valid"
      BY DEF MapInit
    <2>. QED BY <2>1, InitMapping DEF MapRounds
  <1>2. WholeShares /\ MapInv /\ MapCounts /\ MapRounds /\ [MapNext]_vars => MapRounds'
    BY StepMapRounds
  <1>3. WholeShares => []WholeShares
    <2> SUFFICES ASSUME WholeShares PROVE []WholeShares
      OBVIOUS
    <2>. QED BY PTL
  <1>. QED BY <1>1, <1>2, <1>3, MapCountsInvariant, PTL DEF MapSpec

-----------------------------------------------------------------------------
(* The iterations come to an end.                                          *)

LEMMA StepMapPaced == MapInv /\ MapCounts /\ MapPaced /\ [MapNext]_vars => MapPaced'
  <1> SUFFICES ASSUME MapInv, MapCounts, MapPaced, [MapNext]_vars PROVE MapPaced'
    OBVIOUS
  <1>1. ASSUME NEW w \in Workers, MapWork(w) PROVE MapPaced'
    BY <1>1, WorkKeeps DEF MapPaced
  <1>2. CASE Drop \/ UNCHANGED vars
    BY <1>2 DEF MapPaced, Drop, vars
  <1>3. CASE EndVisit \/ EndMap
    <2>1. PICK i, e \in Nat : i = shared.iteration /\ e = shared.eliminated
      BY DEF MapInv, Counters
    <2>2. PICK j, a, N : j = EliminatedNow /\ a = shared.accepting /\ N = Cardinality(Nodes)
      OBVIOUS
    <2>3. /\ phase = "visit" /\ Quiet
          /\ shared' = [shared EXCEPT !.eliminated = j, !.iteration = @ + 1]
      BY <1>3, <2>2 DEF EndVisit, EndMap
    <2>4. shared'.iteration = i + 1 /\ shared'.eliminated = j
      BY <2>1, <2>3 DEF MapInv, Counters
    <2>5. j \in Nat /\ N \in Nat /\ a \in Nat /\ a <= N
      <3>1. PICK S \in SUBSET Nodes : S = AcceptingSeen
        BY DEF AcceptingSeen
      <3>2. a = Cardinality(S)
        BY <2>2, <3>1 DEF MapCounts
      <3>3. Cardinality(S) <= Cardinality(Nodes) /\ Cardinality(S) \in Nat
        BY FewerStates, FewStates
      <3>. QED BY <2>2, <2>3, <3>2, <3>3, QuietSeen, FewStates
    <2>6. i <= e + 1 /\ e <= N
      BY <2>1, <2>2, <2>3 DEF MapPaced
    <2>7. CASE EndVisit
      <3>1. phase' = "visit" /\ j > e /\ j < a
        BY <2>1, <2>2, <2>7 DEF EndVisit, Section, GoesOn
      <3>2. i + 1 <= j + 1 /\ j <= N
        BY <3>1, <2>1, <2>5, <2>6
      <3>. QED BY <3>1, <3>2, <2>2, <2>4 DEF MapPaced
    <2>8. CASE EndMap
      <3>1. phase' = "done"
        BY <2>8 DEF EndMap, Report
      <3>2. i + 1 <= N + 2
        BY <2>1, <2>5, <2>6
      <3>. QED BY <3>1, <3>2, <2>2, <2>4 DEF MapPaced
    <2>. QED BY <1>3, <2>7, <2>8
  <1>. QED BY <1>1, <1>2, <1>3 DEF MapNext, MapMaster, Finished

LEMMA MapPacedInvariant == MapSpec => [](MapInv /\ MapCounts /\ MapPaced)
  <1>1. MapInit => MapPaced
    BY FewStates DEF MapInit, MapPaced
  <1>. QED BY <1>1, StepMapPaced, MapCountsInvariant, PTL DEF MapSpec

LEMMA MapRealCycles ==
  ASSUME MapInv
  PROVE  CD!AcceptingCycle <=> \E n \in Nodes : IsReal(problem, n)
  <1>1. problem.accepting \subseteq Nodes
    BY DEF MapInv, Stored, Graphs
  <1>2. \A n : IsReal(problem, n) <=> /\ Accepting(n) /\ n \in CD!Reach(problem.initials)
                                     /\ CD!OnCycle(n)
    BY RealIsReal
  <1>3. \A n : IsReal(problem, n) => n \in Nodes
    BY <1>1 DEF IsReal
  <1>. QED BY <1>2, <1>3 DEF CD!AcceptingCycle, Accepting

LEMMA MapSteps ==
  ASSUME MapInv, MapCounts, [MapNext]_vars
  PROVE  /\ problem' = problem
         /\ verdict' = verdict \/ (verdict = "none" /\ verdict' \in {"cycle", "valid"})
  <1>1. ASSUME NEW w \in Workers, MapWork(w) PROVE problem' = problem /\ verdict' = verdict
    BY <1>1, WorkKeeps
  <1>2. CASE Drop \/ UNCHANGED vars
    BY <1>2 DEF Drop, vars
  <1>3. CASE EndVisit \/ EndMap
    BY <1>3 DEF EndVisit, EndMap, Report, MapCounts
  <1>. QED BY <1>1, <1>2, <1>3 DEF MapNext, MapMaster, Finished

-----------------------------------------------------------------------------
\* "valid" is said only of a graph without an accepting cycle that can be reached,
\* in whatever order the workers come to the edges, as long as every cell of the
\* table belongs to a worker and the number of the iteration fits its 13 bits.
THEOREM MapMissesNone == MapSpec /\ WholeShares => [](InRounds => NoneIsMissed)
  <1>1. MapInv /\ MapRounds => (InRounds => NoneIsMissed)
    BY MapRealCycles DEF MapRounds, NoneIsMissed
  <1>. QED BY <1>1, MapRoundsInvariant, PTL

\* Every iteration but the last eliminates a state more, so that the number of
\* the iteration fits if there are fewer than 2^13 - 2 states.
THEOREM MapIsInRounds == MapSpec /\ Cardinality(Nodes) + 2 < Rounds => []InRounds
  <1> SUFFICES ASSUME Cardinality(Nodes) + 2 < Rounds PROVE MapSpec => []InRounds
    OBVIOUS
  <1>1. MapInv /\ MapCounts /\ MapPaced => InRounds
    <2> SUFFICES ASSUME MapInv, MapCounts, MapPaced PROVE InRounds
      OBVIOUS
    <2>1. PICK i, e \in Nat : i = shared.iteration /\ e = shared.eliminated
      BY DEF MapInv, Counters
    <2>2. PICK N \in Nat : N = Cardinality(Nodes)
      BY FewStates
    <2>3. Rounds \in Nat /\ N + 2 < Rounds
      BY <2>2, SMT DEF Rounds
    <2>4. (i <= e + 1 /\ e <= N) \/ i <= N + 2
      BY <2>1, <2>2 DEF MapPaced, MapCounts
    <2>5. i < Rounds
      BY <2>1, <2>3, <2>4
    <2>. QED BY <2>1, <2>5 DEF InRounds
  <1>. QED BY <1>1, MapPacedInvariant, PTL

\* What MAP says is right: it refines CycleDetection but for the promise that an
\* answer comes.
THEOREM MapIsSound == MapSpec /\ WholeShares /\ []InRounds => CD!Sound
  <1>1. MapInit => CD!Init
    BY DEF MapInit, CD!Init
  <1>2. /\ MapInv /\ MapCounts /\ MapRounds /\ InRounds
        /\ MapInv' /\ MapCounts' /\ MapRounds' /\ InRounds' /\ [MapNext]_vars
        => [CD!Decide]_(CD!vars)
    <2> SUFFICES ASSUME MapInv, MapCounts, MapInv', MapRounds', InRounds', [MapNext]_vars
                 PROVE  [CD!Decide]_(CD!vars)
      OBVIOUS
    <2>1. /\ problem' = problem
          /\ verdict' = verdict \/ (verdict = "none" /\ verdict' \in {"cycle", "valid"})
      BY MapSteps
    <2>2. CASE verdict' = verdict
      BY <2>1, <2>2 DEF CD!vars
    <2>3. CASE verdict' # verdict
      <3>1. verdict = "none" /\ verdict' \in {"cycle", "valid"}
        BY <2>1, <2>3
      <3>2. verdict' = "cycle" => \E n \in Nodes : IsReal(problem, n)
        BY <2>1 DEF MapInv
      <3>3. verdict' = "valid" => \A n \in Nodes : ~IsReal(problem, n)
        BY <2>1 DEF MapRounds
      <3>4. CD!AcceptingCycle <=> \E n \in Nodes : IsReal(problem, n)
        BY MapRealCycles
      <3>5. CD!Decide
        BY <2>1, <3>1, <3>2, <3>3, <3>4 DEF CD!Decide
      <3>. QED BY <3>5
    <2>. QED BY <2>2, <2>3
  <1>. QED BY <1>1, <1>2, MapRoundsInvariant, PTL DEF MapSpec, CD!Sound

=============================================================================
