--------------------------- MODULE NestedDfs_proofs ---------------------------
(***************************************************************************)
(* Proofs about nested depth-first search, for any set of states and any   *)
(* graphs with one initial state, with one thread and with two: what it    *)
(* reports is right and its counterexample is real, and a failed ASSERT    *)
(* stops it only where there is a cycle.                                   *)
(***************************************************************************)
EXTENDS NestedDfs, SequenceTheorems, TLAPS

(* Reachability in the graph p. *)

Succ(p, n) == ToSet(p.succ[n])

Closed(p, C) == \A n \in C : Succ(p, n) \subseteq C

From(p, N) == {n \in Nodes : \A C \in SUBSET Nodes : N \subseteq C /\ Closed(p, C) => n \in C}

\* The states that an edge from n leads to, and what they reach.
After(p, n) == From(p, Succ(p, n))

OnCycleOf(p, n) == n \in After(p, n)

\* An accepting state on a cycle that an initial state reaches.
IsReal(p, n) == /\ n \in p.accepting
                /\ n \in From(p, ToSet(p.initials))
                /\ OnCycleOf(p, n)

-----------------------------------------------------------------------------
(* The invariant.                                                          *)

Items == [flag : {"Fresh", "Expanded"}, node : Nodes]

\* The item at k of the stack, a successor of the last state below it.
Follows(p, stack, trace, pos, k) ==
  \E i \in 1..Len(trace) : /\ pos[i] < k
                           /\ \A j \in 1..Len(trace) : i < j => k < pos[j]
                           /\ stack[k].node \in Succ(p, trace[i])

\* The stack of a search whose states are S, and the trace of its path: pos is
\* where the states of the trace are in the stack.
Shape(p, S, stack, trace, pos) ==
  /\ \A i, j \in 1..Len(trace) : i < j => pos[i] < pos[j]
  /\ \A i \in 1..Len(trace) : stack[pos[i]] = Expanded(trace[i])
  /\ \A k \in 1..Len(stack) :
       stack[k].flag = "Expanded" => \E i \in 1..Len(trace) : pos[i] = k
  /\ \A k \in 1..Len(stack) :
       stack[k].flag = "Fresh" => Follows(p, stack, trace, pos, k)
  /\ \A i, j \in 1..Len(trace) : j = i + 1 => trace[j] \in Succ(p, trace[i])
  /\ \A i, j \in 1..Len(trace) : i <= j => trace[j] \in From(p, {trace[i]})
  /\ \A i \in 1..Len(trace) : \A m \in Succ(p, trace[i]) :
       m \in S \/ \E k \in 1..Len(stack) : pos[i] < k /\ stack[k] = Fresh(m)

Search(p, S, stack, trace) ==
  \E pos \in [1..Len(trace) -> 1..Len(stack)] : Shape(p, S, stack, trace, pos)

Injective(s) == \A i, j \in 1..Len(s) : s[i] = s[j] => i = j

Searching == ipc \in {"seed", "search"}

\* The states of the outer stack that have not been finished, and all those that
\* no inner search has started from and that none may have come to.
Opened == ToSet(IF opc \in {"close", "inner"} THEN Front(ceStack) ELSE ceStack)
Undone == ToSet(process) \cup Opened \cup (Nodes \ store)

\* What had not been finished when process[i] was.
Later(i) == {process[j] : j \in (i + 1)..Len(process)} \cup Opened \cup (Nodes \ store)

\* A state that is finished reaches what is not only if it is on a cycle.
InOrder(p, n, U) == n \notin U /\ (OnCycleOf(p, n) \/ After(p, n) \cap U = {})

Types ==
  /\ problem \in Problems /\ parallel \in BOOLEAN
  /\ verdict \in {"none", "cycle", "valid"}
  /\ nested \subseteq store /\ store \subseteq Nodes
  /\ outer \in Seq(Items) /\ inner \in Seq(Items)
  /\ seed \in store \cup {Nowhere}
  /\ ceStack \in Seq(Nodes) /\ ceLasso \in Seq(Nodes) /\ process \in Seq(Nodes)
  /\ ToSet(ceStack) \subseteq store /\ ToSet(ceLasso) \subseteq store
  /\ ToSet(process) \subseteq store
  /\ valid \in BOOLEAN /\ finished \in BOOLEAN /\ ok \in BOOLEAN
  /\ opc \in {"search", "inner", "close", "join", "done"}
  /\ ipc \in {"off", "loop", "empty", "again", "seed", "search"}

\* Who is where.
Control ==
  /\ ~parallel => process = <<>> /\ (ipc = "off" \/ (opc = "inner" /\ Searching))
  /\ parallel => opc # "inner"
  /\ finished <=> opc \in {"join", "done"}
  /\ finished => outer = <<>>
  /\ opc \in {"close", "inner"} => IsExpanded(outer)
  /\ verdict = "none" <=> opc # "done"
  /\ ipc = "again" => finished
  /\ parallel /\ valid /\ ipc = "off" => finished /\ process = <<>>
  /\ ~valid \/ ipc # "search" => inner = <<>>
  /\ valid /\ ipc # "search" => ceLasso = <<>>
  /\ Searching => seed \in store /\ seed \in problem.accepting

\* Where the states on the stacks come from.
Reached ==
  /\ ToSet(problem.initials) \subseteq store
  /\ store \subseteq From(problem, ToSet(problem.initials))
  /\ \A k \in 1..Len(outer) :
       /\ outer[k].node \in From(problem, ToSet(problem.initials))
       /\ outer[k].flag = "Expanded" => outer[k].node \in store
  /\ \A k \in 1..Len(inner) :
       \/ inner[k].node \in After(problem, seed)
       \/ inner[k] = Expanded(seed)

CycleFound == ~valid \/ ~ok => \E n \in Nodes : IsReal(problem, n)

OuterSearch ==
  valid =>
    /\ Search(problem, store, outer, ceStack)
    /\ Injective(ceStack)
    /\ ceStack # <<>> => ceStack[1] \in ToSet(problem.initials)
    /\ \A n \in store \ ToSet(ceStack) : Succ(problem, n) \subseteq store

\* M are the states of the earlier inner searches.
InnerSearch ==
  valid /\ ipc = "search" =>
    /\ Search(problem, nested \ {seed}, inner, ceLasso)
    /\ ceLasso # <<>> => ceLasso[1] = seed
    /\ seed \in nested
    /\ \E M \in SUBSET nested :
         /\ Closed(problem, M) /\ seed \notin M /\ M \cap Undone = {}
         /\ \A n \in nested \ M : n = seed \/ n \in After(problem, seed)
         /\ \A n \in nested \ (M \cup ToSet(ceLasso)) :
              Succ(problem, n) \subseteq nested \ {seed}

\* The seeds that wait, in the order in which they were finished;
Waiting ==
  valid => \A i \in 1..Len(process) :
             /\ process[i] \in problem.accepting
             /\ InOrder(problem, process[i], Later(i))

\* the one of the inner search that runs;
Current ==
  valid /\ Searching =>
    /\ InOrder(problem, seed, Undone)
    /\ ipc = "seed" => seed \notin nested
    /\ ~parallel => seed = Last(ceStack)

\* the states that the earlier ones have come to;
Marked ==
  valid /\ ipc # "search" => Closed(problem, nested) /\ nested \cap Undone = {}

\* and the accepting states whose search has found nothing.
Checked ==
  valid => \A n \in problem.accepting \ Undone :
             (Searching => n # seed) => ~OnCycleOf(problem, n)

Counterexample ==
  ~valid /\ ~parallel =>
    /\ ceStack # <<>> /\ ceLasso # <<>>
    /\ IsPath(ceStack) /\ IsPath(Append(ceLasso, ceLasso[1]))
    /\ ceStack[1] \in ToSet(problem.initials)
    /\ Last(ceStack) = ceLasso[1] /\ ceLasso[1] \in problem.accepting

NInv == /\ Types /\ Control /\ Reached /\ CycleFound
        /\ OuterSearch /\ InnerSearch
        /\ Waiting /\ Current /\ Marked /\ Checked /\ Counterexample

LEMMA ProblemType ==
  ASSUME NEW p \in Problems
  PROVE  /\ p.initials \in Seq(Nodes) /\ p.accepting \subseteq Nodes
         /\ \A n \in Nodes : p.succ[n] \in Seq(Nodes) /\ Succ(p, n) \subseteq Nodes
         /\ ToSet(p.initials) \subseteq Nodes
  <1>1. p \in [initials : Seq(Nodes), succ : [Nodes -> Seq(Nodes)], accepting : SUBSET Nodes]
    BY NestedAssumption
  <1>2. p.initials \in Seq(Nodes) /\ p.accepting \subseteq Nodes
        /\ \A n \in Nodes : p.succ[n] \in Seq(Nodes)
    BY <1>1
  <1>3. \A s \in Seq(Nodes) : ToSet(s) \subseteq Nodes
    BY DEF ToSet
  <1>. QED BY <1>2, <1>3 DEF Succ

LEMMA SetOf ==
  ASSUME NEW S, NEW s \in Seq(S), NEW x
  PROVE  x \in ToSet(s) <=> \E i \in 1..Len(s) : s[i] = x
  BY DEF ToSet

LEMMA InSetOf ==
  ASSUME NEW S, NEW s \in Seq(S), NEW i \in 1..Len(s)
  PROVE  s[i] \in ToSet(s) /\ s[i] \in S
  BY DEF ToSet

LEMMA FrontIs ==
  ASSUME NEW S, NEW s \in Seq(S), s # <<>>
  PROVE  /\ Front(s) \in Seq(S) /\ Len(Front(s)) = Len(s) - 1
         /\ Len(s) \in Nat /\ Len(s) > 0
         /\ \A i \in 1..(Len(s) - 1) : Front(s)[i] = s[i]
         /\ Last(s) = s[Len(s)] /\ Last(s) \in S
  <1>1. Len(s) \in Nat /\ Len(s) > 0 /\ \A i \in 1..Len(s) : s[i] \in S
    OBVIOUS
  <1>2. \A i \in 1..(Len(s) - 1) : s[i] \in S
    BY <1>1
  <1>3. /\ SubSeq(s, 1, Len(s) - 1) \in Seq(S)
        /\ Len(SubSeq(s, 1, Len(s) - 1)) = Len(s) - 1
        /\ \A i \in 1..(Len(s) - 1) : SubSeq(s, 1, Len(s) - 1)[i] = s[i]
    <2>. DEFINE m == Len(s) - 1
    <2>1. m \in Int /\ m >= 0 /\ \A i \in 1..m : s[i] \in S
      BY <1>1, <1>2
    <2>. HIDE DEF m
    <2>2. /\ SubSeq(s, 1, m) \in Seq(S)
          /\ Len(SubSeq(s, 1, m)) = IF 1 <= m THEN m - 1 + 1 ELSE 0
          /\ \A i \in 1..(m - 1 + 1) : SubSeq(s, 1, m)[i] = s[1 + i - 1]
      BY <2>1, SubSeqProperties
    <2>3. Len(SubSeq(s, 1, m)) = m /\ \A i \in 1..m : SubSeq(s, 1, m)[i] = s[i]
      <3>1. m - 1 + 1 = m /\ \A i \in 1..m : 1 + i - 1 = i
        BY <2>1
      <3>. QED BY <2>1, <2>2, <3>1
    <2>. QED BY <2>2, <2>3 DEF m
  <1>. QED BY <1>1, <1>3 DEF Front, Last

LEMMA SetOfFront ==
  ASSUME NEW S, NEW s \in Seq(S), s # <<>>
  PROVE  ToSet(s) = ToSet(Front(s)) \cup {Last(s)}
  <1>1. /\ Front(s) \in Seq(S) /\ Len(s) > 0 /\ Len(Front(s)) = Len(s) - 1
        /\ \A i \in 1..(Len(s) - 1) : Front(s)[i] = s[i]
        /\ Last(s) = s[Len(s)]
    BY FrontIs
  <1>2. Len(s) \in Nat /\ 1..Len(s) = 1..(Len(s) - 1) \cup {Len(s)}
    BY <1>1
  <1>3. ASSUME NEW x
        PROVE  x \in ToSet(s) <=> x \in ToSet(Front(s)) \cup {Last(s)}
    <2>1. x \in ToSet(s) <=> \E i \in 1..Len(s) : s[i] = x
      BY SetOf
    <2>2. x \in ToSet(Front(s)) <=> \E i \in 1..(Len(s) - 1) : s[i] = x
      BY <1>1, SetOf
    <2>. QED BY <2>1, <2>2, <1>1, <1>2
  <1>. QED BY <1>3

LEMMA AppendIs ==
  ASSUME NEW S, NEW s \in Seq(S), NEW x \in S
  PROVE  /\ Append(s, x) \in Seq(S) /\ Len(Append(s, x)) = Len(s) + 1 /\ Len(s) \in Nat
         /\ \A i \in 1..Len(s) : Append(s, x)[i] = s[i]
         /\ Append(s, x)[Len(s) + 1] = x
         /\ ToSet(Append(s, x)) = ToSet(s) \cup {x}
         /\ Append(s, x) # <<>> /\ Last(Append(s, x)) = x
  <1>1. /\ Append(s, x) \in Seq(S) /\ Len(Append(s, x)) = Len(s) + 1 /\ Len(s) \in Nat
        /\ \A i \in 1..Len(s) : Append(s, x)[i] = s[i]
        /\ Append(s, x)[Len(s) + 1] = x
    OBVIOUS
  <1>2. 1..(Len(s) + 1) = 1..Len(s) \cup {Len(s) + 1}
    BY <1>1
  <1>3. ASSUME NEW y
        PROVE  y \in ToSet(Append(s, x)) <=> y \in ToSet(s) \cup {x}
    <2>1. y \in ToSet(Append(s, x))
          <=> \E i \in 1..Len(Append(s, x)) : Append(s, x)[i] = y
      BY <1>1, SetOf
    <2>2. y \in ToSet(s) <=> \E i \in 1..Len(s) : s[i] = y
      BY SetOf
    <2>. QED BY <2>1, <2>2, <1>1, <1>2
  <1>4. Append(s, x) # <<>>
    BY <1>1
  <1>. QED BY <1>1, <1>3, <1>4 DEF Last

\* What a set reaches includes its successors, and is the least such set.
LEMMA FromItself ==
  ASSUME NEW p, NEW N, NEW n \in Nodes, n \in N
  PROVE  n \in From(p, N)
  BY DEF From

LEMMA FromNext ==
  ASSUME NEW p \in Problems, NEW N, NEW n \in From(p, N), NEW m \in Succ(p, n)
  PROVE  m \in From(p, N)
  <1>1. n \in Nodes /\ m \in Nodes
    BY ProblemType DEF From
  <1>2. ASSUME NEW C \in SUBSET Nodes, N \subseteq C, Closed(p, C)
        PROVE  m \in C
    BY <1>2 DEF From, Closed
  <1>. QED BY <1>1, <1>2 DEF From

LEMMA FromWithin ==
  ASSUME NEW p, NEW N, NEW C \in SUBSET Nodes, N \subseteq C, Closed(p, C)
  PROVE  From(p, N) \subseteq C
  BY DEF From

LEMMA FromIsClosed ==
  ASSUME NEW p \in Problems, NEW N
  PROVE  From(p, N) \in SUBSET Nodes /\ Closed(p, From(p, N))
  <1>1. From(p, N) \in SUBSET Nodes
    BY DEF From
  <1>2. Closed(p, From(p, N))
    BY FromNext DEF Closed
  <1>. QED BY <1>1, <1>2

LEMMA FromFrom ==
  ASSUME NEW p \in Problems, NEW N, NEW n \in From(p, N)
  PROVE  From(p, {n}) \subseteq From(p, N)
  BY FromIsClosed, FromWithin

LEMMA AfterFrom ==
  ASSUME NEW p \in Problems, NEW N, NEW n \in From(p, N)
  PROVE  After(p, n) \subseteq From(p, N)
  <1>1. Succ(p, n) \subseteq From(p, N)
    BY FromNext
  <1>. QED BY <1>1, FromIsClosed, FromWithin DEF After

\* A state on the way from a successor of n to n is behind n, and n on a cycle.
LEMMA BackIsCycle ==
  ASSUME NEW p \in Problems, NEW n \in Nodes, NEW m \in After(p, n), n \in From(p, {m})
  PROVE  OnCycleOf(p, n)
  BY FromFrom DEF After, OnCycleOf

\* The promise of CycleDetection is about the same cycles.
LEMMA SameReach ==
  ASSUME problem \in Problems, NEW N
  PROVE  CD!Reach(N) = From(problem, N)
  <1>1. \A n \in Nodes : Product(problem).succ[n] = Succ(problem, n)
    BY NestedAssumption DEF Product, Succ
  <1>2. ASSUME NEW C \in SUBSET Nodes
        PROVE  CD!IsClosed(C) <=> Closed(problem, C)
    BY <1>1 DEF CD!IsClosed, Closed
  <1>. QED BY <1>2 DEF CD!Reach, From

LEMMA SameCycles ==
  ASSUME problem \in Problems
  PROVE  CD!AcceptingCycle <=> \E n \in Nodes : IsReal(problem, n)
  <1>1. /\ Product(problem).accepting = problem.accepting
        /\ Product(problem).initials = ToSet(problem.initials)
        /\ \A n \in Nodes : Product(problem).succ[n] = Succ(problem, n)
    BY NestedAssumption DEF Product, Succ
  <1>2. problem.accepting \subseteq Nodes
    BY ProblemType
  <1>3. ASSUME NEW n \in Nodes
        PROVE  CD!OnCycle(n) <=> OnCycleOf(problem, n)
    BY <1>1, SameReach DEF CD!OnCycle, OnCycleOf, After
  <1>4. CD!Reach(Product(problem).initials) = From(problem, ToSet(problem.initials))
    BY <1>1, SameReach
  <1>. QED BY <1>1, <1>2, <1>3, <1>4 DEF CD!AcceptingCycle, IsReal

-----------------------------------------------------------------------------
(* The stack and the trace of a search.                                    *)

\* The state n and its successors have been pushed.
IsPushed(p, t, stack, n) ==
  /\ t \in Seq(Items) /\ Len(t) = Len(stack) + 1 + Len(p.succ[n])
  /\ \A k \in 1..Len(stack) : t[k] = stack[k]
  /\ t[Len(stack) + 1] = Expanded(n)
  /\ \A k \in 1..Len(p.succ[n]) : t[Len(stack) + 1 + k] = Fresh(p.succ[n][k])

LEMMA ItemTypes ==
  ASSUME NEW n \in Nodes
  PROVE  /\ Expanded(n) \in Items /\ Fresh(n) \in Items
         /\ Expanded(n).flag = "Expanded" /\ Expanded(n).node = n
         /\ Fresh(n).flag = "Fresh" /\ Fresh(n).node = n
  BY DEF Expanded, Fresh, Items

LEMMA JoinIs ==
  ASSUME NEW S, NEW a \in Seq(S), NEW b \in Seq(S)
  PROVE  /\ a \o b \in Seq(S) /\ Len(a \o b) = Len(a) + Len(b)
         /\ \A k \in 1..Len(a) : (a \o b)[k] = a[k]
         /\ \A k \in 1..Len(b) : (a \o b)[Len(a) + k] = b[k]
  OBVIOUS

LEMMA PushedIs ==
  ASSUME problem \in Problems, NEW stack \in Seq(Items), NEW n \in Nodes
  PROVE  IsPushed(problem, Pushed(stack, n), stack, n)
  <1>. DEFINE s == problem.succ[n]
              u == [i \in DOMAIN problem.succ[n] |-> Fresh(problem.succ[n][i])]
              e == Append(stack, Expanded(n))
  <1>1. s \in Seq(Nodes)
    BY ProblemType
  <1>2. Len(s) \in Nat /\ DOMAIN s = 1..Len(s) /\ \A i \in 1..Len(s) : Fresh(s[i]) \in Items
    BY <1>1, ItemTypes
  <1>3. u = [i \in 1..Len(s) |-> Fresh(s[i])]
    BY <1>2
  <1>4. u \in Seq(Items) /\ Len(u) = Len(s) /\ \A i \in 1..Len(s) : u[i] = Fresh(s[i])
    <2>. HIDE DEF s, u
    <2>. QED BY <1>2, <1>3
  <1>5. /\ e \in Seq(Items) /\ Len(e) = Len(stack) + 1
        /\ \A k \in 1..Len(stack) : e[k] = stack[k]
        /\ e[Len(stack) + 1] = Expanded(n)
    BY ItemTypes, AppendIs
  <1>6. Pushed(stack, n) = e \o u
    BY DEF Pushed
  <1>7. Len(stack) \in Nat
    OBVIOUS
  <1>. HIDE DEF s, u, e
  <1>8. /\ e \o u \in Seq(Items) /\ Len(e \o u) = Len(stack) + 1 + Len(s)
        /\ \A k \in 1..(Len(stack) + 1) : (e \o u)[k] = e[k]
        /\ \A k \in 1..Len(s) : (e \o u)[Len(stack) + 1 + k] = u[k]
    <2>1. /\ e \o u \in Seq(Items) /\ Len(e \o u) = Len(e) + Len(u)
          /\ \A k \in 1..Len(e) : (e \o u)[k] = e[k]
          /\ \A k \in 1..Len(u) : (e \o u)[Len(e) + k] = u[k]
      <3>1. e \in Seq(Items) /\ u \in Seq(Items)
        BY <1>4, <1>5
      <3>. QED BY <3>1, JoinIs
    <2>. QED BY <2>1, <1>4, <1>5
  <1>9. \A k \in 1..Len(stack) : k \in 1..(Len(stack) + 1)
    BY <1>7
  <1>10. Len(stack) + 1 \in 1..(Len(stack) + 1)
    BY <1>7
  <1>11. \A k \in 1..Len(stack) : (e \o u)[k] = stack[k]
    BY <1>5, <1>8, <1>9
  <1>12. (e \o u)[Len(stack) + 1] = Expanded(n)
    BY <1>5, <1>8, <1>10
  <1>13. \A k \in 1..Len(s) : (e \o u)[Len(stack) + 1 + k] = Fresh(s[k])
    BY <1>4, <1>8
  <1>14. IsPushed(problem, e \o u, stack, n)
    BY <1>8, <1>11, <1>12, <1>13 DEF IsPushed, s
  <1>. QED BY <1>6, <1>14

\* What each of the two kinds of item on top of the stack says of the trace.
LEMMA FreshOnTop ==
  ASSUME NEW p, NEW S, NEW stack \in Seq(Items), NEW trace \in Seq(Nodes),
         NEW pos \in [1..Len(trace) -> 1..Len(stack)], Shape(p, S, stack, trace, pos),
         IsFresh(stack)
  PROVE  /\ Len(trace) > 0 /\ Last(stack).node \in Succ(p, trace[Len(trace)])
         /\ \A i \in 1..Len(trace) : pos[i] \in 1..(Len(stack) - 1)
  <1>. DEFINE L == Len(stack)
              m == Len(trace)
  <1>1. L \in Nat /\ L > 0 /\ Last(stack) = stack[L] /\ stack[L].flag = "Fresh" /\ m \in Nat
    <2>1. stack # <<>> /\ Last(stack).flag = "Fresh"
      BY DEF IsFresh
    <2>2. Len(stack) > 0 /\ Last(stack) = stack[Len(stack)]
      BY <2>1, FrontIs
    <2>. QED BY <2>1, <2>2
  <1>2. PICK i \in 1..m : /\ pos[i] < L /\ \A j \in 1..m : i < j => L < pos[j]
                          /\ stack[L].node \in Succ(p, trace[i])
    <2>1. \A k \in 1..L : stack[k].flag = "Fresh" => Follows(p, stack, trace, pos, k)
      BY DEF Shape
    <2>2. L \in 1..L
      BY <1>1
    <2>3. Follows(p, stack, trace, pos, L)
      BY <1>1, <2>1, <2>2
    <2>. QED BY <2>3 DEF Follows
  <1>3. \A j \in 1..m : pos[j] \in 1..L
    OBVIOUS
  <1>4. \A j, k \in 1..m : j < k => pos[j] < pos[k]
    BY DEF Shape
  <1>. HIDE DEF L, m
  <1>5. i = m
    <2>1. m \in 1..m
      BY <1>1, <1>2
    <2>2. ASSUME i < m
          PROVE  FALSE
      <3>1. L < pos[m]
        BY <2>1, <2>2, <1>2
      <3>2. pos[m] \in 1..L
        BY <2>1, <1>3
      <3>. QED BY <3>1, <3>2, <1>1
    <2>. QED BY <2>2, <1>1
  <1>6. \A j \in 1..m : pos[j] < L
    <2> SUFFICES ASSUME NEW j \in 1..m
                 PROVE  pos[j] < L
      OBVIOUS
    <2>1. CASE j = i
      BY <2>1, <1>2
    <2>2. CASE j < i
      BY <2>2, <1>1, <1>2, <1>3, <1>4
    <2>. QED BY <2>1, <2>2, <1>1, <1>5
  <1>. QED BY <1>1, <1>2, <1>3, <1>5, <1>6 DEF L, m

LEMMA ExpandedOnTop ==
  ASSUME NEW p, NEW S, NEW stack \in Seq(Items), NEW trace \in Seq(Nodes),
         NEW pos \in [1..Len(trace) -> 1..Len(stack)], Shape(p, S, stack, trace, pos),
         IsExpanded(stack)
  PROVE  /\ Len(trace) > 0 /\ pos[Len(trace)] = Len(stack)
         /\ Last(stack) = Expanded(trace[Len(trace)])
         /\ \A i \in 1..(Len(trace) - 1) : pos[i] \in 1..(Len(stack) - 1)
         /\ Succ(p, trace[Len(trace)]) \subseteq S
  <1>. DEFINE L == Len(stack)
              m == Len(trace)
  <1>1. L \in Nat /\ L > 0 /\ Last(stack) = stack[L] /\ stack[L].flag = "Expanded" /\ m \in Nat
    <2>1. stack # <<>> /\ Last(stack).flag = "Expanded"
      BY DEF IsExpanded
    <2>2. Len(stack) > 0 /\ Last(stack) = stack[Len(stack)]
      BY <2>1, FrontIs
    <2>. QED BY <2>1, <2>2
  <1>2. PICK i \in 1..m : pos[i] = L
    <2>1. \A k \in 1..L : stack[k].flag = "Expanded" => \E i \in 1..m : pos[i] = k
      BY DEF Shape
    <2>2. L \in 1..L
      BY <1>1
    <2>. HIDE DEF L, m
    <2>. QED BY <1>1, <2>1, <2>2
  <1>3. \A j \in 1..m : pos[j] \in 1..L
    OBVIOUS
  <1>4. \A j, k \in 1..m : j < k => pos[j] < pos[k]
    BY DEF Shape
  <1>5. i = m
    <2>. HIDE DEF L, m
    <2>1. m \in 1..m
      BY <1>1, <1>2
    <2>2. ASSUME i < m
          PROVE  FALSE
      <3>1. pos[i] < pos[m] /\ pos[m] \in 1..L
        BY <2>1, <2>2, <1>2, <1>3, <1>4
      <3>. QED BY <3>1, <1>1, <1>2
    <2>. QED BY <2>2, <1>1, <1>2
  <1>6. \A j \in 1..(m - 1) : pos[j] \in 1..(L - 1)
    <2>. HIDE DEF L, m
    <2>. QED BY <1>1, <1>2, <1>3, <1>4, <1>5
  <1>7. stack[L] = Expanded(trace[m])
    BY <1>2, <1>5 DEF Shape
  <1>8. ASSUME NEW x \in Succ(p, trace[m])
        PROVE  x \in S
    <2>1. x \in S \/ \E k \in 1..L : pos[m] < k
      BY <1>2, <1>5, <1>8 DEF Shape
    <2>2. ~ \E k \in 1..L : L < k
      BY <1>1
    <2>. QED BY <2>1, <2>2, <1>2, <1>5
  <1>9. m > 0
    BY <1>1, <1>2
  <1>. QED BY <1>1, <1>2, <1>5, <1>6, <1>7, <1>8, <1>9

\* A search that has just started.
LEMMA SearchStarts ==
  ASSUME NEW p \in Problems, NEW S, NEW n \in Nodes, NEW t, IsPushed(p, t, <<>>, n)
  PROVE  Search(p, S, t, <<n>>)
  <1>. DEFINE pos == [i \in 1..1 |-> 1]
              d == Len(p.succ[n])
  <1>1. /\ t \in Seq(Items) /\ Len(t) = 1 + d /\ d \in Nat
        /\ t[1] = Expanded(n) /\ \A k \in 1..d : t[1 + k] = Fresh(p.succ[n][k])
    <2>1. d \in Nat
      BY ProblemType
    <2>. QED BY <2>1 DEF IsPushed
  <1>2. p.succ[n] \in Seq(Nodes)
    BY ProblemType
  <1>3. \A k \in 1..d : p.succ[n][k] \in Succ(p, n) /\ p.succ[n][k] \in Nodes
    BY <1>2, InSetOf DEF Succ
  <1>4. \A x \in Succ(p, n) : \E k \in 1..d : p.succ[n][k] = x
    BY <1>2, SetOf DEF Succ
  <1>5. <<n>> \in Seq(Nodes) /\ Len(<<n>>) = 1 /\ <<n>>[1] = n
    OBVIOUS
  <1>6. pos \in [1..Len(<<n>>) -> 1..Len(t)] /\ pos[1] = 1
    BY <1>1, <1>5
  <1>7. \A i \in 1..Len(<<n>>) : i = 1
    BY <1>5
  <1>8. n \in From(p, {n})
    BY FromItself
  <1>9. ASSUME NEW k \in 1..Len(t)
        PROVE  k = 1 \/ (k - 1 \in 1..d /\ t[k] = Fresh(p.succ[n][k - 1]) /\ 1 < k)
    <2>1. CASE k = 1
      BY <2>1
    <2>2. CASE k # 1
      <3>1. k - 1 \in 1..d /\ 1 + (k - 1) = k /\ 1 < k
        BY <2>2, <1>1
      <3>. QED BY <3>1, <1>1
    <2>. QED BY <2>1, <2>2
  <1>. HIDE DEF pos, d
  <1>10. \A k \in 1..Len(t) : t[k].flag = "Expanded" => \E i \in 1..Len(<<n>>) : pos[i] = k
    <2> SUFFICES ASSUME NEW k \in 1..Len(t), t[k].flag = "Expanded"
                 PROVE  k = 1
      BY <1>5, <1>6
    <2>. QED BY <1>3, <1>9, ItemTypes
  <1>11. \A k \in 1..Len(t) :
           t[k].flag = "Fresh" => Follows(p, t, <<n>>, pos, k)
    <2> SUFFICES ASSUME NEW k \in 1..Len(t), t[k].flag = "Fresh"
                 PROVE  1 < k /\ t[k].node \in Succ(p, n)
      BY <1>5, <1>6, <1>7 DEF Follows
    <2>1. k # 1
      BY <1>1, ItemTypes
    <2>. QED BY <2>1, <1>3, <1>9, ItemTypes
  <1>12. \A i \in 1..Len(<<n>>) : \A m \in Succ(p, <<n>>[i]) :
           m \in S \/ \E k \in 1..Len(t) : pos[i] < k /\ t[k] = Fresh(m)
    <2> SUFFICES ASSUME NEW m \in Succ(p, n)
                 PROVE  \E k \in 1..Len(t) : 1 < k /\ t[k] = Fresh(m)
      BY <1>5, <1>6, <1>7
    <2>1. PICK k \in 1..d : p.succ[n][k] = m
      BY <1>4
    <2>2. 1 + k \in 1..Len(t) /\ 1 < 1 + k
      BY <1>1
    <2>. QED BY <2>1, <2>2, <1>1
  <1>13. Shape(p, S, t, <<n>>, pos)
    <2>1. \A i, j \in 1..Len(<<n>>) : i < j => pos[i] < pos[j]
      BY <1>7, <1>5
    <2>2. \A i \in 1..Len(<<n>>) : t[pos[i]] = Expanded(<<n>>[i])
      BY <1>1, <1>5, <1>6, <1>7
    <2>3. \A i, j \in 1..Len(<<n>>) : j = i + 1 => <<n>>[j] \in Succ(p, <<n>>[i])
      BY <1>5, <1>7
    <2>4. \A i, j \in 1..Len(<<n>>) : i <= j => <<n>>[j] \in From(p, {<<n>>[i]})
      BY <1>5, <1>7, <1>8
    <2>. QED BY <2>1, <2>2, <2>3, <2>4, <1>10, <1>11, <1>12 DEF Shape
  <1>. QED BY <1>6, <1>13 DEF Search

\* The state on top of the stack has been seen already.
LEMMA SearchSkips ==
  ASSUME NEW p, NEW S, NEW stack \in Seq(Items), NEW trace \in Seq(Nodes),
         Search(p, S, stack, trace), IsFresh(stack), Last(stack).node \in S
  PROVE  Search(p, S, Front(stack), trace)
  <1>1. PICK pos \in [1..Len(trace) -> 1..Len(stack)] : Shape(p, S, stack, trace, pos)
    BY DEF Search
  <1>. DEFINE L == Len(stack)
              m == Len(trace)
              f == Front(stack)
  <1>2. \A i \in 1..m : pos[i] \in 1..(L - 1)
    BY <1>1, FreshOnTop
  <1>3. stack # <<>>
    BY DEF IsFresh
  <1>4. /\ f \in Seq(Items) /\ Len(f) = L - 1 /\ L \in Nat /\ L > 0
        /\ \A k \in 1..(L - 1) : f[k] = stack[k]
        /\ Last(stack) = stack[L] /\ stack[L] \in Items
    BY <1>3, FrontIs
  <1>5. \A k \in 1..(L - 1) : k \in 1..L
    BY <1>4
  <1>6. \A k \in 1..L : k \in 1..(L - 1) \/ k = L
    BY <1>4
  <1>. HIDE DEF f
  <1>7. pos \in [1..m -> 1..(L - 1)]
    BY <1>1, <1>2
  <1>8. Shape(p, S, f, trace, pos)
    <2>1. \A i \in 1..m : f[pos[i]] = Expanded(trace[i])
      BY <1>1, <1>2, <1>4 DEF Shape
    <2>2. \A k \in 1..Len(f) : f[k].flag = "Expanded" => \E i \in 1..m : pos[i] = k
      BY <1>1, <1>4, <1>5 DEF Shape
    <2>3. \A k \in 1..Len(f) :
            f[k].flag = "Fresh" => Follows(p, f, trace, pos, k)
      BY <1>1, <1>4, <1>5 DEF Shape, Follows
    <2>4. ASSUME NEW i \in 1..m, NEW x \in Succ(p, trace[i])
          PROVE  x \in S \/ \E k \in 1..Len(f) : pos[i] < k /\ f[k] = Fresh(x)
      <3>1. x \in S \/ \E k \in 1..L : pos[i] < k /\ stack[k] = Fresh(x)
        BY <1>1 DEF Shape
      <3>2. stack[L] = Fresh(x) => x \in S
        BY <1>4 DEF Fresh
      <3>. QED BY <3>1, <3>2, <1>4, <1>6
    <2>. QED BY <1>1, <2>1, <2>2, <2>3, <2>4 DEF Shape
  <1>. QED BY <1>4, <1>7, <1>8 DEF Search, f

\* It is new, and has been expanded.
LEMMA SearchPushes ==
  ASSUME NEW p \in Problems, NEW S, NEW stack \in Seq(Items), NEW trace \in Seq(Nodes),
         Search(p, S, stack, trace), IsFresh(stack), NEW n \in Nodes, n = Last(stack).node,
         NEW t, IsPushed(p, t, Front(stack), n)
  PROVE  Search(p, S \cup {n}, t, Append(trace, n))
  <1>1. PICK pos \in [1..Len(trace) -> 1..Len(stack)] : Shape(p, S, stack, trace, pos)
    BY DEF Search
  <1>. DEFINE L == Len(stack)
              m == Len(trace)
              s == p.succ[n]
              d == Len(s)
              q == Append(trace, n)
              pos2 == [i \in 1..(m + 1) |-> IF i = m + 1 THEN L ELSE pos[i]]
  <1>2. /\ m > 0 /\ n \in Succ(p, trace[m])
        /\ \A i \in 1..m : pos[i] \in 1..(L - 1)
    BY <1>1, FreshOnTop
  <1>3. /\ L \in Nat /\ L > 0 /\ Len(Front(stack)) = L - 1
        /\ \A k \in 1..(L - 1) : Front(stack)[k] = stack[k]
        /\ Last(stack) = stack[L]
    <2>1. stack # <<>>
      BY DEF IsFresh
    <2>. QED BY <2>1, FrontIs
  <1>4. s \in Seq(Nodes) /\ d \in Nat
    BY ProblemType
  <1>5. (\A k \in 1..d : s[k] \in Succ(p, n) /\ s[k] \in Nodes)
        /\ \A x \in Succ(p, n) : \E k \in 1..d : s[k] = x
    BY <1>4, InSetOf, SetOf DEF Succ
  <1>6. /\ t \in Seq(Items) /\ Len(t) = L + d
        /\ \A k \in 1..(L - 1) : t[k] = stack[k]
        /\ t[L] = Expanded(n) /\ \A k \in 1..d : t[L + k] = Fresh(s[k])
    <2>1. (L - 1) + 1 = L /\ (L - 1) + 1 + d = L + d
      BY <1>3, <1>4
    <2>. HIDE DEF L, s, d
    <2>. QED BY <1>3, <2>1 DEF IsPushed, s, d
  <1>7. /\ q \in Seq(Nodes) /\ Len(q) = m + 1 /\ m \in Nat
        /\ q[m + 1] = n /\ \A i \in 1..m : q[i] = trace[i]
    BY AppendIs
  <1>8. \A i \in 1..(m + 1) : i \in 1..m \/ i = m + 1
    BY <1>7
  <1>9. /\ pos2[m + 1] = L /\ \A i \in 1..m : pos2[i] = pos[i]
        /\ pos2 \in [1..(m + 1) -> 1..(L + d)]
    <2>1. m + 1 \in 1..(m + 1) /\ \A i \in 1..m : i \in 1..(m + 1) /\ i # m + 1
      BY <1>7
    <2>2. L \in 1..(L + d) /\ \A i \in 1..m : pos[i] \in 1..(L + d)
      BY <1>2, <1>3, <1>4
    <2>. HIDE DEF L, m, d
    <2>. QED BY <2>1, <2>2, <1>8
  <1>10. \A k \in 1..(L + d) : k \in 1..(L - 1) \/ k = L \/ (k - L \in 1..d /\ L + (k - L) = k /\ L < k)
    BY <1>3, <1>4
  <1>11. \A k \in 1..(L - 1) : k \in 1..L /\ k < L /\ k \in 1..(L + d)
    BY <1>3, <1>4
  <1>12. \A k \in 1..L : k \in 1..(L - 1) \/ k = L
    BY <1>3
  <1>13. \A i \in 1..m : i \in 1..(m + 1) /\ i < m + 1 /\ ~(m + 1 < i)
    BY <1>7
  <1>14. m + 1 \in 1..(m + 1) /\ m \in 1..m /\ ~(m + 1 < m + 1)
    BY <1>7, <1>2
  <1>. HIDE DEF L, m, s, d, q, pos2
  <1>15. \A i, j \in 1..(m + 1) : i < j => pos2[i] < pos2[j]
    <2> SUFFICES ASSUME NEW i \in 1..(m + 1), NEW j \in 1..(m + 1), i < j
                 PROVE  pos2[i] < pos2[j]
      OBVIOUS
    <2>1. i \in 1..m
      BY <1>8, <1>13, <1>14
    <2>2. CASE j \in 1..m
      <3>1. pos[i] < pos[j]
        BY <1>1, <2>1, <2>2 DEF Shape, m
      <3>. QED BY <3>1, <2>1, <2>2, <1>9
    <2>3. CASE j = m + 1
      BY <2>1, <2>3, <1>2, <1>9, <1>11
    <2>. QED BY <2>2, <2>3, <1>8
  <1>16. \A i \in 1..(m + 1) : t[pos2[i]] = Expanded(q[i])
    <2> SUFFICES ASSUME NEW i \in 1..(m + 1)
                 PROVE  t[pos2[i]] = Expanded(q[i])
      OBVIOUS
    <2>1. CASE i \in 1..m
      <3>1. stack[pos[i]] = Expanded(trace[i])
        BY <1>1, <2>1 DEF Shape, m
      <3>. QED BY <3>1, <2>1, <1>2, <1>6, <1>7, <1>9
    <2>2. CASE i = m + 1
      BY <2>2, <1>6, <1>7, <1>9
    <2>. QED BY <2>1, <2>2, <1>8
  <1>17. \A k \in 1..(L + d) : t[k].flag = "Expanded" => \E i \in 1..(m + 1) : pos2[i] = k
    <2> SUFFICES ASSUME NEW k \in 1..(L + d), t[k].flag = "Expanded"
                 PROVE  \E i \in 1..(m + 1) : pos2[i] = k
      OBVIOUS
    <2>1. CASE k \in 1..(L - 1)
      <3>1. stack[k].flag = "Expanded"
        BY <2>1, <1>6
      <3>2. PICK i \in 1..m : pos[i] = k
        BY <1>1, <2>1, <3>1, <1>11 DEF Shape, m, L
      <3>. QED BY <3>2, <1>9, <1>13
    <2>2. CASE k = L
      BY <2>2, <1>9, <1>14
    <2>3. CASE k - L \in 1..d /\ L + (k - L) = k
      <3>1. t[k] = Fresh(s[k - L])
        BY <2>3, <1>6
      <3>. QED BY <3>1, <2>3, <1>5, ItemTypes
    <2>. QED BY <2>1, <2>2, <2>3, <1>10
  <1>18. \A k \in 1..(L + d) :
           t[k].flag = "Fresh" => Follows(p, t, q, pos2, k)
    <2> SUFFICES ASSUME NEW k \in 1..(L + d), t[k].flag = "Fresh"
                 PROVE  Follows(p, t, q, pos2, k)
      OBVIOUS
    <2>0. ASSUME NEW i \in 1..(m + 1), pos2[i] < k, t[k].node \in Succ(p, q[i]),
                 \A j \in 1..(m + 1) : i < j => k < pos2[j]
          PROVE  Follows(p, t, q, pos2, k)
      BY <1>7, <2>0 DEF Follows
    <2>1. CASE k \in 1..(L - 1)
      <3>1. t[k] = stack[k] /\ k \in 1..L /\ k < L
        BY <2>1, <1>6, <1>11
      <3>2. PICK i \in 1..m : /\ pos[i] < k
                              /\ \A j \in 1..m : i < j => k < pos[j]
                              /\ stack[k].node \in Succ(p, trace[i])
        BY <1>1, <3>1 DEF Shape, Follows, m, L
      <3>3. \A j \in 1..(m + 1) : i < j => k < pos2[j]
        BY <3>1, <3>2, <1>8, <1>9
      <3>4. pos2[i] < k /\ t[k].node \in Succ(p, q[i]) /\ i \in 1..(m + 1)
        BY <3>1, <3>2, <1>7, <1>9, <1>13
      <3>. QED BY <3>3, <3>4, <2>0
    <2>2. CASE k = L
      BY <2>2, <1>6, ItemTypes
    <2>3. CASE k - L \in 1..d /\ L + (k - L) = k /\ L < k
      <3>1. t[k] = Fresh(s[k - L])
        BY <2>3, <1>6
      <3>2. t[k].node \in Succ(p, n)
        BY <3>1, <2>3, <1>5, ItemTypes
      <3>3. \A j \in 1..(m + 1) : ~(m + 1 < j)
        BY <1>8, <1>13, <1>14
      <3>. QED BY <3>2, <3>3, <2>0, <2>3, <1>7, <1>9, <1>14
    <2>. QED BY <2>1, <2>2, <2>3, <1>10
  <1>19. \A i, j \in 1..(m + 1) : j = i + 1 => q[j] \in Succ(p, q[i])
    <2> SUFFICES ASSUME NEW i \in 1..(m + 1), NEW j \in 1..(m + 1), j = i + 1
                 PROVE  q[j] \in Succ(p, q[i])
      OBVIOUS
    <2>1. i \in 1..m
      BY <1>7
    <2>2. CASE j \in 1..m
      <3>1. trace[j] \in Succ(p, trace[i])
        BY <1>1, <2>1, <2>2 DEF Shape, m
      <3>. QED BY <3>1, <2>1, <2>2, <1>7
    <2>3. CASE j = m + 1
      <3>1. i = m
        BY <2>3, <1>7
      <3>. QED BY <3>1, <2>1, <2>3, <1>2, <1>7
    <2>. QED BY <2>2, <2>3, <1>8
  <1>20. \A i, j \in 1..(m + 1) : i <= j => q[j] \in From(p, {q[i]})
    <2> SUFFICES ASSUME NEW i \in 1..(m + 1), NEW j \in 1..(m + 1), i <= j
                 PROVE  q[j] \in From(p, {q[i]})
      OBVIOUS
    <2>1. CASE j \in 1..m
      <3>1. i \in 1..m
        BY <2>1, <1>7
      <3>2. trace[j] \in From(p, {trace[i]})
        BY <1>1, <3>1, <2>1 DEF Shape, m
      <3>. QED BY <3>1, <3>2, <2>1, <1>7
    <2>2. CASE j = m + 1 /\ i \in 1..m
      <3>1. i <= m
        BY <2>2, <1>7
      <3>2. trace[m] \in From(p, {trace[i]})
        BY <1>1, <3>1, <2>2, <1>14 DEF Shape, m
      <3>3. n \in From(p, {trace[i]})
        BY <3>2, <1>2, FromNext
      <3>. QED BY <3>3, <2>2, <1>7
    <2>3. CASE j = m + 1 /\ i = m + 1
      BY <2>3, <1>7, FromItself
    <2>. QED BY <2>1, <2>2, <2>3, <1>8
  <1>21. \A i \in 1..(m + 1) : \A x \in Succ(p, q[i]) :
           x \in S \cup {n} \/ \E k \in 1..(L + d) : pos2[i] < k /\ t[k] = Fresh(x)
    <2> SUFFICES ASSUME NEW i \in 1..(m + 1), NEW x \in Succ(p, q[i]), x \notin S \cup {n}
                 PROVE  \E k \in 1..(L + d) : pos2[i] < k /\ t[k] = Fresh(x)
      OBVIOUS
    <2>1. CASE i \in 1..m
      <3>1. PICK k \in 1..L : pos[i] < k /\ stack[k] = Fresh(x)
        BY <1>1, <1>7, <2>1 DEF Shape, m, L
      <3>2. k # L
        BY <3>1, <1>3 DEF Fresh
      <3>. QED BY <3>1, <3>2, <2>1, <1>6, <1>9, <1>11, <1>12
    <2>2. CASE i = m + 1
      <3>1. PICK k \in 1..d : s[k] = x
        BY <2>2, <1>5, <1>7
      <3>2. L + k \in 1..(L + d) /\ L < L + k
        BY <1>3, <1>4
      <3>. QED BY <3>1, <3>2, <2>2, <1>6, <1>9
    <2>. QED BY <2>1, <2>2, <1>8
  <1>22. Shape(p, S \cup {n}, t, q, pos2)
    <2>1. Len(q) = m + 1 /\ Len(t) = L + d
      BY <1>6, <1>7
    <2>. QED BY <2>1, <1>15, <1>16, <1>17, <1>18, <1>19, <1>20, <1>21 DEF Shape
  <1>23. pos2 \in [1..Len(q) -> 1..Len(t)]
    BY <1>6, <1>7, <1>9
  <1>. QED BY <1>22, <1>23 DEF Search, q

\* It is finished.
LEMMA SearchPops ==
  ASSUME NEW p, NEW S, NEW stack \in Seq(Items), NEW trace \in Seq(Nodes),
         Search(p, S, stack, trace), IsExpanded(stack)
  PROVE  /\ trace # <<>> /\ Last(stack) = Expanded(Last(trace))
         /\ Succ(p, Last(trace)) \subseteq S
         /\ Search(p, S, Front(stack), Front(trace))
  <1>1. PICK pos \in [1..Len(trace) -> 1..Len(stack)] : Shape(p, S, stack, trace, pos)
    BY DEF Search
  <1>. DEFINE L == Len(stack)
              m == Len(trace)
              f == Front(stack)
              q == Front(trace)
              pos2 == [i \in 1..(m - 1) |-> pos[i]]
  <1>2. /\ m > 0 /\ pos[m] = L /\ Last(stack) = Expanded(trace[m])
        /\ \A i \in 1..(m - 1) : pos[i] \in 1..(L - 1)
        /\ Succ(p, trace[m]) \subseteq S
    <2>1. /\ Len(trace) > 0 /\ pos[Len(trace)] = Len(stack)
          /\ Last(stack) = Expanded(trace[Len(trace)])
          /\ \A i \in 1..(Len(trace) - 1) : pos[i] \in 1..(Len(stack) - 1)
          /\ Succ(p, trace[Len(trace)]) \subseteq S
      BY <1>1, ExpandedOnTop
    <2>. QED BY <2>1
  <1>3. trace # <<>> /\ stack # <<>>
    <2>1. stack # <<>>
      BY DEF IsExpanded
    <2>2. trace # <<>>
      BY <1>2
    <2>. QED BY <2>1, <2>2
  <1>4. /\ f \in Seq(Items) /\ Len(f) = L - 1 /\ L \in Nat /\ L > 0
        /\ \A k \in 1..(L - 1) : f[k] = stack[k]
        /\ Last(stack) = stack[L]
    BY <1>3, FrontIs
  <1>5. /\ q \in Seq(Nodes) /\ Len(q) = m - 1 /\ m \in Nat
        /\ \A i \in 1..(m - 1) : q[i] = trace[i]
        /\ Last(trace) = trace[m] /\ trace[m] \in Nodes
    BY <1>3, FrontIs
  <1>6. /\ \A k \in 1..(L - 1) : k \in 1..L /\ k < L
        /\ \A k \in 1..L : k \in 1..(L - 1) \/ k = L
        /\ \A i \in 1..(m - 1) : i \in 1..m /\ i < m
        /\ \A i \in 1..m : i \in 1..(m - 1) \/ i = m
    BY <1>4, <1>5
  <1>7. /\ pos2 \in [1..(m - 1) -> 1..(L - 1)]
        /\ \A i \in 1..(m - 1) : pos2[i] = pos[i]
    BY <1>2
  <1>. HIDE DEF L, m, f, q, pos2
  <1>8. Shape(p, S, f, q, pos2)
    <2>1. \A i, j \in 1..(m - 1) : i < j => pos2[i] < pos2[j]
      BY <1>1, <1>6, <1>7 DEF Shape, m
    <2>2. \A i \in 1..(m - 1) : f[pos2[i]] = Expanded(q[i])
      <3> SUFFICES ASSUME NEW i \in 1..(m - 1)
                   PROVE  f[pos2[i]] = Expanded(q[i])
        OBVIOUS
      <3>1. stack[pos[i]] = Expanded(trace[i])
        BY <1>1, <1>6 DEF Shape, m
      <3>. QED BY <3>1, <1>2, <1>4, <1>5, <1>7
    <2>3. \A k \in 1..(L - 1) : f[k].flag = "Expanded" => \E i \in 1..(m - 1) : pos2[i] = k
      <3> SUFFICES ASSUME NEW k \in 1..(L - 1), f[k].flag = "Expanded"
                   PROVE  \E i \in 1..(m - 1) : pos2[i] = k
        OBVIOUS
      <3>1. stack[k].flag = "Expanded" /\ k \in 1..L /\ k < L
        BY <1>4, <1>6
      <3>2. PICK i \in 1..m : pos[i] = k
        BY <1>1, <3>1 DEF Shape, m, L
      <3>3. i # m
        BY <3>1, <3>2, <1>2, <1>4
      <3>. QED BY <3>2, <3>3, <1>6, <1>7
    <2>4. \A k \in 1..(L - 1) :
            f[k].flag = "Fresh" => Follows(p, f, q, pos2, k)
      <3> SUFFICES ASSUME NEW k \in 1..(L - 1), f[k].flag = "Fresh"
                   PROVE  Follows(p, f, q, pos2, k)
        OBVIOUS
      <3>1. f[k] = stack[k] /\ k \in 1..L /\ k < L
        BY <1>4, <1>6
      <3>2. PICK i \in 1..m : /\ pos[i] < k
                              /\ \A j \in 1..m : i < j => k < pos[j]
                              /\ stack[k].node \in Succ(p, trace[i])
        BY <1>1, <3>1 DEF Shape, Follows, m, L
      <3>3. i # m
        BY <3>1, <3>2, <1>2, <1>4
      <3>4. i \in 1..Len(q) /\ Len(q) = m - 1
        BY <3>2, <3>3, <1>5, <1>6
      <3>5. pos2[i] < k /\ f[k].node \in Succ(p, q[i])
        BY <3>1, <3>2, <3>4, <1>5, <1>7
      <3>6. \A j \in 1..Len(q) : i < j => k < pos2[j]
        BY <3>2, <3>4, <1>6, <1>7
      <3>. QED BY <3>4, <3>5, <3>6 DEF Follows
    <2>5. \A i, j \in 1..(m - 1) : j = i + 1 => q[j] \in Succ(p, q[i])
      BY <1>1, <1>5, <1>6 DEF Shape, m
    <2>6. \A i, j \in 1..(m - 1) : i <= j => q[j] \in From(p, {q[i]})
      BY <1>1, <1>5, <1>6 DEF Shape, m
    <2>7. \A i \in 1..(m - 1) : \A x \in Succ(p, q[i]) :
            x \in S \/ \E k \in 1..(L - 1) : pos2[i] < k /\ f[k] = Fresh(x)
      <3> SUFFICES ASSUME NEW i \in 1..(m - 1), NEW x \in Succ(p, q[i]), x \notin S
                   PROVE  \E k \in 1..(L - 1) : pos2[i] < k /\ f[k] = Fresh(x)
        OBVIOUS
      <3>1. PICK k \in 1..L : pos[i] < k /\ stack[k] = Fresh(x)
        BY <1>1, <1>5, <1>6 DEF Shape, m, L
      <3>2. k # L
        BY <3>1, <1>2, <1>4 DEF Fresh, Expanded
      <3>. QED BY <3>1, <3>2, <1>4, <1>6, <1>7
    <2>8. Len(q) = m - 1 /\ Len(f) = L - 1
      BY <1>4, <1>5
    <2>. QED BY <2>8, <2>1, <2>2, <2>3, <2>4, <2>5, <2>6, <2>7 DEF Shape
  <1>9. pos2 \in [1..Len(q) -> 1..Len(f)]
    BY <1>4, <1>5, <1>7
  <1>10. Search(p, S, f, q)
    BY <1>8, <1>9 DEF Search
  <1>. QED BY <1>2, <1>3, <1>5, <1>10 DEF f, q

LEMMA SearchGrows ==
  ASSUME NEW p, NEW S, NEW T, S \subseteq T, NEW stack, NEW trace,
         Search(p, S, stack, trace)
  PROVE  Search(p, T, stack, trace)
  <1>1. PICK pos \in [1..Len(trace) -> 1..Len(stack)] : Shape(p, S, stack, trace, pos)
    BY DEF Search
  <1>2. Shape(p, T, stack, trace, pos)
    BY <1>1 DEF Shape
  <1>. QED BY <1>2 DEF Search

LEMMA SearchEnds ==
  ASSUME NEW p, NEW S, NEW trace \in Seq(Nodes), Search(p, S, <<>>, trace)
  PROVE  trace = <<>>
  <1>1. PICK pos \in [1..Len(trace) -> 1..Len(<<>>)] : TRUE
    BY DEF Search
  <1>2. Len(trace) \in Nat /\ Len(<<>>) = 0
    OBVIOUS
  <1>3. ~(1 \in 1..Len(trace))
    BY <1>1, <1>2
  <1>4. Len(trace) = 0
    BY <1>2, <1>3
  <1>. QED BY <1>4

\* The states of the trace lead to its last one.
LEMMA TraceLeads ==
  ASSUME NEW p, NEW S, NEW stack, NEW trace \in Seq(Nodes),
         Search(p, S, stack, trace), NEW n \in ToSet(trace)
  PROVE  Last(trace) \in From(p, {n})
  <1>1. PICK i \in 1..Len(trace) : trace[i] = n
    BY SetOf
  <1>2. PICK pos \in [1..Len(trace) -> 1..Len(stack)] : Shape(p, S, stack, trace, pos)
    BY DEF Search
  <1>3. Len(trace) \in 1..Len(trace) /\ i <= Len(trace)
    OBVIOUS
  <1>. QED BY <1>1, <1>2, <1>3 DEF Shape, Last

LEMMA TraceIsPath ==
  ASSUME NEW S, NEW stack, NEW trace \in Seq(Nodes), Search(problem, S, stack, trace)
  PROVE  IsPath(trace)
  <1>1. PICK pos \in [1..Len(trace) -> 1..Len(stack)] : Shape(problem, S, stack, trace, pos)
    BY DEF Search
  <1>2. \A i \in 1..(Len(trace) - 1) : i \in 1..Len(trace) /\ i + 1 \in 1..Len(trace)
    OBVIOUS
  <1>. QED BY <1>1, <1>2 DEF Shape, IsPath, Succ

\* The stack of one initial state.
LEMMA OneQueued ==
  ASSUME NEW n
  PROVE  FoldLeft(Pushed, <<>>, <<n>>) = Pushed(<<>>, n)
  <1>. DEFINE step(g) == [s \in SUBSET {1} |-> IF s = {} THEN <<>>
                            ELSE Pushed(g[s \ {Max(s)}], <<n>>[Max(s)])]
              it == [s \in SUBSET {1} |-> IF s = {} THEN <<>> ELSE Pushed(<<>>, n)]
  <1>1. DOMAIN <<n>> = {1} /\ <<n>>[1] = n
    OBVIOUS
  <1>2. FoldLeft(Pushed, <<>>, <<n>>) = (CHOOSE g : g = step(g))[{1}]
    BY <1>1 DEF FoldLeft, MapThenFoldSet
  <1>3. \A s \in SUBSET {1} : s # {} => s = {1}
    OBVIOUS
  <1>4. Max({1}) = 1
    BY DEF Max
  <1>5. it = step(it)
    <2> SUFFICES ASSUME NEW s \in SUBSET {1}
                 PROVE  it[s] = IF s = {} THEN <<>>
                                ELSE Pushed(it[s \ {Max(s)}], <<n>>[Max(s)])
      OBVIOUS
    <2>1. CASE s = {}
      BY <2>1
    <2>2. CASE s = {1}
      <3>1. s \ {Max(s)} = {} /\ <<n>>[Max(s)] = n
        BY <2>2, <1>1, <1>4
      <3>2. it[{}] = <<>> /\ it[s] = Pushed(<<>>, n)
        BY <2>2
      <3>. QED BY <3>1, <3>2, <2>2
    <2>. QED BY <2>1, <2>2, <1>3
  <1>6. PICK g : g = step(g) /\ FoldLeft(Pushed, <<>>, <<n>>) = g[{1}]
    BY <1>2, <1>5
  <1>7. g[{}] = <<>>
    BY <1>6
  <1>8. g[{1}] = Pushed(g[{}], n)
    <2>1. {1} \ {1} = {} /\ {1} # {} /\ {1} \in SUBSET {1}
      OBVIOUS
    <2>. QED BY <2>1, <1>1, <1>4, <1>6
  <1>. QED BY <1>6, <1>7, <1>8

-----------------------------------------------------------------------------
(* Initially it holds, if there is one initial state.                      *)

OneInitial == \A p \in Problems : Len(p.initials) = 1

LEMMA InitNInv ==
  ASSUME OneInitial, Init
  PROVE  NInv
  <1>. DEFINE n == problem.initials[1]
  <1>1. problem \in Problems
    BY DEF Init
  <1>2. problem.initials = <<n>> /\ n \in Nodes /\ ToSet(problem.initials) = {n}
    <2>1. problem.initials \in Seq(Nodes) /\ Len(problem.initials) = 1
      BY <1>1, ProblemType DEF OneInitial
    <2>2. problem.initials = <<problem.initials[1]>> /\ problem.initials[1] \in Nodes
      BY <2>1
    <2>3. \A x : x \in ToSet(problem.initials) <=> \E i \in 1..1 : problem.initials[i] = x
      BY <2>1, SetOf
    <2>. QED BY <2>2, <2>3
  <1>. HIDE DEF n
  <1>3. outer = Pushed(<<>>, n) /\ ceStack = <<n>> /\ store = {n}
    BY <1>2, OneQueued DEF Init
  <1>4. IsPushed(problem, outer, <<>>, n) /\ outer \in Seq(Items)
    <2>1. <<>> \in Seq(Items)
      OBVIOUS
    <2>2. IsPushed(problem, outer, <<>>, n)
      BY <2>1, <1>1, <1>2, <1>3, PushedIs
    <2>. QED BY <2>2 DEF IsPushed
  <1>5. /\ parallel \in BOOLEAN /\ verdict = "none" /\ nested = {} /\ inner = <<>>
        /\ seed = Nowhere /\ ceLasso = <<>> /\ valid = TRUE /\ finished = FALSE
        /\ process = <<>> /\ opc = "search" /\ ok = TRUE
        /\ (parallel => ipc = "loop") /\ (~parallel => ipc = "off")
    BY DEF Init
  <1>6. ceStack \in Seq(Nodes) /\ Len(ceStack) = 1 /\ ceStack[1] = n /\ ToSet(ceStack) = {n}
    <2>1. <<n>> \in Seq(Nodes) /\ Len(<<n>>) = 1 /\ <<n>>[1] = n
      BY <1>2
    <2>. QED BY <2>1, <1>2, <1>3
  <1>7. ToSet(<<>>) = {} /\ <<>> \in Seq(Nodes) /\ <<>> \in Seq(Items) /\ Len(<<>>) = 0
    BY DEF ToSet
  <1>8. ipc \in {"loop", "off"} /\ ~Searching
    BY <1>5 DEF Searching
  <1>9. n \in From(problem, ToSet(problem.initials))
    BY <1>2, FromItself
  <1>10. Types
    BY <1>1, <1>2, <1>3, <1>4, <1>5, <1>6, <1>7, <1>8 DEF Types
  <1>11. Control
    BY <1>5, <1>8 DEF Control
  <1>12. Reached
    <2>1. ASSUME NEW k \in 1..Len(outer)
          PROVE  /\ outer[k].node \in From(problem, ToSet(problem.initials))
                 /\ outer[k].flag = "Expanded" => outer[k].node \in store
      <3>1. /\ Len(problem.succ[n]) \in Nat /\ problem.succ[n] \in Seq(Nodes)
            /\ Len(outer) = 1 + Len(problem.succ[n]) /\ outer[1] = Expanded(n)
            /\ \A i \in 1..Len(problem.succ[n]) : outer[1 + i] = Fresh(problem.succ[n][i])
        <4>1. problem.succ[n] \in Seq(Nodes)
          BY <1>1, <1>2, ProblemType
        <4>. QED BY <4>1, <1>4 DEF IsPushed
      <3>2. CASE k = 1
        BY <3>1, <3>2, <1>2, <1>3, <1>9, ItemTypes
      <3>3. CASE k # 1
        <4>1. k - 1 \in 1..Len(problem.succ[n]) /\ 1 + (k - 1) = k
          BY <3>1, <3>3
        <4>2. outer[k] = Fresh(problem.succ[n][k - 1])
          BY <4>1, <3>1
        <4>3. problem.succ[n][k - 1] \in Succ(problem, n) /\ problem.succ[n][k - 1] \in Nodes
          BY <4>1, <3>1, InSetOf DEF Succ
        <4>. QED BY <4>2, <4>3, <1>1, <1>9, FromNext, ItemTypes
      <3>. QED BY <3>2, <3>3
    <2>2. /\ store \subseteq From(problem, ToSet(problem.initials))
          /\ ToSet(problem.initials) \subseteq store
      BY <1>2, <1>3, <1>9
    <2>. QED BY <2>1, <2>2, <1>5, <1>7 DEF Reached
  <1>13. OuterSearch
    <2>1. Search(problem, store, outer, ceStack)
      BY <1>1, <1>2, <1>3, <1>4, SearchStarts
    <2>2. Injective(ceStack)
      BY <1>6 DEF Injective
    <2>. QED BY <2>1, <2>2, <1>2, <1>3, <1>6 DEF OuterSearch
  <1>14. InnerSearch /\ Current /\ Counterexample /\ CycleFound
    BY <1>5, <1>8 DEF InnerSearch, Current, Counterexample, CycleFound
  <1>15. Waiting /\ Marked
    BY <1>5, <1>7 DEF Waiting, Marked, Closed
  <1>16. Checked
    <2>1. Undone = Nodes
      BY <1>2, <1>3, <1>5, <1>6, <1>7 DEF Undone, Opened
    <2>2. problem.accepting \subseteq Nodes
      BY <1>1, ProblemType
    <2>. QED BY <2>1, <2>2 DEF Checked
  <1>. QED BY <1>10, <1>11, <1>12, <1>13, <1>14, <1>15, <1>16 DEF NInv

-----------------------------------------------------------------------------
(* What a step keeps that does not touch it.                               *)

LEMMA OuterKept ==
  ASSUME OuterSearch, valid' => valid, UNCHANGED <<problem, store, outer, ceStack>>
  PROVE  OuterSearch'
  BY DEF OuterSearch

LEMMA InnerKept ==
  ASSUME InnerSearch, valid' => valid, ipc' = "search" => ipc = "search" /\ seed' = seed,
         UNCHANGED <<problem, nested, inner, ceLasso>>, valid' => Undone' \subseteq Undone
  PROVE  InnerSearch'
  <1> SUFFICES ASSUME valid', ipc' = "search"
               PROVE  /\ Search(problem, nested \ {seed}, inner, ceLasso)
                      /\ ceLasso # <<>> => ceLasso[1] = seed
                      /\ seed \in nested
                      /\ \E M \in SUBSET nested :
                           /\ Closed(problem, M) /\ seed \notin M /\ M \cap Undone' = {}
                           /\ \A n \in nested \ M : n = seed \/ n \in After(problem, seed)
                           /\ \A n \in nested \ (M \cup ToSet(ceLasso)) :
                                Succ(problem, n) \subseteq nested \ {seed}
    BY DEF InnerSearch
  <1>1. /\ Search(problem, nested \ {seed}, inner, ceLasso)
        /\ ceLasso # <<>> => ceLasso[1] = seed
        /\ seed \in nested
    BY DEF InnerSearch
  <1>2. PICK M \in SUBSET nested :
          /\ Closed(problem, M) /\ seed \notin M /\ M \cap Undone = {}
          /\ \A n \in nested \ M : n = seed \/ n \in After(problem, seed)
          /\ \A n \in nested \ (M \cup ToSet(ceLasso)) :
               Succ(problem, n) \subseteq nested \ {seed}
    BY DEF InnerSearch
  <1>3. M \cap Undone' = {}
    BY <1>2
  <1>. QED BY <1>1, <1>2, <1>3

LEMMA MarkedKept ==
  ASSUME Marked, valid' => valid, ipc' # "search" => ipc # "search",
         UNCHANGED <<problem, nested>>, valid' => Undone' \subseteq Undone
  PROVE  Marked'
  BY DEF Marked

LEMMA InOrderKept ==
  ASSUME NEW p, NEW n, NEW U, InOrder(p, n, U), NEW V, V \subseteq U
  PROVE  InOrder(p, n, V)
  BY DEF InOrder

LEMMA CurrentKept ==
  ASSUME Current, valid' => valid, ipc' = ipc, UNCHANGED <<problem, nested, parallel, seed>>,
         valid' => Undone' \subseteq Undone,
         Searching /\ ~parallel => ceStack' = ceStack
  PROVE  Current'
  BY InOrderKept DEF Current, Searching

LEMMA WaitingKept ==
  ASSUME Waiting, valid' => valid, UNCHANGED <<problem, process>>,
         valid' => \A i \in 1..Len(process) : Later(i)' \subseteq Later(i)
  PROVE  Waiting'
  BY InOrderKept DEF Waiting

LEMMA CheckedKept ==
  ASSUME Checked, valid' => valid, UNCHANGED problem, Searching' = Searching, seed' = seed,
         valid' => Undone \subseteq Undone'
  PROVE  Checked'
  BY DEF Checked

LEMMA CounterexampleKept ==
  ASSUME Counterexample, valid' = valid,
         ~valid => UNCHANGED <<problem, parallel, ceStack, ceLasso>>
  PROVE  Counterexample' \/ valid
  BY DEF Counterexample, IsPath

\* A step that leaves all but the control alone.
LEMMA SearchesKept ==
  ASSUME NInv, UNCHANGED <<problem, parallel, store, nested, outer, inner, ceStack, ceLasso,
                           valid, process>>,
         Opened' = Opened, ipc' = "search" => ipc = "search",
         ipc' # "search" => ipc # "search",
         seed' = seed, Searching' = Searching, ipc' = "seed" <=> ipc = "seed",
         ok' = ok
  PROVE  /\ Reached' /\ CycleFound' /\ OuterSearch' /\ InnerSearch'
         /\ Waiting' /\ Current' /\ Marked' /\ Checked' /\ Counterexample'
  <1>1. Undone' = Undone /\ \A i \in 1..Len(process) : Later(i)' = Later(i)
    BY DEF Undone, Later
  <1>2. Reached' /\ CycleFound'
    BY DEF NInv, Reached, CycleFound
  <1>3. OuterSearch' /\ InnerSearch'
    BY <1>1, OuterKept, InnerKept DEF NInv
  <1>4. Waiting' /\ Marked' /\ Checked'
    BY <1>1, WaitingKept, MarkedKept, CheckedKept DEF NInv
  <1>5. Current'
    BY <1>1 DEF NInv, Current
  <1>6. Counterexample'
    BY DEF NInv, Counterexample, IsPath
  <1>. QED BY <1>2, <1>3, <1>4, <1>5, <1>6

-----------------------------------------------------------------------------
(* The steps of the outer search.                                          *)

LEMMA TypeFacts ==
  ASSUME NInv
  PROVE  /\ problem \in Problems /\ outer \in Seq(Items) /\ inner \in Seq(Items)
         /\ ceStack \in Seq(Nodes) /\ ceLasso \in Seq(Nodes) /\ process \in Seq(Nodes)
         /\ store \subseteq Nodes /\ nested \subseteq store
         /\ problem.accepting \subseteq Nodes
  <1>1. problem \in Problems
    BY DEF NInv, Types
  <1>. QED BY <1>1, ProblemType DEF NInv, Types

\* The state on top of the outer stack.
LEMMA TopOfOuter ==
  ASSUME NInv, outer # <<>>
  PROVE  /\ Last(outer) \in Items /\ Last(outer).node \in Nodes
         /\ Front(outer) \in Seq(Items) /\ Last(outer) = outer[Len(outer)]
         /\ Len(outer) \in Nat /\ Len(outer) > 0 /\ Len(Front(outer)) = Len(outer) - 1
         /\ \A k \in 1..(Len(outer) - 1) : Front(outer)[k] = outer[k]
         /\ Last(outer).node \in From(problem, ToSet(problem.initials))
         /\ Last(outer).flag = "Expanded" => Last(outer).node \in store
  <1>1. outer \in Seq(Items)
    BY TypeFacts
  <1>2. /\ Front(outer) \in Seq(Items) /\ Last(outer) = outer[Len(outer)]
        /\ Len(outer) \in Nat /\ Len(outer) > 0 /\ Len(Front(outer)) = Len(outer) - 1
        /\ \A k \in 1..(Len(outer) - 1) : Front(outer)[k] = outer[k]
        /\ Last(outer) \in Items
    BY <1>1, FrontIs
  <1>3. Last(outer).node \in Nodes
    BY <1>2 DEF Items
  <1>4. Len(outer) \in 1..Len(outer)
    BY <1>2
  <1>5. /\ Last(outer).node \in From(problem, ToSet(problem.initials))
        /\ Last(outer).flag = "Expanded" => Last(outer).node \in store
    BY <1>2, <1>4 DEF NInv, Reached
  <1>. QED BY <1>2, <1>3, <1>5

\* The items below the top come from where they came from; those that are pushed
\* are behind the state that is expanded.
LEMMA PushedFrom ==
  ASSUME NEW p \in Problems, NEW stack \in Seq(Items), NEW n \in Nodes,
         NEW t, IsPushed(p, t, stack, n), NEW k \in 1..Len(t)
  PROVE  \/ k \in 1..Len(stack) /\ t[k] = stack[k]
         \/ t[k] = Expanded(n)
         \/ t[k].node \in Succ(p, n) /\ t[k].flag = "Fresh"
  <1>. DEFINE L == Len(stack)
              s == p.succ[n]
  <1>1. L \in Nat /\ s \in Seq(Nodes) /\ Len(s) \in Nat
    BY ProblemType
  <1>2. Len(t) = L + 1 + Len(s)
    BY DEF IsPushed
  <1>3. \/ k \in 1..L \/ k = L + 1
        \/ (k - (L + 1) \in 1..Len(s) /\ L + 1 + (k - (L + 1)) = k)
    <2>. HIDE DEF L, s
    <2>. QED BY <1>1, <1>2
  <1>4. CASE k \in 1..L
    BY <1>4 DEF IsPushed
  <1>5. CASE k = L + 1
    BY <1>5 DEF IsPushed
  <1>6. CASE k - (L + 1) \in 1..Len(s) /\ L + 1 + (k - (L + 1)) = k
    <2>1. t[k] = Fresh(s[k - (L + 1)])
      BY <1>6 DEF IsPushed
    <2>2. s[k - (L + 1)] \in Succ(p, n) /\ s[k - (L + 1)] \in Nodes
      BY <1>1, <1>6, InSetOf DEF Succ
    <2>. QED BY <2>1, <2>2, ItemTypes
  <1>. QED BY <1>3, <1>4, <1>5, <1>6

LEMMA ExploreStep == NInv /\ Explore => NInv'
  <1> SUFFICES ASSUME NInv, Explore PROVE NInv'
    OBVIOUS
  <1>. DEFINE n == Last(outer).node
  <1>1. /\ ok /\ opc = "search" /\ IsFresh(outer) /\ outer # <<>>
        /\ store' = store \cup {n}
        /\ UNCHANGED <<problem, parallel, verdict, nested, inner, seed, ceLasso, valid, finished,
                       process, opc, ipc, ok>>
    BY DEF Explore, IsFresh, shared
  <1>2. \/ n \in store /\ outer' = Front(outer) /\ ceStack' = ceStack
        \/ n \notin store /\ valid /\ outer' = Pushed(Front(outer), n)
           /\ ceStack' = Append(ceStack, n)
        \/ n \notin store /\ ~valid /\ outer' = <<>> /\ ceStack' = ceStack
    BY DEF Explore, NInv, Types
  <1>3. /\ problem \in Problems /\ outer \in Seq(Items) /\ inner \in Seq(Items)
        /\ ceStack \in Seq(Nodes) /\ ceLasso \in Seq(Nodes) /\ process \in Seq(Nodes)
        /\ store \subseteq Nodes
    BY TypeFacts
  <1>4. /\ n \in Nodes /\ Front(outer) \in Seq(Items) /\ Len(Front(outer)) = Len(outer) - 1
        /\ Len(outer) \in Nat /\ \A k \in 1..(Len(outer) - 1) : Front(outer)[k] = outer[k]
        /\ n \in From(problem, ToSet(problem.initials))
    BY <1>1, TopOfOuter
  <1>5. IsPushed(problem, Pushed(Front(outer), n), Front(outer), n)
    BY <1>3, <1>4, PushedIs
  <1>6. /\ Append(ceStack, n) \in Seq(Nodes) /\ ToSet(Append(ceStack, n)) = ToSet(ceStack) \cup {n}
        /\ Len(Append(ceStack, n)) = Len(ceStack) + 1 /\ Len(ceStack) \in Nat
        /\ Append(ceStack, n)[Len(ceStack) + 1] = n
        /\ \A i \in 1..Len(ceStack) : Append(ceStack, n)[i] = ceStack[i]
    BY <1>3, <1>4, AppendIs
  <1>. HIDE DEF n
  <1>7. Types'
    <2>1. outer' \in Seq(Items)
      <3>1. Pushed(Front(outer), n) \in Seq(Items)
        BY <1>5 DEF IsPushed
      <3>2. <<>> \in Seq(Items)
        OBVIOUS
      <3>. QED BY <3>1, <3>2, <1>2, <1>4
    <2>2. ceStack' \in Seq(Nodes) /\ ToSet(ceStack') \subseteq store'
      BY <1>1, <1>2, <1>3, <1>6 DEF NInv, Types
    <2>. QED BY <2>1, <2>2, <1>1, <1>4 DEF NInv, Types
  <1>8. Control'
    BY <1>1 DEF NInv, Control, Searching
  <1>9. Reached'
    <2>1. /\ store' \subseteq From(problem, ToSet(problem.initials))
          /\ ToSet(problem.initials) \subseteq store'
      BY <1>1, <1>4 DEF NInv, Reached
    <2>2. ASSUME NEW k \in 1..Len(outer')
          PROVE  /\ outer'[k].node \in From(problem, ToSet(problem.initials))
                 /\ outer'[k].flag = "Expanded" => outer'[k].node \in store'
      <3>0. ASSUME NEW i \in 1..Len(Front(outer))
            PROVE  /\ Front(outer)[i].node \in From(problem, ToSet(problem.initials))
                   /\ Front(outer)[i].flag = "Expanded" => Front(outer)[i].node \in store'
        <4>1. i \in 1..Len(outer) /\ Front(outer)[i] = outer[i]
          BY <1>4
        <4>. QED BY <4>1, <1>1 DEF NInv, Reached
      <3>1. CASE outer' = Front(outer)
        BY <3>0, <3>1
      <3>2. CASE outer' = Pushed(Front(outer), n)
        <4>1. CASE k \in 1..Len(Front(outer)) /\ outer'[k] = Front(outer)[k]
          BY <3>0, <4>1
        <4>2. CASE outer'[k] = Expanded(n)
          BY <4>2, <1>1, <1>4, ItemTypes
        <4>3. CASE outer'[k].node \in Succ(problem, n) /\ outer'[k].flag = "Fresh"
          BY <4>3, <1>3, <1>4, FromNext
        <4>. QED BY <4>1, <4>2, <4>3, <3>2, <1>3, <1>4, <1>5, PushedFrom
      <3>3. CASE outer' = <<>>
        BY <3>3
      <3>. QED BY <3>1, <3>2, <3>3, <1>2
    <2>. QED BY <2>1, <2>2, <1>1 DEF NInv, Reached
  <1>10. CycleFound'
    BY <1>1 DEF NInv, CycleFound
  <1>11. OuterSearch'
    <2> SUFFICES ASSUME valid
                 PROVE  /\ Search(problem, store', outer', ceStack')
                        /\ Injective(ceStack')
                        /\ ceStack' # <<>> => ceStack'[1] \in ToSet(problem.initials)
                        /\ \A x \in store' \ ToSet(ceStack') : Succ(problem, x) \subseteq store'
      BY <1>1 DEF OuterSearch
    <2>1. /\ Search(problem, store, outer, ceStack)
          /\ Injective(ceStack)
          /\ ceStack # <<>> => ceStack[1] \in ToSet(problem.initials)
          /\ \A x \in store \ ToSet(ceStack) : Succ(problem, x) \subseteq store
      BY DEF NInv, OuterSearch
    <2>2. CASE n \in store /\ outer' = Front(outer) /\ ceStack' = ceStack
      <3>1. store' = store
        BY <2>2, <1>1
      <3>2. Search(problem, store, Front(outer), ceStack)
        BY <2>1, <2>2, <1>1, <1>3, SearchSkips DEF n
      <3>. QED BY <3>1, <3>2, <2>1, <2>2
    <2>3. CASE n \notin store /\ outer' = Pushed(Front(outer), n) /\ ceStack' = Append(ceStack, n)
      <3>1. Search(problem, store \cup {n}, outer', ceStack')
        BY <2>1, <2>3, <1>1, <1>3, <1>4, <1>5, SearchPushes DEF n
      <3>2. n \notin ToSet(ceStack)
        BY <2>3 DEF NInv, Types
      <3>3. Injective(ceStack')
        <4>1. \A i \in 1..Len(ceStack) : ceStack[i] # n
          BY <3>2, <1>3, InSetOf
        <4>. QED BY <4>1, <2>1, <2>3, <1>6 DEF Injective
      <3>4. ceStack'[1] \in ToSet(problem.initials)
        <4>1. ceStack # <<>>
          <5>1. PICK pos \in [1..Len(ceStack) -> 1..Len(outer)] :
                       Shape(problem, store, outer, ceStack, pos)
            BY <2>1 DEF Search
          <5>2. Len(ceStack) > 0
            BY <5>1, <1>1, <1>3, FreshOnTop
          <5>. QED BY <5>2
        <4>2. 1 \in 1..Len(ceStack)
          BY <4>1, <1>3
        <4>. QED BY <4>1, <4>2, <2>1, <2>3, <1>6
      <3>5. \A x \in store' \ ToSet(ceStack') : Succ(problem, x) \subseteq store'
        BY <2>1, <2>3, <1>1, <1>6
      <3>. QED BY <3>1, <3>3, <3>4, <3>5, <1>1
    <2>. QED BY <2>2, <2>3, <1>2
  <1>12. valid => Opened' \cup (Nodes \ store') = Opened \cup (Nodes \ store)
    <2>1. Opened = ToSet(ceStack) /\ Opened' = ToSet(ceStack')
      BY <1>1 DEF Opened
    <2>2. ToSet(ceStack) \subseteq store
      BY DEF NInv, Types
    <2>. QED BY <2>1, <2>2, <1>1, <1>2, <1>4, <1>6
  <1>13. valid => Undone' = Undone /\ \A i \in 1..Len(process) : Later(i)' = Later(i)
    BY <1>1, <1>12 DEF Undone, Later
  <1>14. Searching' = Searching /\ (Searching => parallel)
    BY <1>1 DEF Searching, NInv, Control
  <1>15. InnerSearch' /\ Marked'
    BY <1>1, <1>13, InnerKept, MarkedKept DEF NInv
  <1>16. Waiting' /\ Checked' /\ Current'
    BY <1>1, <1>13, <1>14, WaitingKept, CheckedKept, CurrentKept DEF NInv
  <1>17. Counterexample'
    BY <1>1, <1>2 DEF NInv, Counterexample, IsPath
  <1>. QED BY <1>7, <1>8, <1>9, <1>10, <1>11, <1>15, <1>16, <1>17 DEF NInv

\* The state that is finished is the last of the trace.
LEMMA TopOfTrace ==
  ASSUME NInv, valid, IsExpanded(outer)
  PROVE  /\ ceStack # <<>> /\ Last(ceStack) = Last(outer).node
         /\ Succ(problem, Last(ceStack)) \subseteq store
         /\ Search(problem, store, Front(outer), Front(ceStack))
         /\ Last(ceStack) \in store
         /\ Front(ceStack) \in Seq(Nodes) /\ Len(Front(ceStack)) = Len(ceStack) - 1
         /\ Len(ceStack) \in Nat /\ Len(ceStack) > 0
         /\ \A i \in 1..(Len(ceStack) - 1) : Front(ceStack)[i] = ceStack[i]
         /\ ToSet(ceStack) = ToSet(Front(ceStack)) \cup {Last(ceStack)}
         /\ Last(ceStack) \notin ToSet(Front(ceStack))
  <1>1. outer \in Seq(Items) /\ ceStack \in Seq(Nodes)
    BY TypeFacts
  <1>2. Search(problem, store, outer, ceStack) /\ Injective(ceStack)
    BY DEF NInv, OuterSearch
  <1>3. /\ ceStack # <<>> /\ Last(outer) = Expanded(Last(ceStack))
        /\ Succ(problem, Last(ceStack)) \subseteq store
        /\ Search(problem, store, Front(outer), Front(ceStack))
    BY <1>1, <1>2, SearchPops
  <1>4. /\ Front(ceStack) \in Seq(Nodes) /\ Len(Front(ceStack)) = Len(ceStack) - 1
        /\ Len(ceStack) \in Nat /\ Len(ceStack) > 0
        /\ \A i \in 1..(Len(ceStack) - 1) : Front(ceStack)[i] = ceStack[i]
        /\ Last(ceStack) = ceStack[Len(ceStack)] /\ Last(ceStack) \in Nodes
    BY <1>1, <1>3, FrontIs
  <1>5. ToSet(ceStack) = ToSet(Front(ceStack)) \cup {Last(ceStack)}
    BY <1>1, <1>3, SetOfFront
  <1>6. Last(ceStack) \in store
    BY <1>5 DEF NInv, Types
  <1>7. Last(ceStack) \notin ToSet(Front(ceStack))
    <2> SUFFICES ASSUME Last(ceStack) \in ToSet(Front(ceStack))
                 PROVE  FALSE
      OBVIOUS
    <2>1. PICK i \in 1..(Len(ceStack) - 1) : Front(ceStack)[i] = Last(ceStack)
      BY <1>4, SetOf
    <2>2. ceStack[i] = ceStack[Len(ceStack)] /\ i \in 1..Len(ceStack)
          /\ Len(ceStack) \in 1..Len(ceStack) /\ i # Len(ceStack)
      BY <2>1, <1>4
    <2>. QED BY <2>2, <1>2 DEF Injective
  <1>8. Last(outer).node = Last(ceStack)
    BY <1>3, <1>4, ItemTypes
  <1>. QED BY <1>3, <1>4, <1>5, <1>6, <1>7, <1>8

\* The depth-first order: a state that is finished reaches nothing that is not,
\* unless it is on a cycle, for the way there would come back over the stack.
LEMMA DepthFirst ==
  ASSUME NInv, valid, IsExpanded(outer)
  PROVE  InOrder(problem, Last(ceStack), ToSet(Front(ceStack)) \cup (Nodes \ store))
  <1>. DEFINE b == Last(ceStack)
              U == ToSet(Front(ceStack)) \cup (Nodes \ store)
              C == {n \in store \ ToSet(Front(ceStack)) : b \notin From(problem, {n})}
  <1>1. /\ b \in store /\ b \notin ToSet(Front(ceStack))
        /\ Succ(problem, b) \subseteq store
        /\ ToSet(ceStack) = ToSet(Front(ceStack)) \cup {b}
    BY TopOfTrace
  <1>2. problem \in Problems /\ store \subseteq Nodes /\ ceStack \in Seq(Nodes)
    BY TypeFacts
  <1>3. \A n \in ToSet(ceStack) : b \in From(problem, {n})
    <2>1. Search(problem, store, outer, ceStack)
      BY DEF NInv, OuterSearch
    <2>. QED BY <2>1, <1>2, TraceLeads
  <1>4. \A n \in store \ ToSet(ceStack) : Succ(problem, n) \subseteq store
    BY DEF NInv, OuterSearch
  <1>. HIDE DEF b
  <1>5. ASSUME ~OnCycleOf(problem, b)
        PROVE  After(problem, b) \cap U = {}
    <2>1. ASSUME NEW m \in Succ(problem, b)
          PROVE  m \in C
      <3>1. m \in store /\ m \in Nodes
        BY <1>1, <1>2
      <3>2. m \in After(problem, b)
        BY <3>1, FromItself DEF After
      <3>3. b \notin From(problem, {m})
        BY <3>2, <1>1, <1>2, <1>5, BackIsCycle
      <3>4. m \notin ToSet(Front(ceStack))
        BY <3>3, <1>1, <1>3
      <3>. QED BY <3>1, <3>3, <3>4
    <2>2. ASSUME NEW n \in C, NEW m \in Succ(problem, n)
          PROVE  m \in C
      <3>1. n \in Nodes /\ n \in store /\ n \notin ToSet(Front(ceStack))
            /\ b \notin From(problem, {n})
        BY <1>2
      <3>2. n # b
        BY <3>1, <1>1, <1>2, FromItself
      <3>3. m \in store
        BY <3>1, <3>2, <1>1, <1>4
      <3>4. m \in From(problem, {n})
        <4>1. n \in From(problem, {n})
          BY <3>1, FromItself
        <4>. QED BY <4>1, <1>2, FromNext
      <3>5. b \notin From(problem, {m})
        BY <3>1, <3>4, <1>2, FromFrom
      <3>6. m \notin ToSet(Front(ceStack))
        BY <3>5, <1>1, <1>3
      <3>. QED BY <3>3, <3>5, <3>6
    <2>3. C \in SUBSET Nodes /\ Succ(problem, b) \subseteq C /\ Closed(problem, C)
      BY <2>1, <2>2, <1>2 DEF Closed
    <2>. HIDE DEF C
    <2>4. After(problem, b) \subseteq C
      BY <2>3, FromWithin DEF After
    <2>. QED BY <2>4 DEF C
  <1>6. b \notin U
    BY <1>1
  <1>. QED BY <1>5, <1>6 DEF InOrder, b

LEMMA FinishStep == NInv /\ Finish => NInv'
  <1> SUFFICES ASSUME NInv, Finish PROVE NInv'
    OBVIOUS
  <1>. DEFINE n == Last(outer).node
  <1>1. /\ ok /\ opc = "search" /\ IsExpanded(outer) /\ outer # <<>>
        /\ UNCHANGED <<problem, parallel, verdict, store, nested, outer, inner, ceStack,
                       ceLasso, valid, finished, ok>>
    BY DEF Finish, IsExpanded
  <1>2. \/ /\ n \in problem.accepting /\ ~parallel
           /\ opc' = "inner" /\ ipc' = "seed" /\ seed' = n /\ process' = process
        \/ /\ n \in problem.accepting /\ parallel
           /\ opc' = "close" /\ process' = Append(process, n) /\ ipc' = ipc /\ seed' = seed
        \/ /\ n \notin problem.accepting
           /\ opc' = "close" /\ process' = process /\ ipc' = ipc /\ seed' = seed
    BY DEF Finish, NInv, Types
  <1>3. /\ problem \in Problems /\ ceStack \in Seq(Nodes) /\ process \in Seq(Nodes)
        /\ store \subseteq Nodes /\ nested \subseteq store /\ parallel \in BOOLEAN
    BY TypeFacts DEF NInv, Types
  <1>4. n \in Nodes /\ n \in store
    BY <1>1, TopOfOuter DEF IsExpanded
  <1>5. /\ Append(process, n) \in Seq(Nodes) /\ Len(Append(process, n)) = Len(process) + 1
        /\ Len(process) \in Nat
        /\ \A i \in 1..Len(process) : Append(process, n)[i] = process[i]
        /\ Append(process, n)[Len(process) + 1] = n
        /\ ToSet(Append(process, n)) = ToSet(process) \cup {n}
        /\ Append(process, n) # <<>>
    BY <1>3, <1>4, AppendIs
  <1>6. valid => /\ ceStack # <<>> /\ n = Last(ceStack)
                 /\ ToSet(ceStack) = ToSet(Front(ceStack)) \cup {n}
                 /\ n \notin ToSet(Front(ceStack))
                 /\ InOrder(problem, n, ToSet(Front(ceStack)) \cup (Nodes \ store))
    <2>1. ASSUME valid
          PROVE  /\ ceStack # <<>> /\ n = Last(ceStack)
                 /\ ToSet(ceStack) = ToSet(Front(ceStack)) \cup {n}
                 /\ n \notin ToSet(Front(ceStack))
      BY <1>1, <2>1, TopOfTrace
    <2>2. ASSUME valid
          PROVE  InOrder(problem, n, ToSet(Front(ceStack)) \cup (Nodes \ store))
      BY <1>1, <2>1, <2>2, DepthFirst
    <2>. QED BY <2>1, <2>2
  <1>. HIDE DEF n
  <1>7. /\ Opened = ToSet(ceStack) /\ Opened' = ToSet(Front(ceStack))
    BY <1>1, <1>2 DEF Opened
  <1>8. ~parallel => process = <<>> /\ ipc = "off"
    BY <1>1 DEF NInv, Control
  <1>9. Types'
    <2>1. process' \in Seq(Nodes) /\ ToSet(process') \subseteq store
      BY <1>2, <1>3, <1>4, <1>5 DEF NInv, Types
    <2>. QED BY <2>1, <1>1, <1>2, <1>4 DEF NInv, Types
  <1>10. Control'
    <2>1. (~parallel => process = <<>> /\ (ipc = "off" \/ (opc = "inner" /\ Searching)))'
      BY <1>1, <1>2, <1>8 DEF Searching
    <2>2. (parallel => opc # "inner")'
      BY <1>1, <1>2, <1>8 DEF NInv, Control
    <2>3. finished = FALSE /\ finished' = FALSE
      BY <1>1 DEF NInv, Control, Types
    <2>4. (opc \in {"close", "inner"} => IsExpanded(outer))' /\ (verdict = "none" <=> opc # "done")'
      BY <1>1, <1>2 DEF NInv, Control, IsExpanded
    <2>5. ipc' # "again" /\ (parallel /\ valid => ipc' # "off")
      BY <1>1, <1>2, <1>8, <2>3 DEF NInv, Control
    <2>6. ipc' # "search" => ipc # "search"
      BY <1>2, <1>8
    <2>7. (~valid \/ ipc # "search" => inner = <<>>)' /\ (valid /\ ipc # "search" => ceLasso = <<>>)'
      BY <1>1, <2>6 DEF NInv, Control
    <2>8. (Searching => seed \in store /\ seed \in problem.accepting)'
      BY <1>1, <1>2, <1>4 DEF NInv, Control, Searching
    <2>9. opc' \notin {"join", "done"}
      BY <1>2
    <2>. QED BY <2>1, <2>2, <2>3, <2>4, <2>5, <2>7, <2>8, <2>9, <1>1 DEF Control
  <1>11. Reached'
    <2>1. inner = <<>> \/ seed' = seed
      BY <1>2, <1>8 DEF NInv, Control
    <2>2. inner = <<>> => Len(inner) = 0
      OBVIOUS
    <2>. QED BY <2>1, <2>2, <1>1 DEF NInv, Reached
  <1>12. CycleFound'
    BY <1>1 DEF NInv, CycleFound
  <1>13. OuterSearch'
    BY <1>1, OuterKept DEF NInv
  <1>14. ToSet(<<>>) = {}
    BY DEF ToSet
  <1>15. ToSet(process) \subseteq ToSet(process') /\ ToSet(process') \subseteq ToSet(process) \cup {n}
    BY <1>2, <1>5
  <1>16. /\ valid => Undone' \subseteq Undone /\ Undone \subseteq Undone' \cup {n}
         /\ n \in problem.accepting /\ parallel => n \in Undone'
    <2>1. Undone = ToSet(process) \cup Opened \cup (Nodes \ store)
          /\ Undone' = ToSet(process') \cup Opened' \cup (Nodes \ store)
      BY <1>1 DEF Undone
    <2>2. n \in problem.accepting /\ parallel => n \in ToSet(process')
      BY <1>2, <1>5
    <2>. QED BY <2>1, <2>2, <1>6, <1>7, <1>15
  <1>17. InnerSearch'
    BY <1>1, <1>2, <1>8, <1>16, InnerKept DEF NInv
  <1>18. Marked'
    BY <1>1, <1>2, <1>8, <1>16, MarkedKept DEF NInv
  <1>19. Waiting'
    <2> SUFFICES ASSUME valid, NEW i \in 1..Len(process')
                 PROVE  process'[i] \in problem.accepting
                        /\ InOrder(problem, process'[i], Later(i)')
      BY <1>1 DEF Waiting
    <2>1. \A j \in 1..Len(process) : /\ process[j] \in problem.accepting
                                     /\ InOrder(problem, process[j], Later(j))
      BY DEF NInv, Waiting
    <2>2. Later(i)' = {process'[j] : j \in (i + 1)..Len(process')} \cup ToSet(Front(ceStack))
                      \cup (Nodes \ store)
      BY <1>1, <1>7 DEF Later
    <2>3. Later(i) = {process[j] : j \in (i + 1)..Len(process)} \cup ToSet(Front(ceStack)) \cup {n}
                     \cup (Nodes \ store)
      BY <1>6, <1>7 DEF Later
    <2>4. CASE process' = process
      <3>1. Later(i)' \subseteq Later(i)
        BY <2>2, <2>3, <2>4
      <3>. QED BY <3>1, <2>1, <2>4, InOrderKept
    <2>5. CASE process' = Append(process, n) /\ i \in 1..Len(process)
      <3>1. ASSUME NEW j \in (i + 1)..(Len(process) + 1)
            PROVE  process'[j] = n \/ \E l \in (i + 1)..Len(process) : process'[j] = process[l]
        <4>1. j = Len(process) + 1 \/ (j \in (i + 1)..Len(process) /\ j \in 1..Len(process))
          BY <1>5, <2>5
        <4>. QED BY <4>1, <1>5, <2>5
      <3>2. Later(i)' \subseteq Later(i)
        BY <3>1, <2>2, <2>3, <2>5, <1>5
      <3>. QED BY <3>2, <2>1, <2>5, <1>5, InOrderKept
    <2>6. CASE process' = Append(process, n) /\ i = Len(process) + 1 /\ n \in problem.accepting
      <3>1. (i + 1)..Len(process') = {}
        BY <1>5, <2>6
      <3>2. Later(i)' = ToSet(Front(ceStack)) \cup (Nodes \ store)
        BY <3>1, <2>2
      <3>. QED BY <3>2, <1>5, <1>6, <2>6
    <2>7. process' = Append(process, n) => i \in 1..Len(process) \/ i = Len(process) + 1
      BY <1>5
    <2>. QED BY <2>4, <2>5, <2>6, <2>7, <1>2
  <1>20. Current'
    <2>1. CASE parallel
      <3>1. Searching' = Searching /\ ipc' = ipc /\ seed' = seed
        BY <1>2, <2>1 DEF Searching
      <3>. QED BY <3>1, <2>1, <1>1, <1>16, CurrentKept DEF NInv
    <2>2. CASE ~parallel
      <3> SUFFICES ASSUME valid, Searching'
                   PROVE  /\ InOrder(problem, seed', Undone')
                          /\ ipc' = "seed" => seed' \notin nested
                          /\ seed' = Last(ceStack)
        BY <1>1, <2>2 DEF Current
      <3>1. seed' = n /\ process' = <<>>
        BY <1>2, <1>8, <2>2 DEF Searching
      <3>2. Undone' = ToSet(Front(ceStack)) \cup (Nodes \ store)
        BY <3>1, <1>1, <1>7, <1>14 DEF Undone
      <3>3. n \in Undone
        BY <1>6, <1>7 DEF Undone
      <3>4. nested \cap Undone = {}
        BY <1>8, <2>2 DEF NInv, Marked
      <3>. QED BY <3>1, <3>2, <3>3, <3>4, <1>6
    <2>. QED BY <2>1, <2>2
  <1>21. Checked'
    <2> SUFFICES ASSUME valid, NEW x \in problem.accepting, x \notin Undone',
                        Searching' => x # seed'
                 PROVE  ~OnCycleOf(problem, x)
      BY <1>1 DEF Checked
    <2>1. x # n
      BY <1>2, <1>16 DEF Searching
    <2>2. x \notin Undone
      BY <2>1, <1>16
    <2>3. Searching => x # seed
      BY <1>2, <1>8 DEF Searching
    <2>. QED BY <2>2, <2>3 DEF NInv, Checked
  <1>22. Counterexample'
    BY <1>1 DEF NInv, Counterexample, IsPath
  <1>. QED BY <1>9, <1>10, <1>11, <1>12, <1>13, <1>17, <1>18, <1>19, <1>20, <1>21, <1>22 DEF NInv

LEMMA InnerReturnedStep == NInv /\ InnerReturned => NInv'
  <1> SUFFICES ASSUME NInv, InnerReturned PROVE NInv'
    OBVIOUS
  <1>1. /\ opc = "inner" /\ ipc = "off" /\ opc' = "close"
        /\ UNCHANGED <<problem, parallel, verdict, store, nested, outer, inner, seed, ceStack,
                       ceLasso, valid, finished, process, ipc, ok>>
    BY DEF InnerReturned, shared
  <1>2. Opened' = Opened /\ Searching' = Searching
    BY <1>1 DEF Opened, Searching
  <1>3. /\ Reached' /\ CycleFound' /\ OuterSearch' /\ InnerSearch'
        /\ Waiting' /\ Current' /\ Marked' /\ Checked' /\ Counterexample'
    BY <1>1, <1>2, SearchesKept
  <1>4. Types'
    BY <1>1 DEF NInv, Types
  <1>5. Control'
    BY <1>1, <1>2 DEF NInv, Control, IsExpanded
  <1>. QED BY <1>3, <1>4, <1>5 DEF NInv

LEMMA CloseStep == NInv /\ Close => NInv'
  <1> SUFFICES ASSUME NInv, Close PROVE NInv'
    OBVIOUS
  <1>1. /\ ok /\ opc = "close" /\ opc' = "search" /\ outer' = Front(outer)
        /\ ceStack' = IF valid /\ ceStack # <<>> THEN Front(ceStack) ELSE ceStack
        /\ ok' = (valid /\ ceStack # <<>> => Last(ceStack) = Last(outer).node)
        /\ UNCHANGED <<problem, parallel, verdict, store, nested, inner, seed, ceLasso,
                       valid, finished, process, ipc>>
    BY DEF Close, shared
  <1>2. IsExpanded(outer) /\ outer # <<>>
    BY <1>1 DEF NInv, Control, IsExpanded
  <1>3. problem \in Problems /\ ceStack \in Seq(Nodes) /\ store \subseteq Nodes
        /\ valid \in BOOLEAN /\ ToSet(ceStack) \subseteq store
    BY TypeFacts DEF NInv, Types
  <1>4. /\ Front(outer) \in Seq(Items)
        /\ Len(outer) \in Nat /\ Len(Front(outer)) = Len(outer) - 1
        /\ \A k \in 1..(Len(outer) - 1) : Front(outer)[k] = outer[k]
    BY <1>2, TopOfOuter
  <1>5. valid => /\ ceStack # <<>> /\ Last(ceStack) = Last(outer).node
                 /\ Succ(problem, Last(ceStack)) \subseteq store
                 /\ Search(problem, store, Front(outer), Front(ceStack))
                 /\ Front(ceStack) \in Seq(Nodes) /\ Len(Front(ceStack)) = Len(ceStack) - 1
                 /\ Len(ceStack) \in Nat
                 /\ \A i \in 1..(Len(ceStack) - 1) : Front(ceStack)[i] = ceStack[i]
                 /\ ToSet(ceStack) = ToSet(Front(ceStack)) \cup {Last(ceStack)}
    BY <1>2, TopOfTrace
  <1>6. /\ valid => ceStack' = Front(ceStack)
        /\ ~valid => ceStack' = ceStack
        /\ ok' = TRUE
    BY <1>1, <1>5
  <1>7. ceStack' \in Seq(Nodes) /\ ToSet(ceStack') \subseteq store
    BY <1>3, <1>5, <1>6
  <1>8. Types'
    BY <1>1, <1>4, <1>6, <1>7 DEF NInv, Types
  <1>9. Searching' = Searching /\ (Searching => parallel)
    BY <1>1 DEF Searching, NInv, Control
  <1>10. Control'
    BY <1>1, <1>9 DEF NInv, Control
  <1>11. Reached'
    <2>1. ASSUME NEW k \in 1..Len(outer')
          PROVE  k \in 1..Len(outer) /\ outer'[k] = outer[k]
      BY <1>1, <1>4
    <2>. QED BY <2>1, <1>1 DEF NInv, Reached
  <1>12. CycleFound'
    BY <1>1, <1>6 DEF NInv, CycleFound
  <1>13. OuterSearch'
    <2> SUFFICES ASSUME valid
                 PROVE  /\ Search(problem, store, outer', ceStack')
                        /\ Injective(ceStack')
                        /\ ceStack' # <<>> => ceStack'[1] \in ToSet(problem.initials)
                        /\ \A x \in store \ ToSet(ceStack') : Succ(problem, x) \subseteq store
      BY <1>1 DEF OuterSearch
    <2>1. /\ Injective(ceStack)
          /\ ceStack # <<>> => ceStack[1] \in ToSet(problem.initials)
          /\ \A x \in store \ ToSet(ceStack) : Succ(problem, x) \subseteq store
      BY DEF NInv, OuterSearch
    <2>2. \A i \in 1..Len(ceStack') : i \in 1..Len(ceStack) /\ ceStack'[i] = ceStack[i]
      BY <1>5, <1>6
    <2>3. Injective(ceStack')
      BY <2>1, <2>2 DEF Injective
    <2>4. ceStack' # <<>> => 1 \in 1..Len(ceStack')
      BY <1>7
    <2>5. ceStack' # <<>> => ceStack'[1] \in ToSet(problem.initials)
      BY <2>1, <2>2, <2>4, <1>5
    <2>6. \A x \in store \ ToSet(ceStack') : Succ(problem, x) \subseteq store
      BY <2>1, <1>5, <1>6
    <2>. QED BY <2>3, <2>5, <2>6, <1>1, <1>5, <1>6
  <1>14. valid => Opened' = Opened
    BY <1>1, <1>6 DEF Opened
  <1>15. valid => Undone' = Undone /\ \A i \in 1..Len(process) : Later(i)' = Later(i)
    BY <1>1, <1>14 DEF Undone, Later
  <1>16. InnerSearch' /\ Marked'
    BY <1>1, <1>15, InnerKept, MarkedKept DEF NInv
  <1>17. Waiting' /\ Checked' /\ Current'
    BY <1>1, <1>9, <1>15, WaitingKept, CheckedKept, CurrentKept DEF NInv
  <1>18. Counterexample'
    BY <1>1, <1>6 DEF NInv, Counterexample, IsPath
  <1>. QED BY <1>8, <1>10, <1>11, <1>12, <1>13, <1>16, <1>17, <1>18 DEF NInv

LEMMA FinishOuterStep == NInv /\ FinishOuter => NInv'
  <1> SUFFICES ASSUME NInv, FinishOuter PROVE NInv'
    OBVIOUS
  <1>1. /\ ok /\ opc = "search" /\ outer = <<>> /\ finished' = TRUE /\ opc' = "join"
        /\ UNCHANGED <<problem, parallel, verdict, store, nested, outer, inner, seed, ceStack,
                       ceLasso, valid, process, ipc, ok>>
    BY DEF FinishOuter
  <1>2. Opened' = Opened /\ Searching' = Searching
    BY <1>1 DEF Opened, Searching
  <1>3. /\ Reached' /\ CycleFound' /\ OuterSearch' /\ InnerSearch'
        /\ Waiting' /\ Current' /\ Marked' /\ Checked' /\ Counterexample'
    BY <1>1, <1>2, SearchesKept
  <1>4. Types'
    BY <1>1 DEF NInv, Types
  <1>5. Control'
    BY <1>1, <1>2 DEF NInv, Control
  <1>. QED BY <1>3, <1>4, <1>5 DEF NInv

LEMMA ReportStep == NInv /\ Report => NInv'
  <1> SUFFICES ASSUME NInv, Report PROVE NInv'
    OBVIOUS
  <1>1. /\ ok /\ opc = "join" /\ ipc = "off" /\ opc' = "done"
        /\ ok' = (valid => process = <<>>)
        /\ verdict' = IF valid THEN "valid" ELSE "cycle"
        /\ UNCHANGED <<problem, parallel, store, nested, outer, inner, seed, ceStack, ceLasso,
                       valid, finished, process, ipc>>
    BY DEF Report, shared
  <1>2. Opened' = Opened /\ Searching' = Searching
    BY <1>1 DEF Opened, Searching
  <1>3. ok' = ok
    BY <1>1 DEF NInv, Control, Types
  <1>4. /\ Reached' /\ CycleFound' /\ OuterSearch' /\ InnerSearch'
        /\ Waiting' /\ Current' /\ Marked' /\ Checked' /\ Counterexample'
    BY <1>1, <1>2, <1>3, SearchesKept
  <1>5. Types'
    BY <1>1, <1>3 DEF NInv, Types
  <1>6. Control'
    BY <1>1, <1>2 DEF NInv, Control
  <1>. QED BY <1>4, <1>5, <1>6 DEF NInv

-----------------------------------------------------------------------------
(* The steps of the inner thread between two searches.                     *)

LEMMA IdleSteps == NInv /\ (SeeEmpty \/ SeeFinished \/ LookAgain \/ EndThread) => NInv'
  <1> SUFFICES ASSUME NInv, SeeEmpty \/ SeeFinished \/ LookAgain \/ EndThread PROVE NInv'
    OBVIOUS
  <1>1. /\ ipc \in {"loop", "empty", "again"} /\ ipc' \in {"loop", "empty", "again", "off"}
        /\ UNCHANGED <<problem, parallel, verdict, store, nested, outer, inner, seed, ceStack,
                       ceLasso, valid, finished, process, opc, ok>>
    BY DEF SeeEmpty, SeeFinished, LookAgain, EndThread, shared
  <1>2. Opened' = Opened /\ Searching' = Searching /\ ~Searching
    BY <1>1 DEF Opened, Searching
  <1>3. parallel
    BY <1>1, <1>2 DEF NInv, Control, Types
  <1>4. /\ Reached' /\ CycleFound' /\ OuterSearch' /\ InnerSearch'
        /\ Waiting' /\ Current' /\ Marked' /\ Checked' /\ Counterexample'
    BY <1>1, <1>2, SearchesKept
  <1>5. Types'
    BY <1>1 DEF NInv, Types
  <1>6. (ipc' = "again" => finished) /\ (valid /\ ipc' = "off" => finished /\ process = <<>>)
    BY DEF SeeEmpty, SeeFinished, LookAgain, EndThread, NInv, Control
  <1>7. Control'
    BY <1>1, <1>2, <1>3, <1>6 DEF NInv, Control, IsExpanded
  <1>. QED BY <1>4, <1>5, <1>7 DEF NInv

\* The next seed is taken off the queue: what had not been finished when it was
\* is now what may not have been come to.
LEMMA TakeSeedStep == NInv /\ TakeSeed => NInv'
  <1> SUFFICES ASSUME NInv, TakeSeed PROVE NInv'
    OBVIOUS
  <1>1. /\ ok /\ parallel /\ ipc = "loop" /\ valid /\ process # <<>>
        /\ seed' = Head(process) /\ process' = Tail(process) /\ ipc' = "seed"
        /\ UNCHANGED <<problem, parallel, verdict, store, nested, outer, inner, ceStack,
                       ceLasso, valid, finished, opc, ok>>
    BY DEF TakeSeed
  <1>2. /\ problem \in Problems /\ process \in Seq(Nodes) /\ ToSet(process) \subseteq store
        /\ store \subseteq Nodes
    BY TypeFacts DEF NInv, Types
  <1>3. /\ Len(process) \in Nat /\ Len(process) > 0 /\ 1 \in 1..Len(process)
        /\ process' \in Seq(Nodes) /\ Len(process') = Len(process) - 1 /\ seed' = process[1]
        /\ \A i \in 1..(Len(process) - 1) : process'[i] = process[i + 1]
    BY <1>1, <1>2
  <1>4. \A i \in 1..(Len(process) - 1) : i + 1 \in 1..Len(process)
    BY <1>3
  <1>5. process[1] \in ToSet(process)
    BY <1>2, <1>3, InSetOf
  <1>6. ToSet(process') \subseteq ToSet(process)
    <2>1. ASSUME NEW x \in ToSet(process')
          PROVE  x \in ToSet(process)
      <3>1. PICK i \in 1..Len(process') : process'[i] = x
        BY <2>1, <1>3, SetOf
      <3>2. i + 1 \in 1..Len(process) /\ process[i + 1] = x
        BY <3>1, <1>3, <1>4
      <3>. QED BY <3>2, <1>2, SetOf
    <2>. QED BY <2>1
  <1>7. ToSet(process') = {process[j] : j \in 2..Len(process)}
    <2>1. ASSUME NEW x
          PROVE  x \in ToSet(process') <=> \E i \in 1..(Len(process) - 1) : process'[i] = x
      BY <1>3, SetOf
    <2>2. \A j \in 2..Len(process) : /\ j - 1 \in 1..(Len(process) - 1)
                                     /\ (j - 1) + 1 = j
      BY <1>3
    <2>3. \A i \in 1..(Len(process) - 1) : i + 1 \in 2..Len(process)
      BY <1>3
    <2>4. ASSUME NEW x \in ToSet(process')
          PROVE  \E j \in 2..Len(process) : process[j] = x
      <3>1. PICK i \in 1..(Len(process) - 1) : process'[i] = x
        BY <2>1, <2>4
      <3>. QED BY <3>1, <2>3, <1>3
    <2>5. ASSUME NEW j \in 2..Len(process)
          PROVE  process[j] \in ToSet(process')
      <3>1. j - 1 \in 1..(Len(process) - 1) /\ process'[j - 1] = process[j]
        BY <2>2, <1>3
      <3>. QED BY <3>1, <2>1
    <2>. QED BY <2>4, <2>5
  <1>8. Opened' = Opened /\ ~Searching /\ Searching'
    BY <1>1 DEF Opened, Searching
  <1>9. /\ process[1] \in problem.accepting /\ InOrder(problem, process[1], Later(1))
    BY <1>1, <1>3 DEF NInv, Waiting
  <1>10. Undone' = Later(1)
    BY <1>1, <1>7, <1>8 DEF Undone, Later
  <1>11. Undone' \subseteq Undone /\ Undone \subseteq Undone' \cup {seed'}
    <2>1. Undone' = ToSet(process') \cup Opened \cup (Nodes \ store)
      BY <1>1, <1>8 DEF Undone
    <2>2. \A x \in ToSet(process) : x = process[1] \/ x \in ToSet(process')
      <3>1. ASSUME NEW x \in ToSet(process)
            PROVE  x = process[1] \/ x \in {process[j] : j \in 2..Len(process)}
        <4>1. PICK i \in 1..Len(process) : process[i] = x
          BY <1>2, SetOf
        <4>2. i = 1 \/ i \in 2..Len(process)
          BY <1>3
        <4>. QED BY <4>1, <4>2
      <3>. QED BY <3>1, <1>7
    <2>. QED BY <2>1, <2>2, <1>3, <1>6 DEF Undone
  <1>12. inner = <<>> /\ ceLasso = <<>> /\ ipc # "search"
    BY <1>1 DEF NInv, Control
  <1>13. Types'
    BY <1>1, <1>2, <1>3, <1>5, <1>6 DEF NInv, Types
  <1>14. Control'
    BY <1>1, <1>2, <1>3, <1>5, <1>8, <1>9, <1>12 DEF NInv, Control, IsExpanded
  <1>15. Reached'
    <2>1. Len(inner) = 0
      BY <1>12
    <2>. QED BY <2>1, <1>1 DEF NInv, Reached
  <1>16. CycleFound'
    BY <1>1 DEF NInv, CycleFound
  <1>17. OuterSearch'
    BY <1>1, OuterKept DEF NInv
  <1>18. InnerSearch' /\ Marked'
    BY <1>1, <1>11, InnerKept, MarkedKept DEF NInv
  <1>19. Waiting'
    <2> SUFFICES ASSUME NEW i \in 1..Len(process')
                 PROVE  process'[i] \in problem.accepting
                        /\ InOrder(problem, process'[i], Later(i)')
      BY <1>1 DEF Waiting
    <2>1. i \in 1..(Len(process) - 1) /\ process'[i] = process[i + 1] /\ i + 1 \in 1..Len(process)
      BY <1>3, <1>4
    <2>2. process[i + 1] \in problem.accepting /\ InOrder(problem, process[i + 1], Later(i + 1))
      BY <2>1, <1>1 DEF NInv, Waiting
    <2>3. ASSUME NEW j \in (i + 1)..Len(process')
          PROVE  \E l \in ((i + 1) + 1)..Len(process) : process'[j] = process[l]
      <3>1. j \in 1..(Len(process) - 1) /\ j + 1 \in ((i + 1) + 1)..Len(process)
        BY <1>3, <2>1
      <3>. QED BY <3>1, <1>3
    <2>4. Later(i)' \subseteq Later(i + 1)
      BY <2>3, <1>1, <1>8 DEF Later
    <2>. QED BY <2>1, <2>2, <2>4, InOrderKept
  <1>20. Current'
    <2>1. seed' \in Undone
      BY <1>3, <1>5 DEF Undone
    <2>2. nested \cap Undone = {}
      BY <1>1 DEF NInv, Marked
    <2>3. InOrder(problem, seed', Undone')
      BY <1>3, <1>9, <1>10
    <2>. QED BY <2>1, <2>2, <2>3, <1>1 DEF Current
  <1>21. Checked'
    BY <1>1, <1>8, <1>11 DEF NInv, Checked
  <1>22. Counterexample'
    BY <1>1 DEF Counterexample
  <1>. QED BY <1>13, <1>14, <1>15, <1>16, <1>17, <1>18, <1>19, <1>20, <1>21, <1>22 DEF NInv

-----------------------------------------------------------------------------
(* The steps of an inner search.                                           *)

LEMMA SuccAfter ==
  ASSUME NEW p \in Problems, NEW n \in Nodes
  PROVE  Succ(p, n) \subseteq After(p, n)
  BY ProblemType, FromItself DEF After

LEMMA StartInnerStep == NInv /\ StartInner => NInv'
  <1> SUFFICES ASSUME NInv, StartInner PROVE NInv'
    OBVIOUS
  <1>1. /\ ok /\ ipc = "seed" /\ ipc' = "search"
        /\ UNCHANGED <<problem, parallel, verdict, store, outer, seed, ceStack, valid, finished,
                       process, opc, ok>>
        /\ IF seed \in nested THEN UNCHANGED <<nested, inner, ceLasso>> ELSE Nest(<<>>, seed)
    BY DEF StartInner, shared
  <1>2. /\ problem \in Problems /\ nested \subseteq store /\ store \subseteq Nodes
        /\ valid \in BOOLEAN /\ seed \in store /\ seed \in problem.accepting
        /\ (~valid => inner = <<>>) /\ (valid => ceLasso = <<>>) /\ (valid => seed \notin nested)
    BY <1>1, TypeFacts DEF NInv, Types, Control, Current, Searching
  <1>3. seed \in Nodes
    BY <1>2
  <1>4. valid => /\ nested' = nested \cup {seed} /\ inner' = Pushed(<<>>, seed)
                 /\ ceLasso' = <<seed>>
    BY <1>1, <1>2 DEF Nest
  <1>5. ~valid => inner' = <<>> /\ ceLasso' = ceLasso
    BY <1>1, <1>2 DEF Nest
  <1>6. nested' \subseteq nested \cup {seed}
    BY <1>1 DEF Nest
  <1>7. <<>> \in Seq(Items) /\ Len(<<>>) = 0
    OBVIOUS
  <1>8. IsPushed(problem, Pushed(<<>>, seed), <<>>, seed)
    BY <1>2, <1>3, <1>7, PushedIs
  <1>9. <<seed>> \in Seq(Nodes) /\ ToSet(<<seed>>) = {seed} /\ <<seed>>[1] = seed
    <2>1. <<seed>> \in Seq(Nodes) /\ Len(<<seed>>) = 1 /\ <<seed>>[1] = seed
      BY <1>3
    <2>2. \A x : x \in ToSet(<<seed>>) <=> \E i \in 1..1 : <<seed>>[i] = x
      BY <2>1, SetOf
    <2>. QED BY <2>1, <2>2
  <1>10. Opened' = Opened /\ Undone' = Undone /\ \A i \in 1..Len(process) : Later(i)' = Later(i)
    BY <1>1 DEF Opened, Undone, Later
  <1>11. Types'
    <2>1. inner' \in Seq(Items)
      BY <1>2, <1>4, <1>5, <1>7, <1>8 DEF IsPushed
    <2>2. ceLasso' \in Seq(Nodes) /\ ToSet(ceLasso') \subseteq store
      BY <1>2, <1>4, <1>5, <1>9 DEF NInv, Types
    <2>. QED BY <2>1, <2>2, <1>1, <1>2, <1>6 DEF NInv, Types
  <1>12. Searching /\ Searching'
    BY <1>1 DEF Searching
  <1>13. Control'
    BY <1>1, <1>5, <1>12 DEF NInv, Control, IsExpanded
  <1>14. Reached'
    <2>1. ASSUME NEW k \in 1..Len(inner')
          PROVE  inner'[k].node \in After(problem, seed) \/ inner'[k] = Expanded(seed)
      <3>1. CASE valid
        <4>1. ~(k \in 1..Len(<<>>))
          BY <1>7
        <4>2. \/ inner'[k] = Expanded(seed)
              \/ inner'[k].node \in Succ(problem, seed)
          BY <3>1, <4>1, <1>2, <1>3, <1>4, <1>7, <1>8, PushedFrom
        <4>. QED BY <4>2, <1>2, <1>3, SuccAfter
      <3>2. CASE ~valid
        <4>1. Len(inner') = 0
          BY <3>2, <1>5
        <4>. QED BY <4>1
      <3>. QED BY <3>1, <3>2
    <2>. QED BY <2>1, <1>1 DEF NInv, Reached
  <1>15. CycleFound'
    BY <1>1 DEF NInv, CycleFound
  <1>16. OuterSearch'
    BY <1>1, OuterKept DEF NInv
  <1>17. InnerSearch'
    <2> SUFFICES ASSUME valid
                 PROVE  /\ Search(problem, nested' \ {seed}, inner', ceLasso')
                        /\ ceLasso' # <<>> => ceLasso'[1] = seed
                        /\ seed \in nested'
                        /\ \E M \in SUBSET nested' :
                             /\ Closed(problem, M) /\ seed \notin M /\ M \cap Undone' = {}
                             /\ \A n \in nested' \ M : n = seed \/ n \in After(problem, seed)
                             /\ \A n \in nested' \ (M \cup ToSet(ceLasso')) :
                                  Succ(problem, n) \subseteq nested' \ {seed}
      BY <1>1 DEF InnerSearch
    <2>1. Search(problem, nested' \ {seed}, inner', ceLasso')
      BY <1>2, <1>3, <1>4, <1>8, SearchStarts
    <2>2. Closed(problem, nested) /\ nested \cap Undone = {}
      BY <1>1 DEF NInv, Marked
    <2>. QED BY <2>1, <2>2, <1>2, <1>4, <1>9, <1>10
  <1>18. Marked'
    BY <1>1 DEF Marked
  <1>19. Current'
    BY <1>1, <1>10, <1>12 DEF NInv, Current
  <1>20. Waiting' /\ Checked'
    BY <1>1, <1>10, <1>12, WaitingKept, CheckedKept DEF NInv
  <1>21. Counterexample'
    BY <1>1, <1>5 DEF NInv, Counterexample, IsPath
  <1>. QED BY <1>11, <1>13, <1>14, <1>15, <1>16, <1>17, <1>18, <1>19, <1>20, <1>21 DEF NInv

\* The state on top of the inner stack, on which nothing is left once a cycle has
\* been found.
LEMMA TopOfInner ==
  ASSUME NInv, ipc = "search", inner # <<>>
  PROVE  /\ valid /\ problem \in Problems /\ inner \in Seq(Items) /\ ceLasso \in Seq(Nodes)
         /\ Last(inner) \in Items /\ Last(inner).node \in Nodes
         /\ Front(inner) \in Seq(Items)
         /\ Len(inner) \in Nat /\ Len(inner) > 0 /\ Len(Front(inner)) = Len(inner) - 1
         /\ \A k \in 1..(Len(inner) - 1) : Front(inner)[k] = inner[k]
         /\ Last(inner).flag = "Fresh" => Last(inner).node \in After(problem, seed)
         /\ Search(problem, nested \ {seed}, inner, ceLasso)
         /\ seed \in nested /\ seed \in store /\ seed \in Nodes
         /\ seed \in problem.accepting /\ seed \in From(problem, ToSet(problem.initials))
         /\ InOrder(problem, seed, Undone)
  <1>1. problem \in Problems /\ inner \in Seq(Items) /\ ceLasso \in Seq(Nodes) /\ store \subseteq Nodes
    BY TypeFacts
  <1>2. /\ Front(inner) \in Seq(Items) /\ Last(inner) = inner[Len(inner)]
        /\ Len(inner) \in Nat /\ Len(inner) > 0 /\ Len(Front(inner)) = Len(inner) - 1
        /\ \A k \in 1..(Len(inner) - 1) : Front(inner)[k] = inner[k]
        /\ Last(inner) \in Items
    BY <1>1, FrontIs
  <1>3. Last(inner).node \in Nodes
    BY <1>2 DEF Items
  <1>4. Len(inner) \in 1..Len(inner)
    BY <1>2
  <1>5. Searching
    BY DEF Searching
  <1>6. seed \in store /\ seed \in problem.accepting /\ valid
    BY <1>5 DEF NInv, Control, Types
  <1>7. seed \in Nodes /\ seed \in From(problem, ToSet(problem.initials))
    BY <1>1, <1>6 DEF NInv, Reached
  <1>8. Last(inner).node \in After(problem, seed) \/ Last(inner) = Expanded(seed)
    BY <1>2, <1>4 DEF NInv, Reached
  <1>9. Last(inner).flag = "Fresh" => Last(inner).node \in After(problem, seed)
    BY <1>7, <1>8, ItemTypes
  <1>10. Search(problem, nested \ {seed}, inner, ceLasso) /\ seed \in nested
    BY <1>6 DEF NInv, InnerSearch
  <1>11. InOrder(problem, seed, Undone)
    BY <1>5, <1>6 DEF NInv, Current
  <1>. QED BY <1>1, <1>2, <1>3, <1>6, <1>7, <1>9, <1>10, <1>11

\* A step of the search that keeps what it is for.
LEMMA InnerStepKeeps ==
  ASSUME NInv, ipc = "search", ipc' = "search", valid' => valid,
         UNCHANGED <<problem, parallel, store, outer, seed, ceStack, process, opc>>
  PROVE  /\ OuterSearch' /\ Waiting' /\ Current' /\ Marked' /\ Checked'
         /\ Searching /\ Searching' /\ Undone' = Undone
  <1>1. Undone' = Undone /\ \A i \in 1..Len(process) : Later(i)' = Later(i)
    BY DEF Opened, Undone, Later
  <1>2. Searching /\ Searching'
    BY DEF Searching
  <1>3. OuterSearch' /\ Waiting' /\ Checked'
    BY <1>1, <1>2, OuterKept, WaitingKept, CheckedKept DEF NInv
  <1>4. Current' /\ Marked'
    BY <1>1, <1>2 DEF NInv, Current, Marked
  <1>. QED BY <1>1, <1>2, <1>3, <1>4

LEMMA ExploreInnerStep == NInv /\ ExploreInner => NInv'
  <1> SUFFICES ASSUME NInv, ExploreInner PROVE NInv'
    OBVIOUS
  <1>. DEFINE n == Last(inner).node
  <1>1. /\ ok /\ ipc = "search" /\ IsFresh(inner) /\ inner # <<>> /\ ipc' = ipc
        /\ UNCHANGED <<problem, parallel, verdict, store, outer, seed, ceStack, finished,
                       process, opc>>
        /\ \/ n \notin store /\ ok' = FALSE /\ UNCHANGED <<nested, inner, ceLasso, valid>>
           \/ /\ n \in store /\ n = seed /\ valid' = FALSE /\ inner' = <<>>
              /\ UNCHANGED <<nested, ceLasso, ok>>
           \/ /\ n \in nested /\ n # seed /\ inner' = Front(inner)
              /\ UNCHANGED <<nested, ceLasso, valid, ok>>
           \/ /\ n \in store /\ n \notin nested /\ n # seed /\ Nest(Front(inner), n)
              /\ UNCHANGED <<valid, ok>>
    BY DEF ExploreInner, IsFresh
  <1>2. /\ valid /\ problem \in Problems /\ inner \in Seq(Items) /\ ceLasso \in Seq(Nodes)
        /\ n \in Nodes /\ Front(inner) \in Seq(Items)
        /\ Len(inner) \in Nat /\ Len(inner) > 0 /\ Len(Front(inner)) = Len(inner) - 1
        /\ \A k \in 1..(Len(inner) - 1) : Front(inner)[k] = inner[k]
        /\ n \in After(problem, seed)
        /\ Search(problem, nested \ {seed}, inner, ceLasso)
        /\ seed \in nested /\ seed \in store /\ seed \in Nodes
        /\ seed \in problem.accepting /\ seed \in From(problem, ToSet(problem.initials))
        /\ InOrder(problem, seed, Undone)
    BY <1>1, TopOfInner DEF IsFresh
  <1>3. /\ OuterSearch' /\ Waiting' /\ Current' /\ Marked' /\ Checked'
        /\ Searching /\ Searching' /\ Undone' = Undone
    BY <1>1, <1>2, InnerStepKeeps
  <1>4. Len(ceLasso) > 0 /\ n \in Succ(problem, ceLasso[Len(ceLasso)])
    <2>1. PICK pos \in [1..Len(ceLasso) -> 1..Len(inner)] :
                 Shape(problem, nested \ {seed}, inner, ceLasso, pos)
      BY <1>2 DEF Search
    <2>. QED BY <2>1, <1>1, <1>2, FreshOnTop
  <1>5. ceLasso # <<>> /\ Len(ceLasso) \in Nat /\ ceLasso[1] = seed
    BY <1>1, <1>2, <1>4 DEF NInv, InnerSearch
  <1>6. ASSUME NEW k \in 1..Len(Front(inner))
        PROVE  Front(inner)[k].node \in After(problem, seed) \/ Front(inner)[k] = Expanded(seed)
    <2>1. k \in 1..Len(inner) /\ Front(inner)[k] = inner[k]
      BY <1>2
    <2>. QED BY <2>1 DEF NInv, Reached
  <1>7. OnCycleOf(problem, seed) => \E x \in Nodes : IsReal(problem, x)
    BY <1>2 DEF IsReal
  <1>8. (~valid \/ ~ok => \E x \in Nodes : IsReal(problem, x))
    BY DEF NInv, CycleFound
  <1>9. PICK M \in SUBSET nested :
          /\ Closed(problem, M) /\ seed \notin M /\ M \cap Undone = {}
          /\ \A x \in nested \ M : x = seed \/ x \in After(problem, seed)
          /\ \A x \in nested \ (M \cup ToSet(ceLasso)) :
               Succ(problem, x) \subseteq nested \ {seed}
    BY <1>1, <1>2 DEF NInv, InnerSearch
  <1>10. nested \subseteq store /\ store \subseteq Nodes /\ ToSet(ceLasso) \subseteq store
    BY DEF NInv, Types
  <1>11. /\ Append(ceLasso, n) \in Seq(Nodes) /\ Len(Append(ceLasso, n)) = Len(ceLasso) + 1
         /\ \A i \in 1..Len(ceLasso) : Append(ceLasso, n)[i] = ceLasso[i]
         /\ Append(ceLasso, n)[Len(ceLasso) + 1] = n
         /\ ToSet(Append(ceLasso, n)) = ToSet(ceLasso) \cup {n}
    BY <1>2, AppendIs
  <1>12. IsPushed(problem, Pushed(Front(inner), n), Front(inner), n)
    BY <1>2, PushedIs
  <1>. HIDE DEF n
  <1>13. CASE n \notin store /\ ok' = FALSE /\ UNCHANGED <<nested, inner, ceLasso, valid>>
    <2>1. \E x \in Nodes : IsReal(problem, x)
      <3>1. n \in Undone
        BY <1>2, <1>13 DEF Undone
      <3>2. OnCycleOf(problem, seed)
        BY <3>1, <1>2 DEF InOrder
      <3>. QED BY <3>2, <1>7
    <2>2. Types'
      BY <1>1, <1>13 DEF NInv, Types
    <2>3. Control'
      BY <1>1, <1>3, <1>13 DEF NInv, Control, IsExpanded
    <2>4. Reached' /\ CycleFound'
      BY <2>1, <1>1, <1>13 DEF NInv, Reached, CycleFound
    <2>5. InnerSearch'
      BY <1>1, <1>3, <1>13, InnerKept DEF NInv
    <2>6. Counterexample'
      BY <1>2, <1>13 DEF Counterexample
    <2>. QED BY <2>2, <2>3, <2>4, <2>5, <2>6, <1>3 DEF NInv
  <1>14. CASE /\ n \in store /\ n = seed /\ valid' = FALSE /\ inner' = <<>>
              /\ UNCHANGED <<nested, ceLasso, ok>>
    <2>1. \E x \in Nodes : IsReal(problem, x)
      BY <1>2, <1>7, <1>14 DEF OnCycleOf
    <2>2. <<>> \in Seq(Items) /\ Len(<<>>) = 0
      OBVIOUS
    <2>3. Types'
      BY <2>2, <1>1, <1>14 DEF NInv, Types
    <2>4. Control'
      BY <1>1, <1>3, <1>14 DEF NInv, Control, IsExpanded
    <2>5. Reached' /\ CycleFound'
      BY <2>1, <2>2, <1>1, <1>14 DEF NInv, Reached, CycleFound
    <2>6. InnerSearch'
      BY <1>14 DEF InnerSearch
    <2>7. Counterexample'
      <3> SUFFICES ASSUME ~parallel
                   PROVE  /\ ceStack # <<>> /\ ceLasso # <<>>
                          /\ IsPath(ceStack)' /\ IsPath(Append(ceLasso, ceLasso[1]))'
                          /\ ceStack[1] \in ToSet(problem.initials)
                          /\ Last(ceStack) = ceLasso[1] /\ ceLasso[1] \in problem.accepting
        BY <1>1, <1>14 DEF Counterexample
      <3>1. IsExpanded(outer)
        BY <1>1, <1>3 DEF NInv, Control
      <3>2. ceStack # <<>> /\ ceStack \in Seq(Nodes)
        BY <3>1, <1>2, TopOfTrace, TypeFacts
      <3>3. Search(problem, store, outer, ceStack) /\ ceStack[1] \in ToSet(problem.initials)
        BY <3>2, <1>2 DEF NInv, OuterSearch
      <3>4. IsPath(ceStack) /\ IsPath(ceLasso)
        BY <3>2, <3>3, <1>2, TraceIsPath
      <3>5. IsPath(Append(ceLasso, ceLasso[1]))
        <4> SUFFICES ASSUME NEW i \in 1..Len(ceLasso)
                     PROVE  Append(ceLasso, n)[i + 1] \in ToSet(problem.succ[Append(ceLasso, n)[i]])
          BY <1>5, <1>11, <1>14 DEF IsPath
        <4>1. CASE i = Len(ceLasso)
          BY <4>1, <1>4, <1>11 DEF Succ
        <4>2. CASE i # Len(ceLasso)
          <5>1. i \in 1..(Len(ceLasso) - 1) /\ i + 1 \in 1..Len(ceLasso)
            BY <4>2, <1>5
          <5>. QED BY <5>1, <3>4, <1>11 DEF IsPath
        <4>. QED BY <4>1, <4>2
      <3>6. IsPath(ceStack)' /\ IsPath(Append(ceLasso, ceLasso[1]))'
        BY <3>4, <3>5, <1>1, <1>14 DEF IsPath
      <3>7. seed = Last(ceStack)
        BY <1>2, <1>3 DEF NInv, Current
      <3>. QED BY <3>2, <3>3, <3>6, <3>7, <1>2, <1>5
    <2>. QED BY <2>3, <2>4, <2>5, <2>6, <2>7, <1>3 DEF NInv
  <1>15. CASE /\ n \in nested /\ n # seed /\ inner' = Front(inner)
              /\ UNCHANGED <<nested, ceLasso, valid, ok>>
    <2>1. Types'
      BY <1>1, <1>2, <1>15 DEF NInv, Types
    <2>2. Control'
      BY <1>1, <1>2, <1>3, <1>15 DEF NInv, Control, IsExpanded
    <2>3. Reached' /\ CycleFound'
      BY <1>1, <1>6, <1>15 DEF NInv, Reached, CycleFound
    <2>4. InnerSearch'
      <3>1. Search(problem, nested \ {seed}, Front(inner), ceLasso)
        BY <1>1, <1>2, <1>15, SearchSkips DEF n
      <3>2. /\ inner' = Front(inner) /\ nested' = nested /\ seed' = seed /\ ceLasso' = ceLasso
            /\ problem' = problem
        BY <1>1, <1>15
      <3>. QED BY <3>1, <3>2, <1>2, <1>3, <1>5, <1>9 DEF InnerSearch
    <2>5. Counterexample'
      BY <1>2, <1>15 DEF Counterexample
    <2>. QED BY <2>1, <2>2, <2>3, <2>4, <2>5, <1>3 DEF NInv
  <1>16. CASE /\ n \in store /\ n \notin nested /\ n # seed /\ Nest(Front(inner), n)
              /\ UNCHANGED <<valid, ok>>
    <2>1. /\ nested' = nested \cup {n} /\ inner' = Pushed(Front(inner), n)
          /\ ceLasso' = Append(ceLasso, n)
      BY <1>2, <1>16 DEF Nest
    <2>2. Types'
      <3>1. inner' \in Seq(Items)
        BY <2>1, <1>12 DEF IsPushed
      <3>. QED BY <2>1, <3>1, <1>1, <1>10, <1>11, <1>16 DEF NInv, Types
    <2>3. Control'
      BY <1>1, <1>2, <1>3, <1>16 DEF NInv, Control, IsExpanded
    <2>4. Reached' /\ CycleFound'
      <3>1. ASSUME NEW k \in 1..Len(inner')
            PROVE  inner'[k].node \in After(problem, seed) \/ inner'[k] = Expanded(seed)
        <4>1. CASE k \in 1..Len(Front(inner)) /\ inner'[k] = Front(inner)[k]
          BY <4>1, <1>6
        <4>2. CASE inner'[k] = Expanded(n)
          BY <4>2, <1>2, ItemTypes
        <4>3. CASE inner'[k].node \in Succ(problem, n)
          BY <4>3, <1>2, FromNext DEF After
        <4>. QED BY <4>1, <4>2, <4>3, <2>1, <1>2, <1>12, PushedFrom
      <3>. QED BY <3>1, <1>1, <1>16 DEF NInv, Reached, CycleFound
    <2>5. InnerSearch'
      <3>1. Search(problem, (nested \ {seed}) \cup {n}, Pushed(Front(inner), n), Append(ceLasso, n))
        BY <1>1, <1>2, <1>12, SearchPushes DEF n
      <3>2. (nested \ {seed}) \cup {n} = nested' \ {seed}
        BY <2>1, <1>16
      <3>3. ceLasso'[1] = seed
        <4>1. 1 \in 1..Len(ceLasso)
          BY <1>4, <1>5
        <4>. QED BY <4>1, <2>1, <1>5, <1>11
      <3>4. \A x \in nested' \ M : x = seed \/ x \in After(problem, seed)
        BY <2>1, <1>2, <1>9
      <3>5. \A x \in nested' \ (M \cup ToSet(ceLasso')) : Succ(problem, x) \subseteq nested' \ {seed}
        BY <2>1, <1>9, <1>11
      <3>6. M \in SUBSET nested' /\ seed \in nested'
        BY <2>1, <1>2, <1>9
      <3>7. Search(problem, nested' \ {seed}, inner', ceLasso')
        BY <3>1, <3>2, <2>1
      <3>. QED BY <3>3, <3>4, <3>5, <3>6, <3>7, <1>1, <1>3, <1>9 DEF InnerSearch
    <2>6. Counterexample'
      BY <1>2, <1>16 DEF Counterexample
    <2>. QED BY <2>2, <2>3, <2>4, <2>5, <2>6, <1>3 DEF NInv
  <1>. QED BY <1>1, <1>13, <1>14, <1>15, <1>16 DEF n

LEMMA CloseInnerStep == NInv /\ CloseInner => NInv'
  <1> SUFFICES ASSUME NInv, CloseInner PROVE NInv'
    OBVIOUS
  <1>1. /\ ok /\ ipc = "search" /\ IsExpanded(inner) /\ inner # <<>> /\ ipc' = ipc
        /\ inner' = Front(inner)
        /\ ceLasso' = IF ceLasso # <<>> THEN Front(ceLasso) ELSE ceLasso
        /\ ok' = (ceLasso # <<>> => Last(ceLasso) = Last(inner).node)
        /\ UNCHANGED <<problem, parallel, verdict, store, nested, outer, seed, ceStack, valid,
                       finished, process, opc>>
    BY DEF CloseInner, IsExpanded, shared
  <1>2. /\ valid /\ problem \in Problems /\ inner \in Seq(Items) /\ ceLasso \in Seq(Nodes)
        /\ Front(inner) \in Seq(Items)
        /\ Len(inner) \in Nat /\ Len(Front(inner)) = Len(inner) - 1
        /\ \A k \in 1..(Len(inner) - 1) : Front(inner)[k] = inner[k]
        /\ Search(problem, nested \ {seed}, inner, ceLasso)
        /\ seed \in nested
    BY <1>1, TopOfInner
  <1>3. /\ OuterSearch' /\ Waiting' /\ Current' /\ Marked' /\ Checked'
        /\ Searching /\ Searching' /\ Undone' = Undone
    BY <1>1, <1>2, InnerStepKeeps
  <1>4. /\ ceLasso # <<>> /\ Last(inner) = Expanded(Last(ceLasso))
        /\ Succ(problem, Last(ceLasso)) \subseteq nested \ {seed}
        /\ Search(problem, nested \ {seed}, Front(inner), Front(ceLasso))
    BY <1>1, <1>2, SearchPops
  <1>5. /\ Front(ceLasso) \in Seq(Nodes) /\ Len(Front(ceLasso)) = Len(ceLasso) - 1
        /\ Len(ceLasso) \in Nat
        /\ \A i \in 1..(Len(ceLasso) - 1) : Front(ceLasso)[i] = ceLasso[i]
        /\ Last(ceLasso) \in Nodes
    <2>1. ceLasso \in Seq(Nodes) /\ ceLasso # <<>>
      BY <1>2, <1>4
    <2>. QED BY <2>1, FrontIs
  <1>6. ToSet(ceLasso) = ToSet(Front(ceLasso)) \cup {Last(ceLasso)}
    BY <1>2, <1>4, SetOfFront
  <1>7. ceLasso' = Front(ceLasso) /\ ok' = TRUE
    BY <1>1, <1>4, <1>5, ItemTypes
  <1>8. Types'
    BY <1>1, <1>2, <1>5, <1>6, <1>7 DEF NInv, Types
  <1>9. Control'
    BY <1>1, <1>2, <1>3 DEF NInv, Control, IsExpanded
  <1>10. Reached' /\ CycleFound'
    <2>1. ASSUME NEW k \in 1..Len(inner')
          PROVE  k \in 1..Len(inner) /\ inner'[k] = inner[k]
      BY <1>1, <1>2
    <2>2. Reached'
      BY <2>1, <1>1 DEF NInv, Reached
    <2>3. CycleFound'
      BY <1>1, <1>2, <1>7 DEF CycleFound
    <2>. QED BY <2>2, <2>3
  <1>11. InnerSearch'
    <2>1. PICK M \in SUBSET nested :
            /\ Closed(problem, M) /\ seed \notin M /\ M \cap Undone = {}
            /\ \A x \in nested \ M : x = seed \/ x \in After(problem, seed)
            /\ \A x \in nested \ (M \cup ToSet(ceLasso)) :
                 Succ(problem, x) \subseteq nested \ {seed}
      BY <1>1, <1>2 DEF NInv, InnerSearch
    <2>2. \A x \in nested \ (M \cup ToSet(ceLasso')) : Succ(problem, x) \subseteq nested \ {seed}
      BY <2>1, <1>4, <1>6, <1>7
    <2>3. ceLasso' # <<>> => ceLasso'[1] = seed
      <3>1. ceLasso[1] = seed
        BY <1>1, <1>2, <1>4 DEF NInv, InnerSearch
      <3>2. ceLasso' # <<>> => 1 \in 1..(Len(ceLasso) - 1)
        BY <1>5, <1>7
      <3>. QED BY <3>1, <3>2, <1>5, <1>7
    <2>4. Search(problem, nested \ {seed}, inner', ceLasso')
      BY <1>1, <1>4, <1>7
    <2>. QED BY <2>1, <2>2, <2>3, <2>4, <1>1, <1>2, <1>3 DEF InnerSearch
  <1>12. Counterexample'
    BY <1>1, <1>2 DEF Counterexample
  <1>. QED BY <1>3, <1>8, <1>9, <1>10, <1>11, <1>12 DEF NInv

\* An inner search that ends without coming back to its seed has marked all that is
\* behind the seed, which therefore is on no cycle and reaches nothing that has not
\* been finished.
LEMMA EndInnerStep == NInv /\ EndInner => NInv'
  <1> SUFFICES ASSUME NInv, EndInner PROVE NInv'
    OBVIOUS
  <1>1. /\ ok /\ ipc = "search" /\ inner = <<>>
        /\ (parallel => ipc' = "loop") /\ (~parallel => ipc' = "off")
        /\ UNCHANGED <<problem, parallel, verdict, store, nested, outer, inner, seed, ceStack,
                       ceLasso, valid, finished, process, opc, ok>>
    BY DEF EndInner, shared
  <1>2. problem \in Problems /\ nested \subseteq Nodes /\ ceLasso \in Seq(Nodes)
    BY TypeFacts
  <1>3. /\ Searching /\ ~Searching'
    BY <1>1 DEF Searching
  <1>4. Undone' = Undone /\ \A i \in 1..Len(process) : Later(i)' = Later(i)
    BY <1>1 DEF Opened, Undone, Later
  <1>5. ASSUME valid
        PROVE  /\ ceLasso = <<>> /\ Closed(problem, nested) /\ nested \cap Undone = {}
               /\ ~OnCycleOf(problem, seed)
    <2>1. Search(problem, nested \ {seed}, inner, ceLasso) /\ seed \in nested
      BY <1>1, <1>5 DEF NInv, InnerSearch
    <2>2. ceLasso = <<>>
      BY <2>1, <1>1, <1>2, SearchEnds
    <2>3. ToSet(ceLasso) = {}
      BY <2>2 DEF ToSet
    <2>4. PICK M \in SUBSET nested :
            /\ Closed(problem, M) /\ seed \notin M /\ M \cap Undone = {}
            /\ \A x \in nested \ M : x = seed \/ x \in After(problem, seed)
            /\ \A x \in nested \ (M \cup ToSet(ceLasso)) :
                 Succ(problem, x) \subseteq nested \ {seed}
      BY <1>1, <1>5 DEF NInv, InnerSearch
    <2>. DEFINE C == nested \ {seed}
    <2>5. \A x \in nested : Succ(problem, x) \subseteq C
      BY <2>3, <2>4 DEF Closed
    <2>6. Closed(problem, nested) /\ Closed(problem, C) /\ Succ(problem, seed) \subseteq C
          /\ C \in SUBSET Nodes
      BY <2>1, <2>5, <1>2 DEF Closed
    <2>. HIDE DEF C
    <2>7. After(problem, seed) \subseteq C
      BY <2>6, FromWithin DEF After
    <2>8. ~OnCycleOf(problem, seed)
      BY <2>7 DEF OnCycleOf, C
    <2>9. seed \notin Undone /\ After(problem, seed) \cap Undone = {}
      BY <2>8, <1>3, <1>5 DEF NInv, Current, InOrder
    <2>10. nested \cap Undone = {}
      BY <2>4, <2>9
    <2>. QED BY <2>2, <2>6, <2>8, <2>10
  <1>6. Types'
    BY <1>1 DEF NInv, Types
  <1>7. Control'
    BY <1>1, <1>3, <1>5 DEF NInv, Control, IsExpanded, Types
  <1>8. Reached' /\ CycleFound'
    BY <1>1 DEF NInv, Reached, CycleFound
  <1>9. OuterSearch' /\ Waiting'
    BY <1>1, <1>4, OuterKept, WaitingKept DEF NInv
  <1>10. InnerSearch' /\ Current'
    BY <1>1, <1>3 DEF InnerSearch, Current, NInv, Types
  <1>11. Marked' /\ Checked'
    <2>1. Marked'
      BY <1>1, <1>4, <1>5 DEF Marked
    <2>2. Checked'
      BY <1>1, <1>4, <1>5 DEF NInv, Checked
    <2>. QED BY <2>1, <2>2
  <1>12. Counterexample'
    BY <1>1 DEF NInv, Counterexample, IsPath
  <1>. QED BY <1>6, <1>7, <1>8, <1>9, <1>10, <1>11, <1>12 DEF NInv

-----------------------------------------------------------------------------
(* The theorems.                                                           *)

LEMMA NextNInv == NInv /\ [Next]_vars => NInv'
  <1> SUFFICES ASSUME NInv, [Next]_vars PROVE NInv'
    OBVIOUS
  <1>1. CASE UNCHANGED vars
    <2>1. UNCHANGED <<problem, parallel, verdict, store, nested, outer, inner, seed, ceStack,
                      ceLasso, valid, finished, process, opc, ipc, ok>>
      BY <1>1 DEF vars, shared
    <2>2. Opened' = Opened /\ Searching' = Searching
      BY <2>1 DEF Opened, Searching
    <2>3. /\ Reached' /\ CycleFound' /\ OuterSearch' /\ InnerSearch'
          /\ Waiting' /\ Current' /\ Marked' /\ Checked' /\ Counterexample'
      BY <2>1, <2>2, SearchesKept
    <2>4. Types' /\ Control'
      BY <2>1, <2>2 DEF NInv, Types, Control, IsExpanded
    <2>. QED BY <2>3, <2>4 DEF NInv
  <1>2. CASE Outer
    BY <1>2, ExploreStep, FinishStep, InnerReturnedStep, CloseStep, FinishOuterStep, ReportStep
       DEF Outer
  <1>3. CASE Inner
    BY <1>3, TakeSeedStep, IdleSteps, StartInnerStep, ExploreInnerStep, CloseInnerStep,
       EndInnerStep DEF Inner
  <1>. QED BY <1>1, <1>2, <1>3 DEF Next, Halted

\* NInv holds throughout, on graphs with one initial state.
LEMMA NInvariant ==
  ASSUME OneInitial
  PROVE  Spec => []NInv
  <1>1. Init => NInv
    BY InitNInv
  <1>2. NInv /\ [Next]_vars => NInv'
    BY NextNInv
  <1>. QED BY <1>1, <1>2, PTL DEF Spec

\* What the end of the search says: every accepting state that is reached has been
\* the seed of an inner search, and none is on a cycle.
LEMMA AllChecked ==
  ASSUME NInv, valid, opc = "join", ipc = "off", NEW n \in Nodes
  PROVE  ~IsReal(problem, n)
  <1>1. problem \in Problems /\ store \subseteq Nodes /\ ceStack \in Seq(Nodes)
    BY TypeFacts
  <1>2. process = <<>> /\ outer = <<>>
    BY DEF NInv, Control, Types
  <1>3. ceStack = <<>>
    <2>1. Search(problem, store, outer, ceStack)
      BY DEF NInv, OuterSearch
    <2>. QED BY <2>1, <1>1, <1>2, SearchEnds
  <1>4. ToSet(<<>>) = {}
    BY DEF ToSet
  <1>5. Undone = Nodes \ store
    BY <1>2, <1>3, <1>4 DEF Undone, Opened
  <1>6. Closed(problem, store) /\ ToSet(problem.initials) \subseteq store
    <2>1. \A x \in store : Succ(problem, x) \subseteq store
      BY <1>3, <1>4 DEF NInv, OuterSearch
    <2>. QED BY <2>1 DEF NInv, Reached, Closed
  <1>7. From(problem, ToSet(problem.initials)) \subseteq store
    BY <1>1, <1>6, FromWithin
  <1>8. ~Searching
    BY DEF Searching
  <1>9. \A x \in problem.accepting \ Undone : ~OnCycleOf(problem, x)
    BY <1>8 DEF NInv, Checked
  <1>. QED BY <1>5, <1>7, <1>9 DEF IsReal

\* TypeOK: whatever the two threads do, the nested states, the traces and the seeds
\* are among those that the outer search has stored, and the stacks hold states
\* with a flag (divine/algorithm/nested-dfs.h:103-224).
THEOREM TypesKept ==
  ASSUME OneInitial
  PROVE  Spec => []TypeOK
  <1>1. NInv => TypeOK
    <2> SUFFICES ASSUME NInv PROVE TypeOK
      OBVIOUS
    <2>1. ASSUME NEW stack \in {outer, inner}, NEW i \in DOMAIN stack
          PROVE  stack[i].flag \in {"Fresh", "Expanded"} /\ stack[i].node \in Nodes
      <3>1. stack \in Seq(Items)
        BY TypeFacts
      <3>2. stack[i] \in Items
        BY <3>1
      <3>. QED BY <3>2 DEF Items
    <2>2. \A q \in {ceStack, ceLasso, process} : ToSet(q) \subseteq store
      BY DEF NInv, Types
    <2>. QED BY <2>1, <2>2 DEF TypeOK, NInv, Types
  <1>. QED BY <1>1, NInvariant, PTL

\* StopsOnlyOnCycles: an ASSERT fails, of a look-up of the inner search
\* (divine/graph/visitor.h:160), of a trace or of the queue
\* (divine/algorithm/nested-dfs.h:132-224), only on a graph with an accepting cycle.
THEOREM OnlyOnCycles ==
  ASSUME OneInitial
  PROVE  Spec => []StopsOnlyOnCycles
  <1>1. NInv => StopsOnlyOnCycles
    <2>1. NInv => problem \in Problems
      BY TypeFacts
    <2>. QED BY <2>1, SameCycles DEF StopsOnlyOnCycles, NInv, CycleFound
  <1>. QED BY <1>1, NInvariant, PTL

\* CounterexampleIsReal: the two traces of the sequential program, from which
\* NestedDFS::counterexample is made, are a path from an initial state to an
\* accepting one and a path from that one to itself, although the searches go on
\* for a while after the cycle is found.
THEOREM RealCounterexample ==
  ASSUME OneInitial
  PROVE  Spec => []CounterexampleIsReal
  <1>. DEFINE Told == verdict = "cycle" => ~valid
  <1>1. Init => Told
    BY DEF Init
  <1>2. NInv /\ Told /\ [Next]_vars => Told'
    <2> SUFFICES ASSUME NInv, Told, [Next]_vars PROVE Told'
      OBVIOUS
    <2>1. CASE Report
      BY <2>1 DEF Report, shared
    <2>2. ASSUME verdict' = verdict, valid' = valid \/ valid' = FALSE
          PROVE  Told'
      BY <2>2
    <2>3. [Next]_vars => Report \/ (verdict' = verdict /\ (valid' = valid \/ valid' = FALSE))
      BY DEF Next, Outer, Inner, Halted, vars, shared, Explore, Finish, InnerReturned, Close,
             FinishOuter, TakeSeed, SeeEmpty, SeeFinished, LookAgain, EndThread, StartInner,
             ExploreInner, CloseInner, EndInner
    <2>. QED BY <2>1, <2>2, <2>3
  <1>3. NInv /\ Told => CounterexampleIsReal
    BY DEF NInv, Counterexample, CounterexampleIsReal
  <1>. QED BY <1>1, <1>2, <1>3, NInvariant, PTL DEF Spec

\* RightVerdict: what run() reports (divine/algorithm/nested-dfs.h:131-150)
\* is whether an initial state reaches an accepting cycle, with one thread and with
\* two: every step is one of CycleDetection's or leaves the verdict alone.
THEOREM Refinement ==
  ASSUME OneInitial
  PROVE  Spec => RightVerdict
  <1>1. Init => CD!Init
    BY DEF Init, CD!Init, Products
  <1>2. NInv /\ [Next]_vars => [CD!Decide]_CD!vars
    <2> SUFFICES ASSUME NInv, [Next]_vars PROVE [CD!Decide]_CD!vars
      OBVIOUS
    <2>1. CASE Report
      <3>1. problem' = problem /\ opc = "join" /\ ipc = "off"
            /\ verdict' = IF valid THEN "valid" ELSE "cycle"
        BY <2>1 DEF Report
      <3>2. problem \in Problems /\ verdict = "none" /\ valid \in BOOLEAN
        BY <3>1 DEF NInv, Types, Control
      <3>3. CD!AcceptingCycle <=> \E n \in Nodes : IsReal(problem, n)
        BY <3>2, SameCycles
      <3>4. valid => ~ \E n \in Nodes : IsReal(problem, n)
        BY <3>1, AllChecked
      <3>5. ~valid => \E n \in Nodes : IsReal(problem, n)
        BY DEF NInv, CycleFound
      <3>6. verdict' \in {"cycle", "valid"} /\ (verdict' = "cycle" <=> ~valid)
        BY <3>1, <3>2
      <3>7. Product(problem)' = Product(problem)
        BY <3>1 DEF Product
      <3>8. verdict' = "cycle" <=> CD!AcceptingCycle
        BY <3>3, <3>4, <3>5, <3>6
      <3>. QED BY <3>2, <3>6, <3>7, <3>8 DEF CD!Decide
    <2>2. CASE problem' = problem /\ verdict' = verdict
      BY <2>2 DEF CD!vars, Product
    <2>3. [Next]_vars => Report \/ (problem' = problem /\ verdict' = verdict)
      BY DEF Next, Outer, Inner, Halted, vars, shared, Explore, Finish, InnerReturned, Close,
             FinishOuter, TakeSeed, SeeEmpty, SeeFinished, LookAgain, EndThread, StartInner,
             ExploreInner, CloseInner, EndInner
    <2>. QED BY <2>1, <2>2, <2>3
  <1>. QED BY <1>1, <1>2, NInvariant, PTL DEF Spec, RightVerdict, CD!Sound

=============================================================================
