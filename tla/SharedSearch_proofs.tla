-------------------------- MODULE SharedSearch_proofs --------------------------
(***************************************************************************)
(* Proofs about the shared-memory search, for any number of workers, any   *)
(* graph and any sizes of chunks: the counter of the open states is exact  *)
(* until somebody terminates the search, nobody sees its end too early,    *)
(* every state is expanded once, and the verdict is right.                 *)
(*                                                                         *)
(* While nothing has been found no worker stops another one, and the       *)
(* search is Calm: that part of the invariant is about it.                 *)
(***************************************************************************)
EXTENDS SharedSearch, FiniteSetTheorems, TLAPS

In(w) == Range(incoming[w])
Out(w) == Range(outgoing[w])
Chunk(i) == Range(chunkq[i])

\* With an edge, and with a state.
AtEdges == {"edges", "push", "flush"}
Busy(w) == from[w] # NoNode /\ pc[w] \in AtEdges \cup {"close"}
Leaving == {"leave", "syncLast", "casLast", "done"}

QueueShapes ==
  /\ chunkq \in Seq(Seq(Nodes) \ {<<>>})
  /\ isEmpty \in BOOLEAN
  /\ incoming \in [Workers -> Seq(Nodes)]
  /\ outgoing \in [Workers -> Seq(Nodes)]
  /\ chunkSize \in [Workers -> FirstChunk .. MaxChunk]

CounterShapes ==
  /\ shared \in Nat
  /\ local \in [Workers -> Nat]
  /\ value \in [Workers -> Nat]

EdgeShapes ==
  /\ closed \subseteq Nodes
  /\ axed \in [Workers -> BOOLEAN]
  /\ deadlocked \in [Workers -> BOOLEAN]
  /\ from \in [Workers -> Nodes \cup {NoNode}]
  /\ todo \in [Workers -> SUBSET Nodes]
  /\ target \in [Workers -> Nodes \cup {NoNode}]
  /\ expansions \in [Nodes -> Nat]

StopShapes ==
  /\ interrupt \in [Workers -> BOOLEAN]
  /\ pending \in [Workers -> SUBSET Workers]
  /\ ret \in [Workers -> {"edges", "close", "leave"}]
  /\ goal \in [Workers -> Nodes \cup {NoNode}]

PlaceShapes ==
  /\ problem \in Problems
  /\ arrived \subseteq Workers
  /\ pc \in [Workers -> Labels]
  /\ \A w \in Workers : /\ pc[w] = "push" => target[w] # NoNode
                        /\ pc[w] = "flush" => outgoing[w] # <<>>

Shapes == QueueShapes /\ CounterShapes /\ EdgeShapes /\ StopShapes /\ PlaceShapes

\* What the workers hold is reachable, and what they have found is a target;
\* a state none of whose edges has been looked at has them all in todo.
Sound ==
  /\ closed \subseteq Reachable
  /\ OpenStates \subseteq closed
  /\ \A w \in Workers :
       /\ todo[w] \subseteq Reachable
       /\ target[w] # NoNode => target[w] \in closed
       /\ goal[w] # NoNode => goal[w] \in Targets
       /\ from[w] # NoNode =>
            /\ from[w] \in Reachable
            /\ todo[w] \subseteq problem.succ[from[w]]
            /\ deadlocked[w] => todo[w] = problem.succ[from[w]]
            /\ ~deadlocked[w] => problem.succ[from[w]] # {}

NobodyStops ==
  \A w \in Workers :
    /\ ~interrupt[w] /\ ~axed[w] /\ pending[w] = {}
    /\ pc[w] \notin {"interrupt", "clear", "reset", "closePop"}

\* Who has not arrived looks at initial states; everybody goes on together; and
\* the state a worker expands is the first of its chunk.
Position(w) ==
  /\ w \notin arrived => pc[w] \in AtEdges /\ from[w] = NoNode
  /\ w \in arrived /\ pc[w] # "barrier" => arrived = Workers
  /\ w \in arrived /\ pc[w] \in AtEdges \cup {"close"} =>
       incoming[w] # <<>> /\ from[w] = Head(incoming[w])
  /\ pc[w] \in {"openPop", "takePop"} => incoming[w] = <<>>

Positions == \A w \in Workers : Position(w)

\* No open state is in two places.
NoDoubles ==
  /\ \A w \in Workers : IsInjective(incoming[w]) /\ IsInjective(outgoing[w])
  /\ \A i \in DOMAIN chunkq : IsInjective(chunkq[i])
  /\ \A w, v \in Workers : /\ In(w) \cap Out(v) = {}
                           /\ w # v => In(w) \cap In(v) = {} /\ Out(w) \cap Out(v) = {}
  /\ \A i \in DOMAIN chunkq :
       /\ \A w \in Workers : Chunk(i) \cap In(w) = {} /\ Chunk(i) \cap Out(w) = {}
       /\ \A j \in DOMAIN chunkq : i # j => Chunk(i) \cap Chunk(j) = {}

NewTargets ==
  \A w \in Workers : target[w] # NoNode =>
    /\ target[w] \notin OpenStates /\ pc[w] = "push"
    /\ \A v \in Workers : v # w => target[v] # target[w]

\* A state waits from when it is stored until it is expanded.
Waits(n) == \/ \E w \in Workers : target[w] = n
            \/ n \in OpenStates /\ \A w \in Workers : Busy(w) => from[w] # n

\* It has been followed when neither that nor its edges are left to do.
Followed(n) == n \in closed /\ n \notin OpenStates /\ \A w \in Workers : target[w] # n

NoDead(n) == problem.property = "deadlock" => problem.succ[n] # {}

\* Each state is expanded once; its edges and the initial states are followed.
ExpandedOnce == \A n \in Nodes : expansions[n] = IF n \in closed /\ ~Waits(n) THEN 1 ELSE 0

NoneForgotten == \A n \in Nodes : Followed(n) => problem.succ[n] \subseteq closed /\ NoDead(n)

InHand(w) == Busy(w) => /\ problem.succ[from[w]] \subseteq closed \cup todo[w]
                        /\ pc[w] = "close" => todo[w] = {} /\ NoDead(from[w])

Initials(w) == problem.initials \subseteq closed \cup (IF w \in arrived THEN {} ELSE todo[w])

NoGoal == problem.property = "goal" => closed \cap problem.goals = {}

Explored == /\ ExpandedOnce /\ NoneForgotten /\ NoGoal
            /\ \A w \in Workers : InHand(w) /\ Initials(w)

Exact == shared = Cardinality(OpenStates) + Cardinality(Stock)

Ended == (\E w \in Workers : pc[w] \in Leaving) => OpenStates = {}

Calm == /\ NobodyStops /\ Positions /\ NoDoubles /\ NewTargets /\ Explored /\ Exact
        /\ Ended

\* The inductive invariant.
IInv == Shapes /\ Sound /\ (Found = {} => Calm)
-----------------------------------------------------------------------------
(* The graph, and the states that can be reached in it.                    *)

LEMMA ProblemFacts ==
  ASSUME problem \in Problems
  PROVE  /\ problem.initials \subseteq Nodes
         /\ problem.succ \in [Nodes -> SUBSET Nodes]
         /\ problem.goals \subseteq Nodes
         /\ problem.property \in {"goal", "deadlock"}
         /\ IsFiniteSet(Workers) /\ Workers # {}
         /\ IsFiniteSet(Nodes) /\ NoNode \notin Nodes
         /\ Step \in Nat \ {0} /\ FirstChunk \in Nat \ {0} /\ MaxChunk \in Nat
         /\ FirstChunk <= MaxChunk
  BY SearchAssumption DEF Workers

LEMMA ReachableFacts ==
  ASSUME problem \in Problems
  PROVE  /\ Reachable \subseteq Nodes
         /\ problem.initials \subseteq Reachable
         /\ \A n \in Reachable : problem.succ[n] \subseteq Reachable
         /\ \A S \in SUBSET Nodes :
              problem.initials \subseteq S /\ (\A m \in S : problem.succ[m] \subseteq S)
                => Reachable \subseteq S
  BY ProblemFacts DEF Reachable
-----------------------------------------------------------------------------
(* Sequences, and what is in them.                                         *)

LEMMA EmptyFacts ==
  ASSUME NEW S
  PROVE  /\ <<>> \in Seq(S) /\ DOMAIN <<>> = {} /\ Range(<<>>) = {} /\ IsInjective(<<>>)
         /\ \A q \in Seq(S) : Range(q) = {} <=> q = <<>>
  <1>1. <<>> \in Seq(S) /\ DOMAIN <<>> = {}
    OBVIOUS
  <1>2. Range(<<>>) = {} /\ IsInjective(<<>>)
    BY <1>1 DEF Range, IsInjective
  <1>3. ASSUME NEW q \in Seq(S), q # <<>> PROVE Range(q) # {}
    <2>1. 1 \in DOMAIN q
      BY <1>3
    <2>. QED BY <2>1 DEF Range
  <1>. QED BY <1>1, <1>2, <1>3

LEMMA HeadFacts ==
  ASSUME NEW S, NEW q \in Seq(S), q # <<>>
  PROVE  /\ Head(q) \in S /\ Tail(q) \in Seq(S)
         /\ Len(q) \in Nat \ {0} /\ DOMAIN q = 1 .. Len(q) /\ Head(q) = q[1]
         /\ DOMAIN Tail(q) = 1 .. Len(q) - 1
         /\ \A i \in 1 .. Len(q) - 1 : Tail(q)[i] = q[i + 1] /\ i + 1 \in DOMAIN q
         /\ Range(q) = {Head(q)} \cup Range(Tail(q))
         /\ IsInjective(q) => IsInjective(Tail(q)) /\ Head(q) \notin Range(Tail(q))
  <1>1. /\ Head(q) \in S /\ Tail(q) \in Seq(S)
        /\ Len(q) \in Nat \ {0} /\ DOMAIN q = 1 .. Len(q) /\ Head(q) = q[1]
        /\ DOMAIN Tail(q) = 1 .. Len(q) - 1
        /\ \A i \in 1 .. Len(q) - 1 : Tail(q)[i] = q[i + 1] /\ i + 1 \in DOMAIN q
    OBVIOUS
  <1>2. Range(q) = {Head(q)} \cup Range(Tail(q))
    <2>1. ASSUME NEW i \in 1 .. Len(q) PROVE q[i] \in {Head(q)} \cup Range(Tail(q))
      <3>1. CASE i = 1
        BY <1>1, <3>1
      <3>2. CASE i # 1
        <4>1. i - 1 \in 1 .. Len(q) - 1 /\ (i - 1) + 1 = i
          BY <1>1, <3>2
        <4>. QED BY <1>1, <4>1 DEF Range
      <3>. QED BY <3>1, <3>2
    <2>2. {Head(q)} \cup Range(Tail(q)) \subseteq Range(q)
      BY <1>1 DEF Range
    <2>. QED BY <1>1, <2>1, <2>2 DEF Range
  <1>3. ASSUME IsInjective(q) PROVE IsInjective(Tail(q)) /\ Head(q) \notin Range(Tail(q))
    <2>1. \A i \in 1 .. Len(q) - 1 : i \in Nat /\ i + 1 # 1 /\ 1 \in DOMAIN q
      BY <1>1
    <2>2. \A i, j \in 1 .. Len(q) - 1 : i + 1 = j + 1 => i = j
      OBVIOUS
    <2>. QED BY <1>1, <1>3, <2>1, <2>2 DEF IsInjective, Range
  <1>. QED BY <1>1, <1>2, <1>3

LEMMA AppendFacts ==
  ASSUME NEW S, NEW q \in Seq(S), NEW x \in S
  PROVE  /\ Append(q, x) \in Seq(S) /\ Append(q, x) # <<>>
         /\ Len(q) \in Nat /\ DOMAIN q = 1 .. Len(q)
         /\ DOMAIN Append(q, x) = 1 .. Len(q) + 1
         /\ \A i \in 1 .. Len(q) : Append(q, x)[i] = q[i]
         /\ Append(q, x)[Len(q) + 1] = x
         /\ Range(Append(q, x)) = Range(q) \cup {x}
         /\ IsInjective(q) /\ x \notin Range(q) => IsInjective(Append(q, x))
         /\ Head(Append(q, x)) = IF q = <<>> THEN x ELSE Head(q)
  <1>1. /\ Append(q, x) \in Seq(S) /\ Append(q, x) # <<>>
        /\ Len(q) \in Nat /\ DOMAIN q = 1 .. Len(q)
        /\ DOMAIN Append(q, x) = 1 .. Len(q) + 1
        /\ \A i \in 1 .. Len(q) : Append(q, x)[i] = q[i]
        /\ Append(q, x)[Len(q) + 1] = x
    OBVIOUS
  <1>2. \A i \in 1 .. Len(q) + 1 : i \in 1 .. Len(q) \/ i = Len(q) + 1
    BY <1>1
  <1>3. \A i \in 1 .. Len(q) : i \in 1 .. Len(q) + 1
    BY <1>1
  <1>4. Len(q) + 1 \in 1 .. Len(q) + 1
    BY <1>1
  <1>5. Range(Append(q, x)) = Range(q) \cup {x}
    BY <1>1, <1>2, <1>3, <1>4 DEF Range
  <1>6. IsInjective(q) /\ x \notin Range(q) => IsInjective(Append(q, x))
    BY <1>1, <1>2 DEF Range, IsInjective
  <1>7. Head(Append(q, x)) = IF q = <<>> THEN x ELSE Head(q)
    OBVIOUS
  <1>. QED BY <1>1, <1>5, <1>6, <1>7

LEMMA ShapesAreTypes == Shapes => TypeOK
  <1> SUFFICES ASSUME Shapes PROVE TypeOK
    OBVIOUS
  <1> USE DEF Shapes, QueueShapes, CounterShapes, EdgeShapes, StopShapes, PlaceShapes
  <1>1. {interrupt, axed, deadlocked} \subseteq [Workers -> BOOLEAN]
    OBVIOUS
  <1>2. {local, value} \subseteq [Workers -> Nat]
    OBVIOUS
  <1>3. {incoming, outgoing} \subseteq [Workers -> Seq(Nodes)]
    OBVIOUS
  <1>4. {from, target, goal} \subseteq [Workers -> Nodes \cup {NoNode}]
    OBVIOUS
  <1>5. {ret, pc} \subseteq [Workers -> Labels]
    <2>1. {"edges", "close", "leave"} \subseteq Labels
      BY DEF Labels
    <2>2. ret \in [Workers -> {"edges", "close", "leave"}] /\ pc \in [Workers -> Labels]
      OBVIOUS
    <2>3. ret \in [Workers -> Labels]
      BY ONLY <2>1, <2>2
    <2>. QED BY ONLY <2>2, <2>3
  <1>. QED BY <1>1, <1>2, <1>3, <1>4, <1>5 DEF TypeOK
-----------------------------------------------------------------------------
(* The groups of steps.                                                    *)

\* The moves of a worker: nothing but its place changes.
Moves(w) == \/ OpenHint(w) \/ CloseHint(w) \/ TakeHint(w) \/ Interrupted(w)
            \/ Started(w) \/ IsZero(w) \/ NoFlushIdle(w) \/ NoFlushLast(w)

\* The steps that take a chunk from the queue, or find none.
Pops(w) == OpenPop(w) \/ ClosePop(w) \/ TakePop(w)

\* The steps that put one there.
Flushes(w) == FlushFull(w) \/ FlushIdle(w) \/ FlushLast(w)

\* The steps that give a stock back.
Syncs(w) == Sync(w) \/ Cas(w) \/ SyncLast(w) \/ CasLast(w)

LEMMA WorkIs ==
  ASSUME NEW w, Work(w)
  PROVE  \/ Moves(w) \/ Pops(w) \/ Flushes(w) \/ Syncs(w)
         \/ Edge(w) \/ SkipEdges(w) \/ Push(w) \/ Interrupt(w) \/ Clear(w)
         \/ ResetCounter(w) \/ Open(w) \/ Dead(w) \/ Close(w) \/ Restart(w)
         \/ CheckInterrupt(w)
  BY DEF Work, Moves, Pops, Flushes, Syncs

\* A worker that moves goes to another place in the code.
LEMMA MovesGo ==
  ASSUME NEW w, Moves(w)
  PROVE  /\ UNCHANGED <<problem, closed, queueVars, arrived, chunkVars, counterVars,
                        edgeVars, stopVars, expansions>>
         /\ \/ Goto(w, "open", IF isEmpty THEN "check" ELSE "openPop") /\ incoming[w] = <<>>
            \/ Goto(w, "close", IF isEmpty THEN "open" ELSE "closePop") /\ incoming[w] = <<>>
            \/ Goto(w, "take", IF isEmpty THEN "idle" ELSE "takePop") /\ incoming[w] = <<>>
            \/ Goto(w, "interrupt", "clear") /\ pending[w] = {}
            \/ Goto(w, "barrier", "loop") /\ arrived = Workers
            \/ Goto(w, "loop", IF shared = 0 THEN "leave" ELSE "take")
            \/ Goto(w, "idle", "sync") /\ outgoing[w] = <<>>
            \/ Goto(w, "leave", "syncLast") /\ outgoing[w] = <<>>
  BY DEF Moves, OpenHint, CloseHint, TakeHint, PopHint, Interrupted, Started, IsZero,
         NoFlushIdle, NoFlushLast, NothingToFlush

LEMMA PopsGo ==
  ASSUME NEW w, Pops(w)
  PROVE  \/ PopChunk(w, "openPop", "check", "open")
         \/ PopChunk(w, "closePop", "open", "close")
         \/ PopChunk(w, "takePop", "idle", "open")
  BY DEF Pops, OpenPop, ClosePop, TakePop

LEMMA FlushesGo ==
  ASSUME NEW w, Flushes(w), pc[w] = "flush" => outgoing[w] # <<>>
  PROVE  /\ outgoing[w] # <<>>
         /\ \/ Flush(w, "flush", "edges")
            \/ Flush(w, "idle", "sync")
            \/ Flush(w, "leave", "syncLast")
  BY DEF Flushes, FlushFull, FlushIdle, FlushLast, Flush, Goto

LEMMA SyncsGo ==
  ASSUME NEW w, Syncs(w)
  PROVE  \/ SyncRead(w, "sync", "cas", "loop") \/ SyncSwap(w, "cas", "loop")
         \/ SyncRead(w, "syncLast", "casLast", "done") \/ SyncSwap(w, "casLast", "done")
  BY DEF Syncs, Sync, Cas, SyncLast, CasLast
-----------------------------------------------------------------------------
(* Shapes.                                                                 *)

\* What does not change keeps its shape.
LEMMA SameShapes ==
  ASSUME Shapes, problem' = problem
  PROVE  /\ UNCHANGED <<queueVars, chunkVars>> => QueueShapes'
         /\ UNCHANGED counterVars => CounterShapes'
         /\ UNCHANGED <<closed, edgeVars, expansions>> => EdgeShapes'
         /\ UNCHANGED stopVars => StopShapes'
  BY DEF Shapes, QueueShapes, CounterShapes, EdgeShapes, StopShapes, Workers, queueVars,
         chunkVars, counterVars, edgeVars, stopVars

LEMMA LabelsAre ==
  /\ Labels \ {"push", "flush"} \subseteq Labels
  /\ {"push", "flush"} \subseteq Labels
  /\ {"edges", "interrupt", "clear", "reset", "open", "openPop", "close", "closePop",
      "barrier", "loop", "take", "takePop", "idle", "sync", "cas", "check", "leave",
      "syncLast", "casLast", "done"} \subseteq Labels \ {"push", "flush"}
  BY DEF Labels

\* A worker is not in the middle of an edge, or stays there; the others stay
\* where they are, and keep what they hold.
LEMMA PlaceStep ==
  ASSUME Shapes, NEW w \in Workers, NEW b \in Labels \ {"push", "flush"},
         pc' = [pc EXCEPT ![w] = b], problem' = problem, arrived' \subseteq Workers,
         \A v \in Workers \ {w} : target'[v] = target[v] /\ outgoing'[v] = outgoing[v]
  PROVE  PlaceShapes'
  BY LabelsAre DEF Shapes, PlaceShapes, Workers

LEMMA NoMoveStep ==
  ASSUME Shapes, UNCHANGED <<pc, problem, arrived, target, outgoing>>
  PROVE  PlaceShapes'
  BY DEF Shapes, PlaceShapes, Workers

LEMMA MovesShapes ==
  ASSUME Shapes, NEW w \in Workers, Moves(w)
  PROVE  Shapes'
  <1>1. \E a, b \in Labels \ {"push", "flush"} : Goto(w, a, b)
    BY MovesGo, LabelsAre
  <1>2. UNCHANGED <<problem, closed, queueVars, arrived, chunkVars, counterVars, edgeVars,
                    stopVars, expansions>>
    BY MovesGo
  <1>3. UNCHANGED <<target, outgoing>> /\ arrived' \subseteq Workers
    BY <1>2 DEF chunkVars, edgeVars, Shapes, PlaceShapes
  <1>4. PlaceShapes'
    BY <1>1, <1>2, <1>3, PlaceStep DEF Goto
  <1>. QED BY <1>2, <1>4, SameShapes DEF Shapes
LEMMA PopShapes ==
  ASSUME Shapes, NEW w \in Workers, NEW a,
         NEW b \in Labels \ {"push", "flush"}, NEW c \in Labels \ {"push", "flush"},
         PopChunk(w, a, b, c)
  PROVE  Shapes'
  <1>1. UNCHANGED <<problem, closed, arrived, outgoing, chunkSize, counterVars, edgeVars,
                    stopVars, expansions>>
    BY DEF PopChunk
  <1>2. \E l \in {b, c} : Goto(w, a, l)
    BY DEF PopChunk
  <1>3. QueueShapes'
    <2>1. CASE chunkq = <<>>
      BY <1>1, <2>1, SameShapes DEF PopChunk, chunkVars
    <2>2. CASE chunkq # <<>>
      <3>1. PICK h \in Seq(Nodes), l \in Seq(Seq(Nodes) \ {<<>>}) :
              h = Head(chunkq) /\ l = Tail(chunkq)
        <4>1. chunkq \in Seq(Seq(Nodes) \ {<<>>})
          BY DEF Shapes, QueueShapes
        <4>2. /\ Head(chunkq) \in Seq(Nodes) \ {<<>>}
              /\ Tail(chunkq) \in Seq(Seq(Nodes) \ {<<>>})
          BY <2>2, <4>1, HeadFacts
        <4>. QED BY <4>2
      <3>2. /\ incoming' = [incoming EXCEPT ![w] = h]
            /\ chunkq' = l
        BY <2>2, <3>1 DEF PopChunk
      <3>3. isEmpty' \in BOOLEAN
        BY <2>2 DEF PopChunk
      <3>. QED BY <1>1, <3>1, <3>2, <3>3 DEF Shapes, QueueShapes, Workers
    <2>. QED BY <2>1, <2>2
  <1>4. UNCHANGED <<target, outgoing>> /\ arrived' \subseteq Workers
    BY <1>1 DEF edgeVars, Shapes, PlaceShapes
  <1>5. PlaceShapes'
    BY <1>1, <1>2, <1>4, PlaceStep DEF Goto
  <1>. QED BY <1>1, <1>3, <1>5, SameShapes DEF Shapes

LEMMA FlushShapes ==
  ASSUME Shapes, NEW w \in Workers, NEW a, NEW b \in Labels \ {"push", "flush"},
         Flush(w, a, b), outgoing[w] # <<>>
  PROVE  Shapes'
  <1>1. UNCHANGED <<problem, closed, arrived, incoming, counterVars, edgeVars, stopVars,
                    expansions>>
    BY DEF Flush
  <1>2. QueueShapes'
    <2>1. PICK q \in Seq(Seq(Nodes) \ {<<>>}) : q = Append(chunkq, outgoing[w])
      <3>1. chunkq \in Seq(Seq(Nodes) \ {<<>>}) /\ outgoing[w] \in Seq(Nodes) \ {<<>>}
        BY DEF Shapes, QueueShapes
      <3>. QED BY <3>1, AppendFacts
    <2>2. PICK k \in FirstChunk .. MaxChunk : k = Lesser(2 * chunkSize[w], MaxChunk)
      <3>1. /\ chunkSize[w] \in FirstChunk .. MaxChunk
            /\ FirstChunk \in Nat /\ MaxChunk \in Nat /\ FirstChunk <= MaxChunk
        <4>1. chunkSize[w] \in FirstChunk .. MaxChunk /\ problem \in Problems
          BY DEF Shapes, QueueShapes, PlaceShapes
        <4>. QED BY <4>1, ProblemFacts
      <3>. QED BY <3>1 DEF Lesser
    <2>3. /\ chunkq' = q /\ isEmpty' = FALSE
          /\ outgoing' = [outgoing EXCEPT ![w] = <<>>]
          /\ chunkSize' = [chunkSize EXCEPT ![w] = k]
      BY <2>1, <2>2 DEF Flush
    <2>4. <<>> \in Seq(Nodes)
      BY EmptyFacts
    <2>. QED BY <1>1, <2>3, <2>4 DEF Shapes, QueueShapes, Workers
  <1>3. PlaceShapes'
    <2>1. /\ target' = target /\ \A v \in Workers \ {w} : outgoing'[v] = outgoing[v]
          /\ arrived' \subseteq Workers /\ Goto(w, a, b)
      BY <1>1 DEF Flush, edgeVars, Shapes, PlaceShapes, QueueShapes
    <2>. QED BY <1>1, <2>1, PlaceStep DEF Goto
  <1>. QED BY <1>1, <1>2, <1>3, SameShapes DEF Shapes

LEMMA SyncShapes ==
  ASSUME Shapes, NEW w \in Workers, Syncs(w)
  PROVE  Shapes'
  <1>1. /\ UNCHANGED <<problem, closed, queueVars, arrived, chunkVars, edgeVars, stopVars,
                       expansions>>
        /\ \/ \E a, b \in Labels \ {"push", "flush"} : Goto(w, a, b)
           \/ pc' = pc
    BY SyncsGo, LabelsAre DEF SyncRead, SyncSwap
  <1>2. UNCHANGED <<target, outgoing>> /\ arrived' \subseteq Workers
    BY <1>1 DEF chunkVars, edgeVars, Shapes, PlaceShapes
  <1>3. PlaceShapes'
    BY <1>1, <1>2, PlaceStep, NoMoveStep DEF Goto
  <1>4. CounterShapes'
    <2>1. value[w] \in Nat /\ local[w] \in Nat /\ shared \in Nat
      BY DEF Shapes, CounterShapes
    <2>2. \E k, v \in Nat : /\ shared' = k /\ value' = [value EXCEPT ![w] = v]
                            /\ local' = local \/ local' = [local EXCEPT ![w] = 0]
      <3>1. ASSUME NEW a, NEW b, NEW c, SyncRead(w, a, b, c)
            PROVE  /\ shared' \in Nat /\ local' = local
                   /\ \E v \in Nat : value' = [value EXCEPT ![w] = v]
        BY <2>1, <3>1 DEF SyncRead
      <3>2. ASSUME NEW a, NEW b, SyncSwap(w, a, b)
            PROVE  /\ shared' \in Nat
                   /\ \E v \in Nat : value' = [value EXCEPT ![w] = v]
                   /\ local' = local \/ local' = [local EXCEPT ![w] = 0]
        <4>1. CASE shared = value[w]
          <5>1. shared' = IF value[w] >= local[w] THEN value[w] - local[w] ELSE 0
            BY <3>2, <4>1 DEF SyncSwap
          <5>2. shared' \in Nat
            BY <2>1, <5>1
          <5>. QED BY <3>2, <4>1, <5>2 DEF SyncSwap
        <4>2. CASE shared # value[w]
          BY <2>1, <3>2, <4>2 DEF SyncSwap
        <4>. QED BY <4>1, <4>2
      <3>. QED BY <3>1, <3>2, SyncsGo
    <2>. QED BY <1>1, <2>2 DEF Shapes, CounterShapes, Workers
  <1>. QED BY <1>1, <1>3, <1>4, SameShapes DEF Shapes

LEMMA EdgeShape ==
  ASSUME Shapes, NEW w \in Workers, Edge(w)
  PROVE  Shapes'
  <1>1. PICK n \in todo[w] :
          /\ todo' = [todo EXCEPT ![w] = @ \ {n}]
          /\ closed' = closed \cup {n}
          /\ Transition(w, n, n \notin closed)
    BY DEF Edge
  <1>2. /\ n \in Nodes /\ NoNode \notin Nodes
        /\ deadlocked' = [deadlocked EXCEPT ![w] = FALSE] /\ pc[w] = "edges"
        /\ UNCHANGED <<problem, queueVars, arrived, chunkVars, counterVars, axed, from,
                       expansions>>
    BY SearchAssumption DEF Edge, Shapes, EdgeShapes
  <1>3. /\ arrived' \subseteq Workers /\ UNCHANGED outgoing
        /\ target' = target \/ target' = [target EXCEPT ![w] = n]
    BY <1>1, <1>2 DEF Shapes, PlaceShapes, chunkVars, Transition
  <1>4. EdgeShapes'
    BY <1>1, <1>2, <1>3 DEF Shapes, EdgeShapes, Workers
  <1>5. CASE IsGoal(n)
    <2>1. /\ goal' = [goal EXCEPT ![w] = n]
          /\ interrupt' = [interrupt EXCEPT ![w] = TRUE]
          /\ pending' = [pending EXCEPT ![w] = Workers \ {w}]
          /\ ret' = [ret EXCEPT ![w] = "edges"]
          /\ pc' = [pc EXCEPT ![w] = "interrupt"]
          /\ target' = target
      BY <1>1, <1>5 DEF Transition, Goto
    <2>2. StopShapes'
      BY <1>2, <2>1 DEF Shapes, StopShapes, Workers
    <2>3. PlaceShapes'
      BY <1>2, <1>3, <2>1, PlaceStep, LabelsAre
    <2>. QED BY <1>2, <1>4, <2>2, <2>3, SameShapes DEF Shapes
  <1>6. CASE ~IsGoal(n)
    <2>1. /\ UNCHANGED stopVars
          /\ \/ target' = [target EXCEPT ![w] = n] /\ pc' = [pc EXCEPT ![w] = "push"]
             \/ UNCHANGED <<target, pc>>
      BY <1>1, <1>6 DEF Transition, Goto
    <2>2. PlaceShapes'
      BY <1>2, <1>3, <2>1, LabelsAre DEF Shapes, PlaceShapes, EdgeShapes, Workers
    <2>. QED BY <1>2, <1>4, <2>1, <2>2, SameShapes DEF Shapes
  <1>. QED BY <1>5, <1>6

LEMMA PushShape ==
  ASSUME Shapes, NEW w \in Workers, Push(w)
  PROVE  Shapes'
  <1>1. /\ target[w] \in Nodes /\ outgoing[w] \in Seq(Nodes) /\ Step \in Nat \ {0}
        /\ local[w] \in Nat /\ shared \in Nat
    <2>1. pc[w] = "push"
      BY DEF Push, Goto
    <2>2. target[w] \in Nodes
      BY <2>1 DEF Shapes, EdgeShapes, PlaceShapes
    <2>. QED BY <2>2, SearchAssumption DEF Shapes, QueueShapes, CounterShapes
  <1>2. PICK q \in Seq(Nodes) : q = Append(outgoing[w], target[w]) /\ q # <<>>
    <2>1. /\ Append(outgoing[w], target[w]) \in Seq(Nodes)
          /\ Append(outgoing[w], target[w]) # <<>>
      BY <1>1, AppendFacts
    <2>. QED BY ONLY <2>1
  <1>3. /\ outgoing' = [outgoing EXCEPT ![w] = q]
        /\ target' = [target EXCEPT ![w] = NoNode]
        /\ UNCHANGED <<problem, closed, queueVars, arrived, incoming, chunkSize, value,
                       axed, deadlocked, from, todo, stopVars, expansions>>
    BY <1>2 DEF Push
  <1>4. QueueShapes' /\ EdgeShapes'
    BY <1>2, <1>3 DEF Shapes, QueueShapes, EdgeShapes, Workers, queueVars
  <1>5. CounterShapes'
    <2>1. PICK k \in Nat : shared' = k
      BY <1>1 DEF Push
    <2>2. PICK l \in Nat : l = (IF local[w] = 0 THEN Step ELSE local[w]) - 1
      BY <1>1
    <2>3. local' = [local EXCEPT ![w] = l]
      BY <2>2 DEF Push
    <2>. QED BY <1>3, <2>1, <2>3 DEF Shapes, CounterShapes, Workers
  <1>6. PlaceShapes'
    <2>1. \E b \in {"flush", "edges"} : pc' = [pc EXCEPT ![w] = b]
      BY DEF Push, Goto
    <2>2. outgoing'[w] # <<>> /\ \A v \in Workers \ {w} : /\ outgoing'[v] = outgoing[v]
                                                          /\ target'[v] = target[v]
      BY <1>2, <1>3 DEF Shapes, QueueShapes, EdgeShapes
    <2>. QED BY <1>3, <2>1, <2>2, LabelsAre DEF Shapes, PlaceShapes, Workers
  <1>. QED BY <1>3, <1>4, <1>5, <1>6, SameShapes DEF Shapes

LEMMA StepShapes ==
  ASSUME Shapes, NEW w \in Workers, Work(w)
  PROVE  Shapes'
  <1> USE DEF Shapes
  <1>1. CASE Moves(w)
    BY <1>1, MovesShapes
  <1>2. CASE Pops(w)
    BY <1>2, PopsGo, PopShapes, LabelsAre
  <1>3. CASE Flushes(w)
    BY <1>3, FlushesGo, FlushShapes, LabelsAre DEF PlaceShapes
  <1>4. CASE Syncs(w)
    BY <1>4, SyncShapes
  <1>5. CASE Edge(w) \/ Push(w)
    BY <1>5, EdgeShape, PushShape
  <1>6. CASE SkipEdges(w)
    <2>1. EdgeShapes'
      BY <1>6 DEF SkipEdges, EdgeShapes, Workers
    <2>2. UNCHANGED <<pc, problem, arrived, target, outgoing>>
      BY <1>6 DEF SkipEdges, chunkVars
    <2>3. PlaceShapes'
      BY <2>2, NoMoveStep
    <2>. QED BY <1>6, <2>1, <2>3, SameShapes DEF SkipEdges
  <1>8. CASE Interrupt(w)
    <2>1. StopShapes'
      BY <1>8 DEF Interrupt, StopShapes, Workers
    <2>2. UNCHANGED <<pc, problem, arrived, target, outgoing>>
      BY <1>8 DEF Interrupt, chunkVars, edgeVars
    <2>3. PlaceShapes'
      BY <2>2, NoMoveStep
    <2>. QED BY <1>8, <2>1, <2>3, SameShapes DEF Interrupt
  <1>9. CASE Clear(w)
    <2>1. QueueShapes' /\ EdgeShapes'
      BY <1>9, EmptyFacts DEF Clear, QueueShapes, EdgeShapes, Workers
    <2>2. /\ pc' = [pc EXCEPT ![w] = "reset"] /\ arrived' \subseteq Workers
          /\ \A v \in Workers \ {w} : target'[v] = target[v] /\ outgoing'[v] = outgoing[v]
      BY <1>9 DEF Clear, Goto, PlaceShapes, QueueShapes
    <2>3. PlaceShapes'
      BY <1>9, <2>2, PlaceStep, LabelsAre DEF Clear
    <2>. QED BY <1>9, <2>1, <2>3, SameShapes DEF Clear
  <1>10. CASE ResetCounter(w)
    <2>1. /\ pc' = [pc EXCEPT ![w] = ret[w]] /\ arrived' \subseteq Workers
          /\ ret[w] \in Labels \ {"push", "flush"} /\ UNCHANGED <<target, outgoing>>
      BY <1>10, LabelsAre DEF ResetCounter, Goto, PlaceShapes, StopShapes, chunkVars, edgeVars
    <2>2. CounterShapes'
      BY <1>10 DEF ResetCounter, CounterShapes, Workers
    <2>3. PlaceShapes'
      BY <1>10, <2>1, PlaceStep DEF ResetCounter
    <2>. QED BY <1>10, <2>2, <2>3, SameShapes DEF ResetCounter
  <1>11. CASE Open(w)
    <2>1. Head(incoming[w]) \in Nodes /\ problem.succ \in [Nodes -> SUBSET Nodes]
      BY <1>11, HeadFacts, ProblemFacts DEF Open, QueueShapes, PlaceShapes
    <2>2. EdgeShapes'
      BY <1>11, <2>1 DEF Open, EdgeShapes, Workers
    <2>3. /\ pc' = [pc EXCEPT ![w] = "edges"] /\ arrived' \subseteq Workers
          /\ UNCHANGED <<target, outgoing>>
      BY <1>11 DEF Open, Goto, PlaceShapes, chunkVars
    <2>4. PlaceShapes'
      BY <1>11, <2>3, PlaceStep, LabelsAre DEF Open
    <2>. QED BY <1>11, <2>2, <2>4, SameShapes DEF Open
  <1>12. CASE Dead(w)
    <2>1. /\ from[w] \in Nodes /\ UNCHANGED <<target, outgoing>> /\ arrived' \subseteq Workers
          /\ \E b \in {"clear", "close"} : pc' = [pc EXCEPT ![w] = b]
      BY <1>12 DEF Dead, Goto, chunkVars, edgeVars, EdgeShapes, PlaceShapes
    <2>2. StopShapes'
      BY <1>12, <2>1 DEF Dead, StopShapes, Workers
    <2>3. PlaceShapes'
      BY <1>12, <2>1, PlaceStep, LabelsAre DEF Dead
    <2>. QED BY <1>12, <2>2, <2>3, SameShapes DEF Dead
  <1>13. CASE Close(w)
    <2>1. Tail(incoming[w]) \in Seq(Nodes)
      BY <1>13, HeadFacts DEF Close, QueueShapes
    <2>2. QueueShapes' /\ CounterShapes'
      BY <1>13, <2>1 DEF Close, QueueShapes, CounterShapes, Workers, queueVars
    <2>3. /\ pc' = [pc EXCEPT ![w] = "open"] /\ arrived' \subseteq Workers
          /\ UNCHANGED <<target, outgoing>>
      BY <1>13 DEF Close, Goto, PlaceShapes, edgeVars
    <2>4. PlaceShapes'
      BY <1>13, <2>3, PlaceStep, LabelsAre DEF Close
    <2>. QED BY <1>13, <2>2, <2>4, SameShapes DEF Close
  <1>14. CASE Restart(w)
    <2>1. /\ pc' = [pc EXCEPT ![w] = "barrier"] /\ arrived' \subseteq Workers
          /\ UNCHANGED <<target, outgoing>>
      BY <1>14 DEF Restart, Goto, PlaceShapes, chunkVars, edgeVars, Workers
    <2>2. StopShapes'
      BY <1>14 DEF Restart, StopShapes, Workers
    <2>3. PlaceShapes'
      BY <1>14, <2>1, PlaceStep, LabelsAre DEF Restart
    <2>. QED BY <1>14, <2>2, <2>3, SameShapes DEF Restart
  <1>15. CASE CheckInterrupt(w)
    <2>1. /\ \E b \in {"clear", "loop"} : pc' = [pc EXCEPT ![w] = b]
          /\ UNCHANGED <<target, outgoing>> /\ arrived' \subseteq Workers
      BY <1>15 DEF CheckInterrupt, Goto, PlaceShapes, chunkVars, edgeVars
    <2>2. StopShapes'
      BY <1>15 DEF CheckInterrupt, StopShapes, Workers
    <2>3. PlaceShapes'
      BY <1>15, <2>1, PlaceStep, LabelsAre DEF CheckInterrupt
    <2>. QED BY <1>15, <2>2, <2>3, SameShapes DEF CheckInterrupt
  <1>. QED BY WorkIs, <1>1, <1>2, <1>3, <1>4, <1>5, <1>6, <1>8, <1>9, <1>10, <1>11, <1>12,
              <1>13, <1>14, <1>15
-----------------------------------------------------------------------------
(* Where the open states are.                                              *)

LEMMA OpenIs ==
  \A n : n \in OpenStates <=> \/ \E w \in Workers : n \in In(w) \/ n \in Out(w)
                              \/ \E i \in DOMAIN chunkq : n \in Chunk(i)
  <1> SUFFICES ASSUME NEW n
               PROVE  n \in OpenStates <=> \/ \E w \in Workers : n \in In(w) \/ n \in Out(w)
                                           \/ \E i \in DOMAIN chunkq : n \in Chunk(i)
    OBVIOUS
  <1> DEFINE A == {Range(incoming[w]) \cup Range(outgoing[w]) : w \in Workers}
             B == {Range(chunkq[i]) : i \in DOMAIN chunkq}
  <1>1. n \in UNION A <=> \E w \in Workers : n \in In(w) \/ n \in Out(w)
    BY DEF In, Out
  <1>2. n \in UNION B <=> \E i \in DOMAIN chunkq : n \in Chunk(i)
    BY DEF Chunk
  <1>3. OpenStates = UNION (A \cup B)
    BY DEF OpenStates
  <1> HIDE DEF A, B
  <1>4. n \in UNION (A \cup B) <=> n \in UNION A \/ n \in UNION B
    OBVIOUS
  <1>. QED BY <1>1, <1>2, <1>3, <1>4

LEMMA OpenIsNext ==
  ASSUME problem' = problem
  PROVE  \A n : n \in OpenStates' <=> \/ \E w \in Workers : n \in In(w)' \/ n \in Out(w)'
                                      \/ \E i \in DOMAIN chunkq' : n \in Chunk(i)'
  <1>1. Workers' = Workers
    BY DEF Workers
  <1> SUFFICES ASSUME NEW n
               PROVE  n \in OpenStates' <=> \/ \E w \in Workers : n \in In(w)' \/ n \in Out(w)'
                                           \/ \E i \in DOMAIN chunkq' : n \in Chunk(i)'
    OBVIOUS
  <1> DEFINE A == {Range(incoming'[w]) \cup Range(outgoing'[w]) : w \in Workers}
             B == {Range(chunkq'[i]) : i \in DOMAIN chunkq'}
  <1>2. n \in UNION A <=> \E w \in Workers : n \in In(w)' \/ n \in Out(w)'
    BY DEF In, Out
  <1>3. n \in UNION B <=> \E i \in DOMAIN chunkq' : n \in Chunk(i)'
    BY DEF Chunk
  <1>4. OpenStates' = UNION (A \cup B)
    BY <1>1 DEF OpenStates
  <1> HIDE DEF A, B
  <1>5. n \in UNION (A \cup B) <=> n \in UNION A \/ n \in UNION B
    OBVIOUS
  <1>. QED BY <1>2, <1>3, <1>4, <1>5

\* What is in no pile that changes stays where it is.
LEMMA SamePiles ==
  ASSUME problem' = problem
  PROVE  /\ UNCHANGED <<chunkq, incoming, outgoing>> =>
              OpenStates' = OpenStates /\ NoDoubles' = NoDoubles
         /\ UNCHANGED <<queueVars, chunkVars>> =>
              OpenStates' = OpenStates /\ NoDoubles' = NoDoubles
  BY DEF OpenStates, NoDoubles, In, Out, Chunk, Workers, queueVars, chunkVars

\* A chunk is taken from the queue.
LEMMA PopPiles ==
  ASSUME Shapes, NEW w \in Workers, NEW a, NEW b, NEW c, PopChunk(w, a, b, c)
  PROVE  /\ OpenStates' \subseteq OpenStates
         /\ incoming[w] = <<>> => OpenStates' = OpenStates
         /\ incoming[w] = <<>> /\ NoDoubles => NoDoubles'
  <1>1. CASE chunkq = <<>>
    BY <1>1, SamePiles DEF PopChunk, queueVars
  <1>2. CASE chunkq # <<>>
    <2>1. /\ chunkq \in Seq(Seq(Nodes) \ {<<>>}) /\ incoming \in [Workers -> Seq(Nodes)]
          /\ incoming' = [incoming EXCEPT ![w] = Head(chunkq)] /\ chunkq' = Tail(chunkq)
          /\ UNCHANGED <<problem, outgoing>>
      BY <1>2 DEF PopChunk, Shapes, QueueShapes
    <2>0. PICK L : L = Len(chunkq)
      OBVIOUS
    <2>2. /\ L \in Nat \ {0} /\ DOMAIN chunkq = 1 .. L /\ DOMAIN chunkq' = 1 .. L - 1
          /\ \A i \in 1 .. L - 1 : chunkq'[i] = chunkq[i + 1]
          /\ incoming'[w] = chunkq[1]
          /\ \A v \in Workers \ {w} : incoming'[v] = incoming[v]
      <3>1. chunkq \in Seq(Seq(Nodes) \ {<<>>}) /\ chunkq # <<>>
        BY <1>2, <2>1
      <3>2. /\ L \in Nat \ {0} /\ DOMAIN chunkq = 1 .. L /\ DOMAIN Tail(chunkq) = 1 .. L - 1
            /\ \A i \in 1 .. L - 1 : Tail(chunkq)[i] = chunkq[i + 1]
            /\ Head(chunkq) = chunkq[1]
        BY <2>0, <3>1, HeadFacts
      <3>. QED BY <2>1, <3>2
    <2>3. /\ In(w)' = Chunk(1) /\ \A v \in Workers : Out(v)' = Out(v)
          /\ \A v \in Workers \ {w} : In(v)' = In(v)
          /\ \A i \in 1 .. L - 1 : Chunk(i)' = Chunk(i + 1) /\ i + 1 \in 1 .. L /\ i + 1 # 1
      BY <2>1, <2>2 DEF In, Out, Chunk
    <2>4. \A i \in 1 .. L : i = 1 \/ (i - 1 \in 1 .. L - 1 /\ (i - 1) + 1 = i)
      BY <2>2
    <2>5. 1 \in 1 .. L /\ Workers' = Workers
      BY <2>1, <2>2 DEF Workers
    <2>6. OpenStates' \subseteq OpenStates
      <3> SUFFICES ASSUME NEW n, n \in OpenStates' PROVE n \in OpenStates
        OBVIOUS
      <3>1. \/ \E v \in Workers : n \in In(v)' \/ n \in Out(v)'
            \/ \E i \in 1 .. L - 1 : n \in Chunk(i)'
        BY <2>1, <2>2, OpenIsNext
      <3>2. CASE \E i \in 1 .. L - 1 : n \in Chunk(i)'
        <4>1. \E i \in 1 .. L : n \in Chunk(i)
          BY <2>3, <3>2
        <4>. QED BY <2>2, <4>1, OpenIs
      <3>3. CASE \E v \in Workers : n \in In(v)' \/ n \in Out(v)'
        <4>1. \/ \E v \in Workers : n \in In(v) \/ n \in Out(v)
              \/ n \in Chunk(1)
          BY <2>3, <3>3
        <4>. QED BY <2>2, <2>5, <4>1, OpenIs
      <3>. QED BY <3>1, <3>2, <3>3
    <2>7. ASSUME incoming[w] = <<>> PROVE In(w) = {}
      BY <2>7, EmptyFacts DEF In
    <2>8. ASSUME incoming[w] = <<>> PROVE OpenStates \subseteq OpenStates'
      <3> SUFFICES ASSUME NEW n, n \in OpenStates PROVE n \in OpenStates'
        OBVIOUS
      <3>1. \/ \E v \in Workers : n \in In(v)' \/ n \in Out(v)'
            \/ \E i \in 1 .. L - 1 : n \in Chunk(i)'
        <4>1. CASE \E v \in Workers : n \in In(v) \/ n \in Out(v)
          BY <2>3, <2>7, <2>8, <4>1
        <4>2. CASE \E i \in 1 .. L : n \in Chunk(i)
          BY <2>3, <2>4, <4>2
        <4>. QED BY <2>2, <4>1, <4>2, OpenIs
      <3>. QED BY <2>1, <2>2, <3>1, OpenIsNext
    <2>9. ASSUME incoming[w] = <<>>, NoDoubles PROVE NoDoubles'
      <3>1. \A v \in Workers' : IsInjective(incoming[v])' /\ IsInjective(outgoing[v])'
        BY <2>1, <2>2, <2>5, <2>9 DEF NoDoubles
      <3>2. \A i \in DOMAIN chunkq' : IsInjective(chunkq'[i])
        BY <2>2, <2>3, <2>9 DEF NoDoubles
      <3>3. \A u, v \in Workers : /\ In(u)' \cap Out(v)' = {}
                                  /\ u # v => /\ In(u)' \cap In(v)' = {}
                                              /\ Out(u)' \cap Out(v)' = {}
        BY <2>2, <2>3, <2>5, <2>9 DEF NoDoubles
      <3>4. \A i \in 1 .. L - 1 :
              /\ \A v \in Workers : Chunk(i)' \cap In(v)' = {} /\ Chunk(i)' \cap Out(v)' = {}
              /\ \A j \in 1 .. L - 1 : i # j => Chunk(i)' \cap Chunk(j)' = {}
        <4>1. \A i, j \in 1 .. L - 1 : i # j => i + 1 # j + 1
          OBVIOUS
        <4>2. ASSUME NEW i \in 1 .. L - 1, NEW v \in Workers
              PROVE  Chunk(i)' \cap In(v)' = {} /\ Chunk(i)' \cap Out(v)' = {}
          <5>1. /\ Chunk(i)' = Chunk(i + 1) /\ i + 1 \in DOMAIN chunkq /\ i + 1 # 1
                /\ 1 \in DOMAIN chunkq /\ Out(v)' = Out(v)
                /\ In(v)' = IF v = w THEN Chunk(1) ELSE In(v)
            BY <2>2, <2>3, <2>5
          <5>. QED BY <2>9, <5>1 DEF NoDoubles
        <4>3. ASSUME NEW i \in 1 .. L - 1, NEW j \in 1 .. L - 1, i # j
              PROVE  Chunk(i)' \cap Chunk(j)' = {}
          <5>1. /\ Chunk(i)' = Chunk(i + 1) /\ i + 1 \in DOMAIN chunkq
                /\ Chunk(j)' = Chunk(j + 1) /\ j + 1 \in DOMAIN chunkq /\ i + 1 # j + 1
            BY <2>2, <2>3, <4>1, <4>3
          <5>. QED BY <2>9, <5>1 DEF NoDoubles
        <4>. QED BY <4>2, <4>3
      <3>. QED BY <2>2, <2>5, <3>1, <3>2, <3>3, <3>4 DEF NoDoubles
    <2>. QED BY <2>6, <2>8, <2>9
  <1>. QED BY <1>1, <1>2

\* A chunk is put there.
LEMMA FlushPiles ==
  ASSUME Shapes, NEW w \in Workers, NEW a, NEW b, Flush(w, a, b), outgoing[w] # <<>>
  PROVE  /\ OpenStates' = OpenStates
         /\ NoDoubles => NoDoubles'
  <1>1. /\ chunkq \in Seq(Seq(Nodes) \ {<<>>}) /\ outgoing \in [Workers -> Seq(Nodes)]
        /\ outgoing' = [outgoing EXCEPT ![w] = <<>>]
        /\ chunkq' = Append(chunkq, outgoing[w])
        /\ UNCHANGED <<problem, incoming>>
    BY DEF Flush, Shapes, QueueShapes
  <1>0. PICK L : L = Len(chunkq)
    OBVIOUS
  <1>2. /\ L \in Nat /\ DOMAIN chunkq = 1 .. L /\ DOMAIN chunkq' = 1 .. L + 1
        /\ \A i \in 1 .. L : chunkq'[i] = chunkq[i]
        /\ chunkq'[L + 1] = outgoing[w] /\ outgoing'[w] = <<>>
        /\ \A v \in Workers \ {w} : outgoing'[v] = outgoing[v]
    <2>1. outgoing[w] \in Seq(Nodes) \ {<<>>}
      BY <1>1
    <2>. QED BY <1>0, <1>1, <2>1, AppendFacts
  <1>3. /\ \A v \in Workers : In(v)' = In(v)
        /\ \A v \in Workers \ {w} : Out(v)' = Out(v)
        /\ Out(w)' = {} /\ Chunk(L + 1)' = Out(w)
        /\ \A i \in 1 .. L : Chunk(i)' = Chunk(i)
    <2>1. \A v \in Workers : In(v)' = In(v)
      BY <1>1 DEF In
    <2>2. \A v \in Workers \ {w} : Out(v)' = Out(v)
      BY <1>2 DEF Out
    <2>3. Out(w)' = {}
      BY <1>2, EmptyFacts DEF Out
    <2>4. Chunk(L + 1)' = Out(w) /\ \A i \in 1 .. L : Chunk(i)' = Chunk(i)
      BY <1>2 DEF Out, Chunk
    <2>. QED BY <2>1, <2>2, <2>3, <2>4
  <1>4. /\ L + 1 \in 1 .. L + 1 /\ L + 1 \notin 1 .. L
        /\ \A i \in 1 .. L : i \in 1 .. L + 1
        /\ \A i \in 1 .. L + 1 : i \in 1 .. L \/ i = L + 1
        /\ Workers' = Workers
    BY <1>1, <1>2 DEF Workers
  <1>5. ASSUME NEW n PROVE n \in OpenStates' <=> n \in OpenStates
    <2>1. n \in OpenStates' <=> \/ \E v \in Workers : n \in In(v)' \/ n \in Out(v)'
                                \/ \E i \in 1 .. L + 1 : n \in Chunk(i)'
      BY <1>1, <1>2, OpenIsNext
    <2>2. n \in OpenStates <=> \/ \E v \in Workers : n \in In(v) \/ n \in Out(v)
                               \/ \E i \in 1 .. L : n \in Chunk(i)
      BY <1>2, OpenIs
    <2>3. (\E i \in 1 .. L + 1 : n \in Chunk(i)')
            <=> n \in Out(w) \/ \E i \in 1 .. L : n \in Chunk(i)
      BY <1>3, <1>4
    <2>. QED BY <1>3, <2>1, <2>2, <2>3
  <1>6. ASSUME NoDoubles PROVE NoDoubles'
    <2>1. \A v \in Workers : IsInjective(incoming'[v]) /\ IsInjective(outgoing'[v])
      BY <1>1, <1>2, <1>6, EmptyFacts DEF NoDoubles
    <2>2. \A i \in 1 .. L + 1 : IsInjective(chunkq'[i])
      BY <1>2, <1>4, <1>6 DEF NoDoubles
    <2>3. \A u, v \in Workers : /\ In(u)' \cap Out(v)' = {}
                                /\ u # v => /\ In(u)' \cap In(v)' = {}
                                            /\ Out(u)' \cap Out(v)' = {}
      BY <1>3, <1>6 DEF NoDoubles
    <2>4. \A i \in 1 .. L + 1 :
            /\ \A v \in Workers : Chunk(i)' \cap In(v)' = {} /\ Chunk(i)' \cap Out(v)' = {}
            /\ \A j \in 1 .. L + 1 : i # j => Chunk(i)' \cap Chunk(j)' = {}
      <3>1. ASSUME NEW i \in 1 .. L + 1
            PROVE  \/ i \in DOMAIN chunkq /\ Chunk(i)' = Chunk(i)
                   \/ i = L + 1 /\ Chunk(i)' = Out(w)
        BY <1>2, <1>3, <1>4
      <3>2. ASSUME NEW i \in 1 .. L + 1, NEW v \in Workers
            PROVE  Chunk(i)' \cap In(v)' = {} /\ Chunk(i)' \cap Out(v)' = {}
        <4>1. In(v)' = In(v) /\ Out(v)' = IF v = w THEN {} ELSE Out(v)
          BY <1>3
        <4>. QED BY <1>6, <3>1, <4>1 DEF NoDoubles
      <3>3. ASSUME NEW i \in 1 .. L + 1, NEW j \in 1 .. L + 1, i # j
            PROVE  Chunk(i)' \cap Chunk(j)' = {}
        BY <1>6, <3>1, <3>3 DEF NoDoubles
      <3>. QED BY <3>2, <3>3
    <2>. QED BY <1>2, <1>4, <2>1, <2>2, <2>3, <2>4 DEF NoDoubles
  <1>. QED BY <1>5, <1>6
\* A state is pushed.
LEMMA PushPiles ==
  ASSUME Shapes, NEW w \in Workers, Push(w)
  PROVE  /\ OpenStates' = OpenStates \cup {target[w]}
         /\ NoDoubles /\ target[w] \notin OpenStates => NoDoubles'
  <1>1. /\ outgoing \in [Workers -> Seq(Nodes)] /\ target[w] \in Nodes
        /\ outgoing' = [outgoing EXCEPT ![w] = Append(@, target[w])]
        /\ UNCHANGED <<problem, chunkq, incoming>>
    BY DEF Push, Goto, Shapes, QueueShapes, EdgeShapes, PlaceShapes, queueVars
  <1>2. /\ \A v \in Workers : /\ In(v)' = In(v)
                              /\ Out(v)' = Out(v) \cup (IF v = w THEN {target[w]} ELSE {})
        /\ \A i \in DOMAIN chunkq : Chunk(i)' = Chunk(i)
    <2>1. outgoing'[w] = Append(outgoing[w], target[w])
      BY <1>1
    <2>2. Range(outgoing'[w]) = Range(outgoing[w]) \cup {target[w]}
      BY <1>1, <2>1, AppendFacts
    <2>3. \A v \in Workers \ {w} : outgoing'[v] = outgoing[v]
      BY <1>1
    <2>. QED BY <1>1, <2>2, <2>3 DEF In, Out, Chunk
  <1>3. ASSUME NEW n PROVE n \in OpenStates' <=> n \in OpenStates \/ n = target[w]
    <2>1. n \in OpenStates' <=> \/ \E v \in Workers : n \in In(v)' \/ n \in Out(v)'
                                \/ \E i \in DOMAIN chunkq : n \in Chunk(i)'
      BY <1>1, OpenIsNext
    <2>. QED BY <1>2, <2>1, OpenIs
  <1>4. ASSUME NoDoubles, target[w] \notin OpenStates PROVE NoDoubles'
    <2>1. /\ \A v \in Workers : target[w] \notin In(v) /\ target[w] \notin Out(v)
          /\ \A i \in DOMAIN chunkq : target[w] \notin Chunk(i)
          /\ Workers' = Workers /\ chunkq' = chunkq
      BY <1>1, <1>4, OpenIs DEF Workers
    <2>2. \A v \in Workers : IsInjective(incoming'[v]) /\ IsInjective(outgoing'[v])
      <3>1. IsInjective(outgoing[w]) /\ target[w] \notin Range(outgoing[w])
        BY <1>4, <2>1 DEF NoDoubles, Out
      <3>2. IsInjective(Append(outgoing[w], target[w]))
        BY <1>1, <3>1, AppendFacts
      <3>. QED BY <1>1, <1>4, <3>2 DEF NoDoubles
    <2>3. \A i \in DOMAIN chunkq : IsInjective(chunkq'[i])
      BY <1>4, <2>1 DEF NoDoubles
    <2>4. \A u, v \in Workers : /\ In(u)' \cap Out(v)' = {}
                                /\ u # v => /\ In(u)' \cap In(v)' = {}
                                            /\ Out(u)' \cap Out(v)' = {}
      BY <1>2, <1>4, <2>1 DEF NoDoubles
    <2>5. \A i \in DOMAIN chunkq :
            /\ \A v \in Workers : Chunk(i)' \cap In(v)' = {} /\ Chunk(i)' \cap Out(v)' = {}
            /\ \A j \in DOMAIN chunkq : i # j => Chunk(i)' \cap Chunk(j)' = {}
      BY <1>2, <1>4, <2>1 DEF NoDoubles
    <2>. QED BY <2>1, <2>2, <2>3, <2>4, <2>5 DEF NoDoubles
  <1>. QED BY <1>3, <1>4

\* A state is popped.
LEMMA ClosePiles ==
  ASSUME Shapes, NEW w \in Workers, Close(w)
  PROVE  /\ OpenStates = OpenStates' \cup {Head(incoming[w])}
         /\ NoDoubles => NoDoubles' /\ Head(incoming[w]) \notin OpenStates'
  <1> DEFINE h == Head(incoming[w])
  <1>1. /\ incoming \in [Workers -> Seq(Nodes)]
        /\ incoming[w] \in Seq(Nodes) /\ incoming[w] # <<>>
        /\ incoming' = [incoming EXCEPT ![w] = Tail(@)]
        /\ UNCHANGED <<problem, chunkq, outgoing>>
    BY DEF Close, Shapes, QueueShapes, queueVars
  <1>2. PICK x : x = h
    OBVIOUS
  <1>3. /\ \A v \in Workers : /\ Out(v)' = Out(v)
                              /\ v # w => In(v)' = In(v)
        /\ In(w) = In(w)' \cup {x}
        /\ \A i \in DOMAIN chunkq : Chunk(i)' = Chunk(i)
    <2>1. incoming'[w] = Tail(incoming[w]) /\ \A v \in Workers \ {w} : incoming'[v] = incoming[v]
      BY <1>1
    <2>2. Range(incoming[w]) = Range(Tail(incoming[w])) \cup {x}
      BY <1>1, <1>2, HeadFacts
    <2>. QED BY <1>1, <2>1, <2>2 DEF In, Out, Chunk
  <1>4. ASSUME NEW n PROVE n \in OpenStates <=> n \in OpenStates' \/ n = x
    <2>1. n \in OpenStates' <=> \/ \E v \in Workers : n \in In(v)' \/ n \in Out(v)'
                                \/ \E i \in DOMAIN chunkq : n \in Chunk(i)'
      BY <1>1, OpenIsNext
    <2>. QED BY <1>3, <2>1, OpenIs
  <1>5. ASSUME NoDoubles PROVE NoDoubles' /\ x \notin OpenStates'
    <2>1. IsInjective(Tail(incoming[w])) /\ x \notin Range(Tail(incoming[w]))
      <3>1. IsInjective(incoming[w])
        BY <1>5 DEF NoDoubles
      <3>. QED BY <1>1, <1>2, <3>1, HeadFacts
    <2>2. x \notin In(w)' /\ Workers' = Workers /\ chunkq' = chunkq
      BY <1>1, <2>1 DEF In, Workers
    <2>3. /\ \A v \in Workers : In(v)' \subseteq In(v) /\ x \notin In(v)' /\ x \notin Out(v)'
          /\ \A i \in DOMAIN chunkq : x \notin Chunk(i)'
      BY <1>3, <1>5, <2>2 DEF NoDoubles
    <2>4. x \notin OpenStates'
      BY <1>1, <2>2, <2>3, OpenIsNext
    <2>5. \A v \in Workers : IsInjective(incoming'[v]) /\ IsInjective(outgoing'[v])
      BY <1>1, <1>5, <2>1 DEF NoDoubles
    <2>6. \A i \in DOMAIN chunkq : IsInjective(chunkq'[i])
      BY <1>5, <2>2 DEF NoDoubles
    <2>7. \A u, v \in Workers : /\ In(u)' \cap Out(v)' = {}
                                /\ u # v => /\ In(u)' \cap In(v)' = {}
                                            /\ Out(u)' \cap Out(v)' = {}
      BY <1>3, <1>5, <2>3 DEF NoDoubles
    <2>8. \A i \in DOMAIN chunkq :
            /\ \A v \in Workers : Chunk(i)' \cap In(v)' = {} /\ Chunk(i)' \cap Out(v)' = {}
            /\ \A j \in DOMAIN chunkq : i # j => Chunk(i)' \cap Chunk(j)' = {}
      BY <1>3, <1>5, <2>3 DEF NoDoubles
    <2>. QED BY <2>2, <2>4, <2>5, <2>6, <2>7, <2>8 DEF NoDoubles
  <1>. QED BY <1>2, <1>4, <1>5

\* The piles are thrown away.
LEMMA ClearPiles ==
  ASSUME Shapes, NEW w \in Workers, Clear(w)
  PROVE  OpenStates' \subseteq OpenStates
  <1>1. /\ incoming' = [incoming EXCEPT ![w] = <<>>] /\ outgoing' = [outgoing EXCEPT ![w] = <<>>]
        /\ incoming \in [Workers -> Seq(Nodes)] /\ outgoing \in [Workers -> Seq(Nodes)]
        /\ chunkq' = <<>> /\ problem' = problem
    BY DEF Clear, Shapes, QueueShapes
  <1>2. /\ DOMAIN chunkq' = {}
        /\ \A v \in Workers : In(v)' \subseteq In(v) /\ Out(v)' \subseteq Out(v)
    BY <1>1, EmptyFacts DEF In, Out
  <1>. QED BY <1>1, <1>2, OpenIs, OpenIsNext
-----------------------------------------------------------------------------
(* What the workers have taken from the counter.                           *)

\* S is the stock of W.
StockOf(S, W, f) == \A x : x \in S <=> \E v \in W : x \in {v} \X (1 .. f[v])

LEMMA StockIsFinite ==
  ASSUME NEW W, IsFiniteSet(W), NEW f \in [W -> Nat], NEW S, StockOf(S, W, f)
  PROVE  IsFiniteSet(S)
  <1> DEFINE P == [v \in W |-> {v} \X (1 .. f[v])]
             Q == {P[v] : v \in W}
  <1>1. P \in Surjection(W, Q)
    BY DEF Surjection
  <1>2. IsFiniteSet(Q)
    <2>. HIDE DEF P, Q
    <2>. QED BY <1>1, FS_Surjection
  <1>3. ASSUME NEW v \in W PROVE IsFiniteSet(P[v])
    <2>1. IsFiniteSet({v}) /\ IsFiniteSet(1 .. f[v])
      <3>1. 1 \in Int /\ f[v] \in Int
        OBVIOUS
      <3>. QED BY <3>1, FS_Singleton, FS_Interval
    <2>2. IsFiniteSet({v} \X (1 .. f[v]))
      BY <2>1, FS_Product
    <2>. QED BY <2>2
  <1>4. IsFiniteSet(UNION Q)
    <2>1. \A T \in Q : IsFiniteSet(T)
      BY <1>3
    <2>. HIDE DEF Q
    <2>. QED BY <1>2, <2>1, FS_UNION
  <1>5. \A x : x \in UNION Q <=> \E v \in W : x \in {v} \X (1 .. f[v])
    OBVIOUS
  <1>6. S = UNION Q
    <2>. HIDE DEF Q
    <2>. QED BY <1>5 DEF StockOf
  <1>. QED BY <1>4, <1>6

\* What one worker has, apart from the others.
LEMMA StockIs ==
  ASSUME NEW W, IsFiniteSet(W), NEW f \in [W -> Nat], NEW w \in W, NEW V, V = W \ {w},
         NEW S, NEW R, StockOf(S, W, f), StockOf(R, V, f)
  PROVE  /\ IsFiniteSet(S) /\ IsFiniteSet(R) /\ Cardinality(R) \in Nat
         /\ Cardinality(S) = Cardinality(R) + f[w]
  <1> DEFINE A == {w} \X (1 .. f[w])
  <1>1. IsFiniteSet(S)
    BY StockIsFinite
  <1>2. S = R \cup A /\ R \cap A = {}
    BY DEF StockOf
  <1>3. IsFiniteSet(A) /\ Cardinality(A) = f[w]
    <2>1. /\ IsFiniteSet({w}) /\ Cardinality({w}) = 1
          /\ IsFiniteSet(1 .. f[w]) /\ Cardinality(1 .. f[w]) = f[w]
      <3>1. 1 \in Int /\ f[w] \in Int
        OBVIOUS
      <3>2. /\ IsFiniteSet(1 .. f[w])
            /\ Cardinality(1 .. f[w]) = IF 1 > f[w] THEN 0 ELSE f[w] - 1 + 1
        BY <3>1, FS_Interval
      <3>3. f[w] \in Nat /\ (1 > f[w] => f[w] = 0) /\ f[w] - 1 + 1 = f[w]
        OBVIOUS
      <3>. QED BY <3>2, <3>3, FS_Singleton
    <2>2. /\ IsFiniteSet({w} \X (1 .. f[w]))
          /\ Cardinality({w} \X (1 .. f[w])) = Cardinality({w}) * Cardinality(1 .. f[w])
      BY <2>1, FS_Product
    <2>3. 1 * f[w] = f[w]
      OBVIOUS
    <2>. QED BY <2>1, <2>2, <2>3
  <1> HIDE DEF A
  <1>4. IsFiniteSet(R) /\ Cardinality(R) \in Nat
    <2>1. R \in SUBSET S
      BY <1>2
    <2>. QED BY <1>1, <2>1, FS_Subset, FS_CardinalityType
  <1>5. Cardinality(S) = Cardinality(R) + Cardinality(A) - Cardinality({})
    BY <1>2, <1>3, <1>4, FS_Union
  <1>. QED BY <1>1, <1>3, <1>4, <1>5, FS_EmptySet

LEMMA StockStep ==
  ASSUME Shapes, NEW w \in Workers, NEW k \in Nat, problem' = problem,
         local' = [local EXCEPT ![w] = k]
  PROVE  /\ Cardinality(Stock) \in Nat /\ Cardinality(Stock') \in Nat
         /\ Cardinality(Stock') + local[w] = Cardinality(Stock) + k
  <1>0. PICK V : V = Workers \ {w}
    OBVIOUS
  <1> DEFINE R == UNION {{v} \X (1 .. local[v]) : v \in V}
  <1>1. /\ IsFiniteSet(Workers) /\ Workers' = Workers /\ local \in [Workers -> Nat]
        /\ local' \in [Workers -> Nat] /\ local'[w] = k
        /\ \A v \in V : local'[v] = local[v]
    BY <1>0, ProblemFacts DEF Shapes, CounterShapes, PlaceShapes, Workers
  <1>2. StockOf(Stock, Workers, local)
    BY DEF Stock, StockOf
  <1>3. StockOf(Stock', Workers', local')
    BY DEF Stock, StockOf
  <1>4. StockOf(R, V, local)
    BY DEF StockOf
  <1> HIDE DEF R
  <1>5. StockOf(R, V, local')
    BY <1>1, <1>4 DEF StockOf
  <1>6. Cardinality(Stock) = Cardinality(R) + local[w] /\ Cardinality(R) \in Nat
    <2>1. /\ IsFiniteSet(Workers) /\ local \in [Workers -> Nat] /\ w \in Workers
          /\ StockOf(Stock, Workers, local) /\ StockOf(R, V, local)
      BY <1>1, <1>2, <1>4
    <2>. QED BY ONLY <1>0, <2>1, StockIs
  <1>7. Cardinality(Stock') = Cardinality(R) + k
    <2>1. /\ IsFiniteSet(Workers) /\ local' \in [Workers -> Nat] /\ w \in Workers
          /\ StockOf(Stock', Workers, local') /\ StockOf(R, V, local')
      BY <1>1, <1>3, <1>5
    <2>2. Cardinality(Stock') = Cardinality(R) + local'[w]
      BY ONLY <1>0, <2>1, StockIs
    <2>. QED BY <1>1, <2>2
  <1>. QED BY <1>1, <1>6, <1>7
-----------------------------------------------------------------------------
(* What is held is reachable, and what is found is a target.               *)

LEMMA SameProblem ==
  ASSUME problem' = problem
  PROVE  /\ Workers' = Workers /\ Reachable' = Reachable /\ Targets' = Targets
  <1>1. Reachable' = Reachable
    BY DEF Reachable
  <1>. QED BY <1>1 DEF Targets, Workers

\* A step changes the piles in one of these ways.
LEMMA OpenGrows ==
  ASSUME Shapes, NEW w \in Workers, Work(w)
  PROVE  OpenStates' \subseteq OpenStates \/ Push(w)
  <1>1. CASE Moves(w)
    BY <1>1, MovesGo, SamePiles
  <1>2. CASE Pops(w)
    BY <1>2, PopsGo, PopPiles
  <1>3. CASE Flushes(w)
    BY <1>3, FlushesGo, FlushPiles DEF Shapes, PlaceShapes
  <1>4. CASE Syncs(w)
    BY <1>4, SyncsGo, SamePiles DEF SyncRead, SyncSwap
  <1>5. CASE Clear(w) \/ Close(w)
    BY <1>5, ClearPiles, ClosePiles
  <1>6. CASE \/ Edge(w) \/ SkipEdges(w) \/ Interrupt(w) \/ ResetCounter(w) \/ Open(w)
             \/ Dead(w) \/ Restart(w) \/ CheckInterrupt(w)
    <2>1. UNCHANGED <<problem, queueVars, chunkVars>>
      BY <1>6 DEF Edge, SkipEdges, Interrupt, ResetCounter, Open, Dead, Restart, CheckInterrupt
    <2>. QED BY <2>1, SamePiles
  <1>. QED BY WorkIs, <1>1, <1>2, <1>3, <1>4, <1>5, <1>6

LEMMA SameSound ==
  ASSUME Shapes, Sound, UNCHANGED <<problem, closed, from, todo, deadlocked, goal>>,
         OpenStates' \subseteq closed,
         \A v \in Workers : target'[v] \in {target[v], NoNode}
  PROVE  Sound'
  BY SameProblem DEF Sound

LEMMA EdgeSound ==
  ASSUME Shapes, Sound, NEW w \in Workers, Edge(w)
  PROVE  Sound'
  <1>1. PICK n \in todo[w] :
          /\ todo' = [todo EXCEPT ![w] = @ \ {n}]
          /\ closed' = closed \cup {n}
          /\ Transition(w, n, n \notin closed)
    BY DEF Edge
  <1>2. /\ deadlocked' = [deadlocked EXCEPT ![w] = FALSE]
        /\ UNCHANGED <<problem, queueVars, chunkVars, from>>
    BY DEF Edge
  <1>3. /\ n \in Reachable /\ n \in closed' /\ closed \subseteq closed'
        /\ OpenStates' = OpenStates
        /\ Targets' = Targets /\ Reachable' = Reachable /\ Workers' = Workers
    BY <1>1, <1>2, SamePiles, SameProblem DEF Sound
  <1>4. \A v \in Workers : target'[v] = target[v] \/ target'[v] = n
    BY <1>1 DEF Transition, Shapes, EdgeShapes
  <1>5. \A v \in Workers : goal'[v] = goal[v] \/ (goal'[v] = n /\ n \in Targets)
    <2>1. IsGoal(n) => n \in Targets
      BY <1>3 DEF IsGoal, Targets
    <2>. QED BY <1>1, <2>1 DEF Transition, Shapes, StopShapes, stopVars
  <1>6. ASSUME NEW v \in Workers, from[v] # NoNode
        PROVE  /\ todo'[v] \subseteq problem.succ[from[v]]
               /\ deadlocked'[v] => todo'[v] = problem.succ[from[v]]
               /\ ~deadlocked'[v] => problem.succ[from[v]] # {}
    <2>1. CASE v = w
      BY <1>1, <1>2, <1>6, <2>1 DEF Sound, Shapes, EdgeShapes
    <2>2. CASE v # w
      BY <1>1, <1>2, <1>6, <2>2 DEF Sound, Shapes, EdgeShapes
    <2>. QED BY <2>1, <2>2
  <1>7. \A v \in Workers : todo'[v] \subseteq todo[v]
    BY <1>1 DEF Shapes, EdgeShapes
  <1>. QED BY <1>1, <1>2, <1>3, <1>4, <1>5, <1>6, <1>7 DEF Sound

LEMMA StepSound ==
  ASSUME Shapes, Sound, NEW w \in Workers, Work(w)
  PROVE  Sound'
  <1>1. CASE \/ Moves(w) \/ Pops(w) \/ Flushes(w) \/ Syncs(w) \/ Interrupt(w) \/ Clear(w)
             \/ ResetCounter(w) \/ Close(w) \/ Restart(w) \/ CheckInterrupt(w)
    <2>1. UNCHANGED <<problem, closed, from, todo, deadlocked, goal, target>>
      <3>1. CASE Moves(w)
        BY <3>1, MovesGo DEF edgeVars, stopVars
      <3>2. CASE Pops(w)
        BY <3>2, PopsGo DEF PopChunk, edgeVars, stopVars
      <3>3. CASE Flushes(w)
        BY <3>3, FlushesGo DEF Flush, edgeVars, stopVars, Shapes, PlaceShapes
      <3>4. CASE Syncs(w)
        BY <3>4, SyncsGo DEF SyncRead, SyncSwap, edgeVars, stopVars
      <3>5. CASE Interrupt(w) \/ Clear(w) \/ ResetCounter(w)
        BY <3>5 DEF Interrupt, Clear, ResetCounter, edgeVars, stopVars
      <3>6. CASE Close(w) \/ Restart(w) \/ CheckInterrupt(w)
        BY <3>6 DEF Close, Restart, CheckInterrupt, edgeVars, stopVars
      <3>. QED BY <1>1, <3>1, <3>2, <3>3, <3>4, <3>5, <3>6
    <2>2. ~Push(w)
      <3>1. /\ Clear(w) \/ Close(w) \/ Flushes(w) \/ Pops(w) => pc[w] # "push"
            /\ Moves(w) \/ Syncs(w) \/ Interrupt(w) \/ ResetCounter(w) => pc[w] # "push"
            /\ Restart(w) \/ CheckInterrupt(w) => pc[w] # "push"
        BY MovesGo, PopsGo, SyncsGo
           DEF Goto, PopChunk, SyncRead, SyncSwap, Flushes, FlushFull, FlushIdle, FlushLast,
               Flush, Interrupt, Clear, ResetCounter, Close, Restart, CheckInterrupt
      <3>. QED BY <1>1, <3>1 DEF Push, Goto
    <2>. QED BY <2>1, <2>2, OpenGrows, SameSound DEF Sound
  <1>2. CASE Edge(w)
    BY <1>2, EdgeSound
  <1>3. CASE Push(w)
    <2>1. /\ UNCHANGED <<problem, closed, from, todo, deadlocked, goal>>
          /\ target' = [target EXCEPT ![w] = NoNode] /\ target[w] # NoNode
      BY <1>3 DEF Push, Goto, stopVars, Shapes, PlaceShapes
    <2>2. OpenStates' \subseteq closed
      BY <1>3, <2>1, PushPiles DEF Sound
    <2>. QED BY <2>1, <2>2, SameSound DEF Shapes, EdgeShapes
  <1>4. CASE SkipEdges(w)
    <2>1. /\ from[w] # NoNode /\ todo[w] # {} /\ todo' = [todo EXCEPT ![w] = {}]
          /\ deadlocked' = [deadlocked EXCEPT ![w] = FALSE]
          /\ UNCHANGED <<problem, closed, from, target, goal, queueVars, chunkVars>>
      BY <1>4 DEF SkipEdges, stopVars
    <2>. QED BY <2>1, SamePiles, SameProblem DEF Sound, Shapes, EdgeShapes
  <1>5. CASE Open(w)
    <2>1. PICK n : n = Head(incoming[w])
      OBVIOUS
    <2>2. n \in OpenStates /\ n \in Nodes
      BY <1>5, <2>1, HeadFacts, OpenIs DEF Open, Shapes, QueueShapes, In
    <2>3. /\ from' = [from EXCEPT ![w] = n] /\ todo' = [todo EXCEPT ![w] = problem.succ[n]]
          /\ deadlocked' = [deadlocked EXCEPT ![w] = TRUE]
          /\ UNCHANGED <<problem, closed, target, goal, queueVars, chunkVars>>
      BY <1>5, <2>1 DEF Open, stopVars
    <2>4. n \in Reachable /\ problem.succ[n] \subseteq Reachable
      BY <2>2, ReachableFacts DEF Sound, Shapes, PlaceShapes
    <2>5. /\ OpenStates' = OpenStates /\ Workers' = Workers /\ Reachable' = Reachable
          /\ Targets' = Targets
      BY <2>3, SamePiles, SameProblem
    <2>6. /\ from'[w] = n /\ todo'[w] = problem.succ[n] /\ deadlocked'[w]
          /\ \A v \in Workers \ {w} : /\ from'[v] = from[v] /\ todo'[v] = todo[v]
                                      /\ deadlocked'[v] = deadlocked[v]
      BY <2>3 DEF Shapes, EdgeShapes
    <2>. QED BY <2>3, <2>4, <2>5, <2>6 DEF Sound
  <1>6. CASE Dead(w)
    <2>1. /\ from[w] # NoNode /\ todo[w] = {}
          /\ \/ UNCHANGED goal
             \/ /\ goal' = [goal EXCEPT ![w] = from[w]]
                /\ deadlocked[w] /\ problem.property = "deadlock"
          /\ UNCHANGED <<problem, closed, from, todo, deadlocked, target, queueVars, chunkVars>>
      BY <1>6 DEF Dead, edgeVars
    <2>2. \A v \in Workers : goal'[v] = goal[v] \/ goal'[v] \in Targets
      BY <2>1 DEF Sound, Targets, Shapes, StopShapes
    <2>. QED BY <2>1, <2>2, SamePiles, SameProblem DEF Sound
  <1>. QED BY WorkIs, <1>1, <1>2, <1>3, <1>4, <1>5, <1>6
-----------------------------------------------------------------------------
(* The steps of a calm search.                                             *)

calmVars == <<problem, closed, chunkq, incoming, outgoing, shared, local, arrived,
              interrupt, axed, pending, from, todo, target, expansions>>

Around == {"open", "check", "take", "idle", "loop", "sync", "cas"}

\* A worker goes on.
CalmMove(w) ==
  /\ UNCHANGED calmVars
  /\ \/ UNCHANGED pc
     \/ Goto(w, "edges", "close") /\ from[w] # NoNode /\ todo[w] = {} /\ NoDead(from[w])
     \/ \E a, b \in Around : Goto(w, a, b)
     \/ Goto(w, "open", "openPop") /\ incoming[w] = <<>>
     \/ Goto(w, "take", "takePop") /\ incoming[w] = <<>>
     \/ Goto(w, "barrier", "loop") /\ arrived = Workers
     \/ Goto(w, "loop", "leave") /\ shared = 0
     \/ \E a, b \in Leaving : Goto(w, a, b)

\* It gets a chunk.
CalmPop(w) == \/ PopChunk(w, "openPop", "check", "open")
              \/ PopChunk(w, "takePop", "idle", "open")

\* It gives its stock back.
CalmSwap(w) ==
  /\ Goto(w, "cas", "loop") \/ Goto(w, "casLast", "done")
  /\ shared' = IF shared >= local[w] THEN shared - local[w] ELSE 0
  /\ local' = [local EXCEPT ![w] = 0]
  /\ UNCHANGED <<problem, closed, queueVars, arrived, chunkVars, edgeVars, stopVars,
                 expansions>>

\* It looks at an edge.
CalmEdge(w, n) ==
  /\ n \in todo[w] /\ pc[w] = "edges" /\ ~IsGoal(n)
  /\ todo' = [todo EXCEPT ![w] = @ \ {n}]
  /\ closed' = closed \cup {n}
  /\ IF n \notin closed
     THEN target' = [target EXCEPT ![w] = n] /\ pc' = [pc EXCEPT ![w] = "push"]
     ELSE UNCHANGED <<target, pc>>
  /\ UNCHANGED <<problem, queueVars, arrived, chunkVars, counterVars, axed, from, stopVars,
                 expansions>>

CalmSteps(w) ==
  \/ CalmMove(w) \/ CalmPop(w) \/ Flushes(w) \/ CalmSwap(w)
  \/ \E n \in Nodes : CalmEdge(w, n)
  \/ Push(w) \/ Open(w) \/ Close(w) \/ Restart(w)

LEMMA NothingFound ==
  ASSUME Found = {}, NEW w \in Workers
  PROVE  goal[w] = NoNode
  BY DEF Found

LEMMA NothingFoundNext ==
  ASSUME Found' = {}, problem' = problem, NEW w \in Workers
  PROVE  goal'[w] = NoNode
  BY DEF Found, Workers

LEMMA CalmWork ==
  ASSUME Shapes, Sound, Calm, NEW w \in Workers, Work(w), Found' = {}
  PROVE  CalmSteps(w)
  <1>1. /\ pc[w] \notin {"interrupt", "clear", "reset", "closePop"}
        /\ ~interrupt[w] /\ ~axed[w]
        /\ pc[w] = "close" => incoming[w] # <<>>
    <2>1. "close" \notin AtEdges
      BY DEF AtEdges
    <2>. QED BY <2>1 DEF Calm, NobodyStops, Positions, Position
  <1>2. CASE Moves(w)
    <2>1. UNCHANGED calmVars
      BY <1>2, MovesGo DEF calmVars, queueVars, chunkVars, counterVars, edgeVars, stopVars
    <2>2. {"open", "check", "take", "idle", "loop", "sync", "cas"} = Around
      BY DEF Around
    <2>3. {"leave", "syncLast"} \subseteq Leaving
      BY DEF Leaving
    <2>4. \/ Goto(w, "open", IF isEmpty THEN "check" ELSE "openPop") /\ incoming[w] = <<>>
          \/ Goto(w, "take", IF isEmpty THEN "idle" ELSE "takePop") /\ incoming[w] = <<>>
          \/ Goto(w, "barrier", "loop") /\ arrived = Workers
          \/ Goto(w, "loop", IF shared = 0 THEN "leave" ELSE "take")
          \/ Goto(w, "idle", "sync")
          \/ Goto(w, "leave", "syncLast")
      BY <1>1, <1>2, MovesGo DEF Goto
    <2>5. CalmMove(w)
      BY <2>1, <2>2, <2>3, <2>4 DEF CalmMove
    <2>. QED BY <2>5 DEF CalmSteps
  <1>3. CASE Pops(w)
    BY <1>1, <1>3, PopsGo DEF CalmSteps, CalmPop, PopChunk, Goto
  <1>4. CASE Flushes(w) \/ Push(w) \/ Open(w) \/ Close(w) \/ Restart(w)
    BY <1>4 DEF CalmSteps
  <1>5. CASE Syncs(w)
    <2>1. ASSUME SyncSwap(w, "cas", "loop") \/ SyncSwap(w, "casLast", "done")
          PROVE  CalmMove(w) \/ CalmSwap(w)
      <3>1. CASE shared = value[w]
        BY <2>1, <3>1 DEF SyncSwap, CalmSwap
      <3>2. CASE shared # value[w]
        <4>1. UNCHANGED calmVars /\ UNCHANGED pc
          BY <2>1, <3>2 DEF SyncSwap, calmVars, queueVars, chunkVars, edgeVars, stopVars
        <4>. QED BY <4>1 DEF CalmMove
      <3>. QED BY <3>1, <3>2
    <2>2. ASSUME SyncRead(w, "sync", "cas", "loop") \/ SyncRead(w, "syncLast", "casLast", "done")
          PROVE  CalmMove(w)
      <3>1. UNCHANGED calmVars
        BY <2>2 DEF SyncRead, calmVars, queueVars, chunkVars, edgeVars, stopVars
      <3>2. /\ {"sync", "cas", "loop"} \subseteq Around
            /\ {"syncLast", "casLast", "done"} \subseteq Leaving
        BY DEF Around, Leaving
      <3>3. \/ Goto(w, "sync", "cas") \/ Goto(w, "sync", "loop")
            \/ Goto(w, "syncLast", "casLast") \/ Goto(w, "syncLast", "done")
        BY <2>2 DEF SyncRead
      <3>. QED BY <3>1, <3>2, <3>3 DEF CalmMove
    <2>. QED BY <1>5, <2>1, <2>2, SyncsGo DEF CalmSteps
  <1>6. CASE Edge(w)
    <2>1. PICK n \in todo[w] :
            /\ todo' = [todo EXCEPT ![w] = @ \ {n}]
            /\ closed' = closed \cup {n}
            /\ Transition(w, n, n \notin closed)
      BY <1>6 DEF Edge
    <2>2. n \in Nodes /\ n # NoNode /\ problem' = problem
      BY <1>6, ProblemFacts DEF Edge, Shapes, EdgeShapes, PlaceShapes
    <2>3. ~IsGoal(n)
      <3>1. goal'[w] = NoNode
        BY <2>2, NothingFoundNext
      <3>2. IsGoal(n) => goal'[w] = n
        BY <2>1 DEF Transition, Shapes, StopShapes
      <3>. QED BY <2>2, <3>1, <3>2
    <2>4. CalmEdge(w, n)
      BY <1>6, <2>1, <2>3 DEF CalmEdge, Edge, Transition, Goto
    <2>. QED BY <2>2, <2>4 DEF CalmSteps
  <1>7. CASE Dead(w)
    <2>1. from[w] # NoNode /\ todo[w] = {} /\ problem' = problem /\ from[w] \in Nodes
      BY <1>7 DEF Dead, Shapes, EdgeShapes
    <2>2. ~(deadlocked[w] /\ problem.property = "deadlock")
      <3>1. goal'[w] = NoNode
        BY <2>1, NothingFoundNext
      <3>2. deadlocked[w] /\ problem.property = "deadlock" => goal'[w] = from[w]
        BY <1>7 DEF Dead, Shapes, StopShapes
      <3>. QED BY <2>1, <3>1, <3>2
    <2>3. NoDead(from[w])
      BY <2>1, <2>2 DEF NoDead, Sound
    <2>4. UNCHANGED calmVars /\ Goto(w, "edges", "close")
      BY <1>7, <2>2 DEF Dead, calmVars, queueVars, chunkVars, counterVars, edgeVars
    <2>5. CalmMove(w)
      BY <2>1, <2>3, <2>4 DEF CalmMove
    <2>. QED BY <2>5 DEF CalmSteps
  <1>8. CASE CheckInterrupt(w)
    <2>1. UNCHANGED calmVars /\ Goto(w, "check", "loop")
      BY <1>1, <1>8 DEF CheckInterrupt, calmVars, queueVars, chunkVars, counterVars, edgeVars
    <2>2. {"check", "loop"} \subseteq Around
      BY DEF Around
    <2>3. CalmMove(w)
      BY <2>1, <2>2 DEF CalmMove
    <2>. QED BY <2>3 DEF CalmSteps
  <1>9. CASE SkipEdges(w) \/ Interrupt(w) \/ Clear(w) \/ ResetCounter(w)
    BY <1>1, <1>9 DEF SkipEdges, Interrupt, Clear, ResetCounter, Goto
  <1>. QED BY WorkIs, <1>2, <1>3, <1>4, <1>5, <1>6, <1>7, <1>8, <1>9
\* The other workers stay where they are, and keep what they hold.
LEMMA CalmOthers ==
  ASSUME Shapes, NEW w \in Workers, CalmSteps(w)
  PROVE  /\ problem' = problem /\ Workers' = Workers
         /\ \A v \in Workers \ {w} : /\ pc'[v] = pc[v] /\ from'[v] = from[v]
                                     /\ incoming'[v] = incoming[v] /\ todo'[v] = todo[v]
                                     /\ target'[v] = target[v]
  <1> USE DEF Shapes, PlaceShapes, EdgeShapes, QueueShapes, Workers
  <1>1. CASE CalmMove(w)
    BY <1>1 DEF CalmMove, calmVars, Goto
  <1>2. CASE CalmPop(w)
    BY <1>2 DEF CalmPop, PopChunk, Goto, edgeVars
  <1>3. CASE Flushes(w)
    <2>1. \E a, b \in Labels : Flush(w, a, b)
      BY <1>3, FlushesGo DEF Labels
    <2>. QED BY <2>1 DEF Flush, Goto, edgeVars
  <1>4. CASE CalmSwap(w)
    BY <1>4 DEF CalmSwap, Goto, edgeVars, chunkVars
  <1>5. CASE \E n \in Nodes : CalmEdge(w, n)
    BY <1>5 DEF CalmEdge, chunkVars
  <1>6. CASE Push(w)
    BY <1>6 DEF Push, Goto, chunkVars
  <1>7. CASE Open(w)
    BY <1>7 DEF Open, Goto, chunkVars
  <1>8. CASE Close(w)
    BY <1>8 DEF Close, Goto, edgeVars
  <1>9. CASE Restart(w)
    BY <1>9 DEF Restart, Goto, edgeVars, chunkVars
  <1>. QED BY <1>1, <1>2, <1>3, <1>4, <1>5, <1>6, <1>7, <1>8, <1>9 DEF CalmSteps

LEMMA NobodyStopsStep ==
  ASSUME Shapes, NobodyStops, NEW w \in Workers, CalmSteps(w)
  PROVE  NobodyStops'
  <1>1. ASSUME NEW b, b \notin {"interrupt", "clear", "reset", "closePop"},
               pc' = pc \/ pc' = [pc EXCEPT ![w] = b],
               interrupt' = interrupt \/ interrupt' = [interrupt EXCEPT ![w] = FALSE],
               axed' = axed \/ axed' = [axed EXCEPT ![w] = FALSE],
               UNCHANGED <<problem, pending>>
        PROVE  NobodyStops'
    BY <1>1 DEF NobodyStops, Shapes, PlaceShapes, StopShapes, EdgeShapes, Workers
  <1>2. CASE CalmMove(w)
    <2>1. \/ pc' = pc
          \/ \E b \in Around \cup Leaving \cup {"close", "openPop", "takePop"} :
               pc' = [pc EXCEPT ![w] = b]
      BY <1>2 DEF CalmMove, Goto, Around, Leaving
    <2>2. \A b \in Around \cup Leaving \cup {"close", "openPop", "takePop"} :
            b \notin {"interrupt", "clear", "reset", "closePop"}
      BY DEF Around, Leaving
    <2>3. "open" \in Around
      BY DEF Around
    <2>. QED BY <1>1, <1>2, <2>1, <2>2, <2>3 DEF CalmMove, calmVars
  <1>3. CASE CalmPop(w)
    BY <1>1, <1>3 DEF CalmPop, PopChunk, Goto, edgeVars, stopVars
  <1>4. CASE Flushes(w)
    BY <1>1, <1>4, FlushesGo DEF Flush, Goto, edgeVars, stopVars, Shapes, PlaceShapes
  <1>5. CASE CalmSwap(w)
    BY <1>1, <1>5 DEF CalmSwap, Goto, edgeVars, stopVars
  <1>6. CASE \E n \in Nodes : CalmEdge(w, n)
    BY <1>1, <1>6 DEF CalmEdge, stopVars
  <1>7. CASE Push(w)
    <2>1. \E b \in {"flush", "edges"} : pc' = [pc EXCEPT ![w] = b]
      BY <1>7 DEF Push, Goto
    <2>. QED BY <1>1, <1>7, <2>1 DEF Push, stopVars
  <1>8. CASE Open(w)
    BY <1>1, <1>8 DEF Open, Goto, stopVars
  <1>9. CASE Close(w)
    BY <1>1, <1>9 DEF Close, Goto, edgeVars, stopVars
  <1>10. CASE Restart(w)
    BY <1>1, <1>10 DEF Restart, Goto, edgeVars
  <1>. QED BY <1>2, <1>3, <1>4, <1>5, <1>6, <1>7, <1>8, <1>9, <1>10 DEF CalmSteps
\* A worker that is not at an edge gets to another such place.
LEMMA PositionOf ==
  ASSUME Shapes, NEW w \in Workers, Position(w), UNCHANGED <<problem, arrived>>,
         NEW b, pc' = [pc EXCEPT ![w] = b], b \notin AtEdges \cup {"close"},
         pc[w] \notin AtEdges, pc[w] = "barrier" => arrived = Workers,
         b \in {"openPop", "takePop"} => incoming'[w] = <<>>
  PROVE  Position(w)'
  <1>1. pc'[w] = b /\ Workers' = Workers
    BY DEF Shapes, PlaceShapes, Workers
  <1>. QED BY <1>1 DEF Position

\* A worker that is at an edge stays there, or is done with it.
LEMMA PositionAt ==
  ASSUME Shapes, NEW w \in Workers, Position(w), UNCHANGED <<problem, arrived, from, incoming>>,
         pc[w] \in AtEdges, NEW b \in AtEdges \cup {"close"},
         pc' = pc \/ pc' = [pc EXCEPT ![w] = b], b \in AtEdges \/ from[w] # NoNode
  PROVE  Position(w)'
  <1>1. Workers' = Workers /\ (pc'[w] = pc[w] \/ pc'[w] = b) /\ pc[w] # "barrier"
    BY DEF Shapes, PlaceShapes, Workers, AtEdges
  <1>2. b # "barrier" /\ b \notin {"openPop", "takePop"}
    BY DEF AtEdges
  <1>. QED BY <1>1, <1>2 DEF Position

LEMMA PositionsStep ==
  ASSUME Shapes, Positions, NEW w \in Workers, CalmSteps(w)
  PROVE  Positions'
  <1>1. Position(w) /\ AtEdges = {"edges", "push", "flush"}
    BY DEF Positions, AtEdges
  <1>0. arrived \subseteq Workers
    BY DEF Shapes, PlaceShapes
  <1>2. /\ \A b \in Around \cup Leaving :
             b \notin AtEdges \cup {"close", "barrier", "openPop", "takePop"}
        /\ "open" \in Around /\ "check" \in Around /\ "idle" \in Around /\ "sync" \in Around
        /\ "loop" \in Around /\ "cas" \in Around
        /\ {"leave", "syncLast", "casLast", "done"} \subseteq Leaving
    BY DEF Around, Leaving, AtEdges
  <1>3. /\ arrived' = arrived \/ arrived' = arrived \cup {w}
        /\ Position(w)'
    <2>1. CASE CalmMove(w)
      <3>1. UNCHANGED <<problem, arrived, from, incoming>>
        BY <2>1 DEF CalmMove, calmVars
      <3>2. CASE UNCHANGED pc
        BY <1>1, <3>1, <3>2 DEF Position, Workers
      <3>3. CASE Goto(w, "edges", "close") /\ from[w] # NoNode
        BY <1>1, <3>1, <3>3, PositionAt DEF Goto
      <3>4. CASE \E a, b \in Around : Goto(w, a, b)
        <4>1. PICK a, b \in Around : Goto(w, a, b)
          BY <3>4
        <4>2. /\ pc[w] = a /\ pc' = [pc EXCEPT ![w] = b]
              /\ a \notin AtEdges /\ a # "barrier" /\ b \notin AtEdges \cup {"close"}
              /\ b \notin {"openPop", "takePop"}
          BY <1>2, <4>1 DEF Goto
        <4>. QED BY <1>1, <3>1, <4>2, PositionOf
      <3>5. CASE (Goto(w, "open", "openPop") \/ Goto(w, "take", "takePop")) /\ incoming[w] = <<>>
        <4>1. \E b \in {"openPop", "takePop"} : pc' = [pc EXCEPT ![w] = b]
          BY <3>5 DEF Goto
        <4>2. pc[w] \notin AtEdges /\ pc[w] # "barrier" /\ incoming'[w] = <<>>
          BY <1>1, <3>1, <3>5 DEF Goto
        <4>. QED BY <1>1, <3>1, <4>1, <4>2, PositionOf
      <3>6. CASE Goto(w, "barrier", "loop") /\ arrived = Workers
        <4>1. \E b \in {"loop"} : pc' = [pc EXCEPT ![w] = b]
          BY <3>6 DEF Goto
        <4>2. pc[w] \notin AtEdges
          BY <1>1, <3>6 DEF Goto
        <4>. QED BY <1>1, <3>1, <3>6, <4>1, <4>2, PositionOf
      <3>7. CASE Goto(w, "loop", "leave")
        <4>1. \E b \in {"leave"} : pc' = [pc EXCEPT ![w] = b]
          BY <3>7 DEF Goto
        <4>2. pc[w] \notin AtEdges /\ pc[w] # "barrier"
          BY <1>1, <3>7 DEF Goto
        <4>. QED BY <1>1, <3>1, <4>1, <4>2, PositionOf
      <3>8. CASE \E a, b \in Leaving : Goto(w, a, b)
        BY <1>1, <1>2, <3>1, <3>8, PositionOf DEF Goto
      <3>. QED BY <2>1, <3>1, <3>2, <3>3, <3>4, <3>5, <3>6, <3>7, <3>8 DEF CalmMove
    <2>2. CASE CalmPop(w)
      <3>1. /\ UNCHANGED <<problem, arrived>> /\ pc[w] \in {"openPop", "takePop"}
            /\ \E b \in {"open", "check", "idle"} : pc' = [pc EXCEPT ![w] = b]
        BY <2>2 DEF CalmPop, PopChunk, Goto
      <3>. QED BY <1>1, <3>1, PositionOf
    <2>3. CASE Flushes(w)
      <3>1. /\ UNCHANGED <<problem, arrived, from, incoming>>
            /\ \/ Goto(w, "flush", "edges") \/ Goto(w, "idle", "sync")
               \/ Goto(w, "leave", "syncLast")
        BY <2>3 DEF Flushes, FlushFull, FlushIdle, FlushLast, Flush, edgeVars
      <3>2. CASE Goto(w, "flush", "edges")
        BY <1>1, <3>1, <3>2, PositionAt DEF Goto
      <3>3. CASE Goto(w, "idle", "sync") \/ Goto(w, "leave", "syncLast")
        BY <1>1, <3>1, <3>3, PositionOf DEF Goto
      <3>. QED BY <1>0, <3>1, <3>2, <3>3
    <2>4. CASE CalmSwap(w)
      <3>1. UNCHANGED <<problem, arrived>> /\ (Goto(w, "cas", "loop") \/ Goto(w, "casLast", "done"))
        BY <2>4 DEF CalmSwap
      <3>. QED BY <1>1, <3>1, PositionOf DEF Goto
    <2>5. CASE \E n \in Nodes : CalmEdge(w, n)
      <3>1. /\ UNCHANGED <<problem, arrived, from, incoming>> /\ pc[w] = "edges"
            /\ UNCHANGED pc \/ pc' = [pc EXCEPT ![w] = "push"]
        BY <2>5 DEF CalmEdge, chunkVars
      <3>. QED BY <1>1, <3>1, PositionAt
    <2>6. CASE Push(w)
      <3>1. /\ UNCHANGED <<problem, arrived, from, incoming>> /\ pc[w] = "push"
            /\ \E b \in {"flush", "edges"} : pc' = [pc EXCEPT ![w] = b]
        BY <2>6 DEF Push, Goto
      <3>. QED BY <1>1, <3>1, PositionAt
    <2>7. CASE Open(w)
      <3>1. /\ pc[w] = "open" /\ pc'[w] = "edges" /\ incoming[w] # <<>>
            /\ from'[w] = Head(incoming[w]) /\ UNCHANGED <<problem, arrived, incoming>>
        BY <2>7 DEF Open, Goto, chunkVars, Shapes, PlaceShapes, EdgeShapes
      <3>2. w \in arrived /\ arrived = Workers /\ Workers' = Workers
        BY <1>1, <3>1 DEF Position, Workers
      <3>. QED BY <1>1, <3>1, <3>2 DEF Position
    <2>8. CASE Close(w)
      <3>1. /\ UNCHANGED <<problem, arrived>> /\ pc[w] = "close"
            /\ \E b \in {"open"} : pc' = [pc EXCEPT ![w] = b]
        BY <2>8 DEF Close, Goto
      <3>. QED BY <1>1, <3>1, PositionOf
    <2>9. CASE Restart(w)
      <3>1. pc'[w] = "barrier" /\ arrived' = arrived \cup {w} /\ problem' = problem
        BY <2>9 DEF Restart, Goto, Shapes, PlaceShapes
      <3>. QED BY <1>1, <3>1 DEF Position
    <2>. QED BY <2>1, <2>2, <2>3, <2>4, <2>5, <2>6, <2>7, <2>8, <2>9 DEF CalmSteps
  <1>4. ASSUME NEW v \in Workers, v # w PROVE Position(v)'
    <2>1. v \in arrived' <=> v \in arrived
      BY <1>3, <1>4
    <2>2. arrived = Workers => arrived' = Workers
      BY <1>3
    <2>3. /\ pc'[v] = pc[v] /\ from'[v] = from[v] /\ incoming'[v] = incoming[v]
          /\ Workers' = Workers /\ Position(v)
      BY <1>4, CalmOthers DEF Positions
    <2>. QED BY <2>1, <2>2, <2>3 DEF Position
  <1>. QED BY <1>3, <1>4, CalmOthers DEF Positions
\* The piles of a calm search.
LEMMA CalmPiles ==
  ASSUME Shapes, Positions, NoDoubles, NewTargets, NEW w \in Workers, CalmSteps(w)
  PROVE  /\ NoDoubles'
         /\ \/ OpenStates' = OpenStates /\ ~Push(w) /\ ~Close(w)
            \/ /\ Push(w) /\ target[w] # NoNode
               /\ OpenStates' = OpenStates \cup {target[w]} /\ target[w] \notin OpenStates
            \/ /\ Close(w) /\ OpenStates = OpenStates' \cup {Head(incoming[w])}
               /\ Head(incoming[w]) \notin OpenStates'
  <1>1. CASE CalmMove(w)
    <2>1. UNCHANGED <<problem, chunkq, incoming, outgoing, target, local>>
      BY <1>1 DEF CalmMove, calmVars
    <2>2. ~Push(w) /\ ~Close(w)
      <3>1. local[w] \in Nat /\ local[w] # local[w] + 1
        BY DEF Shapes, CounterShapes
      <3>2. ~Close(w)
        BY <2>1, <3>1 DEF Close, Shapes, CounterShapes
      <3>3. Push(w) => target'[w] = NoNode /\ target[w] # NoNode
        BY DEF Push, Goto, Shapes, EdgeShapes, PlaceShapes
      <3>. QED BY <2>1, <3>2, <3>3
    <2>. QED BY <2>1, <2>2, SamePiles
  <1>2. CASE CalmPop(w)
    <2>1. incoming[w] = <<>> /\ pc[w] \in {"openPop", "takePop"}
      BY <1>2 DEF CalmPop, PopChunk, Goto, Positions, Position
    <2>2. OpenStates' = OpenStates /\ NoDoubles'
      BY <1>2, <2>1, PopPiles DEF CalmPop
    <2>. QED BY <2>1, <2>2 DEF Push, Close, Goto
  <1>3. CASE Flushes(w)
    <2>1. pc[w] \in {"flush", "idle", "leave"}
      BY <1>3 DEF Flushes, FlushFull, FlushIdle, FlushLast, Flush, Goto
    <2>2. OpenStates' = OpenStates /\ NoDoubles'
      BY <1>3, FlushesGo, FlushPiles DEF Shapes, PlaceShapes
    <2>. QED BY <2>1, <2>2 DEF Push, Close, Goto
  <1>4. CASE CalmSwap(w)
    <2>1. UNCHANGED <<problem, queueVars, chunkVars>> /\ pc[w] \in {"cas", "casLast"}
      BY <1>4 DEF CalmSwap, Goto
    <2>. QED BY <2>1, SamePiles DEF Push, Close, Goto
  <1>5. CASE \E n \in Nodes : CalmEdge(w, n)
    <2>1. UNCHANGED <<problem, queueVars, chunkVars>> /\ pc[w] = "edges"
      BY <1>5 DEF CalmEdge
    <2>. QED BY <2>1, SamePiles DEF Push, Close, Goto
  <1>6. CASE Push(w)
    <2>1. target[w] # NoNode
      BY <1>6 DEF Push, Goto, Shapes, PlaceShapes
    <2>. QED BY <1>6, <2>1, PushPiles DEF NewTargets
  <1>7. CASE Open(w) \/ Restart(w)
    <2>1. UNCHANGED <<problem, queueVars, chunkVars>> /\ pc[w] \in {"open", "edges"}
      BY <1>7 DEF Open, Restart, Goto
    <2>. QED BY <2>1, SamePiles DEF Push, Close, Goto
  <1>8. CASE Close(w)
    BY <1>8, ClosePiles
  <1>. QED BY <1>1, <1>2, <1>3, <1>4, <1>5, <1>6, <1>7, <1>8 DEF CalmSteps

LEMMA NewTargetsStep ==
  ASSUME Shapes, Sound, Positions, NoDoubles, NewTargets, NEW w \in Workers, CalmSteps(w)
  PROVE  NewTargets'
  <1>1. \A v \in Workers \ {w} : target'[v] = target[v] /\ pc'[v] = pc[v]
    BY CalmOthers
  <1>2. Workers' = Workers
    BY CalmOthers
  <1>3. CASE \E n \in Nodes : CalmEdge(w, n)
    <2>1. PICK n \in Nodes : CalmEdge(w, n)
      BY <1>3
    <2>2. target[w] = NoNode /\ n # NoNode
      BY <2>1, ProblemFacts DEF CalmEdge, NewTargets, Shapes, PlaceShapes
    <2>3. OpenStates' = OpenStates
      BY <2>1, SamePiles DEF CalmEdge
    <2>4. CASE n \in closed
      BY <1>1, <1>2, <2>1, <2>2, <2>3, <2>4 DEF CalmEdge, NewTargets
    <2>5. CASE n \notin closed
      <3>1. n \notin OpenStates /\ \A v \in Workers : target[v] # n
        BY <2>2, <2>5 DEF Sound
      <3>2. target'[w] = n /\ pc'[w] = "push"
        BY <2>1, <2>5 DEF CalmEdge, Shapes, EdgeShapes, PlaceShapes
      <3>. QED BY <1>1, <1>2, <2>3, <3>1, <3>2 DEF NewTargets
    <2>. QED BY <2>4, <2>5
  <1>4. CASE Push(w)
    <2>1. target'[w] = NoNode /\ target[w] # NoNode
      BY <1>4 DEF Push, Goto, Shapes, EdgeShapes, PlaceShapes
    <2>2. OpenStates' = OpenStates \cup {target[w]}
      BY <1>4, PushPiles
    <2>. QED BY <1>1, <1>2, <2>1, <2>2 DEF NewTargets
  <1>5. CASE ~Push(w) /\ ~\E n \in Nodes : CalmEdge(w, n)
    <2>1. OpenStates' \subseteq OpenStates
      BY <1>5, CalmPiles
    <2>2. target' = target
      BY <1>5, FlushesGo DEF CalmSteps, CalmMove, calmVars, CalmPop, PopChunk, Flush, CalmSwap,
                             Open, Close, Restart, edgeVars, Shapes, PlaceShapes
    <2>3. pc[w] = "push" => pc'[w] = "push"
      <3>1. CASE CalmMove(w)
        BY <3>1 DEF CalmMove, Goto, Around, Leaving
      <3>2. CASE CalmPop(w) \/ Flushes(w) \/ CalmSwap(w) \/ Open(w) \/ Close(w) \/ Restart(w)
        BY <3>2 DEF CalmPop, PopChunk, Flushes, FlushFull, FlushIdle, FlushLast, Flush, CalmSwap,
                    Open, Close, Restart, Goto
      <3>. QED BY <1>5, <3>1, <3>2 DEF CalmSteps
    <2>4. \A v \in Workers : target'[v] = target[v] /\ (pc[v] = "push" => pc'[v] = "push")
      BY <1>1, <2>2, <2>3
    <2>. QED BY <1>2, <2>1, <2>4 DEF NewTargets
  <1>. QED BY <1>3, <1>4, <1>5
LEMMA OpenIsFinite ==
  ASSUME Shapes, Sound
  PROVE  /\ IsFiniteSet(OpenStates) /\ Cardinality(OpenStates) \in Nat
         /\ OpenStates \subseteq Nodes
  <1>1. problem \in Problems
    BY DEF Shapes, PlaceShapes
  <1>2. OpenStates \in SUBSET Nodes /\ IsFiniteSet(Nodes)
    BY <1>1, ProblemFacts DEF Sound, Shapes, EdgeShapes
  <1>. QED BY <1>2, FS_Subset, FS_CardinalityType

LEMMA ExactStep ==
  ASSUME Shapes, Sound, Sound', Shapes', Positions, NoDoubles, NewTargets, Exact,
         NEW w \in Workers, CalmSteps(w)
  PROVE  Exact'
  <1>1. /\ IsFiniteSet(OpenStates) /\ Cardinality(OpenStates) \in Nat
        /\ local \in [Workers -> Nat] /\ local[w] \in Nat /\ shared \in Nat
        /\ problem' = problem /\ Step \in Nat \ {0} /\ problem \in Problems
    BY OpenIsFinite, CalmOthers, SearchAssumption DEF Shapes, CounterShapes, PlaceShapes
  <1>2. ASSUME UNCHANGED <<local, shared>>, ~Push(w), ~Close(w) PROVE Exact'
    <2>1. Stock' = Stock
      BY <1>1, <1>2 DEF Stock, Workers
    <2>2. OpenStates' = OpenStates
      BY <1>2, CalmPiles
    <2>. QED BY <1>2, <2>1, <2>2 DEF Exact
  <1>3. CASE CalmSwap(w)
    <2>1. local' = [local EXCEPT ![w] = 0]
      BY <1>3 DEF CalmSwap
    <2>2. /\ Cardinality(Stock) \in Nat /\ Cardinality(Stock') \in Nat
          /\ Cardinality(Stock') + local[w] = Cardinality(Stock) + 0
      BY <1>1, <2>1, StockStep
    <2>3. OpenStates' = OpenStates
      BY <1>3, SamePiles DEF CalmSwap
    <2>4. shared' = IF shared >= local[w] THEN shared - local[w] ELSE 0
      BY <1>3 DEF CalmSwap
    <2>. QED BY <1>1, <2>2, <2>3, <2>4 DEF Exact
  <1>4. CASE Push(w)
    <2>1. PICK k \in Nat : k = (IF local[w] = 0 THEN Step ELSE local[w]) - 1
      BY <1>1
    <2>2. /\ local' = [local EXCEPT ![w] = k]
          /\ shared' = IF local[w] = 0 THEN shared + Step ELSE shared
      BY <1>4, <2>1 DEF Push
    <2>3. /\ Cardinality(Stock) \in Nat /\ Cardinality(Stock') \in Nat
          /\ Cardinality(Stock') + local[w] = Cardinality(Stock) + k
      BY <1>1, <2>2, StockStep
    <2>4. Cardinality(OpenStates') = Cardinality(OpenStates) + 1
      <3>1. target[w] \notin OpenStates /\ OpenStates' = OpenStates \cup {target[w]}
        <4>1. target[w] # NoNode
          BY <1>4 DEF Push, Goto, Shapes, PlaceShapes
        <4>. QED BY <1>4, <4>1, PushPiles DEF NewTargets
      <3>. QED BY <1>1, <3>1, FS_AddElement
    <2>. QED BY <1>1, <2>1, <2>2, <2>3, <2>4 DEF Exact
  <1>5. CASE Close(w)
    <2>0. PICK k \in Nat : k = local[w] + 1
      BY <1>1
    <2>1. local' = [local EXCEPT ![w] = k] /\ shared' = shared
      BY <1>5, <2>0 DEF Close
    <2>2. /\ Cardinality(Stock) \in Nat /\ Cardinality(Stock') \in Nat
          /\ Cardinality(Stock') + local[w] = Cardinality(Stock) + k
      BY <1>1, <2>1, StockStep
    <2>3. /\ Cardinality(OpenStates') \in Nat
          /\ Cardinality(OpenStates) = Cardinality(OpenStates') + 1
      <3>1. IsFiniteSet(OpenStates')
        <4>1. OpenStates' \in SUBSET OpenStates
          BY <1>5, ClosePiles
        <4>. QED BY <1>1, <4>1, FS_Subset
      <3>2. /\ OpenStates = OpenStates' \cup {Head(incoming[w])}
            /\ Head(incoming[w]) \notin OpenStates'
        BY <1>5, ClosePiles
      <3>. QED BY <3>1, <3>2, FS_AddElement, FS_CardinalityType
    <2>. QED BY <1>1, <2>0, <2>1, <2>2, <2>3 DEF Exact
  <1>6. CASE ~CalmSwap(w) /\ ~Push(w) /\ ~Close(w)
    <2>1. UNCHANGED <<local, shared>>
      BY <1>6, FlushesGo DEF CalmSteps, CalmMove, calmVars, CalmPop, PopChunk, Flush, CalmEdge,
                             Open, Restart, counterVars, Shapes, PlaceShapes
    <2>. QED BY <1>2, <1>6, <2>1
  <1>. QED BY <1>3, <1>4, <1>5, <1>6

LEMMA EndedStep ==
  ASSUME Shapes, Sound, Positions, NoDoubles, NewTargets, Exact, Ended,
         NEW w \in Workers, CalmSteps(w)
  PROVE  Ended'
  <1>1. /\ Workers' = Workers /\ \A v \in Workers \ {w} : pc'[v] = pc[v]
        /\ AtEdges = {"edges", "push", "flush"}
        /\ Leaving = {"leave", "syncLast", "casLast", "done"}
    BY CalmOthers DEF AtEdges, Leaving
  <1>2. ASSUME NEW v \in Workers, pc[v] \in Leaving PROVE OpenStates' = {}
    <2>1. OpenStates = {}
      BY <1>2 DEF Ended
    <2>2. ASSUME Push(w) PROVE FALSE
      <3>1. pc[w] = "push"
        BY <2>2 DEF Push, Goto
      <3>2. arrived = Workers
        BY <1>1, <1>2 DEF Positions, Position
      <3>3. incoming[w] # <<>> /\ incoming[w] \in Seq(Nodes)
        BY <1>1, <3>1, <3>2 DEF Positions, Position, Shapes, QueueShapes
      <3>4. In(w) # {}
        BY <3>3, EmptyFacts DEF In
      <3>. QED BY <2>1, <3>4, OpenIs
    <2>. QED BY <2>1, <2>2, CalmPiles
  <1>3. ASSUME pc'[w] \in Leaving, pc[w] \notin Leaving PROVE OpenStates' = {}
    <2>1. CASE CalmMove(w)
      <3>1. shared = 0 /\ UNCHANGED <<problem, chunkq, incoming, outgoing>>
        BY <1>1, <1>3, <2>1 DEF CalmMove, calmVars, Goto, Around, Shapes, PlaceShapes
      <3>2. Cardinality(OpenStates) = 0
        <4>1. Cardinality(Stock) \in Nat
          <5>1. IsFiniteSet(Workers) /\ local \in [Workers -> Nat]
            BY ProblemFacts DEF Shapes, CounterShapes, PlaceShapes
          <5>2. StockOf(Stock, Workers, local)
            BY DEF Stock, StockOf
          <5>. QED BY <5>1, <5>2, StockIsFinite, FS_CardinalityType
        <4>. QED BY <3>1, <4>1, OpenIsFinite DEF Exact
      <3>3. OpenStates = {}
        BY <3>2, OpenIsFinite, FS_EmptySet
      <3>. QED BY <3>1, <3>3, SamePiles
    <2>2. CASE CalmPop(w) \/ Flushes(w) \/ CalmSwap(w) \/ Open(w) \/ Close(w) \/ Restart(w)
      BY <1>1, <1>3, <2>2 DEF CalmPop, PopChunk, Flushes, FlushFull, FlushIdle, FlushLast, Flush,
                              CalmSwap, Open, Close, Restart, Goto, Shapes, PlaceShapes
    <2>3. CASE Push(w) \/ \E n \in Nodes : CalmEdge(w, n)
      BY <1>1, <1>3, <2>3 DEF Push, CalmEdge, Goto, Shapes, PlaceShapes
    <2>. QED BY <2>1, <2>2, <2>3 DEF CalmSteps
  <1>. QED BY <1>1, <1>2, <1>3 DEF Ended
-----------------------------------------------------------------------------
(* What has been explored.                                                 *)

\* A worker with a state has it at the head of its chunk.
LEMMA BusyFacts ==
  ASSUME Shapes, Positions, NoDoubles
  PROVE  /\ \A v \in Workers : Busy(v) =>
              /\ v \in arrived /\ incoming[v] # <<>> /\ from[v] = Head(incoming[v])
              /\ from[v] \in In(v) /\ from[v] \in OpenStates /\ from[v] \in Nodes
         /\ \A u, v \in Workers : u # v => In(u) \cap In(v) = {}
  <1>1. ASSUME NEW v \in Workers, Busy(v)
        PROVE  /\ v \in arrived /\ incoming[v] # <<>> /\ from[v] = Head(incoming[v])
               /\ from[v] \in In(v) /\ from[v] \in OpenStates /\ from[v] \in Nodes
    <2>1. v \in arrived /\ incoming[v] # <<>> /\ from[v] = Head(incoming[v])
      BY <1>1 DEF Busy, Positions, Position
    <2>2. incoming[v] \in Seq(Nodes)
      BY DEF Shapes, QueueShapes
    <2>3. from[v] \in In(v) /\ from[v] \in Nodes
      BY <2>1, <2>2, HeadFacts DEF In
    <2>. QED BY <2>1, <2>3, OpenIs
  <1>. QED BY <1>1 DEF NoDoubles

\* A step that changes neither the piles nor the states in hand.
LEMMA SameExplored ==
  ASSUME Shapes, Explored, NEW w \in Workers,
         UNCHANGED <<problem, closed, from, todo, target, expansions>>,
         OpenStates' = OpenStates, \A v \in Workers : Busy(v)' <=> Busy(v),
         arrived' = arrived \/ (arrived' = arrived \cup {w} /\ todo[w] = {}),
         \A v \in Workers : Busy(v) /\ pc'[v] = "close" =>
            pc[v] = "close" \/ (todo[v] = {} /\ NoDead(from[v]))
  PROVE  Explored'
  <1>1. Workers' = Workers
    BY DEF Workers
  <1>2. \A n \in Nodes : /\ Waits(n)' <=> Waits(n)
                         /\ Followed(n)' <=> Followed(n)
                         /\ NoDead(n)' <=> NoDead(n)
    BY <1>1 DEF Waits, Followed, NoDead
  <1>3. ExpandedOnce' /\ NoneForgotten' /\ NoGoal'
    BY <1>2 DEF Explored, ExpandedOnce, NoneForgotten, NoGoal
  <1>4. ASSUME NEW v \in Workers PROVE InHand(v)' /\ Initials(v)'
    <2>1. InHand(v) /\ Initials(v)
      BY DEF Explored
    <2>2. InHand(v)'
      BY <2>1 DEF InHand, NoDead
    <2>3. Initials(v)'
      BY <2>1 DEF Initials
    <2>. QED BY <2>2, <2>3
  <1>. QED BY <1>1, <1>3, <1>4 DEF Explored
LEMMA QuietExplored ==
  ASSUME Shapes, Positions, NoDoubles, NewTargets, Explored, NEW w \in Workers,
         \/ CalmMove(w) \/ CalmPop(w) \/ Flushes(w) \/ CalmSwap(w) \/ Restart(w)
  PROVE  Explored'
  <1>1. CalmSteps(w)
    BY DEF CalmSteps
  <1>2. /\ UNCHANGED <<problem, closed, from, todo, target, expansions>>
        /\ ~Push(w) /\ ~Close(w)
    <2>1. UNCHANGED <<problem, closed, from, todo, target, expansions>>
      BY FlushesGo DEF CalmMove, calmVars, CalmPop, PopChunk, Flush, CalmSwap, Restart,
                       edgeVars, Shapes, PlaceShapes
    <2>2. Push(w) => target'[w] # target[w]
      BY DEF Push, Goto, Shapes, EdgeShapes, PlaceShapes
    <2>3. CASE CalmMove(w)
      <3>1. local' = local
        BY <2>3 DEF CalmMove, calmVars
      <3>2. local[w] \in Nat /\ local[w] # local[w] + 1
        BY DEF Shapes, CounterShapes
      <3>. QED BY <2>1, <2>2, <3>1, <3>2 DEF Close, Shapes, CounterShapes
    <2>4. CASE CalmPop(w) \/ Flushes(w) \/ CalmSwap(w) \/ Restart(w)
      BY <2>1, <2>2, <2>4 DEF CalmPop, PopChunk, Flushes, FlushFull, FlushIdle, FlushLast, Flush,
                              CalmSwap, Restart, Close, Goto
    <2>. QED BY <2>1, <2>2, <2>3, <2>4
  <1>3. OpenStates' = OpenStates
    BY <1>1, <1>2, CalmPiles
  <1>4. \A v \in Workers \ {w} : pc'[v] = pc[v]
    BY <1>1, CalmOthers
  <1>5. AtEdges = {"edges", "push", "flush"}
    BY DEF AtEdges
  <1>6. /\ Busy(w)' <=> Busy(w)
        /\ arrived' = arrived \/ (arrived' = arrived \cup {w} /\ todo[w] = {})
        /\ Busy(w) /\ pc'[w] = "close" => pc[w] = "close" \/ (todo[w] = {} /\ NoDead(from[w]))
    <2>1. CASE CalmMove(w)
      <3>1. from'[w] = from[w] /\ arrived' = arrived
        BY <2>1 DEF CalmMove, calmVars
      <3>2. \/ pc'[w] = pc[w]
            \/ pc[w] = "edges" /\ pc'[w] = "close" /\ todo[w] = {} /\ NoDead(from[w])
            \/ pc[w] \notin AtEdges \cup {"close"} /\ pc'[w] \notin AtEdges \cup {"close"}
        BY <1>5, <2>1 DEF CalmMove, Goto, Around, Leaving, Shapes, PlaceShapes
      <3>. QED BY <1>5, <3>1, <3>2 DEF Busy
    <2>2. CASE CalmPop(w) \/ Flushes(w) \/ CalmSwap(w) \/ Restart(w)
      <3>1. \/ pc[w] = "flush" /\ pc'[w] = "edges"
            \/ pc[w] \notin AtEdges \cup {"close"} /\ pc'[w] \notin AtEdges \cup {"close"}
            \/ from[w] = NoNode /\ pc'[w] = "barrier"
        BY <1>5, <2>2 DEF CalmPop, PopChunk, Flushes, FlushFull, FlushIdle, FlushLast, Flush,
                          CalmSwap, Restart, Goto, Shapes, PlaceShapes
      <3>2. arrived' = arrived \/ (arrived' = arrived \cup {w} /\ todo[w] = {})
        BY <2>2, FlushesGo DEF CalmPop, PopChunk, Flush, CalmSwap, Restart, Shapes, PlaceShapes
      <3>. QED BY <1>2, <1>5, <3>1, <3>2 DEF Busy
    <2>. QED BY <2>1, <2>2
  <1>7. \A v \in Workers : Busy(v)' <=> Busy(v)
    BY <1>2, <1>4, <1>6 DEF Busy
  <1>8. \A v \in Workers : Busy(v) /\ pc'[v] = "close" =>
            pc[v] = "close" \/ (todo[v] = {} /\ NoDead(from[v]))
    BY <1>4, <1>6
  <1>. QED BY <1>2, <1>3, <1>6, <1>7, <1>8, SameExplored
LEMMA EdgeExplored ==
  ASSUME Shapes, Positions, NoDoubles, NewTargets, Explored, NEW w \in Workers,
         NEW n \in Nodes, CalmEdge(w, n)
  PROVE  Explored'
  <1>1. /\ UNCHANGED <<problem, from, expansions, arrived>> /\ OpenStates' = OpenStates
        /\ n \in todo[w] /\ ~IsGoal(n) /\ pc[w] = "edges" /\ pc'[w] \in {"edges", "push"}
        /\ closed' = closed \cup {n} /\ todo'[w] = todo[w] \ {n}
        /\ \A v \in Workers \ {w} : /\ todo'[v] = todo[v] /\ pc'[v] = pc[v]
                                    /\ target'[v] = target[v]
        /\ Workers' = Workers /\ target[w] = NoNode /\ n # NoNode
        /\ target'[w] = IF n \in closed THEN NoNode ELSE n
    BY SamePiles, ProblemFacts
       DEF CalmEdge, NewTargets, Shapes, PlaceShapes, EdgeShapes, Workers
  <1>2. \A v \in Workers : Busy(v)' <=> Busy(v)
    BY <1>1 DEF Busy, AtEdges
  <1>3. ASSUME NEW m \in Nodes, m # n
        PROVE  /\ Waits(m)' <=> Waits(m)
               /\ Followed(m)' <=> Followed(m)
    <2>1. (\E v \in Workers : target'[v] = m) <=> (\E v \in Workers : target[v] = m)
      <3>1. m # NoNode
        BY ProblemFacts DEF Shapes, PlaceShapes
      <3>. QED BY <1>1, <1>3, <3>1
    <2>2. Waits(m)' <=> Waits(m)
      BY <1>1, <1>2, <2>1 DEF Waits
    <2>3. Followed(m)' <=> Followed(m)
      BY <1>1, <1>3, <2>1 DEF Followed
    <2>. QED BY <2>2, <2>3
  <1>4. ASSUME n \in closed PROVE (Waits(n)' <=> Waits(n)) /\ (Followed(n)' <=> Followed(n))
    <2>1. \A v \in Workers : target'[v] = target[v]
      BY <1>1, <1>4
    <2>. QED BY <1>1, <1>2, <1>4, <2>1 DEF Waits, Followed
  <1>5. ASSUME n \notin closed PROVE Waits(n)' /\ ~Followed(n)'
    BY <1>1, <1>5 DEF Waits, Followed
  <1>6. ExpandedOnce'
    BY <1>1, <1>3, <1>4, <1>5 DEF Explored, ExpandedOnce
  <1>7. NoneForgotten'
    <2>1. \A m \in Nodes : Followed(m)' => Followed(m)
      BY <1>3, <1>4, <1>5
    <2>. QED BY <1>1, <2>1 DEF Explored, NoneForgotten, NoDead
  <1>8. NoGoal'
    BY <1>1 DEF Explored, NoGoal, IsGoal
  <1>9. ASSUME NEW v \in Workers PROVE InHand(v)' /\ Initials(v)'
    <2>1. closed \cup todo[v] \subseteq closed' \cup todo'[v]
      BY <1>1
    <2>2. (pc'[v] = "close" => pc[v] = "close" /\ todo'[v] = todo[v])
      BY <1>1
    <2>3. InHand(v)'
      BY <1>1, <1>2, <2>1, <2>2 DEF Explored, InHand, NoDead
    <2>4. Initials(v)'
      BY <1>1, <2>1 DEF Explored, Initials
    <2>. QED BY <2>3, <2>4
  <1>. QED BY <1>1, <1>6, <1>7, <1>8, <1>9 DEF Explored

LEMMA PushExplored ==
  ASSUME Shapes, Positions, NoDoubles, NewTargets, Explored, NEW w \in Workers, Push(w)
  PROVE  Explored'
  <1>1. /\ UNCHANGED <<problem, closed, from, todo, expansions, arrived>>
        /\ OpenStates' = OpenStates \cup {target[w]} /\ target[w] \notin OpenStates
        /\ target[w] # NoNode /\ target'[w] = NoNode
        /\ pc[w] = "push" /\ pc'[w] \in {"edges", "flush"}
        /\ \A v \in Workers \ {w} : pc'[v] = pc[v] /\ target'[v] = target[v]
        /\ Workers' = Workers
    <2>1. /\ target[w] # NoNode /\ target[w] \notin OpenStates
          /\ OpenStates' = OpenStates \cup {target[w]}
      BY CalmPiles DEF CalmSteps, Push, Goto, Close
    <2>2. \E b \in {"edges", "flush"} : pc' = [pc EXCEPT ![w] = b]
      BY DEF Push, Goto
    <2>. QED BY <2>1, <2>2 DEF Push, Goto, Shapes, PlaceShapes, EdgeShapes, Workers
  <1>2. \A v \in Workers : Busy(v)' <=> Busy(v)
    BY <1>1 DEF Busy, AtEdges
  <1>3. PICK n : n = target[w]
    OBVIOUS
  <1>4. ASSUME NEW m \in Nodes, m # n
        PROVE  /\ Waits(m)' <=> Waits(m)
               /\ Followed(m)' <=> Followed(m)
    <2>1. (\E v \in Workers : target'[v] = m) <=> (\E v \in Workers : target[v] = m)
      <3>1. m # NoNode
        BY ProblemFacts DEF Shapes, PlaceShapes
      <3>. QED BY <1>1, <1>3, <1>4, <3>1
    <2>2. m \in OpenStates' <=> m \in OpenStates
      BY <1>1, <1>3, <1>4
    <2>. QED BY <1>1, <1>2, <2>1, <2>2 DEF Waits, Followed
  <1>5. Waits(n)' /\ Waits(n) /\ ~Followed(n)'
    <2>1. \A v \in Workers : Busy(v) => from[v] # n
      BY <1>1, <1>3, BusyFacts
    <2>2. n \in OpenStates'
      BY <1>1, <1>3
    <2>. QED BY <1>1, <1>2, <1>3, <2>1, <2>2 DEF Waits, Followed
  <1>6. ExpandedOnce'
    BY <1>1, <1>4, <1>5 DEF Explored, ExpandedOnce
  <1>7. NoneForgotten'
    BY <1>1, <1>4, <1>5 DEF Explored, NoneForgotten, NoDead
  <1>8. NoGoal'
    BY <1>1 DEF Explored, NoGoal
  <1>9. ASSUME NEW v \in Workers PROVE InHand(v)' /\ Initials(v)'
    <2>1. pc'[v] = "close" => pc[v] = "close"
      BY <1>1
    <2>2. InHand(v)'
      BY <1>1, <1>2, <2>1 DEF Explored, InHand, NoDead
    <2>3. Initials(v)'
      BY <1>1 DEF Explored, Initials
    <2>. QED BY <2>2, <2>3
  <1>. QED BY <1>1, <1>6, <1>7, <1>8, <1>9 DEF Explored
LEMMA OpenExplored ==
  ASSUME Shapes, Sound, Positions, NoDoubles, NewTargets, Explored, NEW w \in Workers, Open(w)
  PROVE  Explored'
  <1>1. PICK h : h = Head(incoming[w])
    OBVIOUS
  <1>2. /\ UNCHANGED <<problem, closed, target, arrived, incoming>> /\ OpenStates' = OpenStates
        /\ pc[w] = "open" /\ pc'[w] = "edges" /\ incoming[w] # <<>>
        /\ \A v \in Workers \ {w} : pc'[v] = pc[v] /\ from'[v] = from[v] /\ todo'[v] = todo[v]
        /\ from'[w] = h /\ todo'[w] = problem.succ[h]
        /\ Workers' = Workers /\ NoNode \notin Nodes
    BY <1>1, SamePiles, ProblemFacts
       DEF Open, Goto, Shapes, PlaceShapes, EdgeShapes, Workers, chunkVars
  <1>3. h \in In(w) /\ h \in OpenStates /\ h \in Nodes /\ h \in closed /\ h # NoNode
    <2>1. incoming[w] \in Seq(Nodes)
      BY DEF Shapes, QueueShapes
    <2>2. h \in In(w) /\ h \in Nodes
      BY <1>1, <1>2, <2>1, HeadFacts DEF In
    <2>. QED BY <1>2, <2>2, OpenIs DEF Sound
  <1>4. ~Busy(w) /\ Busy(w)' /\ \A v \in Workers \ {w} : Busy(v)' <=> Busy(v)
    BY <1>2, <1>3 DEF Busy, AtEdges
  <1>5. Waits(h) /\ ~Waits(h)'
    <2>1. \A v \in Workers : Busy(v) => from[v] # h
      BY <1>3, <1>4, BusyFacts
    <2>2. \A v \in Workers : target[v] # h
      BY <1>3 DEF NewTargets
    <2>. QED BY <1>2, <1>3, <1>4, <2>1, <2>2 DEF Waits
  <1>6. \A m \in Nodes : m # h => (Waits(m)' <=> Waits(m))
    <2>1. ASSUME NEW m \in Nodes, m # h PROVE Waits(m)' <=> Waits(m)
      <3>1. (\A v \in Workers : Busy(v)' => from'[v] # m)
            <=> (\A v \in Workers : Busy(v) => from[v] # m)
        BY <1>2, <1>4, <2>1
      <3>. QED BY <1>2, <3>1 DEF Waits
    <2>. QED BY <2>1
  <1>7. ExpandedOnce'
    <2>1. expansions \in [Nodes -> Nat] /\ expansions' = [expansions EXCEPT ![h] = @ + 1]
      BY <1>1 DEF Open, Shapes, EdgeShapes
    <2>2. /\ expansions'[h] = expansions[h] + 1
          /\ \A m \in Nodes \ {h} : expansions'[m] = expansions[m]
      BY <1>3, <2>1
    <2>3. expansions[h] = 0
      BY <1>3, <1>5 DEF Explored, ExpandedOnce
    <2>4. expansions'[h] = 1
      BY <2>2, <2>3
    <2>. QED BY <1>2, <1>3, <1>5, <1>6, <2>2, <2>4 DEF Explored, ExpandedOnce
  <1>8. NoneForgotten' /\ NoGoal'
    <2>1. \A m \in Nodes : Followed(m)' => Followed(m)
      BY <1>2 DEF Followed
    <2>. QED BY <1>2, <2>1 DEF Explored, NoneForgotten, NoGoal, NoDead
  <1>9. w \in arrived
    BY <1>2 DEF Positions, Position, AtEdges
  <1>10. ASSUME NEW v \in Workers PROVE InHand(v)' /\ Initials(v)'
    <2>1. CASE v = w
      BY <1>2, <1>9, <2>1 DEF Explored, InHand, Initials
    <2>2. CASE v # w
      BY <1>2, <1>4, <2>2 DEF Explored, InHand, Initials, NoDead
    <2>. QED BY <2>1, <2>2
  <1>. QED BY <1>2, <1>7, <1>8, <1>10 DEF Explored

LEMMA CloseExplored ==
  ASSUME Shapes, Sound, Positions, NoDoubles, NewTargets, Explored, NEW w \in Workers, Close(w)
  PROVE  Explored'
  <1>1. PICK h : h = Head(incoming[w])
    OBVIOUS
  <1>2. /\ UNCHANGED <<problem, closed, target, arrived, from, todo, expansions>>
        /\ pc[w] = "close" /\ pc'[w] = "open" /\ incoming[w] # <<>>
        /\ \A v \in Workers \ {w} : pc'[v] = pc[v]
        /\ Workers' = Workers
    BY DEF Close, Goto, Shapes, PlaceShapes, Workers, edgeVars
  <1>3. OpenStates = OpenStates' \cup {h} /\ h \notin OpenStates'
    BY <1>1, ClosePiles
  <1>4. w \in arrived /\ from[w] = h /\ Busy(w) /\ h \in Nodes
    <2>1. w \in arrived
      BY <1>2 DEF Positions, Position, AtEdges
    <2>2. from[w] = h
      BY <1>1, <1>2, <2>1 DEF Positions, Position
    <2>3. incoming[w] \in Seq(Nodes)
      BY DEF Shapes, QueueShapes
    <2>4. h \in Nodes
      BY <1>1, <1>2, <2>3, HeadFacts
    <2>5. NoNode \notin Nodes
      BY ProblemFacts DEF Shapes, PlaceShapes
    <2>. QED BY <1>2, <2>1, <2>2, <2>4, <2>5 DEF Busy
  <1>5. ~Busy(w)' /\ \A v \in Workers \ {w} : Busy(v)' <=> Busy(v)
    BY <1>2 DEF Busy, AtEdges
  <1>6. ~Waits(h) /\ ~Waits(h)'
    <2>1. \A v \in Workers : target[v] # h
      <3>1. h \in OpenStates
        BY <1>3
      <3>2. h # NoNode
        BY <1>4 DEF Busy
      <3>. QED BY <3>1, <3>2 DEF NewTargets
    <2>. QED BY <1>2, <1>3, <1>4, <2>1 DEF Waits
  <1>7. ASSUME NEW m \in Nodes, m # h
        PROVE  /\ Waits(m)' <=> Waits(m)
               /\ Followed(m)' <=> Followed(m)
    <2>1. m \in OpenStates' <=> m \in OpenStates
      BY <1>3, <1>7
    <2>2. (\A v \in Workers : Busy(v)' => from'[v] # m)
            <=> (\A v \in Workers : Busy(v) => from[v] # m)
      BY <1>2, <1>4, <1>5, <1>7
    <2>. QED BY <1>2, <2>1, <2>2 DEF Waits, Followed
  <1>8. ExpandedOnce'
    BY <1>2, <1>6, <1>7 DEF Explored, ExpandedOnce
  <1>9. problem.succ[h] \subseteq closed /\ NoDead(h)
    BY <1>2, <1>4 DEF Explored, InHand
  <1>10. NoneForgotten' /\ NoGoal'
    BY <1>2, <1>7, <1>9 DEF Explored, NoneForgotten, NoGoal, NoDead
  <1>11. ASSUME NEW v \in Workers PROVE InHand(v)' /\ Initials(v)'
    <2>1. InHand(v)'
      <3>1. CASE v = w
        BY <1>5, <3>1 DEF InHand
      <3>2. CASE v # w
        BY <1>2, <1>5, <3>2 DEF Explored, InHand, NoDead
      <3>. QED BY <3>1, <3>2
    <2>2. Initials(v)'
      BY <1>2 DEF Explored, Initials
    <2>. QED BY <2>1, <2>2
  <1>. QED BY <1>2, <1>8, <1>10, <1>11 DEF Explored

LEMMA ExploredStep ==
  ASSUME Shapes, Sound, Positions, NoDoubles, NewTargets, Explored, NEW w \in Workers,
         CalmSteps(w)
  PROVE  Explored'
  BY QuietExplored, EdgeExplored, PushExplored, OpenExplored, CloseExplored DEF CalmSteps
-----------------------------------------------------------------------------
(* The invariant.                                                          *)

LEMMA CalmStep ==
  ASSUME Shapes, Shapes', Sound, Sound', Calm, NEW w \in Workers, CalmSteps(w)
  PROVE  Calm'
  <1>1. /\ NobodyStops /\ Positions /\ NoDoubles /\ NewTargets /\ Explored /\ Exact /\ Ended
    BY DEF Calm
  <1>2. NobodyStops' /\ Positions'
    BY <1>1, NobodyStopsStep, PositionsStep
  <1>3. NoDoubles' /\ NewTargets'
    BY <1>1, CalmPiles, NewTargetsStep
  <1>4. Explored' /\ Exact' /\ Ended'
    BY <1>1, ExploredStep, ExactStep, EndedStep
  <1>. QED BY <1>2, <1>3, <1>4 DEF Calm

\* What has been found is never forgotten.
LEMMA FoundStays ==
  ASSUME Shapes, NEW w \in Workers, Work(w), Found' = {}
  PROVE  Found = {}
  <1>1. \A v \in Workers : goal'[v] = goal[v] \/ goal'[v] # NoNode
    <2>1. CASE Moves(w)
      BY <2>1, MovesGo DEF stopVars
    <2>2. CASE Pops(w)
      BY <2>2, PopsGo DEF PopChunk, stopVars
    <2>3. CASE Flushes(w)
      BY <2>3, FlushesGo DEF Flush, stopVars, Shapes, PlaceShapes
    <2>4. CASE Syncs(w)
      BY <2>4, SyncsGo DEF SyncRead, SyncSwap, stopVars
    <2>5. CASE \/ SkipEdges(w) \/ Push(w) \/ Interrupt(w) \/ Clear(w) \/ ResetCounter(w) \/ Open(w)
               \/ Close(w) \/ Restart(w) \/ CheckInterrupt(w)
      BY <2>5 DEF SkipEdges, Push, Interrupt, Clear, ResetCounter, Open, Close, Restart,
                  CheckInterrupt, stopVars
    <2>6. CASE Edge(w)
      <3>1. PICK n \in todo[w] : Transition(w, n, n \notin closed)
        BY <2>6 DEF Edge
      <3>2. n # NoNode
        BY ProblemFacts DEF Shapes, EdgeShapes, PlaceShapes
      <3>. QED BY <3>1, <3>2 DEF Transition, stopVars, Shapes, StopShapes
    <2>7. CASE Dead(w)
      BY <2>7 DEF Dead, Shapes, StopShapes
    <2>. QED BY WorkIs, <2>1, <2>2, <2>3, <2>4, <2>5, <2>6, <2>7
  <1>2. problem' = problem
    BY MovesGo, PopsGo, FlushesGo, SyncsGo, WorkIs
       DEF PopChunk, Flush, SyncRead, SyncSwap, Edge, SkipEdges, Push, Interrupt, Clear,
           ResetCounter, Open, Dead, Close, Restart, CheckInterrupt, Shapes, PlaceShapes
  <1>3. \A v \in Workers : goal'[v] = NoNode
    BY <1>2, NothingFoundNext
  <1>. QED BY <1>1, <1>3 DEF Found

LEMMA InitIInv == Init => IInv
  <1> SUFFICES ASSUME Init PROVE IInv
    OBVIOUS
  <1> USE DEF Init
  <1>1. problem \in Problems
    OBVIOUS
  <1>2. /\ problem.initials \subseteq Nodes /\ NoNode \notin Nodes
        /\ FirstChunk \in FirstChunk .. MaxChunk
        /\ problem.initials \subseteq Reachable
    BY <1>1, ProblemFacts, ReachableFacts
  <1>3. Shapes
    <2>1. "edges" \in Labels
      BY DEF Labels
    <2>. QED BY <1>1, <1>2, <2>1, EmptyFacts
             DEF Shapes, QueueShapes, CounterShapes, EdgeShapes, StopShapes, PlaceShapes
  <1>4. /\ OpenStates = {} /\ DOMAIN chunkq = {}
        /\ \A w \in Workers : In(w) = {} /\ Out(w) = {}
    <2>1. DOMAIN chunkq = {} /\ \A w \in Workers : In(w) = {} /\ Out(w) = {}
      BY EmptyFacts DEF In, Out
    <2>. QED BY <2>1, OpenIs
  <1>5. Sound
    BY <1>2, <1>4 DEF Sound
  <1>6. Stock = {}
    <2>1. \A w \in Workers : 1 .. local[w] = {}
      OBVIOUS
    <2>. QED BY <2>1 DEF Stock
  <1>7. NobodyStops /\ Positions /\ Ended
    BY DEF NobodyStops, Positions, Position, Ended, AtEdges, Leaving
  <1>8. NoDoubles
    BY <1>4, EmptyFacts DEF NoDoubles
  <1>9. NewTargets
    BY DEF NewTargets
  <1>10. Explored
    <2>1. \A w \in Workers : ~Busy(w) /\ w \notin arrived /\ todo[w] = problem.initials
      BY DEF Busy
    <2>. QED BY <2>1 DEF Explored, ExpandedOnce, NoneForgotten, NoGoal, InHand, Initials, Followed
  <1>11. Exact
    BY <1>4, <1>6, FS_EmptySet DEF Exact
  <1>. QED BY <1>3, <1>5, <1>7, <1>8, <1>9, <1>10, <1>11 DEF IInv, Calm

LEMMA SameIInv ==
  ASSUME IInv, UNCHANGED vars
  PROVE  IInv'
  <1> USE DEF vars, queueVars, chunkVars, counterVars, edgeVars, stopVars
  <1>1. problem' = problem /\ Workers' = Workers
    BY DEF Workers
  <1>2. Shapes'
    <2>1. PlaceShapes'
      BY <1>1, NoMoveStep DEF IInv
    <2>. QED BY <1>1, <2>1, SameShapes DEF IInv, Shapes
  <1>3. OpenStates' = OpenStates /\ NoDoubles' = NoDoubles /\ Found' = Found /\ Stock' = Stock
    BY <1>1, SamePiles DEF Found, Stock
  <1>4. Sound'
    BY <1>1, <1>3, SameSound DEF IInv, Sound
  <1>5. ASSUME Calm PROVE Calm'
    <2>1. \A v \in Workers : Busy(v)' <=> Busy(v)
      BY DEF Busy
    <2>2. NobodyStops' /\ Positions' /\ Ended'
      BY <1>1, <1>3, <1>5 DEF Calm, NobodyStops, Positions, Position, Ended
    <2>3. NoDoubles' /\ NewTargets' /\ Exact'
      BY <1>1, <1>3, <1>5 DEF Calm, NewTargets, Exact
    <2>4. Explored'
      <3>1. PICK w : w \in Workers
        BY ProblemFacts DEF IInv, Shapes, PlaceShapes
      <3>2. Explored /\ Shapes
        BY <1>5 DEF Calm, IInv
      <3>. QED BY <1>3, <2>1, <3>1, <3>2, SameExplored
    <2>. QED BY <2>2, <2>3, <2>4 DEF Calm
  <1>. QED BY <1>2, <1>3, <1>4, <1>5 DEF IInv

LEMMA NextIInv == IInv /\ [Next]_vars => IInv'
  <1> SUFFICES ASSUME IInv, [Next]_vars PROVE IInv'
    OBVIOUS
  <1>1. CASE UNCHANGED vars
    BY <1>1, SameIInv
  <1>2. ASSUME NEW w \in Workers, Work(w) PROVE IInv'
    <2>1. Shapes' /\ Sound'
      BY <1>2, StepShapes, StepSound DEF IInv
    <2>2. ASSUME Found' = {} PROVE Calm'
      <3>1. Calm
        BY <1>2, <2>2, FoundStays DEF IInv
      <3>2. CalmSteps(w)
        BY <1>2, <2>2, <3>1, CalmWork DEF IInv
      <3>. QED BY <2>1, <3>1, <3>2, CalmStep DEF IInv
    <2>. QED BY <2>1, <2>2 DEF IInv
  <1>. QED BY <1>1, <1>2 DEF Next, Finished

LEMMA Invariance == Spec => []IInv
  BY InitIInv, NextIInv, PTL DEF Spec
-----------------------------------------------------------------------------
(* What follows.                                                           *)

\* When a worker has left a calm search, nobody has anything left to do.
LEMMA EndIs ==
  ASSUME Shapes, Sound, Calm, NEW w \in Workers, pc[w] \in Leaving
  PROVE  /\ OpenStates = {} /\ closed = Reachable
         /\ \A n \in Reachable : expansions[n] = 1 /\ Followed(n)
  <1>1. /\ OpenStates = {} /\ Positions /\ NewTargets /\ Explored /\ NoDoubles
        /\ AtEdges = {"edges", "push", "flush"}
        /\ Leaving = {"leave", "syncLast", "casLast", "done"}
    BY DEF Calm, Ended, AtEdges, Leaving
  <1>2. arrived = Workers
    BY <1>1 DEF Positions, Position
  <1>3. ASSUME NEW v \in Workers PROVE pc[v] \notin AtEdges \cup {"close"}
    <2>1. pc[v] \in AtEdges \cup {"close"} => incoming[v] # <<>>
      BY <1>1, <1>2 DEF Positions, Position
    <2>2. incoming[v] # <<>> => In(v) # {}
      BY EmptyFacts DEF In, Shapes, QueueShapes
    <2>. QED BY <1>1, <2>1, <2>2, OpenIs
  <1>4. \A v \in Workers : target[v] = NoNode
    BY <1>1, <1>3 DEF NewTargets
  <1>5. closed \subseteq Reachable /\ Reachable \subseteq Nodes /\ NoNode \notin Nodes
    BY ReachableFacts, ProblemFacts DEF Sound, Shapes, PlaceShapes
  <1>6. \A n \in closed : Followed(n) /\ ~Waits(n)
    BY <1>1, <1>4, <1>5 DEF Followed, Waits
  <1>7. Reachable \subseteq closed
    <2>1. problem.initials \subseteq closed
      BY <1>1, <1>2 DEF Explored, Initials
    <2>2. \A n \in closed : problem.succ[n] \subseteq closed
      BY <1>1, <1>5, <1>6 DEF Explored, NoneForgotten
    <2>. QED BY <1>5, <2>1, <2>2, ReachableFacts DEF Shapes, PlaceShapes
  <1>8. \A n \in closed : expansions[n] = 1
    BY <1>1, <1>5, <1>6 DEF Explored, ExpandedOnce
  <1>. QED BY <1>1, <1>5, <1>6, <1>7, <1>8

\* Every variable keeps its type.
THEOREM Types == Spec => []TypeOK
  <1>1. IInv => TypeOK
    BY ShapesAreTypes DEF IInv
  <1>. QED BY <1>1, Invariance, PTL

\* Until a terminate() resets it, the shared counter is the number of the open
\* states and of what the workers have in stock (bricks/brick-shmem.h:185),
\* however many they are and whatever they do at once.
THEOREM ExactCounter == Spec => []CounterIsExact
  <1>1. IInv => CounterIsExact
    BY DEF IInv, Calm, Exact, CounterIsExact
  <1>. QED BY <1>1, Invariance, PTL

\* No worker leaves the loop of visitor.h:442-456 while there is anything left
\* to do: what it leaves has been explored, each state once.
THEOREM NoEarlyEnd == Spec => []NoPrematureEnd
  <1>1. IInv => NoPrematureEnd
    BY EndIs DEF IInv, NoPrematureEnd, Leaving
  <1>. QED BY <1>1, Invariance, PTL

\* The answer of reachability.h:222-237 is right, for any graph.
THEOREM RightVerdict == Spec => []Verdict
  <1>1. IInv => Verdict
    <2> SUFFICES ASSUME IInv PROVE Verdict
      OBVIOUS
    <2>1. Found \subseteq Targets
      BY DEF IInv, Sound, Found
    <2>2. ASSUME AllDone, Found = {} PROVE Targets = {}
      <3>1. PICK w \in Workers : pc[w] \in Leaving
        BY <2>2, ProblemFacts DEF AllDone, Leaving, IInv, Shapes, PlaceShapes
      <3>2. /\ closed = Reachable /\ \A n \in Reachable : Followed(n)
            /\ Reachable \subseteq Nodes
        BY <2>2, <3>1, EndIs, ReachableFacts DEF IInv, Shapes, PlaceShapes
      <3>3. NoGoal /\ NoneForgotten /\ problem.property \in {"goal", "deadlock"}
        BY <2>2, ProblemFacts DEF IInv, Calm, Explored, Shapes, PlaceShapes
      <3>. QED BY <3>2, <3>3 DEF Targets, NoGoal, NoneForgotten, NoDead
    <2>. QED BY <2>1, <2>2 DEF Verdict
  <1>. QED BY <1>1, Invariance, PTL
=============================================================================
