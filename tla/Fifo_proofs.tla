------------------------------ MODULE Fifo_proofs ------------------------------
(***************************************************************************)
(* Proofs about the lock-free list of blocks, for blocks of any size and   *)
(* any number of elements: no block is used after it has been deleted,     *)
(* front() returns the oldest element that has not been popped, and the    *)
(* list implements a queue.                                                *)
(*                                                                         *)
(* The elements are the numbers of their pushes, so that the place of each *)
(* is known: the one after Base(i) is the first of node i.                 *)
(***************************************************************************)
EXTENDS Fifo, SequenceTheorems, WellFoundedInduction, TLAPS

\* How many elements are in the nodes before the i-th.
Base(i) == (i - 1) * NodeSize

\* How many elements have been stored in a node; of the last one, write has not
\* been advanced yet.
Stored(i) == IF i < t THEN NodeSize
             ELSE nodes[i].write + (IF wpc = "advance" THEN 1 ELSE 0)

\* The writer is at the last node, and the tail there or one node before.
AtTheTail ==
  /\ t = Len(nodes) /\ tail \in {t - 1, t} /\ tail >= 1
  /\ wpc = "idle" => tail = t
  /\ wpc \in {"link", "publish"} => tail = t - 1

\* All nodes but the last are full; the last has an element when it is linked.
NodesAreFull ==
  /\ \A i \in 1 .. t - 1 : nodes[i].write = NodeSize
  /\ wpc = "advance" => nodes[t].write < NodeSize
  /\ t > 1 /\ (wpc # "advance" \/ tail = t) => nodes[t].write >= 1

\* The nodes up to the tail are linked in the order of their allocation.
NodesAreLinked ==
  /\ \A i \in 1 .. tail - 1 : nodes[i].next = i + 1
  /\ wpc = "publish" => nodes[tail].next = t

\* Every element is in its place.
ElementsAreInOrder ==
  /\ pushes = Base(t) + Stored(t)
  /\ \A i \in 1 .. t : \A j \in 1 .. Stored(i) : nodes[i].buffer[j] = Base(i) + j

WriterInv == AtTheTail /\ NodesAreFull /\ NodesAreLinked /\ ElementsAreInOrder

\* The reader has deleted the nodes before the head, and is not past the tail.
HeadAndDeleted ==
  /\ head \in 1 .. tail /\ deleted = 1 .. head - 1
  /\ \A i \in head + 1 .. t : nodes[i].read = 0

\* What it has popped is what it has read; a pop at the edge of a node goes one
\* too far there, and only when there is another node.
PopsAreReads ==
  /\ pops = Base(head) + (IF nodes[head].read > NodeSize THEN NodeSize ELSE nodes[head].read)
  /\ IF nodes[head].read > NodeSize
     THEN rpc \in {"edge", "beyond"} /\ head < tail
     ELSE nodes[head].read <= nodes[head].write

\* There is something for the reader to take whenever it goes on to take it.
ThereIsSomething ==
  /\ rpc = "some" => head < tail \/ nodes[head].read < nodes[head].write
  /\ rpc \in {"front", "pop", "again"} => nodes[head].read < nodes[head].write
  /\ rpc = "pop" => last = pops + 1

ReaderInv == HeadAndDeleted /\ PopsAreReads /\ ThereIsSomething

\* The inductive invariant.
FifoInv == TypeOK /\ WriterInv /\ ReaderInv

-----------------------------------------------------------------------------
LEMMA BaseSteps ==
  /\ Base(1) = 0
  /\ \A i \in Nat \ {0} : Base(i) \in Nat /\ Base(i + 1) = Base(i) + NodeSize
  <1>1. NodeSize \in Nat
    BY FifoAssumption
  <1>2. ASSUME NEW i \in Nat \ {0}
        PROVE  Base(i) \in Nat /\ Base(i + 1) = Base(i) + NodeSize
    <2>1. i - 1 \in Nat
      OBVIOUS
    <2>2. \A a, b \in Nat : a * b \in Nat /\ (a + 1) * b = a * b + b
      OBVIOUS
    <2>3. ((i - 1) + 1) * NodeSize = (i - 1) * NodeSize + NodeSize /\ (i + 1) - 1 = (i - 1) + 1
      BY <1>1, <2>1, <2>2
    <2>. QED BY <1>1, <2>1, <2>2, <2>3 DEF Base
  <1>3. Base(1) = 0
    BY <1>1 DEF Base
  <1>. QED BY <1>2, <1>3

\* The nodes as the invariants speak of them.
LEMMA NodesAreNodes ==
  ASSUME TypeOK, AtTheTail
  PROVE  /\ NodeSize \in Nat \ {0} /\ t \in Nat \ {0} /\ tail \in Nat \ {0}
         /\ \A i \in 1 .. t :
              /\ nodes[i] \in NodeType
              /\ nodes[i].read \in Nat /\ nodes[i].write \in Nat /\ nodes[i].next \in Nat
              /\ nodes[i].read <= NodeSize + 1 /\ nodes[i].write <= NodeSize
              /\ nodes[i].buffer \in [1 .. NodeSize -> 1 .. MaxPushes \cup {Nothing}]
  <1>1. Len(nodes) \in Nat /\ \A i \in 1 .. Len(nodes) : nodes[i] \in NodeType
    BY DEF TypeOK
  <1>2. NodeSize \in Nat \ {0}
    BY FifoAssumption
  <1>3. \A n \in NodeType :
          /\ n.read \in Nat /\ n.write \in Nat /\ n.next \in Nat
          /\ n.read <= NodeSize + 1 /\ n.write <= NodeSize
          /\ n.buffer \in [1 .. NodeSize -> 1 .. MaxPushes \cup {Nothing}]
    BY <1>2 DEF NodeType
  <1>4. t \in Nat \ {0} /\ tail \in Nat \ {0}
    BY <1>1 DEF AtTheTail
  <1>. QED BY <1>1, <1>2, <1>3, <1>4 DEF AtTheTail

LEMMA InitFifoInv == Init => FifoInv
  <1> SUFFICES ASSUME Init PROVE FifoInv
    OBVIOUS
  <1>1. /\ NodeSize \in Nat \ {0} /\ MaxPushes \in Nat
    BY FifoAssumption
  <1>2. /\ Blank \in NodeType /\ Blank.read = 0 /\ Blank.write = 0 /\ Blank.next = 0
    BY <1>1 DEF Blank, NodeType, Nothing, NoNext
  <1>3. nodes = <<Blank>> /\ Len(nodes) = 1 /\ nodes[1] = Blank /\ nodes \in Seq(NodeType)
        /\ DOMAIN nodes = {1}
    BY <1>2 DEF Init
  <1>4. TypeOK
    BY <1>1, <1>3 DEF Init, TypeOK, Nothing
  <1>5. WriterInv
    BY <1>1, <1>2, <1>3, BaseSteps
       DEF Init, WriterInv, AtTheTail, NodesAreFull, NodesAreLinked, ElementsAreInOrder, Stored
  <1>6. ReaderInv
    BY <1>1, <1>2, <1>3, BaseSteps
       DEF Init, ReaderInv, HeadAndDeleted, PopsAreReads, ThereIsSomething
  <1>. QED BY <1>4, <1>5, <1>6 DEF FifoInv

-----------------------------------------------------------------------------
(* The writer.                                                             *)

\* What a step of the writer leaves alone is enough for the reader.
LEMMA ReaderUndisturbed ==
  ASSUME FifoInv, UNCHANGED readerVars, AtTheTail', tail' >= tail, tail' \in Nat, t' >= t,
         \A i \in 1 .. t : /\ nodes'[i].read = nodes[i].read
                           /\ nodes'[i].write \in Nat /\ nodes'[i].write >= nodes[i].write,
         \A i \in t + 1 .. t' : nodes'[i].read = 0
  PROVE  ReaderInv'
  <1>1. /\ NodeSize \in Nat \ {0} /\ t \in Nat \ {0} /\ tail \in Nat \ {0} /\ head \in 1 .. t
        /\ t' \in Nat
        /\ \A i \in 1 .. t : nodes[i].read \in Nat /\ nodes[i].write \in Nat
    BY NodesAreNodes DEF FifoInv, WriterInv, ReaderInv, HeadAndDeleted, AtTheTail
  <1>2. /\ head' = head /\ deleted' = deleted /\ pops' = pops /\ last' = last /\ rpc' = rpc
        /\ Base(head)' = Base(head)
    BY DEF readerVars, Base
  <1>3. /\ nodes'[head].read = nodes[head].read
        /\ nodes'[head].write \in Nat /\ nodes'[head].write >= nodes[head].write
    BY <1>1
  <1>4. HeadAndDeleted'
    <2>1. head \in 1 .. tail /\ deleted = 1 .. head - 1
          /\ \A i \in head + 1 .. t : nodes[i].read = 0
      BY DEF FifoInv, ReaderInv, HeadAndDeleted
    <2>2. head' \in 1 .. tail' /\ deleted' = 1 .. head' - 1
      BY <1>1, <1>2, <2>1
    <2>3. ASSUME NEW i \in head' + 1 .. t' PROVE nodes'[i].read = 0
      <3>1. CASE i <= t
        BY <1>1, <1>2, <2>1, <2>3, <3>1
      <3>2. CASE i > t
        BY <1>1, <2>3, <3>2
      <3>. QED BY <1>1, <2>3, <3>1, <3>2
    <2>. QED BY <2>2, <2>3 DEF HeadAndDeleted
  <1>5. PopsAreReads'
    BY <1>1, <1>2, <1>3 DEF FifoInv, ReaderInv, PopsAreReads, HeadAndDeleted
  <1>6. ThereIsSomething'
    BY <1>1, <1>2, <1>3 DEF FifoInv, ReaderInv, ThereIsSomething, HeadAndDeleted
  <1>. QED BY <1>4, <1>5, <1>6 DEF ReaderInv

LEMMA PushKeeps == FifoInv /\ Push => FifoInv'
  <1> SUFFICES ASSUME FifoInv, Push PROVE FifoInv'
    OBVIOUS
  <1>1. /\ TypeOK /\ AtTheTail /\ NodesAreFull /\ NodesAreLinked /\ ElementsAreInOrder
        /\ NodeSize \in Nat \ {0} /\ t \in Nat \ {0} /\ MaxPushes \in Nat
        /\ \A i \in 1 .. t :
              /\ nodes[i] \in NodeType
              /\ nodes[i].read \in Nat /\ nodes[i].write \in Nat /\ nodes[i].next \in Nat
              /\ nodes[i].read <= NodeSize + 1 /\ nodes[i].write <= NodeSize
              /\ nodes[i].buffer \in [1 .. NodeSize -> 1 .. MaxPushes \cup {Nothing}]
    BY NodesAreNodes, FifoAssumption DEF FifoInv, WriterInv
  <1>2. /\ wpc = "idle" /\ wpc' = "advance" /\ tail' = tail /\ tail = t /\ t = Len(nodes)
        /\ pushes' = pushes + 1 /\ pushes' \in 1 .. MaxPushes /\ UNCHANGED readerVars
        /\ pushes = Base(t) + nodes[t].write
    <2>1. /\ wpc = "idle" /\ wpc' = "advance" /\ tail' = tail /\ pushes < MaxPushes
          /\ pushes' = pushes + 1 /\ UNCHANGED readerVars
      BY DEF Push
    <2>2. pushes \in Nat /\ tail = t /\ t = Len(nodes)
      BY <1>1, <2>1 DEF TypeOK, AtTheTail
    <2>3. Stored(t) = nodes[t].write
      BY <1>1, <2>1 DEF Stored
    <2>4. pushes = Base(t) + nodes[t].write
      BY <1>1, <2>2, <2>3 DEF ElementsAreInOrder
    <2>5. pushes' \in 1 .. MaxPushes
      <3>. MaxPushes \in Nat /\ pushes \in Nat /\ pushes < MaxPushes
        BY <1>1, <2>1, <2>2
      <3>. pushes' = pushes + 1
        BY <2>1
      <3>. QED OBVIOUS
    <2>. QED BY <2>1, <2>2, <2>4, <2>5
  <1> DEFINE full == nodes[tail].write = NodeSize
             n == IF full THEN Len(nodes) + 1 ELSE tail
             all == IF full THEN Append(nodes, Blank) ELSE nodes
             w == all[n].write + 1
             r == [all[n] EXCEPT !.buffer[w] = pushes']
  <1>3. /\ Blank \in NodeType /\ Blank.read = 0 /\ Blank.write = 0 /\ Blank.next = 0
        /\ Blank.buffer \in [1 .. NodeSize -> 1 .. MaxPushes \cup {Nothing}]
    BY <1>1 DEF Blank, NodeType, Nothing, NoNext
  <1>4. t' = n /\ nodes' = [all EXCEPT ![n] = r]
    BY DEF Push
  <1>5. /\ all \in Seq(NodeType) /\ Len(all) = n /\ n \in Nat \ {0} /\ n \in {t, t + 1}
        /\ \A i \in 1 .. t : all[i] = nodes[i]
        /\ n = t + 1 => all[n] = Blank /\ nodes[t].write = NodeSize
        /\ n = t => nodes[t].write < NodeSize /\ all[n] = nodes[t]
    <2>1. nodes \in Seq(NodeType) /\ Len(nodes) = t /\ nodes[t].write <= NodeSize
      BY <1>1, <1>2 DEF TypeOK
    <2>2. CASE full
      <3>1. n = t + 1 /\ all = Append(nodes, Blank) /\ nodes[t].write = NodeSize
        BY <1>2, <2>1, <2>2
      <3>2. /\ Append(nodes, Blank) \in Seq(NodeType) /\ Len(Append(nodes, Blank)) = t + 1
            /\ Append(nodes, Blank)[t + 1] = Blank
            /\ \A i \in 1 .. t : Append(nodes, Blank)[i] = nodes[i]
        BY <1>1, <1>3, <2>1
      <3> HIDE DEF full, n, all
      <3>. QED BY <1>1, <3>1, <3>2
    <2>3. CASE ~full
      BY <1>1, <1>2, <2>1, <2>3
    <2>. QED BY <2>2, <2>3
  <1>6. /\ all[n] \in NodeType /\ w \in 1 .. NodeSize /\ w = all[n].write + 1
        /\ all[n].buffer \in [1 .. NodeSize -> 1 .. MaxPushes \cup {Nothing}]
        /\ all[n].write \in Nat
    <2> HIDE DEF n, all
    <2>1. all[n] = Blank \/ (all[n] = nodes[t] /\ nodes[t].write < NodeSize)
      BY <1>5
    <2>2. CASE all[n] = Blank
      BY <1>1, <1>3, <2>2
    <2>3. CASE all[n] = nodes[t] /\ nodes[t].write < NodeSize
      <3>1. /\ nodes[t] \in NodeType /\ nodes[t].write \in Nat
            /\ nodes[t].buffer \in [1 .. NodeSize -> 1 .. MaxPushes \cup {Nothing}]
        BY <1>1
      <3>. QED BY <1>1, <2>3, <3>1
    <2>. QED BY <2>1, <2>2, <2>3
  <1>7. /\ r \in NodeType /\ r.read = all[n].read /\ r.write = all[n].write
        /\ r.next = all[n].next /\ r.buffer = [all[n].buffer EXCEPT ![w] = pushes']
    <2> HIDE DEF w, all, n
    <2>. QED BY <1>2, <1>6 DEF NodeType
  <1>8. pushes' = Base(n) + w
    <2> HIDE DEF n, all
    <2>1. w = all[n].write + 1
      OBVIOUS
    <2> HIDE DEF w
    <2>2. Base(t) \in Nat /\ Base(t + 1) = Base(t) + NodeSize
      BY <1>1, BaseSteps
    <2>3. CASE n = t
      <3>1. all[n].write = nodes[t].write /\ nodes[t].write \in Nat
        BY <1>1, <1>5, <2>3
      <3>2. pushes' = Base(t) + nodes[t].write + 1
        BY <1>2
      <3>. QED BY <2>1, <2>2, <2>3, <3>1, <3>2
    <2>4. CASE n = t + 1
      <3>1. all[n].write = 0 /\ nodes[t].write = NodeSize
        BY <1>3, <1>5, <2>4
      <3>. QED BY <1>1, <1>2, <2>1, <2>2, <2>4, <3>1
    <2>. QED BY <1>5, <2>3, <2>4
  <1> HIDE DEF r, w, all, n
  <1>9. /\ nodes' \in Seq(NodeType) /\ Len(nodes') = n /\ nodes'[n] = r
        /\ DOMAIN nodes' = 1 .. n
        /\ \A i \in 1 .. t : i # n => nodes'[i] = nodes[i]
    BY <1>4, <1>5, <1>7
  <1>10. TypeOK'
    <2>1. /\ head' \in 1 .. n /\ tail' \in 1 .. n /\ t' \in 1 .. n
          /\ deleted' \subseteq 1 .. n
      <3>1. /\ head \in 1 .. t /\ tail \in 1 .. t /\ deleted \subseteq 1 .. t
        <4>1. DOMAIN nodes = 1 .. t
          BY <1>1, <1>2
        <4>2. {head, tail, t} \subseteq DOMAIN nodes /\ deleted \subseteq DOMAIN nodes
          BY <1>1 DEF TypeOK
        <4>. QED BY <4>1, <4>2
      <3>2. /\ head' = head /\ tail' = tail /\ deleted' = deleted /\ t' = n
            /\ n \in {t, t + 1}
        BY <1>1, <1>2, <1>4, <1>5 DEF TypeOK, readerVars
      <3>. QED BY <3>1, <3>2, <1>1
    <2>2. {head', tail', t'} \subseteq 1 .. n /\ deleted' \subseteq 1 .. n
      BY <2>1
    <2>3. /\ pushes' \in 0 .. MaxPushes /\ pops' \in 0 .. MaxPushes
          /\ last' \in 1 .. MaxPushes \cup {Nothing, Empty}
          /\ rpc' \in {"idle", "compare", "some", "front", "pop", "edge", "beyond", "again"}
      BY <1>1, <1>2 DEF TypeOK, readerVars
    <2>. QED BY <1>2, <1>9, <2>1, <2>2, <2>3 DEF TypeOK
  <1>11. AtTheTail' /\ tail' >= tail /\ tail' \in Nat
    BY <1>1, <1>2, <1>4, <1>5, <1>9 DEF AtTheTail
  <1>12. NodesAreFull'
    <2>1. nodes'[n].write = all[n].write /\ all[n].write < NodeSize
      BY <1>1, <1>3, <1>5, <1>6, <1>7, <1>9
    <2>2. ASSUME NEW i \in 1 .. n - 1 PROVE nodes'[i].write = NodeSize
      <3>1. i \in 1 .. t /\ i # n
        BY <1>1, <1>5
      <3>2. nodes'[i] = nodes[i]
        BY <1>9, <3>1
      <3>3. i \in 1 .. t - 1 \/ (i = t /\ n = t + 1)
        BY <1>1, <1>5, <3>1
      <3>. QED BY <1>1, <1>5, <3>2, <3>3 DEF NodesAreFull
    <2>3. n = tail => nodes'[n].write = nodes[t].write
      BY <1>2, <1>5, <2>1
    <2>. QED BY <1>1, <1>2, <1>4, <1>5, <2>1, <2>2, <2>3 DEF NodesAreFull
  <1>13. NodesAreLinked'
    <2>1. \A i \in 1 .. tail - 1 : nodes'[i] = nodes[i]
      BY <1>1, <1>2, <1>5, <1>9
    <2>. QED BY <1>1, <1>2, <2>1 DEF NodesAreLinked
  <1>14. ElementsAreInOrder'
    <2>1. ASSUME NEW i \in 1 .. n, i = n PROVE Stored(i)' = w
      <3>1. nodes'[i].write = all[n].write /\ w = all[n].write + 1
        BY <1>6, <1>7, <1>9, <2>1
      <3>2. ~(i < t') /\ wpc' = "advance"
        BY <1>2, <1>4, <1>5, <2>1
      <3>. QED BY <3>1, <3>2 DEF Stored
    <2>2. \A i \in 1 .. n : Base(i)' = Base(i)
      BY DEF Base
    <2>3. ASSUME NEW i \in 1 .. n, i < n, NEW j \in 1 .. Stored(i)'
          PROVE  nodes'[i].buffer[j] = Base(i) + j
      <3>1. i \in 1 .. t /\ nodes'[i] = nodes[i] /\ Stored(i)' = NodeSize
        BY <1>4, <1>1, <1>5, <1>9, <2>3 DEF Stored
      <3>2. Stored(i) = NodeSize
        BY <1>1, <1>2, <1>5, <2>3, <3>1 DEF Stored
      <3>. QED BY <1>1, <2>3, <3>1, <3>2 DEF ElementsAreInOrder
    <2>4. ASSUME NEW j \in 1 .. w PROVE nodes'[n].buffer[j] = Base(n) + j
      <3>1. CASE j = w
        BY <1>6, <1>7, <1>8, <1>9, <3>1
      <3>2. CASE j # w
        <4>1. j \in 1 .. all[n].write /\ nodes'[n].buffer[j] = all[n].buffer[j]
          <5>1. j \in 1 .. NodeSize /\ j \in 1 .. all[n].write
            BY <1>1, <1>6, <2>4, <3>2
          <5>. QED BY <1>6, <1>7, <1>9, <3>2, <5>1
        <4>2. n = t /\ all[n] = nodes[t]
          BY <1>1, <1>3, <1>5, <4>1
        <4>3. Stored(t) = nodes[t].write
          BY <1>1, <1>2 DEF Stored
        <4>. QED BY <1>1, <4>1, <4>2, <4>3 DEF ElementsAreInOrder
      <3>. QED BY <3>1, <3>2
    <2>5. ASSUME NEW i \in 1 .. n, NEW j \in 1 .. Stored(i)'
          PROVE  nodes'[i].buffer[j] = Base(i) + j
      <3>1. i < n \/ i = n
        BY <1>5
      <3>. QED BY <2>1, <2>3, <2>4, <2>5, <3>1
    <2>6. /\ n \in 1 .. n /\ 1 .. t' = 1 .. n
          /\ nodes'[t'].write + 1 = w /\ wpc' = "advance"
      BY <1>2, <1>4, <1>5, <1>6, <1>7, <1>9
    <2>7. pushes' = Base(t') + (IF t' < t' THEN NodeSize ELSE nodes'[t'].write +
                                (IF wpc' = "advance" THEN 1 ELSE 0))
      BY <1>4, <1>5, <1>8, <2>6
    <2>8. pushes' = (Base(t) + Stored(t))'
      BY <2>7 DEF Stored, Base
    <2>9. \A i \in 1 .. t' : \A j \in 1 .. Stored(i)' : nodes'[i].buffer[j] = Base(i)' + j
      BY <1>4, <2>2, <2>5, <2>6
    <2>. QED BY <2>8, <2>9 DEF ElementsAreInOrder
  <1>15. ReaderInv'
    <2>1. \A i \in 1 .. t : /\ nodes'[i].read = nodes[i].read
                            /\ nodes'[i].write = nodes[i].write
      BY <1>5, <1>7, <1>9
    <2>2. \A i \in t + 1 .. t' : nodes'[i].read = 0
      BY <1>1, <1>3, <1>4, <1>5, <1>7, <1>9
    <2>3. \A i \in 1 .. t : nodes'[i].write \in Nat /\ nodes'[i].write >= nodes[i].write
      BY <1>1, <2>1
    <2>4. UNCHANGED readerVars /\ t' >= t
      BY <1>1, <1>2, <1>4, <1>5
    <2>. QED BY <1>11, <2>1, <2>2, <2>3, <2>4, ReaderUndisturbed
  <1>. QED BY <1>10, <1>11, <1>12, <1>13, <1>14, <1>15 DEF FifoInv, WriterInv

\* The elements stay where they are when no place is filled or given up.
LEMMA SamePlaces ==
  ASSUME ElementsAreInOrder, t \in Nat \ {0}, t' = t, pushes' = pushes,
         \A i \in 1 .. t : Stored(i)' = Stored(i) /\ nodes'[i].buffer = nodes[i].buffer
  PROVE  ElementsAreInOrder'
  <1>1. PICK n \in Nat \ {0} : n = t
    OBVIOUS
  <1>2. pushes = Base(n) + Stored(n)
    BY <1>1 DEF ElementsAreInOrder
  <1>3. Stored(n)' = Stored(n) /\ n = t'
    BY <1>1
  <1>4. Stored(t)' = Stored(n)' /\ Base(t)' = Base(n)
    BY <1>3 DEF Stored, Base
  <1>5. \A i : Base(i)' = Base(i)
    BY DEF Base
  <1>6. pushes' = Base(t)' + Stored(t)'
    BY <1>2, <1>3, <1>4
  <1>7. \A i \in 1 .. t' : \A j \in 1 .. Stored(i)' : nodes'[i].buffer[j] = Base(i)' + j
    BY <1>5 DEF ElementsAreInOrder
  <1>. QED BY <1>6, <1>7 DEF ElementsAreInOrder

LEMMA WriterKeeps == FifoInv /\ (Advance \/ Link \/ Publish) => FifoInv'
  <1> SUFFICES ASSUME FifoInv, Advance \/ Link \/ Publish PROVE FifoInv'
    OBVIOUS
  <1>1. /\ TypeOK /\ AtTheTail /\ NodesAreFull /\ NodesAreLinked /\ ElementsAreInOrder
        /\ NodeSize \in Nat \ {0} /\ t \in Nat \ {0} /\ tail \in Nat \ {0} /\ MaxPushes \in Nat
        /\ t = Len(nodes) /\ nodes \in Seq(NodeType) /\ tail \in 1 .. t
        /\ \A i \in 1 .. t :
              /\ nodes[i] \in NodeType
              /\ nodes[i].read \in Nat /\ nodes[i].write \in Nat /\ nodes[i].next \in Nat
              /\ nodes[i].read <= NodeSize + 1 /\ nodes[i].write <= NodeSize
    BY NodesAreNodes, FifoAssumption DEF FifoInv, WriterInv, AtTheTail, TypeOK
  <1>2. /\ UNCHANGED <<pushes, t, readerVars>>
    BY DEF Advance, Link, Publish
  <1>3. \A i : Base(i)' = Base(i)
    BY DEF Base
  <1>4. CASE Advance
    <2> DEFINE r == [nodes[t] EXCEPT !.write = nodes[t].write + 1]
    <2>1. /\ wpc = "advance" /\ wpc' = (IF tail # t THEN "link" ELSE "idle") /\ tail' = tail
          /\ nodes' = [nodes EXCEPT ![t] = r] /\ nodes[t].write < NodeSize
      BY <1>1, <1>4 DEF Advance, NodesAreFull
    <2>2. /\ r \in NodeType /\ r.read = nodes[t].read /\ r.write = nodes[t].write + 1
          /\ r.next = nodes[t].next /\ r.buffer = nodes[t].buffer
      <3>1. nodes[t] \in NodeType /\ nodes[t].write + 1 \in 0 .. NodeSize
        BY <1>1, <2>1
      <3>. QED BY <3>1 DEF NodeType
    <2> HIDE DEF r
    <2>3. /\ nodes' \in Seq(NodeType) /\ Len(nodes') = t /\ nodes'[t] = r
          /\ DOMAIN nodes' = DOMAIN nodes
          /\ \A i \in 1 .. t : i # t => nodes'[i] = nodes[i]
      BY <1>1, <2>1, <2>2
    <2>4. TypeOK' /\ AtTheTail' /\ NodesAreFull'
      <3>1. TypeOK'
        BY <1>1, <1>2, <2>1, <2>3 DEF TypeOK, readerVars
      <3>2. AtTheTail'
        BY <1>1, <1>2, <2>1, <2>3 DEF AtTheTail
      <3>3. NodesAreFull'
        BY <1>1, <1>2, <2>1, <2>2, <2>3 DEF NodesAreFull, AtTheTail
      <3>. QED BY <3>1, <3>2, <3>3
    <2>5. NodesAreLinked'
      BY <1>1, <1>2, <2>1, <2>2, <2>3 DEF NodesAreLinked, AtTheTail
    <2>6. ElementsAreInOrder'
      <3>1. ASSUME NEW i \in 1 .. t
            PROVE  Stored(i)' = Stored(i) /\ nodes'[i].buffer = nodes[i].buffer
        <4>1. CASE i = t
          <5>1. ~(i < t) /\ ~(i < t') /\ wpc' # "advance" /\ wpc = "advance"
            BY <1>1, <1>2, <2>1, <4>1
          <5>2. Stored(i)' = nodes'[i].write + 0 /\ Stored(i) = nodes[i].write + 1
            BY <5>1 DEF Stored
          <5>. QED BY <1>1, <2>2, <2>3, <4>1, <5>2
        <4>2. CASE i # t
          BY <1>1, <1>2, <2>3, <4>2 DEF Stored
        <4>. QED BY <4>1, <4>2
      <3>. QED BY <1>1, <1>2, <3>1, SamePlaces
    <2>7. ReaderInv'
      BY <1>1, <1>2, <2>1, <2>2, <2>3, <2>4, ReaderUndisturbed
    <2>. QED BY <2>4, <2>5, <2>6, <2>7 DEF FifoInv, WriterInv
  <1>5. CASE Link
    <2> DEFINE r == [nodes[tail] EXCEPT !.next = t]
    <2>1. /\ wpc = "link" /\ wpc' = "publish" /\ tail' = tail /\ tail = t - 1
          /\ nodes' = [nodes EXCEPT ![tail] = r]
      BY <1>1, <1>5 DEF Link, AtTheTail
    <2>2. /\ r \in NodeType /\ r.read = nodes[tail].read /\ r.write = nodes[tail].write
          /\ r.next = t /\ r.buffer = nodes[tail].buffer
      BY <1>1, <2>1 DEF NodeType
    <2> HIDE DEF r
    <2>3. /\ nodes' \in Seq(NodeType) /\ Len(nodes') = t /\ nodes'[tail] = r
          /\ DOMAIN nodes' = DOMAIN nodes
          /\ \A i \in 1 .. t : i # tail => nodes'[i] = nodes[i]
      BY <1>1, <2>1, <2>2
    <2>4. TypeOK' /\ AtTheTail' /\ NodesAreFull'
      <3>1. TypeOK'
        BY <1>1, <1>2, <2>1, <2>3 DEF TypeOK, readerVars
      <3>2. AtTheTail'
        BY <1>1, <1>2, <2>1, <2>3 DEF AtTheTail
      <3>3. NodesAreFull'
        BY <1>1, <1>2, <2>1, <2>2, <2>3 DEF NodesAreFull, AtTheTail
      <3>. QED BY <3>1, <3>2, <3>3
    <2>5. NodesAreLinked'
      <3>1. \A i \in 1 .. tail - 1 : nodes'[i] = nodes[i]
        BY <1>1, <2>1, <2>3
      <3>2. nodes'[tail].next = t
        BY <2>2, <2>3
      <3>. QED BY <1>1, <1>2, <2>1, <3>1, <3>2 DEF NodesAreLinked
    <2>6. ElementsAreInOrder'
      <3>1. \A i \in 1 .. t : Stored(i)' = Stored(i) /\ nodes'[i].buffer = nodes[i].buffer
        BY <1>1, <1>2, <2>1, <2>2, <2>3 DEF Stored
      <3>. QED BY <1>1, <1>2, <3>1, SamePlaces
    <2>7. ReaderInv'
      BY <1>1, <1>2, <2>1, <2>2, <2>3, <2>4, ReaderUndisturbed
    <2>. QED BY <2>4, <2>5, <2>6, <2>7 DEF FifoInv, WriterInv
  <1>6. CASE Publish
    <2>1. /\ wpc = "publish" /\ wpc' = "idle" /\ tail' = t /\ tail = t - 1 /\ nodes' = nodes
      BY <1>1, <1>6 DEF Publish, AtTheTail
    <2>2. TypeOK' /\ AtTheTail' /\ NodesAreFull'
      <3>1. TypeOK'
        BY <1>1, <1>2, <2>1 DEF TypeOK, readerVars
      <3>2. AtTheTail'
        BY <1>1, <1>2, <2>1 DEF AtTheTail
      <3>3. NodesAreFull'
        BY <1>1, <1>2, <2>1 DEF NodesAreFull
      <3>. QED BY <3>1, <3>2, <3>3
    <2>3. NodesAreLinked'
      BY <1>1, <1>2, <2>1 DEF NodesAreLinked
    <2>4. ElementsAreInOrder'
      <3>1. \A i \in 1 .. t : Stored(i)' = Stored(i)
        BY <1>2, <2>1 DEF Stored
      <3>. QED BY <1>1, <1>2, <1>3, <2>1, <3>1 DEF ElementsAreInOrder
    <2>5. ReaderInv'
      BY <1>1, <1>2, <2>1, <2>2, ReaderUndisturbed
    <2>. QED BY <2>2, <2>3, <2>4, <2>5 DEF FifoInv, WriterInv
  <1>. QED BY <1>4, <1>5, <1>6

-----------------------------------------------------------------------------
(* The reader.                                                             *)

\* A step of the reader changes at most what it has read of the head.
LEMMA WriterUndisturbed ==
  ASSUME FifoInv, UNCHANGED <<tail, writerVars>>, Len(nodes') = Len(nodes),
         \A i \in 1 .. t : /\ nodes'[i].write = nodes[i].write
                           /\ nodes'[i].next = nodes[i].next
                           /\ nodes'[i].buffer = nodes[i].buffer
  PROVE  WriterInv'
  <1>1. /\ AtTheTail /\ NodesAreFull /\ NodesAreLinked /\ ElementsAreInOrder
        /\ t \in Nat \ {0} /\ tail \in 1 .. t
        /\ pushes' = pushes /\ t' = t /\ wpc' = wpc /\ tail' = tail
    BY NodesAreNodes DEF FifoInv, WriterInv, AtTheTail, writerVars
  <1>2. \A i : Base(i)' = Base(i)
    BY DEF Base
  <1>3. \A i \in 1 .. t : Stored(i)' = Stored(i)
    BY <1>1 DEF Stored
  <1>4. AtTheTail' /\ NodesAreFull' /\ NodesAreLinked'
    <2>1. AtTheTail'
      BY <1>1 DEF AtTheTail
    <2>2. NodesAreFull'
      <3>1. \A i \in 1 .. t - 1 : nodes'[i].write = nodes[i].write
        BY <1>1
      <3>2. nodes'[t].write = nodes[t].write
        BY <1>1
      <3>. QED BY <1>1, <3>1, <3>2 DEF NodesAreFull
    <2>3. NodesAreLinked'
      <3>1. \A i \in 1 .. tail - 1 : nodes'[i].next = nodes[i].next
        BY <1>1
      <3>2. nodes'[tail].next = nodes[tail].next
        BY <1>1
      <3>. QED BY <1>1, <3>1, <3>2 DEF NodesAreLinked
    <2>. QED BY <2>1, <2>2, <2>3
  <1>5. ElementsAreInOrder'
    <2>1. Stored(t)' = Stored(t) /\ Base(t)' = Base(t)
      BY <1>1 DEF Stored, Base
    <2>. QED BY <1>1, <1>2, <1>3, <2>1 DEF ElementsAreInOrder
  <1>. QED BY <1>4, <1>5 DEF WriterInv

\* The facts about the head that the steps of the reader rest on.
LEMMA AtTheHead ==
  ASSUME FifoInv
  PROVE  /\ NodeSize \in Nat \ {0} /\ t \in Nat \ {0} /\ tail \in 1 .. t /\ head \in 1 .. tail
         /\ head \in Nat \ {0} /\ tail \in Nat
         /\ nodes[head] \in NodeType
         /\ nodes[head].read \in Nat /\ nodes[head].write \in Nat
         /\ nodes[head].read <= NodeSize + 1 /\ nodes[head].write <= NodeSize
         /\ nodes[head].buffer \in [1 .. NodeSize -> 1 .. MaxPushes \cup {Nothing}]
         /\ head < tail => /\ nodes[head].next = head + 1 /\ nodes[head].write = NodeSize
                           /\ nodes[head + 1].read = 0 /\ nodes[head + 1].write \in Nat
                           /\ nodes[head + 1].write >= 1
         /\ Base(head) \in Nat /\ Base(head + 1) = Base(head) + NodeSize
         /\ pops = Base(head) + (IF nodes[head].read > NodeSize THEN NodeSize
                                 ELSE nodes[head].read)
  <1>1. /\ TypeOK /\ AtTheTail /\ NodesAreFull /\ NodesAreLinked /\ HeadAndDeleted
        /\ PopsAreReads
    BY DEF FifoInv, WriterInv, ReaderInv
  <1>2. /\ NodeSize \in Nat \ {0} /\ t \in Nat \ {0} /\ tail \in 1 .. t /\ head \in 1 .. tail
        /\ tail \in Nat /\ head \in Nat \ {0} /\ head \in 1 .. t
    BY <1>1, NodesAreNodes DEF AtTheTail, HeadAndDeleted
  <1>3. ASSUME head < tail
        PROVE  /\ nodes[head].next = head + 1 /\ nodes[head].write = NodeSize
               /\ nodes[head + 1].read = 0 /\ nodes[head + 1].write \in Nat
               /\ nodes[head + 1].write >= 1
    <2>1. head \in 1 .. tail - 1 /\ head \in 1 .. t - 1 /\ head + 1 \in 1 .. t
          /\ head + 1 \in head + 1 .. t
      BY <1>2, <1>3
    <2>2. head + 1 < t \/ (head + 1 = t /\ tail = t /\ t > 1)
      BY <1>2, <1>3
    <2>3. nodes[head + 1].write \in Nat
      BY <1>1, <2>1, NodesAreNodes
    <2>4. head + 1 < t => nodes[head + 1].write = NodeSize
      BY <1>1, <1>2 DEF NodesAreFull
    <2>5. head + 1 = t => nodes[head + 1].write >= 1
      <3>1. head + 1 = t => t > 1 /\ tail = t
        BY <1>2, <2>2
      <3>2. t > 1 /\ tail = t => nodes[t].write >= 1
        BY <1>1 DEF NodesAreFull
      <3>. QED BY <3>1, <3>2
    <2>6. nodes[head].next = head + 1 /\ nodes[head].write = NodeSize
      BY <1>1, <2>1 DEF NodesAreFull, NodesAreLinked
    <2>7. nodes[head + 1].read = 0
      BY <1>1, <2>1 DEF HeadAndDeleted
    <2>. QED BY <1>2, <2>2, <2>3, <2>4, <2>5, <2>6, <2>7
  <1>. QED BY <1>1, <1>2, <1>3, NodesAreNodes, BaseSteps DEF PopsAreReads

\* The head is dropped only when it has been read and another node is linked.
LEMMA DropHeadKeeps ==
  ASSUME FifoInv, head < tail, nodes[head].read >= NodeSize, DropHead,
         UNCHANGED <<nodes, tail, writerVars, pops, last>>,
         rpc' \in {"front", "beyond", "again"}
  PROVE  FifoInv'
  <1>1. /\ TypeOK /\ HeadAndDeleted /\ t = Len(nodes)
    BY DEF FifoInv, WriterInv, ReaderInv, AtTheTail
  <1>2. /\ nodes' = nodes /\ tail' = tail /\ pops' = pops /\ last' = last /\ t' = t
        /\ pushes' = pushes /\ wpc' = wpc
        /\ head' = head + 1 /\ deleted' = deleted \cup {head} /\ head + 1 \in 1 .. tail
        /\ head + 1 \in 1 .. t
    BY AtTheHead DEF DropHead, writerVars
  <1>3. TypeOK'
    BY <1>1, <1>2, AtTheHead DEF TypeOK
  <1>4. WriterInv'
    BY <1>2, WriterUndisturbed
  <1>5. HeadAndDeleted'
    BY <1>1, <1>2, AtTheHead DEF HeadAndDeleted
  <1>6. Base(head') = pops /\ nodes'[head'].read = 0 /\ nodes'[head'].write >= 1
        /\ nodes'[head'].write \in Nat
    BY <1>2, AtTheHead
  <1>7. PopsAreReads' /\ ThereIsSomething'
    <2>1. pops' = Base(head') + (IF nodes'[head'].read > NodeSize THEN NodeSize
                                 ELSE nodes'[head'].read)
      BY <1>2, <1>6, AtTheHead
    <2>2. ~(nodes'[head'].read > NodeSize) /\ nodes'[head'].read < nodes'[head'].write
      BY <1>6, AtTheHead
    <2>3. Base(head)' = Base(head')
      BY DEF Base
    <2>. QED BY <1>6, <2>1, <2>2, <2>3 DEF PopsAreReads, ThereIsSomething
  <1>. QED BY <1>3, <1>4, <1>5, <1>7 DEF FifoInv, ReaderInv

\* empty() and the reading of front(), which leave the list as it is.
LEMMA LookKeeps ==
  ASSUME FifoInv, UNCHANGED <<nodes, tail, writerVars, head, deleted, pops>>,
         last' \in 1 .. MaxPushes \cup {Nothing, Empty},
         rpc \in {"idle", "compare", "some", "front", "edge", "beyond"},
         rpc' \in {"idle", "compare", "some", "pop", "beyond"},
         nodes[head].read > NodeSize => rpc' = "beyond",
         rpc' = "some" => head < tail \/ nodes[head].read < nodes[head].write,
         rpc' = "pop" => nodes[head].read < nodes[head].write /\ last' = pops + 1
  PROVE  FifoInv'
  <1>1. /\ nodes' = nodes /\ tail' = tail /\ pops' = pops /\ head' = head /\ t' = t
        /\ pushes' = pushes /\ wpc' = wpc /\ deleted' = deleted /\ Base(head)' = Base(head)
    BY DEF writerVars, Base
  <1>2. TypeOK'
    BY <1>1 DEF FifoInv, TypeOK
  <1>3. WriterInv'
    BY <1>1, WriterUndisturbed
  <1>4. HeadAndDeleted' /\ PopsAreReads'
    BY <1>1 DEF FifoInv, ReaderInv, HeadAndDeleted, PopsAreReads
  <1>5. ThereIsSomething'
    BY <1>1 DEF ThereIsSomething
  <1>. QED BY <1>2, <1>3, <1>4, <1>5 DEF FifoInv, ReaderInv

\* The element that is read is the one after those that have been popped.
LEMMA NextElement ==
  ASSUME FifoInv, nodes[head].read < nodes[head].write
  PROVE  /\ nodes[head].buffer[nodes[head].read + 1] = pops + 1
         /\ pops + 1 \in 1 .. MaxPushes
  <1> DEFINE j == nodes[head].read + 1
  <1>1. j \in 1 .. NodeSize /\ j <= nodes[head].write /\ pops \in Nat
        /\ pops + 1 = Base(head) + j
    <2>1. /\ nodes[head].read \in Nat /\ nodes[head].write \in Nat /\ Base(head) \in Nat
          /\ nodes[head].write <= NodeSize /\ NodeSize \in Nat
          /\ pops = Base(head) + (IF nodes[head].read > NodeSize THEN NodeSize
                                  ELSE nodes[head].read)
      BY AtTheHead
    <2>2. ~(nodes[head].read > NodeSize)
      BY <2>1
    <2>. QED BY <2>1, <2>2
  <1>2. head < t => Stored(head) = NodeSize
    BY DEF Stored
  <1>3. head = t => Stored(head) \in Nat /\ Stored(head) >= nodes[head].write
    BY AtTheHead DEF Stored
  <1>4. j \in 1 .. Stored(head) /\ head \in 1 .. t
    <2>1. head \in 1 .. t /\ t \in Nat /\ NodeSize \in Nat /\ nodes[head].write \in Nat
      BY AtTheHead
    <2> HIDE DEF j
    <2>2. head < t \/ head = t
      BY <2>1
    <2>. QED BY <1>1, <1>2, <1>3, <2>1, <2>2
  <1>5. nodes[head].buffer[j] = pops + 1
    BY <1>1, <1>4 DEF FifoInv, WriterInv, ElementsAreInOrder
  <1>6. nodes[head].buffer[j] \in 1 .. MaxPushes \cup {Nothing}
    BY <1>1, AtTheHead
  <1>. QED BY <1>1, <1>5, <1>6 DEF Nothing

LEMMA PopKeeps == FifoInv /\ Pop => FifoInv'
  <1> SUFFICES ASSUME FifoInv, Pop PROVE FifoInv'
    OBVIOUS
  <1> DEFINE r == [nodes[head] EXCEPT !.read = nodes[head].read + 1]
  <1>1. /\ TypeOK /\ HeadAndDeleted /\ PopsAreReads /\ ThereIsSomething /\ t = Len(nodes)
        /\ nodes \in Seq(NodeType) /\ head \in 1 .. t
    BY AtTheHead DEF FifoInv, WriterInv, ReaderInv, AtTheTail, TypeOK
  <1>2. /\ rpc \in {"some", "pop", "again"} /\ rpc' = "edge" /\ tail' = tail /\ head' = head
        /\ deleted' = deleted /\ t' = t /\ pushes' = pushes /\ wpc' = wpc
        /\ nodes' = [nodes EXCEPT ![head] = r]
    BY <1>1 DEF Pop, writerVars
  <1>3. nodes[head].read <= NodeSize
    BY <1>1, <1>2, AtTheHead DEF PopsAreReads
  <1>4. /\ r \in NodeType /\ r.read = nodes[head].read + 1 /\ r.write = nodes[head].write
        /\ r.next = nodes[head].next /\ r.buffer = nodes[head].buffer
    <2>0. nodes[head].read \in Nat /\ NodeSize \in Nat
      BY AtTheHead
    <2>1. nodes[head].read + 1 \in 0 .. NodeSize + 1
      BY <1>3, <2>0
    <2>2. nodes[head] \in NodeType
      BY AtTheHead
    <2>. QED BY <2>1, <2>2 DEF NodeType
  <1> HIDE DEF r
  <1>5. /\ nodes' \in Seq(NodeType) /\ Len(nodes') = Len(nodes) /\ nodes'[head] = r
        /\ DOMAIN nodes' = DOMAIN nodes
        /\ \A i \in 1 .. t : i # head => nodes'[i] = nodes[i]
    BY <1>1, <1>2, <1>4
  <1>6. WriterInv'
    <2>1. \A i \in 1 .. t : /\ nodes'[i].write = nodes[i].write
                            /\ nodes'[i].next = nodes[i].next
                            /\ nodes'[i].buffer = nodes[i].buffer
      BY <1>4, <1>5
    <2>. QED BY <1>2, <1>5, <2>1, WriterUndisturbed DEF writerVars
  <1>7. HeadAndDeleted'
    BY <1>1, <1>2, <1>5, AtTheHead DEF HeadAndDeleted
  <1>8. Base(head)' = Base(head)
    BY <1>2 DEF Base
  <1>9. CASE nodes[head].read = NodeSize
    <2>1. pops' = pops /\ last' = last
      BY <1>9 DEF Pop, AtEnd
    <2>2. head < tail
      BY <1>1, <1>2, <1>9, AtTheHead DEF ThereIsSomething
    <2>3. PopsAreReads' /\ ThereIsSomething'
      BY <1>2, <1>4, <1>5, <1>8, <1>9, <2>1, <2>2, AtTheHead
         DEF PopsAreReads, ThereIsSomething
    <2>4. TypeOK'
      BY <1>1, <1>2, <1>5, <2>1 DEF TypeOK
    <2>. QED BY <1>6, <1>7, <2>3, <2>4 DEF FifoInv, ReaderInv
  <1>10. CASE nodes[head].read # NodeSize
    <2>1. pops' = pops + 1 /\ last' = Nothing
      BY <1>10 DEF Pop, AtEnd
    <2>2. nodes[head].read < nodes[head].write
      BY <1>1, <1>2, <1>3, <1>10, AtTheHead DEF ThereIsSomething
    <2>3. /\ nodes'[head].read = nodes[head].read + 1 /\ ~(nodes'[head].read > NodeSize)
          /\ nodes'[head].read <= nodes'[head].write
          /\ pops' = Base(head) + nodes'[head].read
      <3>1. /\ nodes[head].read \in Nat /\ nodes[head].write \in Nat /\ Base(head) \in Nat
            /\ nodes[head].write <= NodeSize /\ NodeSize \in Nat
            /\ pops = Base(head) + (IF nodes[head].read > NodeSize THEN NodeSize
                                    ELSE nodes[head].read)
        BY AtTheHead
      <3>2. ~(nodes[head].read > NodeSize)
        BY <2>2, <3>1
      <3>3. nodes'[head].read = nodes[head].read + 1 /\ nodes'[head].write = nodes[head].write
        BY <1>4, <1>5
      <3>. QED BY <2>1, <2>2, <3>1, <3>2, <3>3
    <2>5. PopsAreReads' /\ ThereIsSomething'
      BY <1>2, <1>8, <2>3 DEF PopsAreReads, ThereIsSomething
    <2>4. TypeOK'
      <3>1. pops' \in 0 .. MaxPushes
        BY <2>1, <2>2, NextElement, FifoAssumption
      <3>. QED BY <1>1, <1>2, <1>5, <2>1, <3>1 DEF TypeOK
    <2>. QED BY <1>6, <1>7, <2>4, <2>5 DEF FifoInv, ReaderInv
  <1>. QED BY <1>9, <1>10

LEMMA ReaderKeeps == FifoInv /\ Reader => FifoInv'
  <1> SUFFICES ASSUME FifoInv, Reader PROVE FifoInv'
    OBVIOUS
  <1>0. /\ nodes[head].read \in Nat /\ nodes[head].write \in Nat /\ NodeSize \in Nat
        /\ nodes[head].write <= NodeSize /\ head <= tail /\ head \in Nat /\ tail \in Nat
        /\ head < tail => nodes[head].write = NodeSize
    BY AtTheHead
  <1>1. /\ PopsAreReads /\ ThereIsSomething /\ TypeOK
        /\ last \in 1 .. MaxPushes \cup {Nothing, Empty}
    BY DEF FifoInv, ReaderInv, TypeOK
  <1>2. CASE CompareTail
    <2>1. /\ rpc = "idle" /\ rpc' = (IF head = tail THEN "compare" ELSE "some") /\ last' = last
          /\ UNCHANGED <<nodes, tail, writerVars, head, deleted, pops>>
      BY <1>2 DEF CompareTail
    <2>2. ~(nodes[head].read > NodeSize) /\ (head # tail => head < tail)
      BY <1>0, <1>1, <2>1 DEF PopsAreReads
    <2>. QED BY <1>1, <2>1, <2>2, LookKeeps
  <1>3. CASE CompareWrite
    <2>1. /\ rpc = "compare" /\ rpc' \in {"idle", "some"} /\ last' \in {last, Empty}
          /\ rpc' = "some" => ~(nodes[head].read >= nodes[head].write)
          /\ UNCHANGED <<nodes, tail, writerVars, head, deleted, pops>>
      BY <1>3 DEF CompareWrite
    <2>2. /\ ~(nodes[head].read > NodeSize)
          /\ rpc' = "some" => nodes[head].read < nodes[head].write
      BY <1>0, <1>1, <2>1 DEF PopsAreReads
    <2>. QED BY <1>1, <2>1, <2>2, LookKeeps
  <1>4. CASE FrontDrop
    <2>1. rpc = "some" /\ nodes[head].read = NodeSize /\ DropHead /\ rpc' = "front"
          /\ UNCHANGED <<nodes, tail, writerVars, pops, last>>
      BY <1>4 DEF FrontDrop, AtEnd
    <2>2. head < tail
      BY <1>0, <1>1, <2>1 DEF ThereIsSomething
    <2>3. nodes[head].read >= NodeSize
      BY <1>0, <2>1
    <2>. QED BY <2>1, <2>2, <2>3, DropHeadKeeps
  <1>5. CASE FrontRead
    <2>1. /\ rpc = "front" \/ (rpc = "some" /\ nodes[head].read # NodeSize)
          /\ last' = nodes[head].buffer[nodes[head].read + 1] /\ rpc' = "pop"
          /\ UNCHANGED <<nodes, tail, writerVars, head, deleted, pops>>
      BY <1>5 DEF FrontRead, AtEnd
    <2>2. ~(nodes[head].read > NodeSize) /\ nodes[head].read < nodes[head].write
      BY <1>0, <1>1, <2>1 DEF ThereIsSomething, PopsAreReads
    <2>3. last' = pops + 1 /\ last' \in 1 .. MaxPushes
      BY <2>1, <2>2, NextElement
    <2>. QED BY <2>1, <2>2, <2>3, LookKeeps
  <1>6. CASE Pop
    BY <1>6, PopKeeps
  <1>7. CASE PopEdge
    <2>1. CASE nodes[head].read = NodeSize /\ head # tail
      <3>1. DropHead /\ rpc' = "beyond" /\ UNCHANGED <<nodes, tail, writerVars, pops, last>>
        BY <1>7, <2>1 DEF PopEdge, AtEnd
      <3>2. head < tail /\ nodes[head].read >= NodeSize
        BY <1>0, <2>1
      <3>. QED BY <3>1, <3>2, DropHeadKeeps
    <2>2. CASE ~(nodes[head].read = NodeSize /\ head # tail)
      <3>1. /\ rpc = "edge" /\ rpc' = "beyond" /\ last' = last
            /\ UNCHANGED <<nodes, tail, writerVars, head, deleted, pops>>
        BY <1>7, <2>2 DEF PopEdge, AtEnd
      <3>. QED BY <1>1, <3>1, LookKeeps
    <2>. QED BY <2>1, <2>2
  <1>8. CASE PopBeyond
    <2>1. CASE head # tail /\ nodes[head].read > NodeSize
      <3>1. DropHead /\ rpc' = "again" /\ UNCHANGED <<nodes, tail, writerVars, pops, last>>
        BY <1>8, <2>1 DEF PopBeyond
      <3>2. head < tail /\ nodes[head].read >= NodeSize
        BY <1>0, <2>1
      <3>. QED BY <3>1, <3>2, DropHeadKeeps
    <2>2. CASE ~(head # tail /\ nodes[head].read > NodeSize)
      <3>1. /\ rpc = "beyond" /\ rpc' = "idle" /\ last' = last
            /\ UNCHANGED <<nodes, tail, writerVars, head, deleted, pops>>
        BY <1>8, <2>2 DEF PopBeyond
      <3>2. ~(nodes[head].read > NodeSize)
        BY <1>0, <1>1, <2>2 DEF PopsAreReads
      <3>. QED BY <1>1, <3>1, <3>2, LookKeeps
    <2>. QED BY <2>1, <2>2
  <1>. QED BY <1>2, <1>3, <1>4, <1>5, <1>6, <1>7, <1>8 DEF Reader

-----------------------------------------------------------------------------
LEMMA FifoInvHolds == Spec => []FifoInv
  <1>1. Init => FifoInv
    BY InitFifoInv
  <1>2. FifoInv /\ [Next]_vars => FifoInv'
    <2> SUFFICES ASSUME FifoInv, [Next]_vars PROVE FifoInv'
      OBVIOUS
    <2>1. CASE Next
      BY <2>1, PushKeeps, WriterKeeps, ReaderKeeps DEF Next, Writer
    <2>2. CASE UNCHANGED vars
      BY <2>2 DEF vars, writerVars, readerVars, FifoInv, TypeOK, WriterInv, AtTheTail,
                  NodesAreFull, NodesAreLinked, ElementsAreInOrder, Stored, Base, ReaderInv,
                  HeadAndDeleted, PopsAreReads, ThereIsSomething
    <2>. QED BY <2>1, <2>2
  <1>. QED BY <1>1, <1>2, PTL DEF Spec

\* Counters, buffers and pointers stay in their ranges, for blocks of any size.
THEOREM FifoTypes == Spec => []TypeOK
  <1>1. FifoInv => TypeOK
    BY DEF FifoInv
  <1>. QED BY <1>1, FifoInvHolds, PTL

\* No thread holds a block that the reader has deleted (brick-shmem.h:436-439).
THEOREM DeletedAreLeft == Spec => []NoUseAfterDelete
  <1>1. FifoInv => NoUseAfterDelete
    <2> SUFFICES ASSUME FifoInv PROVE NoUseAfterDelete
      OBVIOUS
    <2>1. deleted = 1 .. head - 1
      BY DEF FifoInv, ReaderInv, HeadAndDeleted
    <2>2. head \notin deleted /\ tail \notin deleted /\ t \notin deleted
      BY <2>1, AtTheHead
    <2>. QED BY <2>2 DEF NoUseAfterDelete
  <1>. QED BY <1>1, FifoInvHolds, PTL

\* What front() returns is the oldest element that has not been popped, and pop()
\* takes it, once: nothing is lost, doubled or reordered (brick-shmem.h:430-466).
OldestFirst == [][/\ FrontRead => last' = pops + 1 /\ pops' = pops
                  /\ pops' \in {pops, pops + 1}]_vars

THEOREM FrontIsOldest == Spec => OldestFirst
  <1>1. FifoInv /\ [Next]_vars => [/\ FrontRead => last' = pops + 1 /\ pops' = pops
                                   /\ pops' \in {pops, pops + 1}]_vars
    <2> SUFFICES ASSUME FifoInv, Next
                 PROVE  /\ FrontRead => last' = pops + 1 /\ pops' = pops
                        /\ pops' \in {pops, pops + 1}
      OBVIOUS
    <2>1. ASSUME FrontRead PROVE last' = pops + 1 /\ pops' = pops
      <3>1. /\ rpc = "front" \/ (rpc = "some" /\ nodes[head].read # NodeSize)
            /\ last' = nodes[head].buffer[nodes[head].read + 1] /\ pops' = pops
        BY <2>1 DEF FrontRead, AtEnd
      <3>2. nodes[head].read < nodes[head].write
        <4>1. /\ nodes[head].read \in Nat /\ nodes[head].write \in Nat /\ NodeSize \in Nat
              /\ nodes[head].write <= NodeSize
              /\ head < tail => nodes[head].write = NodeSize
          BY AtTheHead
        <4>. QED BY <3>1, <4>1 DEF FifoInv, ReaderInv, ThereIsSomething, PopsAreReads
      <3>. QED BY <3>1, <3>2, NextElement
    <2>2. pops' \in {pops, pops + 1}
      BY DEF Next, Writer, Reader, Push, Advance, Link, Publish, CompareTail, CompareWrite,
             FrontDrop, FrontRead, Pop, PopEdge, PopBeyond, readerVars
    <2>. QED BY <2>1, <2>2
  <1>. QED BY <1>1, FifoInvHolds, PTL DEF Spec, OldestFirst

-----------------------------------------------------------------------------
(* The list is a queue: what it holds are the numbers of the elements that *)
(* are written, reachable from the tail, and not popped.                   *)

Numbers(a, n) == [k \in 1 .. n |-> a + k]

\* The elements that are there for the reader to see.
Upto(i) == Base(i) + nodes[i].write

\* The block that is linked next has one element, written but not advanced over
\* to begin with.
NewNode ==
  /\ wpc = "advance" /\ tail < t => nodes[t].write = 0
  /\ wpc \in {"link", "publish"} => nodes[t].write = 1

LEMMA PartOf ==
  ASSUME NEW n \in Nat, NEW S, NEW b \in [1 .. n -> S], NEW r \in Nat, r <= n + 1, NEW w \in 0 .. n
  PROVE  SubSeq(b, r + 1, w) = [j \in 1 .. w - r |-> b[r + j]]
  <1>1. b \in Seq(S) /\ Len(b) = n
    OBVIOUS
  <1>. QED BY <1>1

LEMMA NumbersJoin ==
  ASSUME NEW a \in Nat, NEW n \in Nat, NEW m \in Nat, NEW b \in Seq(Nat), Len(b) = m,
         \A j \in 1 .. m : b[j] = a + n + j
  PROVE  Numbers(a, n) \o b = Numbers(a, n + m)
  <1>1. Numbers(a, n) \in Seq(Nat) /\ Len(Numbers(a, n)) = n
    BY DEF Numbers
  <1>2. Numbers(a, n + m) \in Seq(Nat) /\ Len(Numbers(a, n + m)) = n + m
    BY DEF Numbers
  <1>3. /\ Numbers(a, n) \o b \in Seq(Nat) /\ Len(Numbers(a, n) \o b) = n + m
        /\ \A k \in 1 .. n + m : (Numbers(a, n) \o b)[k]
                                 = IF k <= n THEN Numbers(a, n)[k] ELSE b[k - n]
    <2>1. PICK s : s = Numbers(a, n)
      OBVIOUS
    <2>2. s \in Seq(Nat) /\ Len(s) = n
      BY <1>1, <2>1
    <2>3. /\ s \o b \in Seq(Nat) /\ Len(s \o b) = n + m
          /\ \A k \in 1 .. n + m : (s \o b)[k] = IF k <= n THEN s[k] ELSE b[k - n]
      <3>1. /\ s \o b \in Seq(Nat) /\ Len(s \o b) = Len(s) + Len(b)
            /\ \A k \in 1 .. Len(s) + Len(b) :
                 (s \o b)[k] = IF k <= Len(s) THEN s[k] ELSE b[k - Len(s)]
        <4>1. s \in Seq(Nat) /\ b \in Seq(Nat)
          BY <2>2
        <4>. QED BY <4>1, ConcatProperties
      <3>. QED BY <2>2, <3>1
    <2>. QED BY <2>1, <2>3
  <1>4. ASSUME NEW k \in 1 .. n + m PROVE (Numbers(a, n) \o b)[k] = Numbers(a, n + m)[k]
    <2>1. Numbers(a, n + m)[k] = a + k
      BY DEF Numbers
    <2>2. CASE k <= n
      <3>1. Numbers(a, n)[k] = a + k
        BY <2>2 DEF Numbers
      <3>. QED BY <1>3, <2>1, <2>2, <3>1
    <2>3. CASE ~(k <= n)
      <3>1. k - n \in 1 .. m /\ a + n + (k - n) = a + k
        BY <2>3
      <3>2. b[k - n] = a + k
        BY <3>1
      <3>. QED BY <1>3, <2>1, <2>3, <3>2
    <2>. QED BY <2>2, <2>3
  <1>5. \A k \in 1 .. Len(Numbers(a, n) \o b) : (Numbers(a, n) \o b)[k] = Numbers(a, n + m)[k]
    BY <1>3, <1>4
  <1>6. Len(Numbers(a, n) \o b) = Len(Numbers(a, n + m))
    BY <1>2, <1>3
  <1>. QED BY <1>2, <1>3, <1>5, <1>6, SeqEqual

LEMMA LeastOf ==
  ASSUME NEW S \in SUBSET Nat, S # {}
  PROVE  \E x \in S : \A y \in S : x <= y
  <1>1. PICK x \in S : \A y \in S : ~(<<y, x>> \in OpToRel(<, Nat))
    BY NatLessThanWellFounded, WFMin
  <1>2. ASSUME NEW y \in S PROVE x <= y
    <2>1. <<y, x>> \notin {p \in Nat \X Nat : p[1] < p[2]}
      BY <1>1 DEF OpToRel
    <2>. QED BY <2>1
  <1>. QED BY <1>2

LEMMA FlattenIs ==
  ASSUME NEW n \in Nat \ {0}, NEW S, NEW seqs \in [1 .. n -> Seq(S)], NEW f,
         f = [i \in 1 .. n |-> IF i = 1 THEN seqs[i] ELSE f[i - 1] \o seqs[i]]
  PROVE  FlattenSeq(seqs) = f[n]
  <1> DEFINE step(g) == [i \in 1 .. n |-> IF i = 1 THEN seqs[i] ELSE g[i - 1] \o seqs[i]]
  <1>1. Len(seqs) = n /\ Len(seqs) # 0
    OBVIOUS
  <1>2. FlattenSeq(seqs) = (CHOOSE g : g = step(g))[n]
    BY <1>1 DEF FlattenSeq
  <1>3. PICK g : g = step(g) /\ FlattenSeq(seqs) = g[n]
    BY <1>2
  <1> DEFINE wrong == {i \in 1 .. n : g[i] # f[i]}
  <1>4. ASSUME wrong # {} PROVE FALSE
    <2>1. wrong \in SUBSET Nat
      OBVIOUS
    <2>2. PICK i \in wrong : \A k \in wrong : i <= k
      <3> HIDE DEF wrong
      <3>. QED BY <1>4, <2>1, LeastOf
    <2>3. i \in 1 .. n /\ g[i] # f[i]
      OBVIOUS
    <2>4. g[i] = (IF i = 1 THEN seqs[i] ELSE g[i - 1] \o seqs[i])
      BY <1>3, <2>3
    <2>5. f[i] = (IF i = 1 THEN seqs[i] ELSE f[i - 1] \o seqs[i])
      BY <2>3
    <2>6. i # 1 /\ i - 1 \in 1 .. n
      BY <2>3, <2>4, <2>5
    <2>7. i - 1 \notin wrong
      <3> HIDE DEF wrong
      <3>1. i \in Nat /\ ~(i <= i - 1)
        BY <2>3
      <3>. QED BY <2>2, <3>1
    <2>8. g[i - 1] = f[i - 1]
      BY <2>6, <2>7
    <2>. QED BY <2>3, <2>4, <2>5, <2>6, <2>8
  <1>5. wrong = {}
    BY <1>4
  <1>6. n \in 1 .. n
    OBVIOUS
  <1>7. g[n] = f[n]
    BY <1>5, <1>6
  <1>. QED BY <1>3, <1>7

LEMMA BaseGrows ==
  ASSUME NEW i \in Nat \ {0}, NEW k \in Nat
  PROVE  Base(i + k) \in Nat /\ Base(i + k) >= Base(i)
  <1>1. NodeSize \in Nat /\ i - 1 \in Nat
    BY FifoAssumption
  <1>2. \A a, b, c \in Nat : (a + b) * c = a * c + b * c /\ a * c \in Nat /\ b * c \in Nat
    OBVIOUS
  <1>3. ((i - 1) + k) * NodeSize = (i - 1) * NodeSize + k * NodeSize
        /\ (i - 1) * NodeSize \in Nat /\ k * NodeSize \in Nat
    BY <1>1, <1>2
  <1>4. (i + k) - 1 = (i - 1) + k
    OBVIOUS
  <1>. QED BY <1>3, <1>4 DEF Base

\* The elements of a block are the numbers from its base on; those of the head,
\* from what has been popped on.
LEMMA PartsAreNumbers ==
  ASSUME FifoInv
  PROVE  /\ Upto(head) - pops \in Nat
         /\ Part(nodes[head]) = Numbers(pops, Upto(head) - pops)
         /\ \A i \in head + 1 .. tail :
              /\ Upto(i - 1) = Base(i) /\ Base(i) \in Nat /\ Base(i) - pops \in Nat
              /\ nodes[i].write \in Nat
              /\ Part(nodes[i]) = [j \in 1 .. nodes[i].write |-> Base(i) + j]
  <1> USE DEF Upto
  <1>1. /\ NodeSize \in Nat \ {0} /\ t \in Nat \ {0} /\ tail \in 1 .. t /\ head \in 1 .. tail
        /\ head \in Nat \ {0} /\ tail \in Nat /\ Base(head) \in Nat
        /\ Base(head + 1) = Base(head) + NodeSize
    BY AtTheHead
  <1>2. \A i \in 1 .. t :
          /\ nodes[i].read \in Nat /\ nodes[i].write \in Nat
          /\ nodes[i].read <= NodeSize + 1 /\ nodes[i].write <= NodeSize
          /\ nodes[i].buffer \in [1 .. NodeSize -> 1 .. MaxPushes \cup {Nothing}]
    BY NodesAreNodes DEF FifoInv, WriterInv
  <1>3. \A i \in 1 .. t : \A j \in 1 .. nodes[i].write : nodes[i].buffer[j] = Base(i) + j
    <2> SUFFICES ASSUME NEW i \in 1 .. t, NEW j \in 1 .. nodes[i].write
                 PROVE  nodes[i].buffer[j] = Base(i) + j
      OBVIOUS
    <2>1. nodes[i].write \in Nat /\ nodes[i].write <= NodeSize
      BY <1>2
    <2>2. j \in 1 .. Stored(i)
      BY <1>1, <2>1 DEF Stored
    <2>. QED BY <2>2 DEF FifoInv, WriterInv, ElementsAreInOrder
  <1>4. \A i \in 1 .. t - 1 : nodes[i].write = NodeSize
    BY DEF FifoInv, WriterInv, NodesAreFull
  <1>5. /\ pops = Base(head) + (IF nodes[head].read > NodeSize THEN NodeSize ELSE nodes[head].read)
        /\ IF nodes[head].read > NodeSize THEN head < tail
           ELSE nodes[head].read <= nodes[head].write
    BY DEF FifoInv, ReaderInv, PopsAreReads
  <1>6. head \in 1 .. t /\ nodes[head].read \in Nat /\ nodes[head].write \in 0 .. NodeSize
        /\ nodes[head].read <= NodeSize + 1
    <2>1. head \in 1 .. t
      BY <1>1
    <2>. QED BY <1>1, <1>2, <2>1
  <1>7. Part(nodes[head]) = [j \in 1 .. nodes[head].write - nodes[head].read
                                 |-> nodes[head].buffer[nodes[head].read + j]]
    <2>1. PICK b, r, w : b = nodes[head].buffer /\ r = nodes[head].read /\ w = nodes[head].write
      OBVIOUS
    <2>2. /\ b \in [1 .. NodeSize -> 1 .. MaxPushes \cup {Nothing}]
          /\ r \in Nat /\ r <= NodeSize + 1 /\ w \in 0 .. NodeSize
      BY <1>2, <1>6, <2>1
    <2>3. SubSeq(b, r + 1, w) = [j \in 1 .. w - r |-> b[r + j]]
      BY <1>1, <2>2, PartOf
    <2>. QED BY <2>1, <2>3 DEF Part
  <1>8. Upto(head) - pops \in Nat /\ Part(nodes[head]) = Numbers(pops, Upto(head) - pops)
    <2>1. CASE nodes[head].read > NodeSize
      <3>1. nodes[head].write = NodeSize
        BY <1>1, <1>4, <1>5, <2>1
      <3>2. Upto(head) - pops = 0
        BY <1>1, <1>5, <2>1, <3>1
      <3>3. 1 .. nodes[head].write - nodes[head].read = {}
        BY <1>1, <1>6, <2>1, <3>1
      <3>4. 1 .. 0 = {}
        OBVIOUS
      <3>5. Part(nodes[head]) = [j \in {} |-> nodes[head].buffer[nodes[head].read + j]]
        BY <1>7, <3>3
      <3>6. Numbers(pops, Upto(head) - pops) = [k \in {} |-> pops + k]
        BY <3>2, <3>4 DEF Numbers
      <3>. QED BY <3>2, <3>5, <3>6
    <2>2. CASE ~(nodes[head].read > NodeSize)
      <3>1. Upto(head) - pops = nodes[head].write - nodes[head].read
            /\ nodes[head].write - nodes[head].read \in Nat
        BY <1>1, <1>5, <1>6, <2>2
      <3>2. \A j \in 1 .. nodes[head].write - nodes[head].read :
              nodes[head].buffer[nodes[head].read + j] = pops + j
        <4> SUFFICES ASSUME NEW j \in 1 .. nodes[head].write - nodes[head].read
                     PROVE  nodes[head].buffer[nodes[head].read + j] = pops + j
          OBVIOUS
        <4>1. nodes[head].read + j \in 1 .. nodes[head].write
          BY <1>6
        <4>2. nodes[head].buffer[nodes[head].read + j] = Base(head) + (nodes[head].read + j)
          BY <1>3, <1>6, <4>1
        <4>. QED BY <1>1, <1>5, <1>6, <2>2, <4>2
      <3>. QED BY <1>7, <3>1, <3>2 DEF Numbers
    <2>. QED BY <2>1, <2>2
  <1>9. ASSUME NEW i \in head + 1 .. tail
        PROVE  /\ Upto(i - 1) = Base(i) /\ Base(i) \in Nat /\ Base(i) - pops \in Nat
               /\ nodes[i].write \in Nat
               /\ Part(nodes[i]) = [j \in 1 .. nodes[i].write |-> Base(i) + j]
    <2>1. i \in 1 .. t /\ i - 1 \in 1 .. t - 1 /\ i - 1 \in Nat \ {0} /\ i - (head + 1) \in Nat
      BY <1>1
    <2>2. Base(i) = Base(i - 1) + NodeSize /\ Base(i - 1) \in Nat
      <3>1. Base((i - 1) + 1) = Base(i - 1) + NodeSize /\ Base(i - 1) \in Nat
        BY <2>1, BaseSteps
      <3>. QED BY <2>1, <3>1
    <2>3. Upto(i - 1) = Base(i)
      BY <1>4, <2>1, <2>2
    <2>4. Base(i) >= Base(head + 1) /\ Base(i) \in Nat
      <3>1. PICK d \in Nat : d = i - (head + 1)
        BY <2>1
      <3>2. head + 1 \in Nat \ {0} /\ (head + 1) + d = i
        BY <1>1, <2>1, <3>1
      <3>3. Base((head + 1) + d) >= Base(head + 1) /\ Base((head + 1) + d) \in Nat
        BY <3>2, BaseGrows
      <3>. QED BY <3>2, <3>3
    <2>5. Base(i) - pops \in Nat
      BY <1>1, <1>5, <1>6, <2>4
    <2>6. nodes[i].read = 0
      BY <1>1 DEF FifoInv, ReaderInv, HeadAndDeleted
    <2>7. nodes[i].write \in 0 .. NodeSize
          /\ nodes[i].buffer \in [1 .. NodeSize -> 1 .. MaxPushes \cup {Nothing}]
      BY <1>1, <1>2, <2>1
    <2>8. Part(nodes[i]) = [j \in 1 .. nodes[i].write - 0 |-> nodes[i].buffer[0 + j]]
      BY <1>1, <2>6, <2>7, PartOf DEF Part
    <2>9. nodes[i].write - 0 = nodes[i].write
          /\ \A j \in 1 .. nodes[i].write : nodes[i].buffer[0 + j] = Base(i) + j
      BY <1>3, <2>1, <2>7
    <2>. QED BY <2>3, <2>4, <2>5, <2>7, <2>8, <2>9
  <1>. QED BY <1>8, <1>9

Listed == Contents = Numbers(pops, Upto(tail) - pops) /\ Upto(tail) - pops \in Nat

LEMMA ContentsAre == ASSUME FifoInv PROVE Listed
  <1> DEFINE n == tail - head + 1
             parts == [k \in 1 .. n |-> Part(nodes[head + k - 1])]
             f == [k \in 1 .. n |-> Numbers(pops, Upto(head + k - 1) - pops)]
  <1>1. head \in Nat \ {0} /\ tail \in Nat /\ n \in Nat \ {0} /\ head + n - 1 = tail
        /\ head + 1 - 1 = head /\ pops \in Nat
    <2>1. head \in Nat \ {0} /\ tail \in Nat /\ head <= tail
      BY AtTheHead
    <2>2. pops \in Nat
      BY DEF FifoInv, TypeOK
    <2>. QED BY <2>1, <2>2
  <1>2. Part(nodes[head]) = Numbers(pops, Upto(head) - pops) /\ Upto(head) - pops \in Nat
    BY PartsAreNumbers
  <1>3. ASSUME NEW k \in 1 .. n, k # 1
        PROVE  /\ Part(nodes[head + k - 1]) \in Seq(Nat)
               /\ f[k] = f[k - 1] \o Part(nodes[head + k - 1])
               /\ Upto(head + k - 1) - pops \in Nat
    <2>1. PICK i \in head + 1 .. tail : i = head + k - 1
      BY <1>1, <1>3
    <2>2. /\ Upto(i - 1) = Base(i) /\ Base(i) \in Nat /\ Base(i) - pops \in Nat
          /\ nodes[i].write \in Nat
          /\ Part(nodes[i]) = [j \in 1 .. nodes[i].write |-> Base(i) + j]
      BY PartsAreNumbers
    <2>3. Part(nodes[i]) \in Seq(Nat) /\ Len(Part(nodes[i])) = nodes[i].write
      BY <2>2
    <2>4. \A j \in 1 .. nodes[i].write : Part(nodes[i])[j] = pops + (Base(i) - pops) + j
      BY <1>1, <2>2
    <2>5. Numbers(pops, Base(i) - pops) \o Part(nodes[i])
            = Numbers(pops, (Base(i) - pops) + nodes[i].write)
      <3>1. PICK p, a, b, m : /\ p = pops /\ a = Base(i) - pops
                              /\ b = Part(nodes[i]) /\ m = nodes[i].write
        OBVIOUS
      <3>2. /\ p \in Nat /\ a \in Nat /\ m \in Nat /\ b \in Seq(Nat) /\ Len(b) = m
            /\ \A j \in 1 .. m : b[j] = p + a + j
        BY <1>1, <2>2, <2>3, <2>4, <3>1
      <3>. HIDE DEF f, parts, n
      <3>3. Numbers(p, a) \o b = Numbers(p, a + m)
        BY <3>2, NumbersJoin, ZenonT(30)
      <3>. QED BY <3>1, <3>3
    <2>6. (Base(i) - pops) + nodes[i].write = Upto(i) - pops /\ Upto(i) - pops \in Nat
      BY <1>1, <2>2 DEF Upto
    <2>7. k - 1 \in 1 .. n /\ head + (k - 1) - 1 = i - 1
      BY <1>1, <1>3, <2>1
    <2>8. f[k - 1] = Numbers(pops, Base(i) - pops)
      BY <2>2, <2>7
    <2>9. f[k] = Numbers(pops, Upto(i) - pops)
      BY <2>1
    <2>. QED BY <2>1, <2>3, <2>5, <2>6, <2>8, <2>9
  <1>4. Part(nodes[head]) \in Seq(Nat)
    BY <1>1, <1>2 DEF Numbers
  <1>5. parts \in [1 .. n -> Seq(Nat)]
    <2>1. ASSUME NEW k \in 1 .. n PROVE Part(nodes[head + k - 1]) \in Seq(Nat)
      BY <1>1, <1>3, <1>4
    <2>. QED BY <2>1
  <1>6. f = [k \in 1 .. n |-> IF k = 1 THEN parts[k] ELSE f[k - 1] \o parts[k]]
    <2>1. ASSUME NEW k \in 1 .. n
          PROVE  f[k] = IF k = 1 THEN parts[k] ELSE f[k - 1] \o parts[k]
      <3>1. parts[k] = Part(nodes[head + k - 1]) /\ f[k] = Numbers(pops, Upto(head + k - 1) - pops)
        OBVIOUS
      <3> HIDE DEF f, parts, n
      <3>2. CASE k = 1
        BY <1>1, <1>2, <3>1, <3>2
      <3>3. CASE k # 1
        BY <1>3, <3>1, <3>3
      <3>. QED BY <3>2, <3>3
    <2>2. f = [k \in 1 .. n |-> f[k]]
      OBVIOUS
    <2> HIDE DEF f, parts, n
    <2>. QED BY <2>1, <2>2
  <1>7. FlattenSeq(parts) = f[n]
    <2> HIDE DEF f, parts, n
    <2>1. n \in Nat \ {0}
      BY <1>1
    <2>. QED BY <2>1, <1>5, <1>6, FlattenIs, ZenonT(30)
  <1>8. f[n] = Numbers(pops, Upto(tail) - pops)
    <2> HIDE DEF n
    <2>1. n \in 1 .. n
      BY <1>1
    <2>. QED BY <1>1, <2>1
  <1>9. Upto(tail) - pops \in Nat
    <2> HIDE DEF n, f, parts
    <2>1. CASE n = 1
      BY <1>1, <1>2, <2>1
    <2>2. CASE n # 1
      <3>1. n \in 1 .. n
        BY <1>1
      <3>2. Upto(head + n - 1) - pops \in Nat
        BY <1>3, <2>2, <3>1
      <3>. QED BY <1>1, <3>2
    <2>. QED BY <2>1, <2>2
  <1>. QED BY <1>7, <1>8, <1>9 DEF Contents, Listed

LEMMA NewNodeKept == FifoInv /\ NewNode /\ [Next]_vars => NewNode'
  <1> SUFFICES ASSUME FifoInv, NewNode, [Next]_vars PROVE NewNode'
    OBVIOUS
  <1>1. /\ AtTheTail /\ t \in Nat \ {0} /\ tail \in Nat /\ t = Len(nodes)
        /\ nodes \in Seq(NodeType) /\ nodes[t].write \in Nat /\ NodeSize \in Nat \ {0}
    BY NodesAreNodes DEF FifoInv, WriterInv, AtTheTail, TypeOK
  <1>2. CASE Push
    <2>1. wpc' = "advance" /\ tail' = tail /\ tail = t /\ wpc = "idle"
      BY <1>1, <1>2 DEF Push, AtTheTail
    <2>2. CASE nodes[tail].write = NodeSize
      <3>1. t' = Len(nodes) + 1
            /\ nodes' = [Append(nodes, Blank) EXCEPT ![t + 1].buffer[Append(nodes, Blank)[t + 1].write + 1] = pushes']
        BY <1>1, <1>2, <2>2 DEF Push
      <3>2. Append(nodes, Blank)[t + 1] = Blank /\ t + 1 \in DOMAIN Append(nodes, Blank)
        BY <1>1
      <3>3. nodes'[t + 1] = [Blank EXCEPT !.buffer[Blank.write + 1] = pushes']
        BY <3>1, <3>2
      <3>4. nodes'[t + 1].write = 0
        BY <3>3 DEF Blank
      <3>. QED BY <1>1, <2>1, <3>1, <3>4 DEF NewNode
    <2>3. CASE nodes[tail].write # NodeSize
      <3>1. t' = tail
        BY <1>2, <2>3 DEF Push
      <3>. QED BY <1>1, <2>1, <3>1 DEF NewNode
    <2>. QED BY <2>2, <2>3
  <1>3. CASE Advance
    <2>1. /\ wpc = "advance" /\ t' = t /\ tail' = tail
          /\ wpc' = (IF tail # t THEN "link" ELSE "idle")
          /\ nodes' = [nodes EXCEPT ![t].write = nodes[t].write + 1]
      BY <1>3 DEF Advance
    <2>2. nodes'[t].write = nodes[t].write + 1
      BY <1>1, <2>1 DEF NodeType
    <2>3. tail # t => tail < t
      BY <1>1 DEF AtTheTail
    <2>. QED BY <2>1, <2>2, <2>3 DEF NewNode
  <1>4. CASE Link
    <2>1. /\ wpc = "link" /\ wpc' = "publish" /\ t' = t /\ tail' = tail
          /\ nodes' = [nodes EXCEPT ![tail].next = t] /\ tail # t
      BY <1>1, <1>4 DEF Link, AtTheTail
    <2>2. nodes'[t] = nodes[t]
      BY <1>1, <2>1
    <2>. QED BY <2>1, <2>2 DEF NewNode
  <1>5. CASE Publish
    BY <1>5 DEF Publish, NewNode
  <1>6. CASE Reader \/ UNCHANGED vars
    <2>1. wpc' = wpc /\ t' = t /\ tail' = tail /\ nodes'[t].write = nodes[t].write
      <3>1. CASE Pop
        <4>1. nodes' = [nodes EXCEPT ![head].read = nodes[head].read + 1]
              /\ UNCHANGED <<tail, writerVars>>
          BY <3>1 DEF Pop
        <4>2. nodes[t] \in NodeType /\ t \in DOMAIN nodes
          BY <1>1
        <4>. QED BY <4>1, <4>2 DEF writerVars, NodeType
      <3>2. CASE ~Pop
        BY <1>6, <3>2 DEF Reader, CompareTail, CompareWrite, FrontDrop, FrontRead, PopEdge,
                          PopBeyond, writerVars, vars
      <3>. QED BY <3>1, <3>2
    <2>. QED BY <2>1 DEF NewNode
  <1>. QED BY <1>2, <1>3, <1>4, <1>5, <1>6 DEF Next, Writer

\* The queue of numbers that begins after a.
LEMMA NumbersAre ==
  ASSUME NEW a \in Nat, NEW n \in Nat
  PROVE  /\ Numbers(a, n) \in Seq(Nat) /\ Len(Numbers(a, n)) = n
         /\ Numbers(a, n + 1) = Append(Numbers(a, n), a + n + 1)
         /\ Numbers(a, n) = <<>> <=> n = 0
         /\ n # 0 => /\ Head(Numbers(a, n)) = a + 1
                     /\ Tail(Numbers(a, n)) = Numbers(a + 1, n - 1)
  <1>1. Numbers(a, n) \in Seq(Nat) /\ Len(Numbers(a, n)) = n
    BY DEF Numbers
  <1>2. Numbers(a, n + 1) = Append(Numbers(a, n), a + n + 1)
    <2>1. PICK s : s = Numbers(a, n)
      OBVIOUS
    <2>2. s \in Seq(Nat) /\ Len(s) = n /\ \A k \in 1 .. n : s[k] = a + k
      BY <1>1, <2>1 DEF Numbers
    <2>3. /\ Append(s, a + n + 1) \in Seq(Nat) /\ Len(Append(s, a + n + 1)) = n + 1
          /\ \A k \in 1 .. n : Append(s, a + n + 1)[k] = a + k
          /\ Append(s, a + n + 1)[n + 1] = a + n + 1
      BY <2>2, AppendProperties
    <2>4. PICK u : u = Numbers(a, n + 1)
      OBVIOUS
    <2>5. u \in Seq(Nat) /\ Len(u) = n + 1 /\ \A k \in 1 .. n + 1 : u[k] = a + k
      BY <2>4 DEF Numbers
    <2>6. \A k \in 1 .. Len(u) : u[k] = Append(s, a + n + 1)[k]
      <3> SUFFICES ASSUME NEW k \in 1 .. n + 1 PROVE u[k] = Append(s, a + n + 1)[k]
        BY <2>5
      <3>1. u[k] = a + k
        BY <2>5
      <3>2. CASE k = n + 1
        BY <2>3, <3>1, <3>2
      <3>3. CASE k # n + 1
        <4>1. k \in 1 .. n
          BY <3>3
        <4>. QED BY <2>3, <3>1, <4>1
      <3>. QED BY <3>2, <3>3
    <2>7. u = Append(s, a + n + 1)
      BY <2>3, <2>5, <2>6, SeqEqual
    <2>. QED BY <2>1, <2>4, <2>7
  <1>3. Numbers(a, n) = <<>> <=> n = 0
    BY <1>1, EmptySeq
  <1>4. ASSUME n # 0
        PROVE  Head(Numbers(a, n)) = a + 1 /\ Tail(Numbers(a, n)) = Numbers(a + 1, n - 1)
    <2>1. PICK s, u : s = Numbers(a, n) /\ u = Numbers(a + 1, n - 1)
      OBVIOUS
    <2>2. s \in Seq(Nat) /\ Len(s) = n /\ \A k \in 1 .. n : s[k] = a + k
      BY <1>1, <2>1 DEF Numbers
    <2>3. u \in Seq(Nat) /\ Len(u) = n - 1 /\ \A k \in 1 .. n - 1 : u[k] = a + k + 1
      BY <1>4, <2>1 DEF Numbers
    <2>4. s # <<>> /\ Head(s) = a + 1
      BY <1>4, <2>2
    <2>5. Tail(s) \in Seq(Nat) /\ Len(Tail(s)) = n - 1 /\ \A k \in 1 .. n - 1 : Tail(s)[k] = s[k + 1]
      BY <2>2, <2>4, HeadTailProperties
    <2>6. ASSUME NEW k \in 1 .. n - 1 PROVE Tail(s)[k] = u[k]
      <3>1. k + 1 \in 1 .. n /\ a + (k + 1) = a + k + 1
        BY <1>4
      <3>. QED BY <2>2, <2>3, <2>5, <3>1
    <2>7. Tail(s) = u
      BY <2>3, <2>5, <2>6, SeqEqual
    <2>. QED BY <2>1, <2>4, <2>7
  <1>. QED BY <1>1, <1>2, <1>3, <1>4

\* A step that neither adds nor takes an element.
LEMMA Unseen ==
  ASSUME Listed, Listed', UNCHANGED <<pops, last>>, Upto(tail)' = Upto(tail),
         WillBeEmpty' <=> WillBeEmpty
  PROVE  UNCHANGED Queue!vars
  <1>1. Contents' = Contents
    BY DEF Listed, Numbers
  <1>2. WillBeEmpty' = WillBeEmpty
    BY Zenon DEF WillBeEmpty
  <1>. QED BY <1>1, <1>2 DEF Queue!vars

LEMMA WriterRefines ==
  ASSUME FifoInv, NewNode, Listed, Listed', Writer
  PROVE  [Queue!Next]_(Queue!vars)
  <1>1. /\ AtTheTail /\ t \in Nat \ {0} /\ tail \in 1 .. t /\ t = Len(nodes)
        /\ nodes \in Seq(NodeType) /\ NodeSize \in Nat \ {0} /\ head \in 1 .. tail
        /\ \A i \in 1 .. t : nodes[i] \in NodeType /\ nodes[i].write \in Nat
    BY NodesAreNodes, AtTheHead DEF FifoInv, WriterInv, AtTheTail, TypeOK
  <1>2. UNCHANGED readerVars
    BY DEF Writer, Push, Advance, Link, Publish
  <1>3. ASSUME UNCHANGED tail, nodes'[tail].write = nodes[tail].write,
               nodes'[head].write = nodes[head].write, nodes'[head].read = nodes[head].read
        PROVE  UNCHANGED Queue!vars
    <2>1. Upto(tail)' = Upto(tail)
      BY <1>3 DEF Upto, Base
    <2>2. WillBeEmpty' <=> WillBeEmpty
      BY <1>2, <1>3 DEF WillBeEmpty, readerVars
    <2>. QED BY <1>2, <2>1, <2>2, Unseen DEF readerVars
  <1>4. CASE Push
    <2> DEFINE n == IF nodes[tail].write = NodeSize THEN Len(nodes) + 1 ELSE tail
               all == IF nodes[tail].write = NodeSize THEN Append(nodes, Blank) ELSE nodes
    <2>1. /\ tail' = tail
          /\ nodes' = [all EXCEPT ![n].buffer[all[n].write + 1] = pushes']
      BY <1>4 DEF Push
    <2>2. \A i \in 1 .. t : all[i] = nodes[i] /\ i \in DOMAIN all
      BY <1>1
    <2>3. \A i \in 1 .. t : /\ nodes'[i].write = nodes[i].write
                            /\ nodes'[i].read = nodes[i].read
      <3> SUFFICES ASSUME NEW i \in 1 .. t
                   PROVE  nodes'[i].write = nodes[i].write /\ nodes'[i].read = nodes[i].read
        OBVIOUS
      <3> HIDE DEF n, all
      <3>1. CASE i = n
        <4>1. nodes'[i] = [nodes[i] EXCEPT !.buffer[all[n].write + 1] = pushes']
          BY <2>1, <2>2, <3>1
        <4>. QED BY <1>1, <4>1 DEF NodeType
      <3>2. CASE i # n
        BY <2>1, <2>2, <3>2
      <3>. QED BY <3>1, <3>2
    <2>4. head \in 1 .. t /\ tail \in 1 .. t
      BY <1>1
    <2>. QED BY <1>3, <2>1, <2>3, <2>4
  <1>5. CASE Advance
    <2>1. /\ t' = t /\ tail' = tail /\ wpc = "advance"
          /\ nodes' = [nodes EXCEPT ![t].write = nodes[t].write + 1]
      BY <1>5 DEF Advance
    <2>2. /\ nodes'[t].write = nodes[t].write + 1 /\ nodes'[t].read = nodes[t].read
          /\ \A i \in 1 .. t : i # t => nodes'[i] = nodes[i]
      BY <1>1, <2>1 DEF NodeType
    <2>3. CASE tail # t
      <3>1. tail \in 1 .. t /\ head \in 1 .. t /\ tail # t /\ head # t
        BY <1>1, <2>3
      <3>2. nodes'[tail] = nodes[tail] /\ nodes'[head] = nodes[head]
        BY <2>2, <3>1
      <3>. QED BY <1>3, <2>1, <3>2
    <2>4. CASE tail = t
      <3>1. Upto(tail)' = Upto(tail) + 1 /\ Upto(tail) \in Int /\ pops \in Nat /\ pops' = pops
            /\ last' = last
        <4>1. Base(t)' = Base(t) /\ Base(t) \in Nat
          BY <1>1, BaseSteps, <2>1 DEF Base
        <4>2. pops \in Nat
          BY DEF FifoInv, TypeOK
        <4>3. nodes[t].write \in Nat /\ t \in 1 .. t
          BY <1>1
        <4>4. Upto(tail)' = Base(t) + (nodes[t].write + 1) /\ Upto(tail) = Base(t) + nodes[t].write
          BY <2>1, <2>2, <2>4, <4>1 DEF Upto
        <4>5. pops' = pops /\ last' = last
          BY <1>2 DEF readerVars
        <4>. QED BY <4>1, <4>2, <4>3, <4>4, <4>5
      <3>2. PICK m \in Nat : m = Upto(tail) - pops
        BY DEF Listed
      <3>3. Upto(tail)' - pops' = m + 1
        BY <3>1, <3>2
      <3>4. Contents = Numbers(pops, m) /\ Contents' = Numbers(pops, m + 1)
        BY <3>1, <3>2, <3>3 DEF Listed, Numbers
      <3>5. Contents' = Append(Contents, pops + Len(Contents) + 1)
        <4>1. PICK p \in Nat : p = pops
          BY <3>1
        <4>2. Len(Numbers(p, m)) = m /\ Numbers(p, m + 1) = Append(Numbers(p, m), p + m + 1)
          BY NumbersAre
        <4>. QED BY <3>4, <4>1, <4>2
      <3>6. WillBeEmpty' => WillBeEmpty
        <4>1. nodes[head].read \in Nat /\ nodes[head].write \in Nat
          BY AtTheHead
        <4>. QED BY <1>1, <1>2, <2>2, <4>1 DEF WillBeEmpty, readerVars
      <3>7. WillBeEmpty' \in {WillBeEmpty, FALSE}
        BY <3>6, Zenon DEF WillBeEmpty
      <3>. QED BY <3>1, <3>5, <3>7 DEF Queue!Next, Queue!Push
    <2>. QED BY <2>3, <2>4
  <1>6. CASE Link
    <2>1. tail' = tail /\ nodes' = [nodes EXCEPT ![tail].next = t]
      BY <1>6 DEF Link
    <2>2. \A i \in 1 .. t : nodes'[i].read = nodes[i].read /\ nodes'[i].write = nodes[i].write
      <3>1. nodes'[tail] = [nodes[tail] EXCEPT !.next = t]
        BY <1>1, <2>1
      <3>2. nodes'[tail].read = nodes[tail].read /\ nodes'[tail].write = nodes[tail].write
        BY <1>1, <3>1 DEF NodeType
      <3>3. \A i \in 1 .. t : i # tail => nodes'[i] = nodes[i]
        BY <1>1, <2>1
      <3>. QED BY <3>2, <3>3
    <2>. QED BY <1>1, <1>3, <2>1, <2>2
  <1>7. CASE Publish
    <2>1. tail' = t /\ nodes' = nodes /\ wpc = "publish"
      BY <1>7 DEF Publish
    <2>2. tail = t - 1 /\ nodes[t].write = 1 /\ tail \in 1 .. t - 1
      BY <1>1, <2>1 DEF NewNode, AtTheTail
    <2>3. nodes[tail].write = NodeSize
      BY <2>2 DEF FifoInv, WriterInv, NodesAreFull
    <2>4. Base(t) = Base(tail) + NodeSize /\ Base(tail) \in Nat
      <3>1. tail \in Nat \ {0} /\ t = tail + 1
        BY <1>1, <2>2
      <3>. QED BY <3>1, BaseSteps
    <2>5. PICK m \in Nat : m = Upto(tail) - pops
      BY DEF Listed
    <2>6. Upto(tail)' - pops' = m + 1 /\ pops' = pops /\ last' = last /\ pops \in Nat
      <3>1. Upto(tail)' = Base(t) + nodes[t].write
        BY <2>1 DEF Upto, Base
      <3>2. Upto(tail) = Base(tail) + NodeSize
        BY <2>3 DEF Upto
      <3>3. pops \in Nat
        BY DEF FifoInv, TypeOK
      <3>. QED BY <1>1, <1>2, <2>2, <2>4, <2>5, <3>1, <3>2, <3>3 DEF readerVars
    <2>7. Contents = Numbers(pops, m) /\ Contents' = Numbers(pops, m + 1)
      BY <2>5, <2>6 DEF Listed, Numbers
    <2>8. Contents' = Append(Contents, pops + Len(Contents) + 1)
      <3>1. PICK p \in Nat : p = pops
        BY <2>6
      <3>2. Len(Numbers(p, m)) = m /\ Numbers(p, m + 1) = Append(Numbers(p, m), p + m + 1)
        BY NumbersAre
      <3>. QED BY <2>7, <3>1, <3>2
    <2>9. WillBeEmpty' = WillBeEmpty
      BY <1>2, <2>1 DEF WillBeEmpty, readerVars
    <2>10. WillBeEmpty' \in {WillBeEmpty, FALSE}
      BY <2>9
    <2>. QED BY <2>6, <2>8, <2>10 DEF Queue!Next, Queue!Push
  <1>. QED BY <1>4, <1>5, <1>6, <1>7 DEF Writer

LEMMA ReaderRefines ==
  ASSUME FifoInv, Listed, Listed', Reader
  PROVE  [Queue!Next]_(Queue!vars)
  <1>1. /\ head \in 1 .. tail /\ head \in Nat /\ tail \in Nat /\ NodeSize \in Nat \ {0}
        /\ nodes[head] \in NodeType /\ nodes[head].read \in Nat /\ nodes[head].write \in Nat
        /\ nodes[head].write <= NodeSize /\ Base(head) \in Nat
        /\ head < tail => nodes[head].write = NodeSize
    BY AtTheHead
  <1>2. UNCHANGED <<tail, writerVars>>
    BY DEF Reader, CompareTail, CompareWrite, FrontDrop, FrontRead, Pop, PopEdge, PopBeyond
  <1>3. pops \in Nat /\ PopsAreReads /\ ThereIsSomething
    BY DEF FifoInv, TypeOK, ReaderInv
  <1>4. PICK n \in Nat : n = Upto(tail) - pops
    BY DEF Listed
  <1>5. Contents = Numbers(pops, n)
    BY <1>4 DEF Listed
  <1>6. ASSUME nodes' = nodes PROVE Upto(tail)' = Upto(tail)
    BY <1>2, <1>6 DEF Upto, Base
  <1>7. ASSUME nodes' = nodes, UNCHANGED pops PROVE Contents' = Contents
    BY <1>6, <1>7 DEF Listed, Numbers
  <1>8. /\ Contents = <<>> <=> n = 0
        /\ n # 0 => Head(Contents) = pops + 1 /\ Tail(Contents) = Numbers(pops + 1, n - 1)
    <2>1. PICK p \in Nat : p = pops
      BY <1>3
    <2>2. /\ Numbers(p, n) = <<>> <=> n = 0
          /\ n # 0 => Head(Numbers(p, n)) = p + 1 /\ Tail(Numbers(p, n)) = Numbers(p + 1, n - 1)
      BY NumbersAre
    <2>. QED BY <1>5, <2>1, <2>2
  <1>9. CASE CompareTail
    <2>1. /\ nodes' = nodes /\ pops' = pops /\ last' = last /\ head' = head
          /\ rpc = "idle" /\ rpc' = (IF head = tail THEN "compare" ELSE "some")
      BY <1>9 DEF CompareTail
    <2>2. CASE head # tail
      <3>1. WillBeEmpty' <=> WillBeEmpty
        BY <2>1, <2>2 DEF WillBeEmpty
      <3>. QED BY <1>6, <2>1, <3>1, Unseen
    <2>3. CASE head = tail
      <3>1. n = 0 <=> nodes[head].read >= nodes[head].write
        <4>1. n = (Base(head) + nodes[head].write) - pops
          BY <1>4, <2>3 DEF Upto
        <4>2. pops = Base(head) + nodes[head].read
          BY <1>1, <1>3, <2>3 DEF PopsAreReads
        <4>. QED BY <1>1, <4>1, <4>2
      <3>2. WillBeEmpty' <=> Contents = <<>>
        BY <1>8, <2>1, <2>3, <3>1 DEF WillBeEmpty
      <3>3. WillBeEmpty' = (Contents = <<>>)
        BY <3>2, Zenon DEF WillBeEmpty
      <3>. QED BY <1>7, <2>1, <3>3 DEF Queue!Next, Queue!AskEmpty
    <2>. QED BY <2>2, <2>3
  <1>10. CASE CompareWrite
    <2>1. /\ nodes' = nodes /\ pops' = pops /\ head' = head /\ rpc = "compare"
          /\ IF nodes[head].read >= nodes[head].write
             THEN rpc' = "idle" /\ last' = Empty
             ELSE rpc' = "some" /\ last' = last
      BY <1>10 DEF CompareWrite
    <2>2. CASE nodes[head].read >= nodes[head].write
      <3>1. WillBeEmpty /\ WillBeEmpty' = FALSE
        BY <2>1, <2>2 DEF WillBeEmpty
      <3>. QED BY <1>7, <2>1, <2>2, <3>1 DEF Queue!Next, Queue!IsEmpty
    <2>3. CASE ~(nodes[head].read >= nodes[head].write)
      <3>1. WillBeEmpty' <=> WillBeEmpty
        BY <2>1, <2>3 DEF WillBeEmpty
      <3>. QED BY <1>6, <2>1, <2>3, <3>1, Unseen
    <2>. QED BY <2>2, <2>3
  <1>11. CASE FrontDrop \/ PopEdge \/ PopBeyond
    <2>1. /\ nodes' = nodes /\ pops' = pops /\ last' = last
          /\ rpc # "compare" /\ rpc' # "compare"
      BY <1>11 DEF FrontDrop, PopEdge, PopBeyond
    <2>2. WillBeEmpty' <=> WillBeEmpty
      BY <2>1 DEF WillBeEmpty
    <2>. QED BY <1>6, <2>1, <2>2, Unseen
  <1>12. CASE FrontRead
    <2>1. /\ nodes' = nodes /\ pops' = pops /\ rpc # "compare" /\ rpc' # "compare"
          /\ rpc = "front" \/ (rpc = "some" /\ nodes[head].read # NodeSize)
          /\ last' = nodes[head].buffer[nodes[head].read + 1]
      BY <1>12 DEF FrontRead, AtEnd
    <2>2. nodes[head].read < nodes[head].write
      BY <1>1, <1>3, <2>1 DEF ThereIsSomething, PopsAreReads
    <2>3. last' = pops + 1
      BY <2>1, <2>2, NextElement
    <2>4. n # 0
      <3>1. Upto(head) > pops /\ Upto(head) \in Nat
        BY <1>1, <1>3, <2>2 DEF Upto, PopsAreReads
      <3>2. CASE head = tail
        <4>1. n = Upto(head) - pops
          BY <1>4, <3>2
        <4>. QED BY <1>3, <3>1, <4>1
      <3>3. CASE head < tail
        <4>1. tail \in head + 1 .. tail /\ tail > 1
          BY <1>1, <3>3
        <4>2. /\ Base(tail) - pops \in Nat /\ Base(tail) \in Nat /\ nodes[tail].write \in Nat
          BY <4>1, PartsAreNumbers
        <4>3. nodes[tail].write >= 1
          <5>1. /\ NodesAreFull /\ AtTheTail /\ t \in Nat
            BY AtTheHead DEF FifoInv, WriterInv
          <5>2. CASE tail = t
            BY <4>1, <5>1, <5>2 DEF NodesAreFull
          <5>3. CASE tail # t
            <6>1. tail \in 1 .. t - 1
              BY <1>1, <4>1, <5>1, <5>3, AtTheHead
            <6>. QED BY <1>1, <5>1, <6>1 DEF NodesAreFull
          <5>. QED BY <5>2, <5>3
        <4>. QED BY <1>3, <1>4, <4>2, <4>3 DEF Upto
      <3>. QED BY <1>1, <3>2, <3>3
    <2>5. WillBeEmpty' = WillBeEmpty
      BY <2>1 DEF WillBeEmpty
    <2>6. Contents # <<>> /\ last' = Head(Contents)
      BY <1>8, <2>3, <2>4
    <2>. QED BY <1>7, <2>1, <2>5, <2>6 DEF Queue!Next, Queue!Front
  <1>13. CASE Pop
    <2>1. /\ nodes' = [nodes EXCEPT ![head].read = nodes[head].read + 1]
          /\ rpc # "compare" /\ rpc' # "compare"
          /\ IF AtEnd THEN UNCHANGED <<pops, last>> ELSE pops' = pops + 1 /\ last' = Nothing
      BY <1>13 DEF Pop
    <2>2. Upto(tail)' = Upto(tail)
      <3>1. nodes'[tail].write = nodes[tail].write
        <4>1. nodes \in Seq(NodeType) /\ head \in DOMAIN nodes /\ tail \in DOMAIN nodes
          BY DEF FifoInv, TypeOK
        <4>2. nodes'[head].write = nodes[head].write
          BY <1>1, <2>1, <4>1 DEF NodeType
        <4>3. head # tail => nodes'[tail] = nodes[tail]
          BY <2>1, <4>1
        <4>. QED BY <4>2, <4>3
      <3>. QED BY <1>2, <3>1 DEF Upto, Base
    <2>3. WillBeEmpty' = WillBeEmpty
      BY <2>1 DEF WillBeEmpty
    <2>4. CASE AtEnd
      <3>1. WillBeEmpty' <=> WillBeEmpty
        BY <2>3
      <3>. QED BY <2>1, <2>2, <2>4, <3>1, Unseen
    <2>5. CASE ~AtEnd
      <3>1. pops' = pops + 1 /\ last' = Nothing
        BY <2>1, <2>5
      <3>2. Upto(tail)' - pops' = n - 1 /\ n - 1 \in Nat
        <4>1. Upto(tail)' - pops' \in Nat
          BY DEF Listed
        <4>2. Upto(tail) \in Int
          <5>1. Base(tail) \in Nat /\ nodes[tail].write \in Nat
            <6>1. tail \in Nat \ {0} /\ tail \in 1 .. t
              BY AtTheHead
            <6>2. Base(tail) \in Nat
              BY <6>1, BaseSteps
            <6>3. nodes[tail].write \in Nat
              BY <6>1, NodesAreNodes DEF FifoInv, WriterInv
            <6>. QED BY <6>2, <6>3
          <5>. QED BY <5>1 DEF Upto
        <4>. QED BY <1>3, <1>4, <2>2, <3>1, <4>1, <4>2
      <3>3. Contents' = Numbers(pops + 1, n - 1)
        BY <3>1, <3>2 DEF Listed, Numbers
      <3>4. Contents # <<>> /\ Contents' = Tail(Contents)
        <4>1. n # 0
          BY <3>2
        <4>. QED BY <1>8, <3>3, <4>1
      <3>. QED BY <2>3, <3>1, <3>4 DEF Queue!Next, Queue!Pop
    <2>. QED BY <2>4, <2>5
  <1>. QED BY <1>9, <1>10, <1>11, <1>12, <1>13 DEF Reader

\* The list of blocks implements the queue that FifoMatrix and the seeds of the
\* nested search rely on, for blocks of any size and any number of elements:
\* nothing is lost, doubled or reordered, front() returns the oldest element, and
\* empty() says so only of a queue that was empty when it was asked
\* (brick-shmem.h:403-467).
THEOREM Refinement == Spec => ImplementsQueue
  <1>1. Init => Queue!Init
    <2> SUFFICES ASSUME Init PROVE Queue!Init
      OBVIOUS
    <2>1. Listed
      BY InitFifoInv, ContentsAre
    <2>2. Contents = Numbers(0, 0)
      <3>1. Upto(tail) - pops = 0
        <4>1. tail = 1 /\ pops = 0 /\ nodes[1].write = 0 /\ Base(1) = 0
          BY BaseSteps DEF Init, Blank
        <4>. QED BY <4>1 DEF Upto
      <3>. QED BY <2>1, <3>1 DEF Listed, Init
    <2>3. Contents = <<>>
      BY <2>2, NumbersAre
    <2>4. WillBeEmpty = FALSE
      BY DEF WillBeEmpty, Init
    <2>. QED BY <2>3, <2>4 DEF Init, Queue!Init
  <1>2. Init => NewNode
    BY DEF Init, NewNode
  <1>3. FifoInv => Listed
    BY ContentsAre
  <1>4. FifoInv /\ NewNode /\ [Next]_vars => NewNode'
    BY NewNodeKept
  <1>5. FifoInv /\ NewNode /\ Listed /\ Listed' /\ [Next]_vars => [Queue!Next]_(Queue!vars)
    <2> SUFFICES ASSUME FifoInv, NewNode, Listed, Listed', [Next]_vars
                 PROVE  [Queue!Next]_(Queue!vars)
      OBVIOUS
    <2>1. CASE Next
      BY <2>1, WriterRefines, ReaderRefines DEF Next
    <2>2. CASE UNCHANGED vars
      <3>1. /\ UNCHANGED <<nodes, tail, pops, last, rpc, head>>
        BY <2>2 DEF vars, readerVars
      <3>2. Upto(tail)' = Upto(tail) /\ (WillBeEmpty' <=> WillBeEmpty)
        BY <3>1 DEF Upto, Base, WillBeEmpty
      <3>. QED BY <3>1, <3>2, Unseen
    <2>. QED BY <2>1, <2>2
  <1>. QED BY <1>1, <1>2, <1>3, <1>4, <1>5, FifoInvHolds, PTL DEF Spec, ImplementsQueue, Queue!Spec
=============================================================================
