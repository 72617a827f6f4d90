-------------------------------- MODULE Fifo --------------------------------
(***************************************************************************)
(* brick::shmem::Fifo (bricks/brick-shmem.h:359-469), the linked list of   *)
(* blocks over which one thread sends messages to another without a lock.  *)
(*                                                                         *)
(* A node is named by the number of its allocation.  The nodes that have   *)
(* been deleted are remembered, so that an access to one of them shows.    *)
(* Each step makes one access to memory the other thread writes; stores    *)
(* become visible in program order (the code was written for x86).         *)
(*                                                                         *)
(* The reader does what FifoMatrix::take and the checker of FifoTest do:   *)
(* it asks empty(), and if there is something, calls front() and pop(), or *)
(* pop() alone, which the class also allows.                               *)
(***************************************************************************)
EXTENDS Integers, Sequences, FiniteSets, SequencesExt

CONSTANTS
  NodeSize,     \* how many elements a node holds
  MaxPushes     \* a bound on what the writer pushes: the values 1, 2, ...

ASSUME FifoAssumption == NodeSize \in Nat \ {0} /\ MaxPushes \in Nat

\* What stands for no element, and for the answer of empty().
Nothing == 0
Empty == -1

VARIABLES
  nodes,     \* the nodes allocated so far
  head,      \* the reader's end
  tail,      \* the writer's end
  deleted,   \* the nodes that dropHead has deleted
  pushes,    \* the calls of push so far
  t,         \* the writer's local t
  pops,      \* the calls of pop that have taken an element
  last,      \* what the reader was told last
  wpc, rpc   \* the next step of the writer and of the reader

writerVars == <<pushes, t, wpc>>
readerVars == <<head, deleted, pops, last, rpc>>
vars == <<nodes, tail, writerVars, readerVars>>

NoNext == 0
Blank == [buffer |-> [i \in 1 .. NodeSize |-> Nothing],
          read |-> 0, write |-> 0, next |-> NoNext]

Init ==
  /\ nodes = <<Blank>>
  /\ head = 1
  /\ tail = 1
  /\ deleted = {}
  /\ pushes = 0
  /\ t = 1
  /\ pops = 0
  /\ last = Nothing
  /\ wpc = "idle"
  /\ rpc = "idle"

-----------------------------------------------------------------------------
(* The writer: push.                                                       *)

\* Mutant: the new node is taken one element too late.
Push_Late ==
  /\ wpc = "idle"
  /\ pushes < MaxPushes
  /\ pushes' = pushes + 1
  /\ LET full == nodes[tail].write > NodeSize
         n == IF full THEN Len(nodes) + 1 ELSE tail
         all == IF full THEN Append(nodes, Blank) ELSE nodes
     IN  /\ t' = n
         /\ nodes' = [all EXCEPT ![n].buffer[all[n].write + 1] = pushes']
  /\ wpc' = "advance"
  /\ UNCHANGED <<tail, readerVars>>

\* The element goes into the last node, or into a new one if that is full.
\* The reader does not look at it before write has been advanced.
Push ==
  /\ wpc = "idle"
  /\ pushes < MaxPushes
  /\ pushes' = pushes + 1
  /\ LET full == nodes[tail].write = NodeSize
         n == IF full THEN Len(nodes) + 1 ELSE tail
         all == IF full THEN Append(nodes, Blank) ELSE nodes
     IN  /\ t' = n
         /\ nodes' = [all EXCEPT ![n].buffer[all[n].write + 1] = pushes']
  /\ wpc' = "advance"
  /\ UNCHANGED <<tail, readerVars>>

\* ++t->write;
Advance ==
  /\ wpc = "advance"
  /\ nodes' = [nodes EXCEPT ![t].write = @ + 1]
  /\ wpc' = IF tail # t THEN "link" ELSE "idle"
  /\ UNCHANGED <<tail, pushes, t, readerVars>>

\* tail->next = t;
Link ==
  /\ wpc = "link"
  /\ nodes' = [nodes EXCEPT ![tail].next = t]
  /\ wpc' = "publish"
  /\ UNCHANGED <<tail, pushes, t, readerVars>>

\* tail = t;
Publish ==
  /\ wpc = "publish"
  /\ tail' = t
  /\ wpc' = "idle"
  /\ UNCHANGED <<nodes, pushes, t, readerVars>>

Writer == Push \/ Advance \/ Link \/ Publish

-----------------------------------------------------------------------------
(* The reader: empty, front and pop.                                       *)

AtEnd == nodes[head].read = NodeSize

DropHead == /\ head' = nodes[head].next
            /\ deleted' = deleted \cup {head}

\* Mutant: empty() compares the ends of the head, and never looks at the tail.
CompareTail_Never ==
  /\ rpc = "idle"
  /\ rpc' = "compare"
  /\ UNCHANGED <<nodes, tail, writerVars, head, deleted, pops, last>>

\* empty(): head == tail && ...
CompareTail ==
  /\ rpc = "idle"
  /\ rpc' = IF head = tail THEN "compare" ELSE "some"
  /\ UNCHANGED <<nodes, tail, writerVars, head, deleted, pops, last>>

\* ... head->read >= head->write
CompareWrite ==
  /\ rpc = "compare"
  /\ IF nodes[head].read >= nodes[head].write
     THEN rpc' = "idle" /\ last' = Empty
     ELSE rpc' = "some" /\ UNCHANGED last
  /\ UNCHANGED <<nodes, tail, writerVars, head, deleted, pops>>

\* front(): the last pop may have stopped at the edge of a node.
FrontDrop ==
  /\ rpc = "some"
  /\ AtEnd
  /\ DropHead
  /\ rpc' = "front"
  /\ UNCHANGED <<nodes, tail, writerVars, pops, last>>

FrontRead ==
  /\ rpc = "front" \/ (rpc = "some" /\ ~AtEnd)
  /\ last' = nodes[head].buffer[nodes[head].read + 1]
  /\ rpc' = "pop"
  /\ UNCHANGED <<nodes, tail, writerVars, head, deleted, pops>>

\* pop(): ++head->read; with or without a call of front() before it.  At the
\* edge of a node nothing has been popped yet: that is left to `again'.
Pop ==
  /\ rpc \in {"some", "pop", "again"}
  /\ nodes' = [nodes EXCEPT ![head].read = @ + 1]
  /\ IF AtEnd THEN UNCHANGED <<pops, last>>
              ELSE pops' = pops + 1 /\ last' = Nothing
  /\ rpc' = "edge"
  /\ UNCHANGED <<tail, writerVars, head, deleted>>

\* Mutants: the head is dropped though the writer is still there, or too early.
PopEdge_NoTail ==
  /\ rpc = "edge"
  /\ IF AtEnd THEN DropHead ELSE UNCHANGED <<head, deleted>>
  /\ rpc' = "beyond"
  /\ UNCHANGED <<nodes, tail, writerVars, pops, last>>

PopEdge_Early ==
  /\ rpc = "edge"
  /\ IF head # tail THEN DropHead ELSE UNCHANGED <<head, deleted>>
  /\ rpc' = "beyond"
  /\ UNCHANGED <<nodes, tail, writerVars, pops, last>>

\* The head is dropped at its edge, if there is another node already.
PopEdge ==
  /\ rpc = "edge"
  /\ IF AtEnd /\ head # tail THEN DropHead ELSE UNCHANGED <<head, deleted>>
  /\ rpc' = "beyond"
  /\ UNCHANGED <<nodes, tail, writerVars, pops, last>>

\* It was at the edge before: the pop starts again in the next node.
PopBeyond ==
  /\ rpc = "beyond"
  /\ IF head # tail /\ nodes[head].read > NodeSize
     THEN DropHead /\ rpc' = "again"
     ELSE UNCHANGED <<head, deleted>> /\ rpc' = "idle"
  /\ UNCHANGED <<nodes, tail, writerVars, pops, last>>

Reader == \/ CompareTail \/ CompareWrite \/ FrontDrop \/ FrontRead
          \/ Pop \/ PopEdge \/ PopBeyond

Next == Writer \/ Reader

Spec == Init /\ [][Next]_vars

\* Each of the two is a thread; the reader polls, the writer may stop between
\* two calls of push, but not within one.
FairSpec == Spec /\ WF_vars(Advance \/ Link \/ Publish) /\ WF_vars(Reader)

-----------------------------------------------------------------------------
NodeType == [buffer : [1 .. NodeSize -> 1 .. MaxPushes \cup {Nothing}],
             read : 0 .. NodeSize + 1, write : 0 .. NodeSize, next : Nat]

TypeOK ==
  /\ nodes \in Seq(NodeType)
  /\ {head, tail, t} \subseteq DOMAIN nodes
  /\ deleted \subseteq DOMAIN nodes
  /\ pushes \in 0 .. MaxPushes
  /\ pops \in 0 .. MaxPushes
  /\ last \in 1 .. MaxPushes \cup {Nothing, Empty}
  /\ wpc \in {"idle", "advance", "link", "publish"}
  /\ rpc \in {"idle", "compare", "some", "front", "pop", "edge", "beyond", "again"}

\* No thread ever holds a node that has been deleted: the reader drops one
\* only when the writer has left it for good (bricks/brick-shmem.h:436-439).
NoUseAfterDelete == {head, tail, t} \cap deleted = {}

\* The elements of a node between its read and its write.
Part(node) == SubSeq(node.buffer, node.read + 1, node.write)

\* What is in the queue: the elements from head to tail.
Contents == FlattenSeq([i \in 1 .. tail - head + 1 |-> Part(nodes[head + i - 1])])

\* empty() has seen head == tail, and will find that the node has been read.
WillBeEmpty == rpc = "compare" /\ nodes[head].read >= nodes[head].write

\* The list of nodes implements the queue: nothing is lost, doubled or
\* reordered, front() returns the oldest element, and empty() says that there
\* is nothing only if there was nothing when it was called.
Queue == INSTANCE AbstractQueue WITH queue <- Contents, popped <- pops,
                                     wasEmpty <- WillBeEmpty
ImplementsQueue == Queue!Spec

\* Everything that is pushed is popped in the end: the reader is never told for
\* ever that the queue is empty, nor stuck at the edge of a node.
Drained == \A v \in 1 .. MaxPushes : pushes >= v ~> pops >= v
=============================================================================
