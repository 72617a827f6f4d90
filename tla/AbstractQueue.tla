---------------------------- MODULE AbstractQueue ----------------------------
(***************************************************************************)
(* What brick::shmem::Fifo promises its one writer and its one reader: a   *)
(* first-in first-out queue, whose empty() may lag behind the writer.      *)
(*                                                                         *)
(* The elements are numbered as they are pushed, 1, 2, ..., so that one    *)
(* that is lost leaves a gap.                                              *)
(***************************************************************************)
EXTENDS Integers, Sequences

CONSTANTS Empty, Nothing

VARIABLES
  queue,
  popped,    \* how many elements have been popped
  last,      \* what the reader was told last, by empty() or front()
  wasEmpty   \* the call of empty() in progress began with an empty queue

vars == <<queue, popped, last, wasEmpty>>

Init == queue = <<>> /\ popped = 0 /\ last = Nothing /\ wasEmpty = FALSE

\* A call of empty() may notice what is pushed meanwhile, or not.
Push == /\ queue' = Append(queue, popped + Len(queue) + 1)
        /\ wasEmpty' \in {wasEmpty, FALSE}
        /\ UNCHANGED <<popped, last>>

AskEmpty == wasEmpty' = (queue = <<>>) /\ UNCHANGED <<queue, popped, last>>

\* empty() answers yes only if the queue was empty when it was asked.
IsEmpty == wasEmpty /\ last' = Empty /\ wasEmpty' = FALSE /\ UNCHANGED <<queue, popped>>

Front == queue # <<>> /\ last' = Head(queue) /\ UNCHANGED <<queue, popped, wasEmpty>>

Pop == /\ queue # <<>>
       /\ queue' = Tail(queue)
       /\ popped' = popped + 1
       /\ last' = Nothing
       /\ UNCHANGED wasEmpty

Next == Push \/ AskEmpty \/ IsEmpty \/ Front \/ Pop

Spec == Init /\ [][Next]_vars

=============================================================================
