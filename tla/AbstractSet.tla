----------------------------- MODULE AbstractSet -----------------------------
(***************************************************************************)
(* What the concurrent hash set promises: a set that only grows, shared by *)
(* threads.  insert() takes effect at once, and says whether the value is  *)
(* new; find() may answer no only if the value was not there when it was   *)
(* called.                                                                 *)
(***************************************************************************)
CONSTANTS Threads, Values, NoCall

VARIABLES
  contents,
  call        \* the call in progress of each thread, or what it has answered

vars == <<contents, call>>

Init == contents = {} /\ call = [t \in Threads |-> NoCall]

Running(op, v, absent) == [op |-> op, value |-> v, absent |-> absent, answer |-> "none"]

Call(t, op, v) ==
  /\ call[t] = NoCall
  /\ call' = [call EXCEPT ![t] = Running(op, v, v \notin contents)]
  /\ UNCHANGED contents

Answer(t, op, a) ==
  /\ call[t] # NoCall
  /\ call[t].op = op
  /\ call[t].answer = "none"
  /\ call' = [call EXCEPT ![t].answer = a]

\* Among all the insertions of a value, only the first is told that it is new.
InsertNew(t) == /\ Answer(t, "insert", "new")
                /\ call[t].value \notin contents
                /\ contents' = contents \cup {call[t].value}

InsertOld(t) == /\ Answer(t, "insert", "found")
                /\ call[t].value \in contents
                /\ UNCHANGED contents

Found(t) == /\ Answer(t, "find", "found")
            /\ call[t].value \in contents
            /\ UNCHANGED contents

NotFound(t) == /\ Answer(t, "find", "not found")
               /\ call[t].absent
               /\ UNCHANGED contents

Return(t) == /\ call[t] # NoCall
             /\ call[t].answer # "none"
             /\ call' = [call EXCEPT ![t] = NoCall]
             /\ UNCHANGED contents

Next == \E t \in Threads :
          \/ \E op \in {"insert", "find"}, v \in Values : Call(t, op, v)
          \/ InsertNew(t) \/ InsertOld(t) \/ Found(t) \/ NotFound(t) \/ Return(t)

Spec == Init /\ [][Next]_vars

=============================================================================
