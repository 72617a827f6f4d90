-------------------------- MODULE ConcurrentHashSet --------------------------
(***************************************************************************)
(* The hash set in which the workers of a shared-memory search keep the    *)
(* states they have seen: _ConcurrentHashSet over FastAtomicCell           *)
(* (bricks/brick-hashset.h).  Threads insert and look for values; the      *)
(* table is replaced by a larger one while they do, every thread helps to  *)
(* move the cells, and the old row is freed by the last thread to leave.   *)
(*                                                                         *)
(* A step makes one access to what the threads share: a cell's hashLock, a *)
(* counter, a flag.  A cell keeps the value once it is locked, since its   *)
(* hash can be seen then.  An invalidated cell forgets it.                 *)
(***************************************************************************)
EXTENDS Integers, Sequences, FiniteSets

CONSTANTS
  Threads,
  Values,
  Hash,          \* the hash of each value
  Size,          \* the size of each row: setSize, nextSize
  SegmentSize,   \* segmentSize
  MaxCollisions, \* maxcollisions
  SyncPoint,     \* syncPoint
  MaxCalls,      \* a bound on the calls each thread makes
  NoCall, NoValue

Rows == DOMAIN Size
LastRow == Cardinality(Rows) - 1

ASSUME HashSetAssumption ==
  /\ IsFiniteSet(Threads) /\ IsFiniteSet(Values) /\ NoValue \notin Values
  /\ Hash \in [Values -> Nat]
  /\ Rows = 0 .. LastRow /\ LastRow \in Nat \ {0}
  /\ Size \in [Rows -> Nat \ {0}]
  /\ {SegmentSize, MaxCollisions, SyncPoint} \subseteq Nat \ {0}
  /\ MaxCalls \in Nat

ASSUME NoCallAssumption ==
  NoCall \notin [op : {"insert", "find"}, value : Values, absent : BOOLEAN,
                answer : {"none", "new", "found", "not found"}]

\* Both are powers of two (setSize, nextSize), so that the segments cover the row.
ASSUME SegmentsAssumption ==
  \A r \in Rows : Size[r] < SegmentSize \/ Size[r] % SegmentSize = 0

VARIABLES
  table,             \* the cells of each row; a row that is not there has none
  tableWorkers,      \* how many threads use each row
  currentRow, growing, used,
  availableSegments, doneSegments,
  tdRow,             \* ThreadData::currentRow
  tdInserts,         \* ThreadData::inserts
  call,              \* the call in progress, and its answer
  calls,             \* how many calls have been made
  probe,             \* the index i of insertCell and findCell
  force,             \* the insertion is insertCell< true >, of rehashSegment
  moved,             \* the value it moves
  position,          \* the cell of the old row that rehashSegment is at
  segment,           \* the segment it works on
  row,               \* a row it has read from currentRow
  ret,               \* what follows the rehashing
  pc

cellVars == <<table>>
growVars == <<tableWorkers, currentRow, growing, availableSegments, doneSegments>>
tdVars == <<tdRow, tdInserts>>
callVars == <<call, calls>>
moveVars == <<force, moved, position, segment>>
vars == <<cellVars, growVars, used, tdVars, callVars, probe, moveVars, row, ret, pc>>

Cell(flag, v) == [flag |-> flag, value |-> v]
Free == Cell("free", NoValue)
Invalid == Cell("invalid", NoValue)

\* Row 0 has a size and no cells.
Init ==
  /\ table = [r \in Rows |-> <<>>]
  /\ tableWorkers = [r \in Rows |-> 0]
  /\ currentRow = 0
  /\ growing = FALSE
  /\ used = 0
  /\ availableSegments = 0
  /\ doneSegments = 0
  /\ tdRow = [t \in Threads |-> 0]
  /\ tdInserts = [t \in Threads |-> 0]
  /\ call = [t \in Threads |-> NoCall]
  /\ calls = [t \in Threads |-> 0]
  /\ probe = [t \in Threads |-> 0]
  /\ force = [t \in Threads |-> FALSE]
  /\ moved = [t \in Threads |-> NoValue]
  /\ position = [t \in Threads |-> 0]
  /\ segment = [t \in Threads |-> 0]
  /\ row = [t \in Threads |-> 0]
  /\ ret = [t \in Threads |-> "update"]
  /\ pc = [t \in Threads |-> "idle"]

Goto(t, a, b) == /\ pc[t] = a
                 /\ pc' = [pc EXCEPT ![t] = b]

Inserting(t) == call[t].op = "insert"

\* What the set holds: a value is in it as soon as it has got a cell, and
\* while it is moved from one row to the next.
Contents == {v \in Values : \/ \E r \in Rows : \E i \in DOMAIN table[r] : table[r][i].value = v
                            \/ \E t \in Threads : moved[t] = v}

-----------------------------------------------------------------------------
(* insertHinted and findHinted: a call begins, and tries again.            *)

Start(t) == IF Inserting(t) THEN "usage" ELSE "before"

Call(t, op, v) ==
  /\ calls[t] < MaxCalls
  /\ calls' = [calls EXCEPT ![t] = @ + 1]
  /\ call' = [call EXCEPT ![t] = [op |-> op, value |-> v, absent |-> v \notin Contents,
                                  answer |-> "none"]]
  /\ Goto(t, "idle", IF op = "insert" THEN "usage" ELSE "before")
  /\ UNCHANGED <<cellVars, growVars, used, tdVars, probe, moveVars, row, ret>>

\* What the thread has no more use for.
Settle(t) == /\ row' = [row EXCEPT ![t] = 0]
             /\ position' = [position EXCEPT ![t] = 0]
             /\ segment' = [segment EXCEPT ![t] = 0]
             /\ ret' = [ret EXCEPT ![t] = "update"]

Return(t) ==
  /\ Goto(t, "return", "idle")
  /\ call' = [call EXCEPT ![t] = NoCall]
  /\ probe' = [probe EXCEPT ![t] = 0]
  /\ Settle(t)
  /\ UNCHANGED <<cellVars, growVars, used, tdVars, calls, force, moved>>

Answered(t, a) == call' = [call EXCEPT ![t].answer = a]

\* A full row is told by `used', which the threads bring up to date only now
\* and then.  The row of this thread may not be there yet.
IsFull(t) == table[tdRow[t]] = <<>> \/ 3 * Size[tdRow[t]] <= 4 * used

Usage(t) ==
  /\ Goto(t, "usage", IF IsFull(t) THEN "grow" ELSE "before")
  /\ UNCHANGED <<cellVars, growVars, used, tdVars, callVars, probe, moveVars, row, ret>>

-----------------------------------------------------------------------------
(* changed( row ): row < currentRow, or growing.  It is asked before the   *)
(* probing, when a cell is lost to another thread, after each cell of an   *)
(* insertion and before each cell of a search.                             *)

Asking == [before |-> "before growing", lost |-> "lost growing",
           after |-> "after growing", head |-> "head growing"]

ChangedRow(t) ==
  /\ pc[t] \in DOMAIN Asking
  /\ pc' = [pc EXCEPT ![t] = IF tdRow[t] < currentRow THEN "help" ELSE Asking[@]]
  /\ UNCHANGED <<cellVars, growVars, used, tdVars, callVars, probe, moveVars, row, ret>>

\* The row is growing: the thread helps, and starts again.
ChangedGrowing(t) ==
  /\ growing
  /\ \E a \in DOMAIN Asking : Goto(t, Asking[a], "help")
  /\ UNCHANGED <<cellVars, growVars, used, tdVars, callVars, probe, moveVars, row, ret>>

\* It is not.  findCell finds nothing in a row that is not there.
NoRow(t) == ~Inserting(t) /\ table[tdRow[t]] = <<>>

BeginProbing(t) ==
  /\ ~growing
  /\ Goto(t, "before growing",
          IF NoRow(t) THEN "return" ELSE IF Inserting(t) THEN "cell" ELSE "head")
  /\ IF NoRow(t) THEN Answered(t, "not found") ELSE UNCHANGED call
  /\ probe' = [probe EXCEPT ![t] = 0]
  /\ UNCHANGED <<cellVars, growVars, used, tdVars, calls, moveVars, row, ret>>

Probing(t) ==
  /\ ~growing
  /\ Goto(t, "lost growing", "is") \/ Goto(t, "head growing", "cell")
  /\ UNCHANGED <<cellVars, growVars, used, tdVars, callVars, probe, moveVars, row, ret>>

-----------------------------------------------------------------------------
(* insertCell and findCell: one cell after the other.                      *)

\* What is looked for or stored, and where.
Value(t) == IF force[t] THEN moved[t] ELSE call[t].value
Row(t) == IF force[t] THEN row[t] ELSE tdRow[t]
Index(t) == 1 + ((Hash[Value(t)] + probe[t]) % Size[Row(t)])
Probed(t) == table[Row(t)][Index(t)]
SetCell(t, c) == table' = [table EXCEPT ![Row(t)][Index(t)] = c]

\* cell.empty()
LookAtCell(t) ==
  /\ pc[t] = "cell"
  /\ IF Probed(t).flag # "free"
     THEN Goto(t, "cell", "is") /\ UNCHANGED call
     ELSE IF force[t] \/ Inserting(t)
          THEN Goto(t, "cell", "store") /\ UNCHANGED call
          ELSE Goto(t, "cell", "return") /\ Answered(t, "not found")
  /\ UNCHANGED <<cellVars, growVars, used, tdVars, calls, probe, moveVars, row, ret>>

\* A wrong variant, for the mutant runs: the cell is taken without looking again.
TryStore_Blind(t) ==
  /\ Goto(t, "store", "write")
  /\ SetCell(t, Cell("locked", Value(t)))
  /\ IF force[t] THEN UNCHANGED call ELSE Answered(t, "new")
  /\ UNCHANGED <<growVars, used, tdVars, calls, probe, moveVars, row, ret>>

\* tryStore: the cell is locked, if it is still empty,
TryStore(t) ==
  /\ Goto(t, "store", "write")
  /\ Probed(t).flag = "free"
  /\ SetCell(t, Cell("locked", Value(t)))
  /\ IF force[t] THEN UNCHANGED call ELSE Answered(t, "new")
  /\ UNCHANGED <<growVars, used, tdVars, calls, probe, moveVars, row, ret>>

LoseCell(t) ==
  /\ Goto(t, "store", IF force[t] THEN "is" ELSE "lost")
  /\ Probed(t).flag # "free"
  /\ UNCHANGED <<cellVars, growVars, used, tdVars, callVars, probe, moveVars, row, ret>>

\* the value is written, and the cell unlocked.
Write(t) ==
  /\ pc[t] = "write"
  /\ SetCell(t, Cell("valid", Value(t)))
  /\ moved' = [moved EXCEPT ![t] = NoValue]
  /\ force' = [force EXCEPT ![t] = FALSE]
  /\ IF force[t]
     THEN /\ Goto(t, "write", "invalidate")
          /\ position' = [position EXCEPT ![t] = @ + 1]
     ELSE /\ Goto(t, "write", "count")
          /\ UNCHANGED position
  /\ UNCHANGED <<growVars, used, tdVars, callVars, probe, segment, row, ret>>

\* increaseUsage
Count(t) ==
  /\ Goto(t, "count", "return")
  /\ tdInserts' = [tdInserts EXCEPT ![t] = (@ + 1) % SyncPoint]
  /\ used' = IF tdInserts'[t] = 0 THEN used + SyncPoint ELSE used
  /\ UNCHANGED <<cellVars, growVars, tdRow, callVars, probe, moveVars, row, ret>>

\* cell.is(): another hash, or, once the other thread has written, another
\* value; a cell that is invalidated meanwhile does not match.
Differs(t) == IF force[t] THEN "next" ELSE IF Inserting(t) THEN "after" ELSE "invalid"

Is(t) ==
  /\ LET c == Probed(t)
         same == c.value # NoValue /\ Hash[c.value] = Hash[Value(t)]
     IN  Goto(t, "is", IF same THEN "wait" ELSE Differs(t))
  /\ UNCHANGED <<cellVars, growVars, used, tdVars, callVars, probe, moveVars, row, ret>>

Wait(t) ==
  /\ pc[t] = "wait"
  /\ Probed(t).flag # "locked"
  /\ IF Probed(t).value # Value(t)
     THEN Goto(t, "wait", Differs(t)) /\ UNCHANGED call
     ELSE IF force[t] THEN Goto(t, "wait", "error") /\ UNCHANGED call
                      ELSE Goto(t, "wait", "return") /\ Answered(t, "found")
  /\ UNCHANGED <<cellVars, growVars, used, tdVars, calls, probe, moveVars, row, ret>>

\* findCell: cell.invalid()
IsInvalid(t) ==
  /\ Goto(t, "invalid", IF Probed(t).flag = "invalid" THEN "help" ELSE "next")
  /\ UNCHANGED <<cellVars, growVars, used, tdVars, callVars, probe, moveVars, row, ret>>

\* The next cell; there is no space, or no such value, after MaxCollisions.
NextCell(t) ==
  /\ pc[t] = "next" \/ (pc[t] = "after growing" /\ ~growing)
  /\ probe' = [probe EXCEPT ![t] = @ + 1]
  /\ LET last == probe'[t] = MaxCollisions
         find == ~force[t] /\ ~Inserting(t)
     IN  /\ pc' = [pc EXCEPT ![t] = IF ~last THEN IF find THEN "head" ELSE "cell"
                                    ELSE IF force[t] THEN "error"
                                    ELSE IF find THEN "return" ELSE "grow"]
         /\ IF last /\ find THEN Answered(t, "not found") ELSE UNCHANGED call
  /\ UNCHANGED <<cellVars, growVars, used, tdVars, calls, moveVars, row, ret>>

-----------------------------------------------------------------------------
(* grow: one thread makes the next row.                                    *)

Grow(t) ==
  /\ Goto(t, "grow", IF tdRow[t] = LastRow THEN "error"
                     ELSE IF currentRow > tdRow[t] THEN "help" ELSE "lock")
  /\ UNCHANGED <<cellVars, growVars, used, tdVars, callVars, probe, moveVars, row, ret>>

\* growing.exchange( true ): if it was, the thread helps, and tries again.
TakeGrowing(t) ==
  /\ Goto(t, "lock", IF growing THEN "help" ELSE "locked")
  /\ ret' = [ret EXCEPT ![t] = IF growing THEN "lock" ELSE "update"]
  /\ growing' = TRUE
  /\ UNCHANGED <<cellVars, tableWorkers, currentRow, availableSegments, doneSegments, used,
                 tdVars, callVars, probe, moveVars, row>>

\* A wrong variant: the lock is not given back.
GrownAlready_Locked(t) ==
  /\ currentRow > tdRow[t]
  /\ Goto(t, "locked", "help")
  /\ UNCHANGED <<cellVars, growVars, used, tdVars, callVars, probe, moveVars, row, ret>>

GrownAlready(t) ==
  /\ currentRow > tdRow[t]
  /\ Goto(t, "locked", "help")
  /\ growing' = FALSE
  /\ UNCHANGED <<cellVars, tableWorkers, currentRow, availableSegments, doneSegments, used,
                 tdVars, callVars, probe, moveVars, row, ret>>

NewRow(t) ==
  /\ currentRow <= tdRow[t]
  /\ Goto(t, "locked", "workers")
  /\ currentRow' = tdRow[t] + 1
  /\ table' = [table EXCEPT ![tdRow[t] + 1] = [i \in 1 .. Size[tdRow[t] + 1] |-> Free]]
  /\ UNCHANGED <<tableWorkers, growing, availableSegments, doneSegments, used, tdVars,
                 callVars, probe, moveVars, row, ret>>

\* The thread that makes the row is the first to use it.
Workers(t) ==
  /\ Goto(t, "workers", IF table[tdRow[t]] = <<>> THEN "release" ELSE "segments")
  /\ tableWorkers' = [tableWorkers EXCEPT ![tdRow[t] + 1] = 1]
  /\ doneSegments' = 0
  /\ row' = [row EXCEPT ![t] = tdRow[t] + 1]
  /\ ret' = [ret EXCEPT ![t] = "grown"]
  /\ UNCHANGED <<cellVars, currentRow, growing, availableSegments, used, tdVars, callVars,
                 probe, moveVars>>

Segments(r) == IF Size[r] < SegmentSize THEN 1 ELSE Size[r] \div SegmentSize

OpenSegments(t) ==
  /\ Goto(t, "segments", "try")
  /\ availableSegments' = Segments(tdRow[t])
  /\ UNCHANGED <<cellVars, tableWorkers, currentRow, growing, doneSegments, used, tdVars,
                 callVars, probe, moveVars, row, ret>>

Grown(t) ==
  /\ Goto(t, "grown", Start(t))
  /\ tdRow' = [tdRow EXCEPT ![t] = @ + 1]
  /\ Settle(t)
  /\ UNCHANGED <<cellVars, growVars, used, tdInserts, callVars, probe, force, moved>>

-----------------------------------------------------------------------------
(* rehashSegment: every thread helps to move the cells.                    *)

\* rehashSegment has returned false.
NoMore(t) == IF ret[t] = "grown" THEN "grown" ELSE "help"

TrySegment(t) ==
  /\ Goto(t, "try", IF availableSegments <= 0 THEN NoMore(t) ELSE "take")
  /\ UNCHANGED <<cellVars, growVars, used, tdVars, callVars, probe, moveVars, row, ret>>

TakeSegment(t) ==
  /\ Goto(t, "take", IF availableSegments <= 0 THEN NoMore(t) ELSE "invalidate")
  /\ availableSegments' = availableSegments - 1
  /\ IF availableSegments <= 0
     THEN UNCHANGED <<segment, position, row>>
     ELSE /\ segment' = [segment EXCEPT ![t] = availableSegments']
          /\ position' = [position EXCEPT ![t] = SegmentSize * availableSegments']
          /\ row' = [row EXCEPT ![t] = currentRow]
  /\ UNCHANGED <<cellVars, tableWorkers, currentRow, growing, doneSegments, used, tdVars,
                 callVars, probe, force, moved, ret>>

OldRow(t) == row[t] - 1
SegmentEnd(t) == LET end == SegmentSize * (segment[t] + 1)
                 IN  IF end > Size[OldRow(t)] THEN Size[OldRow(t)] ELSE end

\* A cell is invalidated once nobody is writing to it; what it holds is moved.
Invalidate(t) ==
  /\ pc[t] = "invalidate"
  /\ position[t] < SegmentEnd(t)
  /\ LET c == table[OldRow(t)][position[t] + 1] IN
       /\ c.flag # "locked"
       /\ table' = [table EXCEPT ![OldRow(t)][position[t] + 1] = Invalid]
       /\ IF c.flag = "valid"
          THEN /\ Goto(t, "invalidate", "cell")
               /\ force' = [force EXCEPT ![t] = TRUE]
               /\ moved' = [moved EXCEPT ![t] = c.value]
               /\ probe' = [probe EXCEPT ![t] = 0]
               /\ UNCHANGED position
          ELSE /\ position' = [position EXCEPT ![t] = @ + 1]
               /\ UNCHANGED <<pc, force, moved, probe>>
  /\ UNCHANGED <<growVars, used, tdVars, callVars, segment, row, ret>>

\* `return segment > 0'
AfterSegment(t) == IF segment[t] > 0 THEN "try" ELSE NoMore(t)

SegmentDone(t) ==
  /\ pc[t] = "invalidate"
  /\ position[t] = SegmentEnd(t)
  /\ Goto(t, "invalidate",
          IF doneSegments + 1 = Segments(OldRow(t)) THEN "release" ELSE AfterSegment(t))
  /\ doneSegments' = doneSegments + 1
  /\ UNCHANGED <<cellVars, tableWorkers, currentRow, growing, availableSegments, used,
                 tdVars, callVars, probe, moveVars, row, ret>>

\* rehashingDone: the old row is released for the thread that has left it.
DoneRehashing(t) ==
  /\ Goto(t, "ungrow", IF OldRow(t) = 0 THEN "grown" ELSE AfterSegment(t))
  /\ growing' = FALSE
  /\ UNCHANGED <<cellVars, tableWorkers, currentRow, availableSegments, doneSegments, used,
                 tdVars, callVars, probe, moveVars, row, ret>>

\* helpWithRehashing
Help(t) ==
  /\ Goto(t, "help", IF growing THEN "try" ELSE ret[t])
  /\ UNCHANGED <<cellVars, growVars, used, tdVars, callVars, probe, moveVars, row, ret>>

-----------------------------------------------------------------------------
(* updateIndex, releaseRow, acquireRow: the rows are counted.              *)

Update(t) ==
  /\ Goto(t, "update", IF currentRow = tdRow[t] THEN Start(t) ELSE "leave")
  /\ row' = [row EXCEPT ![t] = currentRow]
  /\ UNCHANGED <<cellVars, growVars, used, tdVars, callVars, probe, moveVars, ret>>

\* A wrong variant: row 0 is released too.
Release_Always(t, r, a, b, next) ==
  /\ \/ /\ Goto(t, a, b)
        /\ UNCHANGED <<tableWorkers, table>>
     \/ /\ Goto(t, b, next)
        /\ tableWorkers' = [tableWorkers EXCEPT ![r] = @ - 1]
        /\ table' = IF tableWorkers'[r] = 0 THEN [table EXCEPT ![r] = <<>>] ELSE table
  /\ UNCHANGED <<currentRow, growing, availableSegments, doneSegments, used, tdVars,
                 callVars, probe, moveVars, row, ret>>

\* releaseRow( r ): nobody has counted the users of row 0.
Release(t, r, a, b, next) ==
  /\ \/ /\ Goto(t, a, IF tableWorkers[r] = 0 THEN next ELSE b)
        /\ UNCHANGED <<tableWorkers, table>>
     \/ /\ Goto(t, b, next)
        /\ tableWorkers' = [tableWorkers EXCEPT ![r] = @ - 1]
        /\ table' = IF tableWorkers'[r] = 0 THEN [table EXCEPT ![r] = <<>>] ELSE table
  /\ UNCHANGED <<currentRow, growing, availableSegments, doneSegments, used, tdVars,
                 callVars, probe, moveVars, row, ret>>

ReleaseOld(t) == Release(t, OldRow(t), "release", "release last", "ungrow")
ReleaseMine(t) == Release(t, tdRow[t], "leave", "leave last", "acquire")

\* A wrong variant: the thread is not counted.
Acquire_NotCounted(t) ==
  /\ tableWorkers[row[t]] > 0
  /\ Goto(t, "acquire", Start(t))
  /\ tdRow' = [tdRow EXCEPT ![t] = row[t]]
  /\ Settle(t)
  /\ UNCHANGED <<cellVars, growVars, used, tdInserts, callVars, probe, force, moved>>

\* acquireRow: the count goes up unless it is zero, when the row is gone.
Acquire(t) ==
  /\ tableWorkers[row[t]] > 0
  /\ Goto(t, "acquire", Start(t))
  /\ tableWorkers' = [tableWorkers EXCEPT ![row[t]] = @ + 1]
  /\ tdRow' = [tdRow EXCEPT ![t] = row[t]]
  /\ Settle(t)
  /\ UNCHANGED <<cellVars, currentRow, growing, availableSegments, doneSegments, used,
                 tdInserts, callVars, probe, force, moved>>

AcquireAgain(t) ==
  /\ \/ tableWorkers[row[t]] = 0 /\ Goto(t, "acquire", "reread") /\ UNCHANGED row
     \/ Goto(t, "reread", "acquire") /\ row' = [row EXCEPT ![t] = currentRow]
  /\ UNCHANGED <<cellVars, growVars, used, tdVars, callVars, probe, moveVars, ret>>

-----------------------------------------------------------------------------
Step(t) ==
  \/ Return(t) \/ Usage(t) \/ ChangedRow(t) \/ ChangedGrowing(t) \/ BeginProbing(t)
  \/ Probing(t) \/ LookAtCell(t) \/ TryStore(t) \/ LoseCell(t) \/ Write(t) \/ Count(t)
  \/ Is(t) \/ Wait(t) \/ IsInvalid(t) \/ NextCell(t) \/ Grow(t) \/ TakeGrowing(t)
  \/ GrownAlready(t) \/ NewRow(t) \/ Workers(t) \/ OpenSegments(t) \/ Grown(t)
  \/ TrySegment(t) \/ TakeSegment(t) \/ Invalidate(t) \/ SegmentDone(t)
  \/ DoneRehashing(t) \/ Help(t) \/ Update(t) \/ ReleaseOld(t) \/ ReleaseMine(t)
  \/ Acquire(t) \/ AcquireAgain(t)

Done == (\A t \in Threads : pc[t] = "idle" /\ calls[t] = MaxCalls) /\ UNCHANGED vars

Next == Done \/ \E t \in Threads :
                  Step(t) \/ \E op \in {"insert", "find"}, v \in Values : Call(t, op, v)

Spec == Init /\ [][Next]_vars
FairSpec == Spec /\ \A t \in Threads : WF_vars(Step(t))

-----------------------------------------------------------------------------
TypeOK ==
  /\ \A r \in Rows : /\ Len(table[r]) \in {0, Size[r]}
                     /\ \A i \in DOMAIN table[r] :
                          \/ table[r][i] \in {Free, Invalid}
                          \/ \E v \in Values : table[r][i] \in {Cell("locked", v), Cell("valid", v)}
  /\ tableWorkers \in [Rows -> 0 .. Cardinality(Threads) + 1]
  /\ currentRow \in Rows
  /\ growing \in BOOLEAN
  /\ used \in 0 .. MaxCalls * Cardinality(Threads)
  /\ availableSegments \in Int /\ doneSegments \in Nat
  /\ tdRow \in [Threads -> Rows]
  /\ tdInserts \in [Threads -> 0 .. SyncPoint - 1]
  /\ calls \in [Threads -> 0 .. MaxCalls]
  /\ probe \in [Threads -> 0 .. MaxCollisions]
  /\ force \in [Threads -> BOOLEAN]
  /\ moved \in [Threads -> Values \cup {NoValue}]
  /\ row \in [Threads -> Rows]
  /\ ret \in [Threads -> {"update", "lock", "grown"}]

\* Each thread's row stays until the thread leaves it, or has made the next one:
\* the cell whose address an insertion has returned can be used until the next
\* call.
HasLeft(t) == tdRow[t] = 0 \/ pc[t] \in {"acquire", "reread"} \/ ret[t] = "grown"
RowsAreKept == \A t \in Threads : HasLeft(t) \/ table[tdRow[t]] # <<>>

\* The set is one that threads share: whatever the growing, the moving and the
\* races for a cell, one insertion of each value is told that it is new, and
\* nothing that was inserted is not found.
Set == INSTANCE AbstractSet WITH contents <- Contents
ImplementsSet == Set!Spec

\* Each call returns.
EveryCallReturns == \A t \in Threads : pc[t] # "idle" ~> pc[t] = "idle"
=============================================================================
