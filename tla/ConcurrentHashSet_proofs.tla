----------------------- MODULE ConcurrentHashSet_proofs -----------------------
(***************************************************************************)
(* Proofs about the concurrent hash set, for any number of threads, of     *)
(* rows and of values, and any sizes: no row is freed under a thread that  *)
(* uses it, no cell is looked at that is not there, and the table answers  *)
(* as a set does (AbstractSet).                                            *)
(*                                                                         *)
(* A count of users is right only with what surrounds it: who makes the    *)
(* next row, how many segments are open, moved and done, and that the last *)
(* of them leads to the release of the row, for the thread that had left   *)
(* it without being taken off its count.                                   *)
(*                                                                         *)
(* An answer is right only if each value is where its probing comes to     *)
(* before it comes to a free cell, if the rows before the current one hold *)
(* nothing but the cells still to be moved, and if a value that has gone   *)
(* to the next row leaves a trace ahead of every search for it.            *)
(***************************************************************************)
EXTENDS ConcurrentHashSet, FiniteSetTheorems, TLAPS

-----------------------------------------------------------------------------
(* The invariant.                                                          *)

Labels == {"idle", "return", "usage", "before", "before growing", "lost", "lost growing",
           "after", "after growing", "head", "head growing", "cell", "store", "write",
           "count", "is", "wait", "invalid", "next", "grow", "lock", "locked", "workers",
           "segments", "grown", "try", "take", "invalidate", "release", "release last",
           "ungrow", "help", "update", "leave", "leave last", "acquire", "reread", "error"}

Calls == [op : {"insert", "find"}, value : Values, absent : BOOLEAN,
          answer : {"none", "new", "found", "not found"}]

Cells == {Free, Invalid} \cup {Cell(f, v) : f \in {"locked", "valid"}, v \in Values}

Types ==
  /\ DOMAIN table = Rows
  /\ \A r \in Rows : table[r] = <<>> \/ table[r] \in [1 .. Size[r] -> Cells]
  /\ tableWorkers \in [Rows -> Nat]
  /\ currentRow \in Rows /\ growing \in BOOLEAN
  /\ availableSegments \in Int /\ doneSegments \in Nat
  /\ tdRow \in [Threads -> Rows]
  /\ tdInserts \in [Threads -> 0 .. SyncPoint - 1]
  /\ call \in [Threads -> Calls \cup {NoCall}]
  /\ calls \in [Threads -> 0 .. MaxCalls]
  /\ probe \in [Threads -> 0 .. MaxCollisions]
  /\ force \in [Threads -> BOOLEAN]
  /\ moved \in [Threads -> Values \cup {NoValue}]
  /\ position \in [Threads -> Nat] /\ segment \in [Threads -> Nat]
  /\ row \in [Threads -> Rows]
  /\ ret \in [Threads -> {"update", "lock", "grown"}]
  /\ pc \in [Threads -> Labels]

\* Where a cell is looked at or written, by an insertion, a search or a move,
AtCell == {"cell", "store", "write", "is", "wait", "next"}
\* and where a call asks whether the row has changed, or may go on to a cell.
Between == {"lost", "lost growing", "after", "after growing", "head", "head growing",
            "invalid"}
Helping == {"try", "take", "invalidate", "release", "release last", "ungrow"}

\* What is known of a thread by itself.
Local(t) ==
  /\ pc[t] # "idle" => call[t] \in Calls
  /\ pc[t] \in AtCell \cup Between => probe[t] < MaxCollisions
  /\ force[t] => pc[t] \in AtCell \cup {"error"} /\ moved[t] \in Values
  /\ ret[t] = "grown" => force[t] \/ pc[t] \in Helping \cup {"segments", "grown"}
  /\ ret[t] = "lock" => force[t] \/ pc[t] \in Helping \cup {"lock", "help"}
  /\ pc[t] \in {"segments", "grown"} => ret[t] = "grown"
  /\ pc[t] \in {"release", "release last", "ungrow"} /\ row[t] = 1 => ret[t] = "grown"
  /\ pc[t] \in {"release", "release last", "ungrow"} => row[t] # 0
  /\ pc[t] \in {"lock", "locked", "workers"} \/ ret[t] # "update" => tdRow[t] # LastRow
  /\ tdRow[t] <= currentRow /\ row[t] <= currentRow
  /\ ret[t] = "grown" => tdRow[t] < currentRow
  /\ pc[t] \in {"leave", "leave last"} => tdRow[t] < row[t]
  /\ pc[t] = "leave last" => tdRow[t] # 0
  /\ ~force[t] /\ pc[t] \in AtCell \cup Between => tdRow[t] # 0
  /\ pc[t] \in {"before", "before growing"} /\ Inserting(t) => tdRow[t] # 0

\* The thread that makes the next row, or the one that has moved the last segment.
Building == {"locked", "workers", "segments", "release", "release last", "ungrow"}
Builder(t) == pc[t] \in Building

OneBuilder ==
  /\ \A t, u \in Threads : Builder(t) /\ Builder(u) => t = u
  /\ \A t \in Threads : Builder(t) => growing
  /\ \A t \in Threads :
       /\ pc[t] = "workers" => /\ currentRow = tdRow[t] + 1 /\ tableWorkers[currentRow] = 0
                               /\ table[currentRow] # <<>>
       /\ pc[t] = "segments" => /\ row[t] = currentRow /\ currentRow = tdRow[t] + 1
                                /\ currentRow > 1 /\ doneSegments = 0
       /\ pc[t] \in {"release", "release last", "ungrow"} => row[t] = currentRow
       /\ pc[t] = "release last" => currentRow > 1

\* The threads that move a segment, of those that are open.
Busy == {t \in Threads : force[t] \/ pc[t] = "invalidate"}
Moving == growing /\ \A t \in Threads : ~Builder(t)
Left == IF availableSegments > 0 THEN availableSegments ELSE 0

SegmentsCounted ==
  /\ \A t \in Busy : row[t] = currentRow
  /\ Moving => /\ currentRow > 1
               /\ doneSegments + Cardinality(Busy) + Left = Segments(currentRow - 1)
  /\ ~Moving => Busy = {} /\ availableSegments <= 0

\* The row that a thread is counted in, and the row that the builder has left
\* without being taken off its count.
Use(t) == IF pc[t] \in {"acquire", "reread"} THEN 0
          ELSE IF ret[t] = "grown" THEN tdRow[t] + 1 ELSE tdRow[t]
Users(r) == {t \in Threads : Use(t) = r}
Pending(r) == /\ growing /\ r = currentRow - 1
              /\ \A t \in Threads : pc[t] \notin {"locked", "workers", "ungrow"}

UsersCounted ==
  /\ tableWorkers[0] = 0 /\ table[0] = <<>>
  /\ \A r \in Rows \ {0} :
       /\ tableWorkers[r] = Cardinality(Users(r)) + (IF Pending(r) THEN 1 ELSE 0)
       /\ tableWorkers[r] > 0 => table[r] # <<>>
       /\ r > currentRow => tableWorkers[r] = 0
  /\ currentRow # 0 /\ (\A t \in Threads : pc[t] # "workers") => Users(currentRow) # {}

\* The insertions that `used' has been told of.
Told(t) == calls[t] - tdInserts[t] - (IF pc[t] \in {"idle", "return"} THEN 0 ELSE 1)
Credits == {c \in Threads \X (1 .. MaxCalls) : c[2] <= Told(c[1])}
Used == /\ used \in Nat /\ used <= Cardinality(Credits)
        /\ \A t \in Threads : Told(t) >= 0

HInv == /\ Types /\ OneBuilder /\ SegmentsCounted /\ UsersCounted /\ Used
        /\ \A t \in Threads : Local(t)

\* Every cell that a thread looks at or writes is of a row that is there.
CellsAreThere ==
  \A t \in Threads :
    /\ pc[t] \in AtCell \cup {"invalid"} => table[Row(t)] # <<>>
    /\ pc[t] = "invalidate" => table[OldRow(t)] # <<>>

-----------------------------------------------------------------------------
(* What the invariant says of a thread and of its row.                     *)

LEMMA FiniteSets ==
  /\ IsFiniteSet(Threads)
  /\ \A S \in SUBSET Threads : IsFiniteSet(S) /\ Cardinality(S) \in Nat
  <1>1. IsFiniteSet(Threads)
    BY HashSetAssumption
  <1>2. ASSUME NEW S \in SUBSET Threads PROVE IsFiniteSet(S) /\ Cardinality(S) \in Nat
    <2>1. IsFiniteSet(S)
      BY <1>1, FS_Subset
    <2>. QED BY <2>1, FS_CardinalityType
  <1>. QED BY <1>1, <1>2

LEMMA SizesAreNumbers ==
  /\ Rows = 0 .. LastRow /\ LastRow \in Nat /\ \A r \in Rows : Size[r] \in Nat \ {0} /\ r \in Nat
  /\ SegmentSize \in Nat \ {0} /\ MaxCollisions \in Nat \ {0} /\ SyncPoint \in Nat \ {0}
  /\ MaxCalls \in Nat
  BY HashSetAssumption

\* A row that has cells has all of them.
LEMMA RowIsThere ==
  ASSUME NEW n \in Nat \ {0}, NEW S, NEW f \in [1 .. n -> S]
  PROVE  f # <<>> /\ f \in Seq(S) /\ Len(f) = n
  OBVIOUS

LEMMA NoRowIsEmpty == Len(<<>>) = 0 /\ DOMAIN <<>> = {}
  OBVIOUS

LEMMA UsersAreFinite ==
  /\ \A r \in Rows : IsFiniteSet(Users(r)) /\ Cardinality(Users(r)) \in Nat
                    /\ Users(r) \subseteq Threads
  /\ IsFiniteSet(Busy) /\ Cardinality(Busy) \in Nat
  <1>1. ASSUME NEW r \in Rows PROVE Users(r) \in SUBSET Threads
    BY DEF Users
  <1>2. Busy \in SUBSET Threads
    BY DEF Busy
  <1>. QED BY <1>1, <1>2, FiniteSets

\* The row of a thread that is counted in it is there.
LEMMA UsedRowIsThere ==
  ASSUME Types, UsersCounted, NEW t \in Threads, Use(t) \in Rows \ {0}
  PROVE  tableWorkers[Use(t)] > 0 /\ table[Use(t)] # <<>>
  <1>. DEFINE r == Use(t)
  <1>1. t \in Users(r)
    BY DEF Users
  <1>2. Cardinality(Users(r)) # 0 /\ Cardinality(Users(r)) \in Nat
    BY <1>1, UsersAreFinite, FS_EmptySet
  <1>3. /\ tableWorkers[r] = Cardinality(Users(r)) + (IF Pending(r) THEN 1 ELSE 0)
        /\ tableWorkers[r] > 0 => table[r] # <<>>
    BY DEF UsersCounted
  <1>. HIDE DEF r
  <1>4. tableWorkers[r] > 0
    BY <1>2, <1>3
  <1>. QED BY <1>3, <1>4 DEF r

LEMMA CurrentRowIsThere ==
  ASSUME Types, UsersCounted, currentRow # 0, \A t \in Threads : pc[t] # "workers"
  PROVE  table[currentRow] # <<>>
  <1>1. PICK t \in Threads : Use(t) = currentRow
    BY DEF UsersCounted, Users
  <1>2. currentRow \in Rows \ {0}
    BY DEF Types
  <1>. QED BY <1>1, <1>2, UsedRowIsThere

LEMMA OldRowIsThere ==
  ASSUME Types, UsersCounted, Moving, currentRow > 1
  PROVE  /\ currentRow - 1 \in Rows /\ currentRow - 1 # 0
         /\ table[currentRow - 1] # <<>>
  <1>. DEFINE r == currentRow - 1
  <1>1. r \in Rows \ {0}
    BY SizesAreNumbers DEF Types
  <1>2. Pending(r)
    BY DEF Pending, Moving, Builder, Building
  <1>3. /\ tableWorkers[r] = Cardinality(Users(r)) + (IF Pending(r) THEN 1 ELSE 0)
        /\ tableWorkers[r] > 0 => table[r] # <<>>
    BY <1>1 DEF UsersCounted
  <1>4. Cardinality(Users(r)) \in Nat
    BY <1>1, UsersAreFinite
  <1>. HIDE DEF r
  <1>5. tableWorkers[r] > 0
    BY <1>2, <1>3, <1>4
  <1>. QED BY <1>1, <1>3, <1>5 DEF r

\* Whoever moves cells does so while the rows grow, from a row that is there into one
\* that is.
LEMMA BusyMove ==
  ASSUME HInv, NEW t \in Threads, force[t] \/ pc[t] = "invalidate"
  PROVE  /\ Moving /\ t \in Busy /\ row[t] = currentRow /\ currentRow > 1
         /\ currentRow \in Rows /\ table[currentRow] # <<>>
         /\ currentRow - 1 \in Rows /\ currentRow - 1 # 0 /\ table[currentRow - 1] # <<>>
         /\ \A u \in Threads : ~Builder(u)
         /\ growing
  <1>1. t \in Busy
    BY DEF Busy
  <1>2. Moving /\ row[t] = currentRow /\ currentRow > 1
    BY <1>1 DEF HInv, SegmentsCounted
  <1>3. growing /\ \A u \in Threads : ~Builder(u) /\ pc[u] # "workers"
    BY <1>2 DEF Moving, Builder, Building
  <1>4. currentRow \in Rows
    BY DEF HInv, Types
  <1>5. table[currentRow] # <<>>
    BY <1>2, <1>3, <1>4, CurrentRowIsThere, SizesAreNumbers DEF HInv
  <1>6. currentRow - 1 \in Rows /\ currentRow - 1 # 0 /\ table[currentRow - 1] # <<>>
    BY <1>2, OldRowIsThere DEF HInv
  <1>. QED BY <1>1, <1>2, <1>3, <1>4, <1>5, <1>6

\* A thread's own row.
LEMMA OwnRowIsThere ==
  ASSUME HInv, NEW t \in Threads, tdRow[t] # 0, pc[t] \notin {"acquire", "reread"},
         ret[t] # "grown"
  PROVE  /\ tdRow[t] \in Rows /\ Use(t) = tdRow[t] /\ table[tdRow[t]] # <<>>
         /\ tableWorkers[tdRow[t]] > 0
  <1>1. tdRow[t] \in Rows
    BY DEF HInv, Types
  <1>2. Use(t) = tdRow[t]
    BY DEF Use
  <1>. QED BY <1>1, <1>2, UsedRowIsThere DEF HInv

\* Where a thread looks at a cell.
LEMMA CellIsThere ==
  ASSUME HInv, NEW t \in Threads, pc[t] \in AtCell \cup {"invalid"}
  PROVE  /\ Row(t) \in Rows /\ table[Row(t)] # <<>> /\ Value(t) \in Values
         /\ table[Row(t)] \in [1 .. Size[Row(t)] -> Cells]
         /\ Index(t) \in 1 .. Size[Row(t)]
  <1>1. Row(t) \in Rows /\ table[Row(t)] # <<>>
    <2>1. CASE force[t]
      BY <2>1, BusyMove DEF Row
    <2>2. CASE ~force[t]
      <3>1. tdRow[t] # 0 /\ ret[t] # "grown" /\ pc[t] \notin {"acquire", "reread"}
        BY <2>2 DEF HInv, Local, AtCell, Between, Helping
      <3>. QED BY <2>2, <3>1, OwnRowIsThere DEF Row
    <2>. QED BY <2>1, <2>2
  <1>2. Value(t) \in Values
    <2>1. CASE force[t]
      BY <2>1 DEF HInv, Local, Value
    <2>2. CASE ~force[t]
      <3>1. call[t] \in Calls
        BY DEF HInv, Local, AtCell
      <3>. QED BY <2>2, <3>1 DEF Value, Calls
    <2>. QED BY <2>1, <2>2
  <1>3. table[Row(t)] \in [1 .. Size[Row(t)] -> Cells]
    BY <1>1 DEF HInv, Types
  <1>4. Index(t) \in 1 .. Size[Row(t)]
    <2>1. PICK h, i, n : h = Hash[Value(t)] /\ i = probe[t] /\ n = Size[Row(t)]
      OBVIOUS
    <2>2. h \in Nat /\ i \in Nat /\ n \in Nat \ {0}
      <3>1. h \in Nat
        BY <1>2, <2>1, HashSetAssumption
      <3>2. i \in Nat
        BY <2>1 DEF HInv, Types
      <3>3. n \in Nat \ {0}
        BY <1>1, <2>1, SizesAreNumbers
      <3>. QED BY <3>1, <3>2, <3>3
    <2>3. h + i \in Nat
      BY <2>2
    <2>4. (h + i) % n \in 0 .. n - 1
      BY <2>2, <2>3
    <2>. QED BY <2>1, <2>2, <2>4 DEF Index
  <1>. QED BY <1>1, <1>2, <1>3, <1>4

LEMMA CellsThere == HInv => CellsAreThere
  <1>. SUFFICES ASSUME HInv, NEW t \in Threads
                PROVE  /\ pc[t] \in AtCell \cup {"invalid"} => table[Row(t)] # <<>>
                       /\ pc[t] = "invalidate" => table[OldRow(t)] # <<>>
    BY DEF CellsAreThere
  <1>1. pc[t] = "invalidate" => table[OldRow(t)] # <<>>
    BY BusyMove DEF OldRow
  <1>. QED BY <1>1, CellIsThere

LEMMA RowsThere == HInv => RowsAreKept
  BY OwnRowIsThere DEF RowsAreKept, HasLeft

-----------------------------------------------------------------------------
(* What a step leaves alone.                                               *)

\* What the other threads know stays as it is.
Apart(t) ==
  \A u \in Threads \ {t} :
    /\ pc'[u] = pc[u] /\ tdRow'[u] = tdRow[u] /\ row'[u] = row[u] /\ ret'[u] = ret[u]
    /\ force'[u] = force[u] /\ moved'[u] = moved[u] /\ probe'[u] = probe[u]
    /\ call'[u] = call[u] /\ calls'[u] = calls[u] /\ tdInserts'[u] = tdInserts[u]

LEMMA OthersKnowTheSame ==
  ASSUME HInv, NEW t \in Threads, Apart(t), currentRow' \in Rows, currentRow <= currentRow'
  PROVE  \A u \in Threads \ {t} : Local(u)'
  <1>. SUFFICES ASSUME NEW u \in Threads \ {t}
                PROVE  Local(u)'
    OBVIOUS
  <1>1. /\ pc'[u] = pc[u] /\ tdRow'[u] = tdRow[u] /\ row'[u] = row[u] /\ ret'[u] = ret[u]
        /\ force'[u] = force[u] /\ moved'[u] = moved[u] /\ probe'[u] = probe[u]
        /\ call'[u] = call[u]
    BY DEF Apart
  <1>2. currentRow \in Nat /\ currentRow' \in Nat /\ tdRow[u] \in Nat /\ row[u] \in Nat
    BY SizesAreNumbers DEF HInv, Types
  <1>3. Local(u)
    BY DEF HInv
  <1>4. /\ tdRow'[u] <= currentRow' /\ row'[u] <= currentRow'
        /\ ret'[u] = "grown" => tdRow'[u] < currentRow'
    <2>1. /\ tdRow[u] <= currentRow /\ row[u] <= currentRow
          /\ ret[u] = "grown" => tdRow[u] < currentRow
      BY <1>3 DEF Local
    <2>2. PICK a, b, c, d : a = tdRow[u] /\ b = row[u] /\ c = currentRow /\ d = currentRow'
      OBVIOUS
    <2>3. a <= d /\ b <= d /\ (a < c => a < d)
      BY <1>2, <2>1, <2>2
    <2>. QED BY <1>1, <2>1, <2>2, <2>3
  <1>5. Inserting(u)' <=> Inserting(u)
    BY <1>1 DEF Inserting
  <1>6. /\ pc'[u] # "idle" => call'[u] \in Calls
        /\ pc'[u] \in AtCell \cup Between => probe'[u] < MaxCollisions
        /\ force'[u] => pc'[u] \in AtCell \cup {"error"} /\ moved'[u] \in Values
    BY <1>1, <1>3 DEF Local
  <1>7. /\ ret'[u] = "grown" => force'[u] \/ pc'[u] \in Helping \cup {"segments", "grown"}
        /\ ret'[u] = "lock" => force'[u] \/ pc'[u] \in Helping \cup {"lock", "help"}
        /\ pc'[u] \in {"segments", "grown"} => ret'[u] = "grown"
    BY <1>1, <1>3 DEF Local
  <1>8. /\ pc'[u] \in {"release", "release last", "ungrow"} /\ row'[u] = 1 => ret'[u] = "grown"
        /\ pc'[u] \in {"release", "release last", "ungrow"} => row'[u] # 0
        /\ pc'[u] \in {"lock", "locked", "workers"} \/ ret'[u] # "update" => tdRow'[u] # LastRow
        /\ pc'[u] \in {"leave", "leave last"} => tdRow'[u] < row'[u]
        /\ pc'[u] = "leave last" => tdRow'[u] # 0
    BY <1>1, <1>3 DEF Local
  <1>9. /\ ~force'[u] /\ pc'[u] \in AtCell \cup Between => tdRow'[u] # 0
        /\ pc'[u] \in {"before", "before growing"} /\ Inserting(u)' => tdRow'[u] # 0
    BY <1>1, <1>3, <1>5 DEF Local
  <1>. QED BY <1>4, <1>6, <1>7, <1>8, <1>9 DEF Local

\* What `used' has been told of.
LEMMA ToldIsANumber == Types => \A u \in Threads : Told(u) \in Int
  <1>. SUFFICES ASSUME Types, NEW u \in Threads PROVE Told(u) \in Int
    OBVIOUS
  <1>1. calls[u] \in Int /\ tdInserts[u] \in Int
    BY SizesAreNumbers DEF Types
  <1>2. PICK i : i = IF pc[u] \in {"idle", "return"} THEN 0 ELSE 1
    OBVIOUS
  <1>3. i \in Int
    BY <1>2
  <1>. QED BY <1>1, <1>2, <1>3 DEF Told

LEMMA ToldKept ==
  ASSUME Types, Types', Used, NEW t \in Threads, Apart(t), used' = used, Told(t)' >= Told(t)
  PROVE  Used'
  <1>1. \A u \in Threads : Told(u) \in Int /\ Told(u)' \in Int
    <2>1. \A u \in Threads : Told(u) \in Int
      BY ToldIsANumber
    <2>2. (\A u \in Threads : Told(u) \in Int)'
      <3>1. (Types => \A u \in Threads : Told(u) \in Int)'
        BY ToldIsANumber, PTL
      <3>. QED BY <3>1
    <2>. QED BY <2>1, <2>2
  <1>2. \A u \in Threads : Told(u)' >= Told(u)
    <2>1. ASSUME NEW u \in Threads \ {t} PROVE Told(u)' = Told(u)
      BY DEF Told, Apart
    <2>. QED BY <1>1, <2>1
  <1>3. Credits \in SUBSET (Credits')
    <2>1. ASSUME NEW c \in Threads \X (1 .. MaxCalls), c[2] <= Told(c[1])
          PROVE  c[2] <= Told(c[1])'
      <3>1. PICK u \in Threads, i \in 1 .. MaxCalls : c = <<u, i>>
        OBVIOUS
      <3>2. c[1] = u /\ c[2] = i
        BY <3>1
      <3>3. i <= Told(u) /\ i \in Int
        BY <2>1, <3>2
      <3>4. i <= Told(u)'
        BY <1>1, <1>2, <3>3
      <3>. QED BY <3>2, <3>4
    <2>. QED BY <2>1 DEF Credits
  <1>4. IsFiniteSet(Credits') /\ Cardinality(Credits) <= Cardinality(Credits')
        /\ Cardinality(Credits) \in Nat /\ Cardinality(Credits') \in Nat
    <2>1. IsFiniteSet(Threads \X (1 .. MaxCalls))
      <3>1. IsFiniteSet(1 .. MaxCalls)
        BY FS_Interval, SizesAreNumbers
      <3>. QED BY <3>1, FiniteSets, FS_Product
    <2>2. Credits' \in SUBSET (Threads \X (1 .. MaxCalls))
      BY DEF Credits
    <2>3. IsFiniteSet(Credits')
      BY <2>1, <2>2, FS_Subset
    <2>. QED BY <1>3, <2>3, FS_Subset, FS_CardinalityType
  <1>. QED BY <1>1, <1>2, <1>4 DEF Used

\* The threads that build the next row, use a row and move cells stay the same.
Still(t) ==
  /\ ~Builder(t) /\ ~Builder(t)' /\ Use(t)' = Use(t) /\ (t \in Busy' <=> t \in Busy)
  /\ t \in Busy => row'[t] = row[t]
  /\ UNCHANGED growVars
  /\ \A r \in Rows : table'[r] = <<>> <=> table[r] = <<>>

LEMMA BuildersStay ==
  ASSUME NEW t \in Threads, Apart(t), Still(t)
  PROVE  /\ \A u \in Threads : Builder(u)' <=> Builder(u)
         /\ \A u \in Threads : (pc[u] \in Building \/ pc'[u] \in Building) => pc'[u] = pc[u]
         /\ \A u \in Threads : Builder(u) => row'[u] = row[u] /\ tdRow'[u] = tdRow[u]
  BY DEF Apart, Still, Builder

LEMMA StillGlobals ==
  ASSUME HInv, NEW t \in Threads, Apart(t), Still(t)
  PROVE  OneBuilder' /\ SegmentsCounted' /\ UsersCounted'
  <1>1. OneBuilder'
    <2>1. \A u, v \in Threads : Builder(u)' /\ Builder(v)' => u = v
      BY BuildersStay DEF HInv, OneBuilder
    <2>2. \A u \in Threads : Builder(u)' => growing'
      BY BuildersStay DEF HInv, OneBuilder, Still, growVars
    <2>3. ASSUME NEW u \in Threads, pc'[u] \in Building
          PROVE  pc'[u] = pc[u] /\ row'[u] = row[u] /\ tdRow'[u] = tdRow[u]
      BY <2>3, BuildersStay DEF Builder
    <2>4. currentRow \in Rows
      BY DEF HInv, Types
    <2>5. ASSUME NEW u \in Threads
          PROVE  /\ pc'[u] = "workers" => /\ currentRow' = tdRow'[u] + 1
                                          /\ tableWorkers'[currentRow'] = 0
                                          /\ table'[currentRow'] # <<>>
                 /\ pc'[u] = "segments" => /\ row'[u] = currentRow'
                                           /\ currentRow' = tdRow'[u] + 1
                                           /\ currentRow' > 1 /\ doneSegments' = 0
                 /\ pc'[u] \in {"release", "release last", "ungrow"} => row'[u] = currentRow'
                 /\ pc'[u] = "release last" => currentRow' > 1
      <3>1. CASE pc'[u] \in Building
        BY <2>3, <2>4, <3>1 DEF HInv, OneBuilder, Still, growVars
      <3>2. CASE pc'[u] \notin Building
        BY <3>2 DEF Building
      <3>. QED BY <3>1, <3>2
    <2>. QED BY <2>1, <2>2, <2>5 DEF OneBuilder
  <1>2. SegmentsCounted'
    <2>1. Busy' = Busy
      BY DEF Apart, Still, Busy
    <2>2. Moving' <=> Moving
      BY BuildersStay DEF Moving, Still, growVars
    <2>3. \A u \in Busy : row'[u] = row[u]
      BY DEF Apart, Still, Busy
    <2>4. Left' = Left /\ availableSegments' = availableSegments /\ doneSegments' = doneSegments
          /\ currentRow' = currentRow
      BY DEF Still, growVars, Left
    <2>5. Segments(currentRow - 1)' = Segments(currentRow - 1)
      BY <2>4 DEF Segments
    <2>. QED BY <2>1, <2>2, <2>3, <2>4, <2>5 DEF HInv, SegmentsCounted
  <1>3. UsersCounted'
    <2>1. ASSUME NEW r PROVE Users(r)' = Users(r)
      <3>1. ASSUME NEW u \in Threads PROVE Use(u)' = Use(u)
        BY DEF Apart, Still, Use
      <3>. QED BY <3>1 DEF Users
    <2>2. ASSUME NEW r PROVE Pending(r)' <=> Pending(r)
      <3>1. \A u \in Threads : pc'[u] \notin {"locked", "workers", "ungrow"}
                               <=> pc[u] \notin {"locked", "workers", "ungrow"}
        BY BuildersStay DEF Building
      <3>. QED BY <3>1 DEF Pending, Still, growVars
    <2>3. /\ tableWorkers' = tableWorkers /\ currentRow' = currentRow
          /\ \A r \in Rows : table'[r] = <<>> <=> table[r] = <<>>
      BY DEF Still, growVars
    <2>4. \A u \in Threads : pc'[u] # "workers" <=> pc[u] # "workers"
      BY BuildersStay DEF Building
    <2>5. 0 \in Rows
      BY SizesAreNumbers
    <2>6. UsersCounted
      BY DEF HInv
    <2>7. tableWorkers'[0] = 0 /\ table'[0] = <<>>
      BY <2>3, <2>5, <2>6 DEF UsersCounted
    <2>8. ASSUME NEW r \in Rows \ {0}
          PROVE  /\ tableWorkers'[r] = Cardinality(Users(r)') + (IF Pending(r)' THEN 1 ELSE 0)
                 /\ tableWorkers'[r] > 0 => table'[r] # <<>>
                 /\ r > currentRow' => tableWorkers'[r] = 0
      <3>1. Users(r)' = Users(r)
        BY <2>1
      <3>2. Pending(r)' <=> Pending(r)
        BY <2>2
      <3>3. /\ tableWorkers[r] = Cardinality(Users(r)) + (IF Pending(r) THEN 1 ELSE 0)
            /\ tableWorkers[r] > 0 => table[r] # <<>>
            /\ r > currentRow => tableWorkers[r] = 0
        BY <2>6 DEF UsersCounted
      <3>. QED BY <2>3, <3>1, <3>2, <3>3
    <2>9. currentRow' # 0 /\ (\A u \in Threads : pc'[u] # "workers") => Users(currentRow)' # {}
      <3>1. Users(currentRow)' = Users(currentRow)
        BY <2>1, <2>3 DEF Users
      <3>. QED BY <2>3, <2>4, <2>6, <3>1 DEF UsersCounted
    <2>. QED BY <2>7, <2>8, <2>9 DEF UsersCounted
  <1>. QED BY <1>1, <1>2, <1>3

\* So that such a step keeps the invariant if it keeps what is known of its thread.
LEMMA StillStep ==
  ASSUME HInv, NEW t \in Threads, Apart(t), Still(t), Types', Used', Local(t)'
  PROVE  HInv'
  <1>1. OneBuilder' /\ SegmentsCounted' /\ UsersCounted'
    BY StillGlobals
  <1>2. currentRow' = currentRow /\ currentRow \in Rows /\ currentRow <= currentRow
    BY SizesAreNumbers DEF Still, growVars, HInv, Types
  <1>3. \A u \in Threads \ {t} : Local(u)'
    BY <1>2, OthersKnowTheSame
  <1>4. \A u \in Threads : Local(u)'
    BY <1>3
  <1>. QED BY <1>1, <1>4 DEF HInv

-----------------------------------------------------------------------------
(* Steps that only look: the thread goes on, and may answer its call.      *)

Elsewhere == Building \cup {"acquire", "reread", "invalidate", "idle"}

\* What has to be known where it goes.
Goes(t, y, p, c) ==
  /\ y \in Labels \ (Elsewhere \cup {"leave", "leave last"})
  /\ p \in 0 .. MaxCollisions /\ c \in Calls
  /\ y \in AtCell \cup Between => p < MaxCollisions
  /\ force[t] => y \in AtCell \cup {"error"}
  /\ ret[t] = "grown" => force[t] \/ y \in {"try", "take", "grown"}
  /\ ret[t] = "lock" => force[t] \/ y \in {"try", "take", "lock", "help"}
  /\ y = "grown" => ret[t] = "grown"
  /\ y = "lock" => tdRow[t] # LastRow
  /\ ~force[t] /\ y \in AtCell \cup Between => tdRow[t] # 0
  /\ y \in {"before", "before growing"} /\ c.op = "insert" => tdRow[t] # 0

LEMMA LookStep ==
  ASSUME HInv, NEW t \in Threads, NEW y, NEW p, NEW c, Goes(t, y, p, c),
         pc[t] \notin Elsewhere \cup {"return"},
         pc' = [pc EXCEPT ![t] = y], probe' = [probe EXCEPT ![t] = p],
         call' = [call EXCEPT ![t] = c],
         UNCHANGED <<cellVars, growVars, used, tdVars, calls, moveVars, row, ret>>
  PROVE  HInv'
  <1>1. /\ UNCHANGED <<table, tableWorkers, currentRow, growing, availableSegments, doneSegments>>
        /\ UNCHANGED <<used, tdRow, tdInserts, calls, force, moved, position, segment, row, ret>>
    BY DEF cellVars, growVars, tdVars, moveVars
  <1>2. Types /\ Local(t)
    BY DEF HInv
  <1>3. Types'
    BY <1>1, <1>2 DEF Types, Goes
  <1>4. /\ pc'[t] = y /\ probe'[t] = p /\ call'[t] = c
        /\ \A u \in Threads \ {t} : pc'[u] = pc[u] /\ probe'[u] = probe[u] /\ call'[u] = call[u]
    BY <1>2 DEF Types
  <1>5. Apart(t)
    BY <1>1, <1>4 DEF Apart
  <1>6. y \notin Building /\ pc[t] \notin Building /\ y # "invalidate" /\ pc[t] # "invalidate"
        /\ y \notin {"acquire", "reread"} /\ pc[t] \notin {"acquire", "reread"}
    BY DEF Goes, Elsewhere
  <1>7. Still(t)
    <2>1. Use(t)' = Use(t)
      BY <1>1, <1>4, <1>6 DEF Use
    <2>2. t \in Busy' <=> t \in Busy
      BY <1>1, <1>4, <1>6 DEF Busy
    <2>. QED BY <1>1, <1>4, <1>6, <2>1, <2>2 DEF Still, growVars, Builder
  <1>8. Used'
    <2>1. y # "idle" /\ pc[t] \notin {"idle", "return"}
      BY DEF Goes, Elsewhere
    <2>2. calls[t] \in Int /\ tdInserts[t] \in Int
      BY <1>2, SizesAreNumbers DEF Types
    <2>3. Told(t) = calls[t] - tdInserts[t] - 1
      BY <2>1 DEF Told
    <2>4. Told(t)' = calls[t] - tdInserts[t] - (IF y \in {"idle", "return"} THEN 0 ELSE 1)
      BY <1>1, <1>4 DEF Told
    <2>5. Told(t)' >= Told(t)
      BY <2>2, <2>3, <2>4
    <2>. QED BY <1>1, <1>2, <1>3, <1>5, <2>5, ToldKept DEF HInv
  <1>9. Local(t)'
    <2>1. Inserting(t)' <=> c.op = "insert"
      BY <1>4 DEF Inserting
    <2>2. /\ call'[t] \in Calls
          /\ pc'[t] \in AtCell \cup Between => probe'[t] < MaxCollisions
          /\ force'[t] => pc'[t] \in AtCell \cup {"error"} /\ moved'[t] \in Values
      BY <1>1, <1>2, <1>4 DEF Goes, Local
    <2>3. /\ ret'[t] = "grown" => force'[t] \/ pc'[t] \in Helping \cup {"segments", "grown"}
          /\ ret'[t] = "lock" => force'[t] \/ pc'[t] \in Helping \cup {"lock", "help"}
          /\ pc'[t] \in {"segments", "grown"} => ret'[t] = "grown"
          /\ pc'[t] \notin {"release", "release last", "ungrow", "leave", "leave last"}
      BY <1>1, <1>4, <1>6 DEF Goes, Helping, Building
    <2>4. pc'[t] \in {"lock", "locked", "workers"} \/ ret'[t] # "update" => tdRow'[t] # LastRow
      BY <1>1, <1>2, <1>4, <1>6 DEF Goes, Building, Local
    <2>5. /\ tdRow'[t] <= currentRow' /\ row'[t] <= currentRow'
          /\ ret'[t] = "grown" => tdRow'[t] < currentRow'
      BY <1>1, <1>2 DEF Local
    <2>6. /\ ~force'[t] /\ pc'[t] \in AtCell \cup Between => tdRow'[t] # 0
          /\ pc'[t] \in {"before", "before growing"} /\ Inserting(t)' => tdRow'[t] # 0
      BY <1>1, <1>4, <2>1 DEF Goes
    <2>. QED BY <2>2, <2>3, <2>4, <2>5, <2>6 DEF Local
  <1>. QED BY <1>3, <1>5, <1>7, <1>8, <1>9, StillStep

\* It goes on,
LEMMA JumpStep ==
  ASSUME HInv, NEW t \in Threads, NEW y, Goes(t, y, probe[t], call[t]),
         pc[t] \notin Elsewhere \cup {"return"},
         pc' = [pc EXCEPT ![t] = y],
         UNCHANGED <<cellVars, growVars, used, tdVars, callVars, probe, moveVars, row, ret>>
  PROVE  HInv'
  <1>1. /\ UNCHANGED <<cellVars, growVars, used, tdVars, calls, moveVars, row, ret>>
        /\ probe' = probe /\ call' = call
    BY DEF callVars
  <1>2. probe \in [Threads -> 0 .. MaxCollisions] /\ call \in [Threads -> Calls \cup {NoCall}]
    BY DEF HInv, Types
  <1>3. probe' = [probe EXCEPT ![t] = probe[t]] /\ call' = [call EXCEPT ![t] = call[t]]
    BY <1>1, <1>2
  <1>. QED BY <1>1, <1>3, LookStep

\* or it answers its call.
LEMMA AnswerStep ==
  ASSUME HInv, NEW t \in Threads, NEW p, NEW a \in {"none", "new", "found", "not found"},
         p \in 0 .. MaxCollisions,
         pc[t] \notin Elsewhere \cup {"return"}, ~force[t],
         ret[t] = "update",
         pc' = [pc EXCEPT ![t] = "return"], Answered(t, a),
         probe' = [probe EXCEPT ![t] = p],
         UNCHANGED <<cellVars, growVars, used, tdVars, calls, moveVars, row, ret>>
  PROVE  HInv'
  <1>1. call[t] \in Calls
    BY DEF HInv, Local, Elsewhere
  <1>2. PICK c : c = [call[t] EXCEPT !.answer = a]
    OBVIOUS
  <1>3. c \in Calls
    BY <1>1, <1>2 DEF Calls
  <1>4. call' = [call EXCEPT ![t] = c]
    BY <1>2 DEF Answered
  <1>5. Goes(t, "return", p, c)
    BY <1>3 DEF Goes, Labels, Elsewhere, Building, AtCell, Between
  <1>. QED BY <1>4, <1>5, LookStep

\* Who neither moves cells nor helps has nothing to go back to.
LEMMA AtRest ==
  ASSUME HInv, NEW t \in Threads
  PROVE  /\ pc[t] \notin AtCell \cup {"error"} => ~force[t]
         /\ ~force[t] /\ pc[t] \notin Helping \cup {"segments", "grown", "lock", "help"}
              => ret[t] = "update"
  <1>1. ret[t] \in {"update", "lock", "grown"}
    BY DEF HInv, Types
  <1>. QED BY <1>1 DEF HInv, Local

LEMMA ReadingTheState ==
  ASSUME HInv, NEW t \in Threads
  PROVE  /\ probe[t] \in 0 .. MaxCollisions /\ probe[t] \in Nat
         /\ pc[t] # "idle" => call[t] \in Calls /\ call[t].op \in {"insert", "find"}
         /\ tdRow[t] \in Rows /\ row[t] \in Rows /\ currentRow \in Rows
         /\ tdRow[t] \in Nat /\ row[t] \in Nat /\ currentRow \in Nat
         /\ force[t] \in BOOLEAN /\ ret[t] \in {"update", "lock", "grown"}
         /\ table[0] = <<>> /\ tableWorkers[0] = 0 /\ Local(t)
  <1>1. pc[t] # "idle" => call[t] \in Calls /\ call[t].op \in {"insert", "find"}
    BY DEF HInv, Local, Calls
  <1>2. table[0] = <<>> /\ tableWorkers[0] = 0
    BY DEF HInv, UsersCounted
  <1>. QED BY <1>1, <1>2, SizesAreNumbers DEF HInv, Types

LEMMA UsageKeeps == ASSUME HInv, NEW t \in Threads, Usage(t) PROVE HInv'
  <1>1. PICK y : y = IF IsFull(t) THEN "grow" ELSE "before"
    OBVIOUS
  <1>2. pc[t] = "usage" /\ pc' = [pc EXCEPT ![t] = y]
    BY <1>1 DEF Usage, Goto
  <1>3. ~force[t] /\ ret[t] = "update"
    BY <1>2, AtRest DEF AtCell, Helping
  <1>4. y = "before" => tdRow[t] # 0
    BY <1>1, ReadingTheState DEF IsFull
  <1>5. Goes(t, y, probe[t], call[t])
    BY <1>1, <1>2, <1>3, <1>4, ReadingTheState DEF Goes, Labels, Elsewhere, Building, AtCell, Between
  <1>. QED BY <1>2, <1>5, JumpStep DEF Usage, Elsewhere, Building

LEMMA AskingIs ==
  /\ DOMAIN Asking = {"before", "lost", "after", "head"}
  /\ Asking["before"] = "before growing" /\ Asking["lost"] = "lost growing"
  /\ Asking["after"] = "after growing" /\ Asking["head"] = "head growing"
  BY DEF Asking

LEMMA ChangedRowKeeps == ASSUME HInv, NEW t \in Threads, ChangedRow(t) PROVE HInv'
  <1>1. PICK y : y = IF tdRow[t] < currentRow THEN "help" ELSE Asking[pc[t]]
    OBVIOUS
  <1>2. pc[t] \in {"before", "lost", "after", "head"} /\ pc' = [pc EXCEPT ![t] = y]
    <2>1. pc[t] \in DOMAIN Asking
          /\ pc' = [pc EXCEPT ![t] = IF tdRow[t] < currentRow THEN "help" ELSE Asking[@]]
      BY DEF ChangedRow
    <2>2. pc \in [Threads -> Labels]
      BY DEF HInv, Types
    <2>. QED BY <1>1, <2>1, <2>2, AskingIs
  <1>3. ~force[t] /\ ret[t] = "update"
    BY <1>2, AtRest DEF AtCell, Helping
  <1>4. \/ y = "help"
        \/ pc[t] = "before" /\ y = "before growing"
        \/ pc[t] \in {"lost", "after", "head"} /\ y \in {"lost growing", "after growing", "head growing"}
    BY <1>1, <1>2, AskingIs
  <1>5. /\ pc[t] = "before" /\ call[t].op = "insert" => tdRow[t] # 0
        /\ pc[t] \in {"lost", "after", "head"} => tdRow[t] # 0 /\ probe[t] < MaxCollisions
    BY <1>3, ReadingTheState DEF Local, Between, Inserting
  <1>6. Goes(t, y, probe[t], call[t])
    BY <1>2, <1>3, <1>4, <1>5, ReadingTheState DEF Goes, Labels, Elsewhere, Building, AtCell, Between
  <1>. QED BY <1>2, <1>6, JumpStep DEF ChangedRow, Elsewhere, Building

LEMMA ChangedGrowingKeeps == ASSUME HInv, NEW t \in Threads, ChangedGrowing(t) PROVE HInv'
  <1>1. /\ pc[t] \in {"before growing", "lost growing", "after growing", "head growing"}
        /\ pc' = [pc EXCEPT ![t] = "help"]
    BY AskingIs DEF ChangedGrowing, Goto
  <1>2. ~force[t] /\ ret[t] = "update"
    BY <1>1, AtRest DEF AtCell, Helping
  <1>3. Goes(t, "help", probe[t], call[t])
    BY <1>1, <1>2, ReadingTheState DEF Goes, Labels, Elsewhere, Building, AtCell, Between
  <1>. QED BY <1>1, <1>3, JumpStep DEF ChangedGrowing, Elsewhere, Building

LEMMA BeginProbingKeeps == ASSUME HInv, NEW t \in Threads, BeginProbing(t) PROVE HInv'
  <1>1. /\ pc[t] = "before growing" /\ probe' = [probe EXCEPT ![t] = 0]
        /\ UNCHANGED <<cellVars, growVars, used, tdVars, calls, moveVars, row, ret>>
    BY DEF BeginProbing, Goto
  <1>2. ~force[t] /\ ret[t] = "update"
    BY <1>1, AtRest DEF AtCell, Helping
  <1>3. pc[t] \notin Elsewhere \cup {"return"}
    BY <1>1 DEF Elsewhere, Building
  <1>4. 0 \in 0 .. MaxCollisions /\ 0 < MaxCollisions
    BY SizesAreNumbers
  <1>5. CASE NoRow(t)
    <2>1. pc' = [pc EXCEPT ![t] = "return"] /\ Answered(t, "not found")
      BY <1>5 DEF BeginProbing, Goto
    <2>. QED BY <1>1, <1>2, <1>3, <1>4, <2>1, AnswerStep
  <1>6. CASE ~NoRow(t)
    <2>1. PICK y : y = IF Inserting(t) THEN "cell" ELSE "head"
      OBVIOUS
    <2>2. pc' = [pc EXCEPT ![t] = y] /\ call' = call
      BY <1>6, <2>1 DEF BeginProbing, Goto
    <2>3. call' = [call EXCEPT ![t] = call[t]]
      BY <2>2 DEF HInv, Types
    <2>4. tdRow[t] # 0
      <3>1. CASE Inserting(t)
        BY <1>1, <3>1, ReadingTheState DEF Local
      <3>2. CASE ~Inserting(t)
        BY <1>6, <3>2, ReadingTheState DEF NoRow
      <3>. QED BY <3>1, <3>2
    <2>5. Goes(t, y, 0, call[t])
      BY <1>1, <1>2, <1>4, <2>1, <2>4, ReadingTheState
         DEF Goes, Labels, Elsewhere, Building, AtCell, Between
    <2>. QED BY <1>1, <1>3, <2>2, <2>3, <2>5, LookStep
  <1>. QED BY <1>5, <1>6

LEMMA ProbingKeeps == ASSUME HInv, NEW t \in Threads, Probing(t) PROVE HInv'
  <1>1. PICK y \in {"is", "cell"} :
          pc[t] \in {"lost growing", "head growing"} /\ pc' = [pc EXCEPT ![t] = y]
    BY DEF Probing, Goto
  <1>2. ~force[t] /\ ret[t] = "update"
    BY <1>1, AtRest DEF AtCell, Helping
  <1>3. tdRow[t] # 0 /\ probe[t] < MaxCollisions
    BY <1>1, <1>2, ReadingTheState DEF Local, Between
  <1>4. Goes(t, y, probe[t], call[t])
    BY <1>1, <1>2, <1>3, ReadingTheState DEF Goes, Labels, Elsewhere, Building, AtCell, Between
  <1>. QED BY <1>1, <1>4, JumpStep DEF Probing, Elsewhere, Building

\* At a cell, the thread may go on to another look at it.
LEMMA AtACell ==
  ASSUME HInv, NEW t \in Threads, pc[t] \in AtCell
  PROVE  /\ probe[t] < MaxCollisions /\ pc[t] \notin Elsewhere \cup {"return"}
         /\ ~force[t] => tdRow[t] # 0 /\ ret[t] = "update"
         /\ \A y \in AtCell : Goes(t, y, probe[t], call[t])
         /\ force[t] => Goes(t, "error", probe[t], call[t])
         /\ ~force[t] => Goes(t, "lost", probe[t], call[t]) /\ Goes(t, "after", probe[t], call[t])
                         /\ Goes(t, "invalid", probe[t], call[t])
  <1>1. probe[t] < MaxCollisions
    BY ReadingTheState DEF Local
  <1>2. pc[t] \notin Elsewhere \cup {"return"} /\ pc[t] # "idle"
    BY DEF Elsewhere, Building, AtCell
  <1>3. ~force[t] => tdRow[t] # 0 /\ ret[t] = "update"
    BY AtRest, ReadingTheState DEF Local, AtCell, Helping
  <1>4. ASSUME NEW y \in AtCell PROVE Goes(t, y, probe[t], call[t])
    BY <1>1, <1>2, <1>3, ReadingTheState DEF Goes, Labels, Elsewhere, Building, AtCell, Between
  <1>5. ASSUME force[t] PROVE Goes(t, "error", probe[t], call[t])
    BY <1>1, <1>2, <1>5, ReadingTheState DEF Goes, Labels, Elsewhere, Building, AtCell, Between
  <1>6. ASSUME ~force[t], NEW y \in {"lost", "after", "invalid"}
        PROVE  Goes(t, y, probe[t], call[t])
    BY <1>1, <1>2, <1>3, <1>6, ReadingTheState
       DEF Goes, Labels, Elsewhere, Building, AtCell, Between
  <1>. QED BY <1>1, <1>2, <1>3, <1>4, <1>5, <1>6

\* An answer that is given at a cell.
LEMMA AnswerHere ==
  ASSUME HInv, NEW t \in Threads, pc[t] \in AtCell, ~force[t],
         NEW a \in {"found", "not found"}, Answered(t, a),
         pc' = [pc EXCEPT ![t] = "return"],
         UNCHANGED <<cellVars, growVars, used, tdVars, calls, probe, moveVars, row, ret>>
  PROVE  HInv'
  <1>1. probe' = [probe EXCEPT ![t] = probe[t]] /\ probe[t] \in 0 .. MaxCollisions
    BY DEF HInv, Types
  <1>2. pc[t] \notin Elsewhere \cup {"return"} /\ ret[t] = "update"
    BY AtACell
  <1>. QED BY <1>1, <1>2, AnswerStep

LEMMA LookAtCellKeeps == ASSUME HInv, NEW t \in Threads, LookAtCell(t) PROVE HInv'
  <1>1. pc[t] = "cell" /\ pc[t] \in AtCell
        /\ UNCHANGED <<cellVars, growVars, used, tdVars, calls, probe, moveVars, row, ret>>
    BY DEF LookAtCell, AtCell
  <1>2. \/ \E y \in AtCell : pc' = [pc EXCEPT ![t] = y] /\ call' = call
        \/ ~force[t] /\ pc' = [pc EXCEPT ![t] = "return"] /\ Answered(t, "not found")
    BY DEF LookAtCell, Goto, AtCell
  <1>3. CASE \E y \in AtCell : pc' = [pc EXCEPT ![t] = y] /\ call' = call
    <2>1. PICK y \in AtCell : pc' = [pc EXCEPT ![t] = y] /\ call' = call
      BY <1>3
    <2>. QED BY <1>1, <2>1, AtACell, JumpStep DEF callVars
  <1>4. CASE ~force[t] /\ pc' = [pc EXCEPT ![t] = "return"] /\ Answered(t, "not found")
    BY <1>1, <1>4, AnswerHere
  <1>. QED BY <1>2, <1>3, <1>4

LEMMA LoseCellKeeps == ASSUME HInv, NEW t \in Threads, LoseCell(t) PROVE HInv'
  <1>1. PICK y : y = IF force[t] THEN "is" ELSE "lost"
    OBVIOUS
  <1>2. pc[t] \in AtCell /\ pc' = [pc EXCEPT ![t] = y]
    BY <1>1 DEF LoseCell, Goto, AtCell
  <1>3. "is" \in AtCell
    BY DEF AtCell
  <1>4. Goes(t, y, probe[t], call[t])
    BY <1>1, <1>2, <1>3, AtACell
  <1>. QED BY <1>2, <1>4, AtACell, JumpStep DEF LoseCell

LEMMA DiffersGoes ==
  ASSUME HInv, NEW t \in Threads, pc[t] \in AtCell
  PROVE  Goes(t, Differs(t), probe[t], call[t])
  <1>1. "next" \in AtCell
    BY DEF AtCell
  <1>. QED BY <1>1, AtACell DEF Differs

LEMMA IsKeeps == ASSUME HInv, NEW t \in Threads, Is(t) PROVE HInv'
  <1>1. PICK y : y \in {"wait", Differs(t)} /\ pc[t] = "is" /\ pc' = [pc EXCEPT ![t] = y]
    BY DEF Is, Goto
  <1>2. pc[t] \in AtCell /\ "wait" \in AtCell
    BY <1>1 DEF AtCell
  <1>3. Goes(t, y, probe[t], call[t])
    BY <1>1, <1>2, AtACell, DiffersGoes
  <1>. QED BY <1>1, <1>2, <1>3, AtACell, JumpStep DEF Is

LEMMA WaitKeeps == ASSUME HInv, NEW t \in Threads, Wait(t) PROVE HInv'
  <1>1. pc[t] = "wait" /\ pc[t] \in AtCell
        /\ UNCHANGED <<cellVars, growVars, used, tdVars, calls, probe, moveVars, row, ret>>
    BY DEF Wait, AtCell
  <1>2. \/ pc' = [pc EXCEPT ![t] = Differs(t)] /\ call' = call
        \/ force[t] /\ pc' = [pc EXCEPT ![t] = "error"] /\ call' = call
        \/ ~force[t] /\ pc' = [pc EXCEPT ![t] = "return"] /\ Answered(t, "found")
    BY DEF Wait, Goto
  <1>3. CASE pc' = [pc EXCEPT ![t] = Differs(t)] /\ call' = call
    BY <1>1, <1>3, AtACell, DiffersGoes, JumpStep DEF callVars
  <1>4. CASE force[t] /\ pc' = [pc EXCEPT ![t] = "error"] /\ call' = call
    BY <1>1, <1>4, AtACell, JumpStep DEF callVars
  <1>5. CASE ~force[t] /\ pc' = [pc EXCEPT ![t] = "return"] /\ Answered(t, "found")
    BY <1>1, <1>5, AnswerHere
  <1>. QED BY <1>2, <1>3, <1>4, <1>5

LEMMA IsInvalidKeeps == ASSUME HInv, NEW t \in Threads, IsInvalid(t) PROVE HInv'
  <1>1. PICK y \in {"help", "next"} : pc[t] = "invalid" /\ pc' = [pc EXCEPT ![t] = y]
    BY DEF IsInvalid, Goto
  <1>2. ~force[t] /\ ret[t] = "update"
    BY <1>1, AtRest DEF AtCell, Helping
  <1>3. tdRow[t] # 0 /\ probe[t] < MaxCollisions
    BY <1>1, <1>2, ReadingTheState DEF Local, Between
  <1>4. Goes(t, y, probe[t], call[t])
    BY <1>1, <1>2, <1>3, ReadingTheState DEF Goes, Labels, Elsewhere, Building, AtCell, Between
  <1>. QED BY <1>1, <1>4, JumpStep DEF IsInvalid, Elsewhere, Building

LEMMA NextCellKeeps == ASSUME HInv, NEW t \in Threads, NextCell(t) PROVE HInv'
  <1>. DEFINE last == probe[t] + 1 = MaxCollisions
              find == ~force[t] /\ ~Inserting(t)
              y == IF ~last THEN IF find THEN "head" ELSE "cell"
                   ELSE IF force[t] THEN "error" ELSE IF find THEN "return" ELSE "grow"
  <1>1. /\ pc[t] \in {"next", "after growing"} /\ probe' = [probe EXCEPT ![t] = probe[t] + 1]
        /\ UNCHANGED <<cellVars, growVars, used, tdVars, calls, moveVars, row, ret>>
    BY DEF NextCell
  <1>2. probe'[t] = probe[t] + 1
    BY <1>1 DEF HInv, Types
  <1>3. /\ pc' = [pc EXCEPT ![t] = y]
        /\ IF last /\ find THEN Answered(t, "not found") ELSE call' = call
    BY <1>2 DEF NextCell
  <1>4. probe[t] < MaxCollisions /\ (~force[t] => tdRow[t] # 0)
    BY <1>1, ReadingTheState DEF Local, AtCell, Between
  <1>5. probe[t] + 1 \in 0 .. MaxCollisions /\ (~last => probe[t] + 1 < MaxCollisions)
    BY <1>4, ReadingTheState, SizesAreNumbers
  <1>6. ~force[t] => ret[t] = "update"
    BY <1>1, AtRest DEF Helping
  <1>7. pc[t] \notin Elsewhere \cup {"return"} /\ pc[t] # "idle"
    BY <1>1 DEF Elsewhere, Building
  <1>8. CASE last /\ find
    BY <1>1, <1>3, <1>5, <1>6, <1>7, <1>8, AnswerStep
  <1>9. CASE ~(last /\ find)
    <2>1. call' = [call EXCEPT ![t] = call[t]]
      BY <1>3, <1>9 DEF HInv, Types
    <2>2. y \in {"head", "cell", "error", "grow"} /\ (y = "error" => force[t])
          /\ (y \in {"head", "grow"} => ~force[t]) /\ (y \in {"head", "cell"} => ~last)
      BY <1>9
    <2>. HIDE DEF last, find, y
    <2>3. Goes(t, y, probe[t] + 1, call[t])
      BY <1>4, <1>5, <1>6, <1>7, <2>2, ReadingTheState
         DEF Goes, Labels, Elsewhere, Building, AtCell, Between
    <2>. QED BY <1>1, <1>3, <1>7, <2>1, <2>3, LookStep
  <1>. QED BY <1>8, <1>9

LEMMA GrowKeeps == ASSUME HInv, NEW t \in Threads, Grow(t) PROVE HInv'
  <1>1. PICK y \in {"error", "help", "lock"} :
          /\ pc[t] = "grow" /\ pc' = [pc EXCEPT ![t] = y] /\ (y = "lock" => tdRow[t] # LastRow)
    BY DEF Grow, Goto
  <1>2. ~force[t] /\ ret[t] = "update"
    BY <1>1, AtRest DEF AtCell, Helping
  <1>3. Goes(t, y, probe[t], call[t])
    BY <1>1, <1>2, ReadingTheState DEF Goes, Labels, Elsewhere, Building, AtCell, Between
  <1>. QED BY <1>1, <1>3, JumpStep DEF Grow, Elsewhere, Building

LEMMA TrySegmentKeeps == ASSUME HInv, NEW t \in Threads, TrySegment(t) PROVE HInv'
  <1>1. PICK y : y \in {"take", NoMore(t)} /\ pc[t] = "try" /\ pc' = [pc EXCEPT ![t] = y]
    BY DEF TrySegment, Goto
  <1>2. ~force[t]
    BY <1>1, AtRest DEF AtCell
  <1>3. Goes(t, y, probe[t], call[t])
    BY <1>1, <1>2, ReadingTheState
       DEF Goes, Labels, Elsewhere, Building, AtCell, Between, NoMore
  <1>. QED BY <1>1, <1>3, JumpStep DEF TrySegment, Elsewhere, Building

LEMMA HelpKeeps == ASSUME HInv, NEW t \in Threads, Help(t) PROVE HInv'
  <1>1. PICK y : y \in {"try", ret[t]} /\ pc[t] = "help" /\ pc' = [pc EXCEPT ![t] = y]
    BY DEF Help, Goto
  <1>2. ~force[t] /\ ret[t] # "grown"
    BY <1>1, AtRest, ReadingTheState DEF AtCell, Local, Helping
  <1>3. ret[t] = "lock" => tdRow[t] # LastRow
    BY ReadingTheState DEF Local
  <1>4. Goes(t, y, probe[t], call[t])
    BY <1>1, <1>2, <1>3, ReadingTheState
       DEF Goes, Labels, Elsewhere, Building, AtCell, Between
  <1>. QED BY <1>1, <1>4, JumpStep DEF Help, Elsewhere, Building

-----------------------------------------------------------------------------
(* The other steps after which the same threads build, use and move.       *)

LEMMA CallKeeps ==
  ASSUME HInv, NEW t \in Threads, NEW op \in {"insert", "find"}, NEW v \in Values, Call(t, op, v)
  PROVE  HInv'
  <1>1. PICK b \in BOOLEAN : b = (v \notin Contents)
    OBVIOUS
  <1>2. PICK c : c = [op |-> op, value |-> v, absent |-> b, answer |-> "none"]
    OBVIOUS
  <1>3. PICK y : y = IF op = "insert" THEN "usage" ELSE "before"
    OBVIOUS
  <1>4. /\ pc[t] = "idle" /\ pc' = [pc EXCEPT ![t] = y]
        /\ call' = [call EXCEPT ![t] = c] /\ calls' = [calls EXCEPT ![t] = @ + 1]
        /\ calls[t] < MaxCalls
    BY <1>1, <1>2, <1>3 DEF Call, Goto
  <1>5. /\ UNCHANGED <<table, tableWorkers, currentRow, growing, availableSegments, doneSegments>>
        /\ UNCHANGED <<used, tdRow, tdInserts, probe, force, moved, position, segment, row, ret>>
    BY DEF Call, cellVars, growVars, tdVars, moveVars
  <1>6. c \in Calls /\ c.op = op
    BY <1>2 DEF Calls
  <1>7. Types /\ Local(t) /\ Used
    BY DEF HInv
  <1>8. calls[t] \in Nat /\ tdInserts[t] \in Nat /\ calls[t] + 1 \in 0 .. MaxCalls
    <2>1. calls[t] \in 0 .. MaxCalls /\ tdInserts[t] \in 0 .. SyncPoint - 1
      BY <1>7 DEF Types
    <2>2. PICK i, j, m, n : i = calls[t] /\ j = tdInserts[t] /\ m = MaxCalls /\ n = SyncPoint
      OBVIOUS
    <2>3. m \in Nat /\ n \in Nat
      BY <2>2, SizesAreNumbers
    <2>4. i \in 0 .. m /\ j \in 0 .. n - 1 /\ i < m
      BY <1>4, <2>1, <2>2
    <2>5. i \in Nat /\ j \in Nat /\ i + 1 \in 0 .. m
      BY <2>3, <2>4
    <2>. QED BY <2>2, <2>5
  <1>9. Types'
    <2>1. calls' \in [Threads -> 0 .. MaxCalls]
      BY <1>4, <1>7, <1>8 DEF Types
    <2>2. y \in Labels
      BY <1>3 DEF Labels
    <2>. QED BY <1>4, <1>5, <1>6, <1>7, <2>1, <2>2 DEF Types
  <1>10. /\ pc'[t] = y /\ call'[t] = c /\ calls'[t] = calls[t] + 1
         /\ \A u \in Threads \ {t} : pc'[u] = pc[u] /\ call'[u] = call[u] /\ calls'[u] = calls[u]
    BY <1>4, <1>7 DEF Types
  <1>11. Apart(t)
    BY <1>5, <1>10 DEF Apart
  <1>12. ~force[t] /\ ret[t] = "update"
    BY <1>4, AtRest DEF AtCell, Helping
  <1>13. Still(t)
    <2>1. /\ pc[t] \notin Building \cup {"invalidate", "acquire", "reread"}
          /\ y \notin Building \cup {"invalidate", "acquire", "reread"}
      BY <1>3, <1>4 DEF Building
    <2>2. Use(t)' = Use(t)
      BY <1>5, <1>10, <2>1 DEF Use
    <2>3. t \in Busy' <=> t \in Busy
      BY <1>5, <1>10, <2>1 DEF Busy
    <2>. QED BY <1>5, <1>10, <2>1, <2>2, <2>3 DEF Still, growVars, Builder
  <1>14. Used'
    <2>1. Told(t) = calls[t] - tdInserts[t] - 0
      BY <1>4 DEF Told
    <2>2. Told(t)' = (calls[t] + 1) - tdInserts[t] - 1
      BY <1>3, <1>5, <1>10 DEF Told
    <2>3. Told(t)' >= Told(t)
      BY <1>8, <2>1, <2>2
    <2>. QED BY <1>5, <1>7, <1>9, <1>11, <2>3, ToldKept
  <1>15. Local(t)'
    <2>1. Inserting(t)' <=> op = "insert"
      BY <1>6, <1>10 DEF Inserting
    <2>2. y \in {"usage", "before"} /\ (y = "before" => op # "insert")
      BY <1>3
    <2>3. tdRow[t] <= currentRow /\ row[t] <= currentRow
      BY <1>7 DEF Local
    <2>. QED BY <1>5, <1>6, <1>10, <1>12, <2>1, <2>2, <2>3
         DEF Local, AtCell, Between, Helping
  <1>. QED BY <1>9, <1>11, <1>13, <1>14, <1>15, StillStep

LEMMA ReturnKeeps == ASSUME HInv, NEW t \in Threads, Return(t) PROVE HInv'
  <1>1. /\ pc[t] = "return" /\ pc' = [pc EXCEPT ![t] = "idle"]
        /\ call' = [call EXCEPT ![t] = NoCall] /\ probe' = [probe EXCEPT ![t] = 0]
        /\ row' = [row EXCEPT ![t] = 0] /\ position' = [position EXCEPT ![t] = 0]
        /\ segment' = [segment EXCEPT ![t] = 0] /\ ret' = [ret EXCEPT ![t] = "update"]
    BY DEF Return, Goto, Settle
  <1>2. /\ UNCHANGED <<table, tableWorkers, currentRow, growing, availableSegments, doneSegments>>
        /\ UNCHANGED <<used, tdRow, tdInserts, calls, force, moved>>
    BY DEF Return, cellVars, growVars, tdVars
  <1>3. Types /\ Local(t) /\ Used
    BY DEF HInv
  <1>4. Types'
    <2>1. 0 \in Rows /\ 0 \in 0 .. MaxCollisions
      BY SizesAreNumbers
    <2>. QED BY <1>1, <1>2, <1>3, <2>1 DEF Types, Labels
  <1>5. /\ pc'[t] = "idle" /\ row'[t] = 0 /\ ret'[t] = "update"
        /\ \A u \in Threads \ {t} : /\ pc'[u] = pc[u] /\ call'[u] = call[u]
                                    /\ probe'[u] = probe[u] /\ row'[u] = row[u]
                                    /\ ret'[u] = ret[u]
    BY <1>1, <1>3 DEF Types
  <1>6. Apart(t)
    BY <1>2, <1>5 DEF Apart
  <1>7. ~force[t] /\ ret[t] = "update"
    BY <1>1, AtRest DEF AtCell, Helping
  <1>8. Still(t)
    BY <1>1, <1>2, <1>5, <1>7 DEF Still, growVars, Builder, Building, Use, Busy
  <1>9. Used'
    <2>1. Told(t)' = Told(t)
      BY <1>1, <1>2, <1>5 DEF Told
    <2>2. Told(t) \in Int
      BY <1>3, ToldIsANumber
    <2>. QED BY <1>2, <1>3, <1>4, <1>6, <2>1, <2>2, ToldKept
  <1>10. Local(t)'
    <2>1. tdRow[t] <= currentRow
      BY <1>3 DEF Local
    <2>2. currentRow \in Nat /\ 0 <= currentRow
      BY ReadingTheState
    <2>. QED BY <1>2, <1>5, <1>7, <2>1, <2>2 DEF Local, AtCell, Between, Helping
  <1>. QED BY <1>4, <1>6, <1>8, <1>9, <1>10, StillStep

\* A cell is set: the row stays there.
LEMMA CellSet ==
  ASSUME HInv, NEW r \in Rows, NEW i \in 1 .. Size[r], NEW c \in Cells, table[r] # <<>>,
         table' = [table EXCEPT ![r][i] = c]
  PROVE  /\ DOMAIN table' = Rows
         /\ \A q \in Rows : table'[q] = <<>> \/ table'[q] \in [1 .. Size[q] -> Cells]
         /\ \A q \in Rows : table'[q] = <<>> <=> table[q] = <<>>
  <1>1. /\ DOMAIN table = Rows
        /\ \A q \in Rows : table[q] = <<>> \/ table[q] \in [1 .. Size[q] -> Cells]
    BY DEF HInv, Types
  <1>2. PICK f : f = [table[r] EXCEPT ![i] = c]
    OBVIOUS
  <1>3. table' = [table EXCEPT ![r] = f]
    BY <1>2
  <1>4. table[r] \in [1 .. Size[r] -> Cells]
    BY <1>1
  <1>5. f \in [1 .. Size[r] -> Cells]
    BY <1>2, <1>4
  <1>6. f # <<>>
    BY <1>5, RowIsThere, SizesAreNumbers
  <1>7. DOMAIN table' = Rows /\ table'[r] = f /\ \A q \in Rows \ {r} : table'[q] = table[q]
    BY <1>1, <1>3
  <1>. QED BY <1>1, <1>5, <1>6, <1>7

LEMMA CellsHold == /\ \A v \in Values : Cell("locked", v) \in Cells /\ Cell("valid", v) \in Cells
                   /\ Free \in Cells /\ Invalid \in Cells
                   /\ \A c \in Cells : c.flag = "valid" => c.value \in Values
  <1>1. \A v \in Values : Cell("locked", v) \in Cells /\ Cell("valid", v) \in Cells
    BY DEF Cells
  <1>2. ASSUME NEW c \in Cells, c.flag = "valid" PROVE c.value \in Values
    <2>1. Free.flag = "free" /\ Invalid.flag = "invalid"
      BY DEF Free, Invalid, Cell
    <2>2. PICK f \in {"locked", "valid"}, v \in Values : c = Cell(f, v)
      BY <1>2, <2>1 DEF Cells
    <2>. QED BY <2>2 DEF Cell
  <1>3. Free \in Cells /\ Invalid \in Cells
    BY DEF Cells
  <1>. QED BY <1>1, <1>2, <1>3

\* tryStore and its answer.
LEMMA TryStoreKeeps == ASSUME HInv, NEW t \in Threads, TryStore(t) PROVE HInv'
  <1>1. /\ pc[t] = "store" /\ pc' = [pc EXCEPT ![t] = "write"]
        /\ SetCell(t, Cell("locked", Value(t)))
        /\ IF force[t] THEN call' = call ELSE Answered(t, "new")
    BY DEF TryStore, Goto
  <1>2. /\ UNCHANGED <<tableWorkers, currentRow, growing, availableSegments, doneSegments>>
        /\ UNCHANGED <<used, tdRow, tdInserts, calls, probe, force, moved, position, segment,
                       row, ret>>
    BY DEF TryStore, growVars, tdVars, moveVars
  <1>3. Types /\ Local(t) /\ Used
    BY DEF HInv
  <1>4. pc[t] \in AtCell /\ pc[t] \in AtCell \cup {"invalid"}
    BY <1>1 DEF AtCell
  <1>5. /\ DOMAIN table' = Rows
        /\ \A q \in Rows : table'[q] = <<>> \/ table'[q] \in [1 .. Size[q] -> Cells]
        /\ \A q \in Rows : table'[q] = <<>> <=> table[q] = <<>>
    <2>1. PICK r, i, c : r = Row(t) /\ i = Index(t) /\ c = Cell("locked", Value(t))
      OBVIOUS
    <2>2. r \in Rows /\ i \in 1 .. Size[r] /\ c \in Cells /\ table[r] # <<>>
      BY <1>4, <2>1, CellIsThere, CellsHold
    <2>3. table' = [table EXCEPT ![r][i] = c]
      BY <1>1, <2>1 DEF SetCell
    <2>. QED BY <2>2, <2>3, CellSet
  <1>6. call[t] \in Calls
    BY <1>1, ReadingTheState
  <1>7. /\ call' \in [Threads -> Calls \cup {NoCall}] /\ call'[t] \in Calls
        /\ \A u \in Threads \ {t} : call'[u] = call[u]
    <2>1. CASE force[t]
      BY <1>1, <1>3, <1>6, <2>1 DEF Types
    <2>2. CASE ~force[t]
      <3>1. PICK a : a = [call[t] EXCEPT !.answer = "new"]
        OBVIOUS
      <3>2. a \in Calls
        BY <1>6, <3>1 DEF Calls
      <3>3. call' = [call EXCEPT ![t] = a] /\ call \in [Threads -> Calls \cup {NoCall}]
        BY <1>1, <1>3, <2>2, <3>1 DEF Types, Answered
      <3>. QED BY <3>2, <3>3
    <2>. QED BY <2>1, <2>2
  <1>8. Types'
    BY <1>1, <1>2, <1>3, <1>5, <1>7 DEF Types, Labels
  <1>9. pc'[t] = "write" /\ \A u \in Threads \ {t} : pc'[u] = pc[u]
    BY <1>1, <1>3 DEF Types
  <1>10. Apart(t)
    BY <1>2, <1>7, <1>9 DEF Apart
  <1>11. Still(t)
    BY <1>1, <1>2, <1>5, <1>9 DEF Still, growVars, Builder, Building, Use, Busy
  <1>12. Used'
    <2>1. Told(t)' = Told(t)
      BY <1>1, <1>2, <1>9 DEF Told
    <2>2. Told(t) \in Int
      BY <1>3, ToldIsANumber
    <2>. QED BY <1>2, <1>3, <1>8, <1>10, <2>1, <2>2, ToldKept
  <1>13. Local(t)'
    <2>1. /\ tdRow[t] <= currentRow /\ row[t] <= currentRow
          /\ ret[t] = "grown" => tdRow[t] < currentRow
          /\ ret[t] = "grown" => force[t]
          /\ ret[t] = "lock" => force[t]
          /\ ret[t] # "update" => tdRow[t] # LastRow
          /\ force[t] => moved[t] \in Values
          /\ ~force[t] => tdRow[t] # 0
          /\ probe[t] < MaxCollisions
      BY <1>1, <1>3, <1>4 DEF Local, AtCell, Helping
    <2>. QED BY <1>2, <1>7, <1>9, <2>1 DEF Local, AtCell
  <1>. QED BY <1>8, <1>10, <1>11, <1>12, <1>13, StillStep

\* The value is written.
LEMMA WriteKeeps == ASSUME HInv, NEW t \in Threads, Write(t) PROVE HInv'
  <1>. DEFINE y == IF force[t] THEN "invalidate" ELSE "count"
  <1>1. /\ pc[t] = "write" /\ pc' = [pc EXCEPT ![t] = y]
        /\ SetCell(t, Cell("valid", Value(t)))
        /\ moved' = [moved EXCEPT ![t] = NoValue] /\ force' = [force EXCEPT ![t] = FALSE]
        /\ \/ position' = position
           \/ position' = [position EXCEPT ![t] = @ + 1]
    BY DEF Write, Goto
  <1>2. /\ UNCHANGED <<tableWorkers, currentRow, growing, availableSegments, doneSegments>>
        /\ UNCHANGED <<used, tdRow, tdInserts, call, calls, probe, segment, row, ret>>
    BY DEF Write, growVars, tdVars, callVars
  <1>3. Types /\ Local(t) /\ Used
    BY DEF HInv
  <1>4. pc[t] \in AtCell /\ pc[t] \in AtCell \cup {"invalid"}
    BY <1>1 DEF AtCell
  <1>5. /\ DOMAIN table' = Rows
        /\ \A q \in Rows : table'[q] = <<>> \/ table'[q] \in [1 .. Size[q] -> Cells]
        /\ \A q \in Rows : table'[q] = <<>> <=> table[q] = <<>>
    <2>1. PICK r, i, c : r = Row(t) /\ i = Index(t) /\ c = Cell("valid", Value(t))
      OBVIOUS
    <2>2. r \in Rows /\ i \in 1 .. Size[r] /\ c \in Cells /\ table[r] # <<>>
      BY <1>4, <2>1, CellIsThere, CellsHold
    <2>3. table' = [table EXCEPT ![r][i] = c]
      BY <1>1, <2>1 DEF SetCell
    <2>. QED BY <2>2, <2>3, CellSet
  <1>6. position' \in [Threads -> Nat]
    <2>1. position \in [Threads -> Nat]
      BY <1>3 DEF Types
    <2>2. position[t] + 1 \in Nat
      BY <2>1
    <2>3. position' = position \/ position' = [position EXCEPT ![t] = position[t] + 1]
      BY <1>1
    <2>. QED BY <2>1, <2>2, <2>3
  <1>7. Types'
    BY <1>1, <1>2, <1>3, <1>5, <1>6 DEF Types, Labels
  <1>8. /\ pc'[t] = y /\ ~force'[t]
        /\ \A u \in Threads \ {t} : pc'[u] = pc[u] /\ moved'[u] = moved[u] /\ force'[u] = force[u]
    BY <1>1, <1>3 DEF Types
  <1>9. Apart(t)
    BY <1>2, <1>8 DEF Apart
  <1>10. /\ y \notin Building \cup {"acquire", "reread", "idle", "return"}
         /\ pc[t] \notin Building \cup {"acquire", "reread", "invalidate", "idle", "return"}
    BY <1>1 DEF Building
  <1>11. Still(t)
    <2>1. Use(t)' = Use(t)
      BY <1>2, <1>8, <1>10 DEF Use
    <2>2. t \in Busy' <=> t \in Busy
      BY <1>2, <1>8, <1>10 DEF Busy
    <2>. QED BY <1>2, <1>5, <1>8, <1>10, <2>1, <2>2 DEF Still, growVars, Builder
  <1>12. Used'
    <2>1. Told(t)' = Told(t)
      BY <1>2, <1>8, <1>10 DEF Told
    <2>2. Told(t) \in Int
      BY <1>3, ToldIsANumber
    <2>. QED BY <1>2, <1>3, <1>7, <1>9, <2>1, <2>2, ToldKept
  <1>13. Local(t)'
    <2>1. /\ tdRow[t] <= currentRow /\ row[t] <= currentRow
          /\ ret[t] = "grown" => tdRow[t] < currentRow
          /\ ret[t] = "grown" => force[t]
          /\ ret[t] = "lock" => force[t]
          /\ ret[t] # "update" => tdRow[t] # LastRow
          /\ ~force[t] => tdRow[t] # 0
          /\ call[t] \in Calls
      BY <1>1, <1>3, <1>4 DEF Local, AtCell, Helping
    <2>. QED BY <1>2, <1>8, <2>1 DEF Local, AtCell, Between, Helping
  <1>. QED BY <1>7, <1>9, <1>11, <1>12, <1>13, StillStep

\* A cell is invalidated, and what it holds is to be moved.
LEMMA InvalidateKeeps == ASSUME HInv, NEW t \in Threads, Invalidate(t) PROVE HInv'
  <1>1. PICK r, i, c : r = OldRow(t) /\ i = position[t] + 1 /\ c = table[OldRow(t)][position[t] + 1]
    OBVIOUS
  <1>2. /\ pc[t] = "invalidate" /\ position[t] < SegmentEnd(t)
        /\ table' = [table EXCEPT ![r][i] = Invalid]
        /\ \/ /\ c.flag = "valid" /\ pc' = [pc EXCEPT ![t] = "cell"]
              /\ force' = [force EXCEPT ![t] = TRUE] /\ moved' = [moved EXCEPT ![t] = c.value]
              /\ probe' = [probe EXCEPT ![t] = 0] /\ position' = position
           \/ /\ position' = [position EXCEPT ![t] = @ + 1]
              /\ UNCHANGED <<pc, force, moved, probe>>
    BY <1>1 DEF Invalidate, Goto
  <1>3. /\ UNCHANGED <<tableWorkers, currentRow, growing, availableSegments, doneSegments>>
        /\ UNCHANGED <<used, tdRow, tdInserts, call, calls, segment, row, ret>>
    BY DEF Invalidate, growVars, tdVars, callVars
  <1>4. Types /\ Local(t) /\ Used
    BY DEF HInv
  <1>5. /\ t \in Busy /\ row[t] = currentRow /\ currentRow > 1
        /\ r \in Rows /\ table[r] # <<>>
    BY <1>1, <1>2, BusyMove DEF OldRow
  <1>6. i \in 1 .. Size[r]
    <2>1. PICK p, n, e : p = position[t] /\ n = Size[r] /\ e = SegmentSize * (segment[t] + 1)
      OBVIOUS
    <2>2. p \in Nat /\ n \in Nat
      BY <1>4, <1>5, <2>1, SizesAreNumbers DEF Types
    <2>3. p < (IF e > n THEN n ELSE e) /\ e \in Nat
      <3>1. p < SegmentEnd(t)
        BY <1>2, <2>1
      <3>2. SegmentEnd(t) = IF e > n THEN n ELSE e
        BY <1>1, <2>1 DEF SegmentEnd
      <3>3. PICK s, k : s = segment[t] /\ k = SegmentSize
        OBVIOUS
      <3>4. e \in Nat
        <4>1. s \in Nat
          BY <1>4, <3>3 DEF Types
        <4>2. k \in Nat
          BY <3>3, SizesAreNumbers
        <4>3. e = k * (s + 1)
          BY <2>1, <3>3
        <4>. QED BY <4>1, <4>2, <4>3
      <3>. QED BY <3>1, <3>2, <3>4
    <2>4. p < n
      BY <2>2, <2>3
    <2>. QED BY <1>1, <2>1, <2>2, <2>4
  <1>7. c \in Cells
    <2>1. table[r] \in [1 .. Size[r] -> Cells] /\ c = table[r][i]
      BY <1>1, <1>4, <1>5 DEF Types
    <2>. QED BY <1>6, <2>1
  <1>8. /\ DOMAIN table' = Rows
        /\ \A q \in Rows : table'[q] = <<>> \/ table'[q] \in [1 .. Size[q] -> Cells]
        /\ \A q \in Rows : table'[q] = <<>> <=> table[q] = <<>>
    BY <1>2, <1>5, <1>6, CellSet, CellsHold
  <1>9. /\ position' \in [Threads -> Nat] /\ pc' \in [Threads -> Labels]
        /\ force' \in [Threads -> BOOLEAN] /\ moved' \in [Threads -> Values \cup {NoValue}]
        /\ probe' \in [Threads -> 0 .. MaxCollisions]
    <2>1. c.flag = "valid" => c.value \in Values
      BY <1>7, CellsHold
    <2>2. 0 \in 0 .. MaxCollisions /\ "cell" \in Labels
      BY SizesAreNumbers DEF Labels
    <2>3. /\ position \in [Threads -> Nat] /\ pc \in [Threads -> Labels]
          /\ force \in [Threads -> BOOLEAN] /\ moved \in [Threads -> Values \cup {NoValue}]
          /\ probe \in [Threads -> 0 .. MaxCollisions] /\ position[t] + 1 \in Nat
      BY <1>4 DEF Types
    <2>4. position' = position \/ position' = [position EXCEPT ![t] = position[t] + 1]
      BY <1>2
    <2>5. position' \in [Threads -> Nat]
      BY <2>3, <2>4
    <2>6. CASE UNCHANGED <<pc, force, moved, probe>>
      BY <2>3, <2>5, <2>6
    <2>7. CASE ~UNCHANGED <<pc, force, moved, probe>>
      <3>1. /\ c.value \in Values /\ pc' = [pc EXCEPT ![t] = "cell"]
            /\ force' = [force EXCEPT ![t] = TRUE] /\ moved' = [moved EXCEPT ![t] = c.value]
            /\ probe' = [probe EXCEPT ![t] = 0]
        BY <1>2, <2>1, <2>7
      <3>2. pc' \in [Threads -> Labels] /\ force' \in [Threads -> BOOLEAN]
        BY <2>2, <2>3, <3>1
      <3>3. moved' \in [Threads -> Values \cup {NoValue}] /\ probe' \in [Threads -> 0 .. MaxCollisions]
        BY <2>2, <2>3, <3>1
      <3>. QED BY <2>5, <3>2, <3>3
    <2>. QED BY <2>6, <2>7
  <1>10. Types'
    BY <1>3, <1>4, <1>8, <1>9 DEF Types
  <1>11. /\ \A u \in Threads \ {t} : /\ pc'[u] = pc[u] /\ moved'[u] = moved[u]
                                     /\ force'[u] = force[u] /\ probe'[u] = probe[u]
         /\ \/ /\ pc'[t] = "cell" /\ force'[t] /\ moved'[t] \in Values /\ probe'[t] = 0
            \/ /\ pc'[t] = "invalidate" /\ ~force'[t]
    <2>1. c.flag = "valid" => c.value \in Values
      BY <1>7, CellsHold
    <2>2. ~force[t]
      BY <1>2, AtRest DEF AtCell
    <2>3. /\ pc \in [Threads -> Labels] /\ force \in [Threads -> BOOLEAN]
          /\ moved \in [Threads -> Values \cup {NoValue}]
          /\ probe \in [Threads -> 0 .. MaxCollisions] /\ pc[t] = "invalidate"
      BY <1>2, <1>4 DEF Types
    <2>4. CASE UNCHANGED <<pc, force, moved, probe>>
      BY <2>2, <2>3, <2>4
    <2>5. CASE ~UNCHANGED <<pc, force, moved, probe>>
      <3>1. /\ c.value \in Values /\ pc' = [pc EXCEPT ![t] = "cell"]
            /\ force' = [force EXCEPT ![t] = TRUE] /\ moved' = [moved EXCEPT ![t] = c.value]
            /\ probe' = [probe EXCEPT ![t] = 0]
        BY <1>2, <2>1, <2>5
      <3>2. \A u \in Threads \ {t} : /\ pc'[u] = pc[u] /\ moved'[u] = moved[u]
                                     /\ force'[u] = force[u] /\ probe'[u] = probe[u]
        BY <2>3, <3>1
      <3>3. pc'[t] = "cell" /\ force'[t] /\ moved'[t] \in Values /\ probe'[t] = 0
        BY <2>3, <3>1
      <3>. QED BY <3>2, <3>3
    <2>. QED BY <2>4, <2>5
  <1>12. Apart(t)
    BY <1>3, <1>11 DEF Apart
  <1>13. Still(t)
    <2>1. pc[t] = "invalidate" /\ pc'[t] \in {"cell", "invalidate"}
      BY <1>2, <1>11
    <2>2. Use(t)' = Use(t)
      BY <1>3, <2>1 DEF Use
    <2>3. t \in Busy'
      BY <1>11 DEF Busy
    <2>. QED BY <1>3, <1>5, <1>8, <2>1, <2>2, <2>3 DEF Still, growVars, Builder, Building
  <1>14. Used'
    <2>1. Told(t)' = Told(t)
      BY <1>2, <1>3, <1>11 DEF Told
    <2>2. Told(t) \in Int
      BY <1>4, ToldIsANumber
    <2>. QED BY <1>3, <1>4, <1>10, <1>12, <2>1, <2>2, ToldKept
  <1>15. Local(t)'
    <2>1. /\ tdRow[t] <= currentRow /\ row[t] <= currentRow
          /\ ret[t] = "grown" => tdRow[t] < currentRow
          /\ ret[t] # "update" => tdRow[t] # LastRow
          /\ call[t] \in Calls
      BY <1>2, <1>4 DEF Local
    <2>2. 0 < MaxCollisions
      BY SizesAreNumbers
    <2>. QED BY <1>3, <1>11, <2>1, <2>2 DEF Local, AtCell, Between, Helping
  <1>. QED BY <1>10, <1>12, <1>13, <1>14, <1>15, StillStep

\* The row is read again.
LEMMA RowReadKeeps ==
  ASSUME HInv, NEW t \in Threads, NEW y \in Labels, NEW r \in Rows, r <= currentRow,
         pc' = [pc EXCEPT ![t] = y], row' = [row EXCEPT ![t] = r],
         UNCHANGED <<cellVars, growVars, used, tdVars, callVars, probe, moveVars, ret>>,
         \/ pc[t] = "update" /\ y \in {"usage", "before", "leave"}
         \/ pc[t] \in {"acquire", "reread"} /\ y \in {"acquire", "reread"},
         y = "before" => ~Inserting(t),
         y = "leave" => tdRow[t] < r
  PROVE  HInv'
  <1>1. /\ UNCHANGED <<table, tableWorkers, currentRow, growing, availableSegments, doneSegments>>
        /\ UNCHANGED <<used, tdRow, tdInserts, call, calls, probe, force, moved, position,
                       segment, ret>>
    BY DEF cellVars, growVars, tdVars, callVars, moveVars
  <1>2. Types /\ Local(t) /\ Used
    BY DEF HInv
  <1>3. Types'
    BY <1>1, <1>2 DEF Types
  <1>4. /\ pc'[t] = y /\ row'[t] = r
        /\ \A u \in Threads \ {t} : pc'[u] = pc[u] /\ row'[u] = row[u]
    BY <1>2 DEF Types
  <1>5. Apart(t)
    BY <1>1, <1>4 DEF Apart
  <1>6. /\ pc[t] \in {"update", "acquire", "reread"}
        /\ y \in {"usage", "before", "leave", "acquire", "reread"}
        /\ pc[t] \in {"acquire", "reread"} <=> y \in {"acquire", "reread"}
    OBVIOUS
  <1>7. ~force[t] /\ ret[t] = "update"
    BY <1>6, AtRest DEF AtCell, Helping
  <1>8. Still(t)
    <2>1. Use(t)' = Use(t)
      BY <1>1, <1>4, <1>6, <1>7 DEF Use
    <2>2. ~(t \in Busy) /\ ~(t \in Busy')
      BY <1>1, <1>4, <1>6, <1>7 DEF Busy
    <2>. QED BY <1>1, <1>4, <1>6, <2>1, <2>2 DEF Still, growVars, Builder, Building
  <1>9. Used'
    <2>1. Told(t)' = Told(t)
      BY <1>1, <1>4, <1>6 DEF Told
    <2>2. Told(t) \in Int
      BY <1>2, ToldIsANumber
    <2>. QED BY <1>1, <1>2, <1>3, <1>5, <2>1, <2>2, ToldKept
  <1>10. Local(t)'
    <2>1. tdRow[t] <= currentRow /\ call[t] \in Calls
      BY <1>2, <1>6 DEF Local
    <2>2. Inserting(t)' <=> Inserting(t)
      BY <1>1 DEF Inserting
    <2>. QED BY <1>1, <1>4, <1>6, <1>7, <2>1, <2>2 DEF Local, AtCell, Between, Helping
  <1>. QED BY <1>3, <1>5, <1>8, <1>9, <1>10, StillStep

LEMMA UpdateKeeps == ASSUME HInv, NEW t \in Threads, Update(t) PROVE HInv'
  <1>1. PICK y : y = IF currentRow = tdRow[t] THEN Start(t) ELSE "leave"
    OBVIOUS
  <1>2. /\ pc[t] = "update" /\ pc' = [pc EXCEPT ![t] = y] /\ row' = [row EXCEPT ![t] = currentRow]
        /\ UNCHANGED <<cellVars, growVars, used, tdVars, callVars, probe, moveVars, ret>>
    BY <1>1 DEF Update, Goto
  <1>3. /\ y \in {"usage", "before", "leave"} /\ (y = "before" => ~Inserting(t))
        /\ (y = "leave" => currentRow # tdRow[t])
    BY <1>1 DEF Start
  <1>4. currentRow \in Rows /\ currentRow \in Nat /\ tdRow[t] \in Nat /\ tdRow[t] <= currentRow
    BY ReadingTheState DEF Local
  <1>5. y \in Labels
    BY <1>3 DEF Labels
  <1>6. currentRow <= currentRow /\ (y = "leave" => tdRow[t] < currentRow)
    BY <1>3, <1>4
  <1>. QED BY <1>2, <1>3, <1>4, <1>5, <1>6, RowReadKeeps

LEMMA AcquireAgainKeeps == ASSUME HInv, NEW t \in Threads, AcquireAgain(t) PROVE HInv'
  <1>1. PICK y, r : \/ /\ pc[t] = "acquire" /\ y = "reread" /\ r = row[t] /\ row' = row
                       /\ pc' = [pc EXCEPT ![t] = y]
                    \/ /\ pc[t] = "reread" /\ y = "acquire" /\ r = currentRow
                       /\ row' = [row EXCEPT ![t] = currentRow] /\ pc' = [pc EXCEPT ![t] = y]
    BY DEF AcquireAgain, Goto
  <1>2. r \in Rows /\ r <= currentRow
    <2>1. row[t] \in Rows /\ currentRow \in Rows /\ currentRow \in Nat /\ row[t] <= currentRow
      BY ReadingTheState DEF Local
    <2>2. currentRow <= currentRow
      BY <2>1
    <2>. QED BY <1>1, <2>1, <2>2
  <1>3. row' = [row EXCEPT ![t] = r]
    BY <1>1 DEF HInv, Types
  <1>4. /\ pc' = [pc EXCEPT ![t] = y] /\ y \in Labels /\ y \in {"acquire", "reread"}
        /\ pc[t] \in {"acquire", "reread"}
    BY <1>1 DEF Labels
  <1>5. UNCHANGED <<cellVars, growVars, used, tdVars, callVars, probe, moveVars, ret>>
    BY DEF AcquireAgain
  <1>. QED BY <1>2, <1>3, <1>4, <1>5, RowReadKeeps

\* `used' is told of SyncPoint insertions at a time, which have all been made.
LEMMA CreditsGrow ==
  ASSUME Types, Types', Used, NEW t \in Threads, Apart(t),
         used' = used + SyncPoint, Told(t)' = Told(t) + SyncPoint, Told(t)' <= MaxCalls
  PROVE  Used'
  <1>. DEFINE New == {t} \X (Told(t) + 1 .. Told(t) + SyncPoint)
  <1>1. PICK a, n : a = Told(t) /\ n = SyncPoint
    OBVIOUS
  <1>2. a \in Nat /\ n \in Nat \ {0} /\ a + n <= MaxCalls /\ MaxCalls \in Nat
    <2>1. Told(t) >= 0
      BY DEF Used
    <2>2. Told(t) \in Int
      BY ToldIsANumber
    <2>. QED BY <1>1, <2>1, <2>2, SizesAreNumbers
  <1>3. /\ \A u \in Threads \ {t} : Told(u)' = Told(u)
        /\ \A u \in Threads : Told(u) \in Int
    BY ToldIsANumber DEF Apart, Told
  <1>4. Credits \in SUBSET (Threads \X (1 .. MaxCalls)) /\ New \in SUBSET (Threads \X (1 .. MaxCalls))
    <2>1. a + 1 .. a + n \subseteq 1 .. MaxCalls
      BY <1>2
    <2>. QED BY <1>1, <2>1 DEF Credits
  <1>5. Credits \cap New = {}
    <2>1. SUFFICES ASSUME NEW i \in a + 1 .. a + n, i <= a
                   PROVE  FALSE
      BY <1>1 DEF Credits
    <2>. QED BY <1>2, <2>1
  <1>6. Credits \cup New \in SUBSET (Credits')
    <2>1. ASSUME NEW u \in Threads, NEW i \in 1 .. MaxCalls, i <= Told(u)
          PROVE  i <= Told(u)'
      <3>1. CASE u = t
        <4>1. i <= a /\ Told(u)' = a + n
          BY <1>1, <2>1, <3>1
        <4>. QED BY <1>2, <4>1
      <3>2. CASE u # t
        BY <1>3, <2>1, <3>2
      <3>. QED BY <3>1, <3>2
    <2>2. ASSUME NEW c \in Credits PROVE c \in Credits'
      <3>1. PICK u \in Threads, i \in 1 .. MaxCalls : c = <<u, i>>
        BY DEF Credits
      <3>2. c[1] = u /\ c[2] = i
        BY <3>1
      <3>3. i <= Told(u)
        BY <3>2 DEF Credits
      <3>4. i <= Told(u)'
        BY <2>1, <3>3
      <3>. QED BY <3>1, <3>2, <3>4 DEF Credits
    <2>3. ASSUME NEW c \in New PROVE c \in Credits'
      <3>1. PICK i \in a + 1 .. a + n : c = <<t, i>>
        BY <1>1
      <3>2. c[1] = t /\ c[2] = i
        BY <3>1
      <3>3. i \in 1 .. MaxCalls /\ i <= a + n
        BY <1>2
      <3>4. i <= Told(t)'
        BY <1>1, <3>3
      <3>. QED BY <3>1, <3>2, <3>3, <3>4 DEF Credits
    <2>. QED BY <2>2, <2>3
  <1>7. IsFiniteSet(Credits) /\ IsFiniteSet(New) /\ IsFiniteSet(Credits') /\ Cardinality(New) = n
    <2>1. IsFiniteSet(1 .. MaxCalls)
      BY FS_Interval, SizesAreNumbers
    <2>2. IsFiniteSet(Threads \X (1 .. MaxCalls))
      BY <2>1, FiniteSets, FS_Product
    <2>3. Credits' \in SUBSET (Threads \X (1 .. MaxCalls))
      BY DEF Credits
    <2>4. IsFiniteSet(a + 1 .. a + n) /\ Cardinality(a + 1 .. a + n) = n
      <3>1. a + 1 \in Int /\ a + n \in Int /\ ~(a + 1 > a + n) /\ (a + n) - (a + 1) + 1 = n
        BY <1>2
      <3>2. PICK lo, hi : lo = a + 1 /\ hi = a + n
        OBVIOUS
      <3>3. IsFiniteSet(lo .. hi) /\ Cardinality(lo .. hi) = IF lo > hi THEN 0 ELSE hi - lo + 1
        BY <3>1, <3>2, FS_Interval
      <3>. QED BY <3>1, <3>2, <3>3
    <2>5. IsFiniteSet({t}) /\ Cardinality({t}) = 1
      BY FS_Singleton
    <2>6. Cardinality({t} \X (a + 1 .. a + n)) = 1 * n
      <3>1. PICK S : S = a + 1 .. a + n
        OBVIOUS
      <3>2. Cardinality({t} \X S) = Cardinality({t}) * Cardinality(S)
        BY <2>4, <2>5, <3>1, FS_Product
      <3>. QED BY <2>4, <2>5, <3>1, <3>2
    <2>7. Cardinality(New) = n
      BY <1>1, <1>2, <2>6
    <2>. HIDE DEF New
    <2>. QED BY <1>4, <2>2, <2>3, <2>7, FS_Subset
  <1>. HIDE DEF New
  <1>8. Cardinality(Credits) + n <= Cardinality(Credits') /\ Cardinality(Credits) \in Nat
        /\ Cardinality(Credits') \in Nat
    <2>1. /\ IsFiniteSet(Credits \cup New)
          /\ Cardinality(Credits \cup New)
               = Cardinality(Credits) + Cardinality(New) - Cardinality(Credits \cap New)
      BY <1>7, FS_Union
    <2>2. Cardinality(Credits \cap New) = 0
      BY <1>5, FS_EmptySet
    <2>3. Cardinality(Credits \cup New) <= Cardinality(Credits')
      BY <1>6, <1>7, FS_Subset
    <2>4. Cardinality(Credits) \in Nat /\ Cardinality(Credits') \in Nat
      BY <1>7, FS_CardinalityType
    <2>. QED BY <1>2, <1>7, <2>1, <2>2, <2>3, <2>4
  <1>9. \A u \in Threads : Told(u)' >= 0
    <2>1. \A u \in Threads : Told(u) >= 0
      BY DEF Used
    <2>2. Told(t)' >= 0
      BY <1>1, <1>2
    <2>. QED BY <1>3, <2>1, <2>2
  <1>10. used \in Nat /\ used <= Cardinality(Credits)
    BY DEF Used
  <1>11. used' = used + n
    BY <1>1
  <1>12. used' \in Nat /\ used' <= Cardinality(Credits')
    BY <1>2, <1>8, <1>10, <1>11
  <1>. QED BY <1>9, <1>12 DEF Used

LEMMA CountKeeps == ASSUME HInv, NEW t \in Threads, Count(t) PROVE HInv'
  <1>1. /\ pc[t] = "count" /\ pc' = [pc EXCEPT ![t] = "return"]
        /\ tdInserts' = [tdInserts EXCEPT ![t] = (@ + 1) % SyncPoint]
        /\ used' = IF tdInserts'[t] = 0 THEN used + SyncPoint ELSE used
    BY DEF Count, Goto
  <1>2. /\ UNCHANGED <<table, tableWorkers, currentRow, growing, availableSegments, doneSegments>>
        /\ UNCHANGED <<tdRow, call, calls, probe, force, moved, position, segment, row, ret>>
    BY DEF Count, cellVars, growVars, callVars, moveVars
  <1>3. Types /\ Local(t) /\ Used
    BY DEF HInv
  <1>4. PICK i, n, c : i = tdInserts[t] /\ n = SyncPoint /\ c = calls[t]
    OBVIOUS
  <1>5. i \in 0 .. n - 1 /\ n \in Nat \ {0} /\ c \in Nat /\ c <= MaxCalls /\ MaxCalls \in Nat
    BY <1>3, <1>4, SizesAreNumbers DEF Types
  <1>6. (i + 1) % n \in 0 .. n - 1
    BY <1>5
  <1>7. tdInserts'[t] = (i + 1) % n /\ tdInserts' \in [Threads -> 0 .. SyncPoint - 1]
    BY <1>1, <1>3, <1>4, <1>6 DEF Types
  <1>8. Types'
    BY <1>1, <1>2, <1>3, <1>7 DEF Types, Labels
  <1>9. /\ pc'[t] = "return"
        /\ \A u \in Threads \ {t} : pc'[u] = pc[u] /\ tdInserts'[u] = tdInserts[u]
    BY <1>1, <1>3 DEF Types
  <1>10. Apart(t)
    BY <1>2, <1>9 DEF Apart
  <1>11. ~force[t] /\ ret[t] = "update"
    BY <1>1, AtRest DEF AtCell, Helping
  <1>12. Still(t)
    <2>1. Use(t)' = Use(t)
      BY <1>1, <1>2, <1>9 DEF Use
    <2>2. t \in Busy' <=> t \in Busy
      BY <1>1, <1>2, <1>9 DEF Busy
    <2>. QED BY <1>1, <1>2, <1>9, <2>1, <2>2 DEF Still, growVars, Builder, Building
  <1>13. Told(t) = c - i - 1 /\ Told(t)' = c - tdInserts'[t] - 0
    BY <1>1, <1>2, <1>4, <1>9 DEF Told
  <1>14. Used'
    <2>1. CASE i + 1 < n
      <3>1. (i + 1) % n = i + 1
        BY <1>5, <2>1
      <3>2. used' = used
        BY <1>1, <1>5, <1>7, <3>1
      <3>3. Told(t)' >= Told(t)
        BY <1>5, <1>7, <1>13, <3>1
      <3>. QED BY <1>3, <1>8, <1>10, <3>2, <3>3, ToldKept
    <2>2. CASE i + 1 = n
      <3>1. (i + 1) % n = 0
        BY <1>5, <2>2
      <3>2. used' = used + SyncPoint
        BY <1>1, <1>7, <3>1
      <3>3. Told(t)' = Told(t) + SyncPoint /\ Told(t)' <= MaxCalls
        BY <1>4, <1>5, <1>7, <1>13, <2>2, <3>1
      <3>. QED BY <1>3, <1>8, <1>10, <3>2, <3>3, CreditsGrow
    <2>. QED BY <1>5, <2>1, <2>2
  <1>15. Local(t)'
    <2>1. tdRow[t] <= currentRow /\ row[t] <= currentRow /\ call[t] \in Calls
      BY <1>1, <1>3 DEF Local
    <2>. QED BY <1>2, <1>9, <1>11, <2>1 DEF Local, AtCell, Between, Helping
  <1>. QED BY <1>8, <1>10, <1>12, <1>14, <1>15, StillStep

\* The thread that has made the row, or has helped its maker, is in the new row.
LEMMA GrownKeeps == ASSUME HInv, NEW t \in Threads, Grown(t) PROVE HInv'
  <1>. DEFINE y == Start(t)
  <1>1. /\ pc[t] = "grown" /\ pc' = [pc EXCEPT ![t] = y]
        /\ tdRow' = [tdRow EXCEPT ![t] = @ + 1]
        /\ row' = [row EXCEPT ![t] = 0] /\ position' = [position EXCEPT ![t] = 0]
        /\ segment' = [segment EXCEPT ![t] = 0] /\ ret' = [ret EXCEPT ![t] = "update"]
    BY DEF Grown, Goto, Settle
  <1>2. /\ UNCHANGED <<table, tableWorkers, currentRow, growing, availableSegments, doneSegments>>
        /\ UNCHANGED <<used, tdInserts, call, calls, probe, force, moved>>
    BY DEF Grown, cellVars, growVars, callVars
  <1>3. Types /\ Local(t) /\ Used
    BY DEF HInv
  <1>4. ret[t] = "grown" /\ tdRow[t] < currentRow /\ call[t] \in Calls
    BY <1>1, <1>3 DEF Local
  <1>5. /\ tdRow[t] + 1 \in Rows /\ tdRow[t] + 1 <= currentRow /\ tdRow[t] + 1 # 0
        /\ currentRow \in Nat
    BY <1>4, ReadingTheState, SizesAreNumbers
  <1>6. y \in {"usage", "before"} /\ (y = "before" => ~Inserting(t))
    BY DEF Start
  <1>. HIDE DEF y
  <1>7. Types'
    <2>1. 0 \in Rows /\ y \in Labels
      <3>1. 0 \in Rows
        BY SizesAreNumbers
      <3>2. y \in Labels
        BY <1>6 DEF Labels
      <3>. QED BY <3>1, <3>2
    <2>2. tdRow' \in [Threads -> Rows]
      BY <1>1, <1>3, <1>5 DEF Types
    <2>. QED BY <1>1, <1>2, <1>3, <2>1, <2>2 DEF Types
  <1>8. /\ pc'[t] = y /\ row'[t] = 0 /\ ret'[t] = "update" /\ tdRow'[t] = tdRow[t] + 1
        /\ \A u \in Threads \ {t} : /\ pc'[u] = pc[u] /\ tdRow'[u] = tdRow[u]
                                    /\ row'[u] = row[u] /\ ret'[u] = ret[u]
    BY <1>1, <1>3 DEF Types
  <1>9. Apart(t)
    BY <1>2, <1>8 DEF Apart
  <1>10. ~force[t]
    BY <1>1, AtRest DEF AtCell
  <1>11. Still(t)
    <2>1. Use(t)' = Use(t)
      BY <1>1, <1>4, <1>6, <1>8 DEF Use
    <2>2. ~(t \in Busy) /\ ~(t \in Busy')
      BY <1>1, <1>2, <1>6, <1>8, <1>10 DEF Busy
    <2>. QED BY <1>1, <1>2, <1>6, <1>8, <2>1, <2>2 DEF Still, growVars, Builder, Building
  <1>12. Used'
    <2>1. Told(t)' = Told(t)
      BY <1>1, <1>2, <1>6, <1>8 DEF Told
    <2>2. Told(t) \in Int
      BY <1>3, ToldIsANumber
    <2>. QED BY <1>2, <1>3, <1>7, <1>9, <2>1, <2>2, ToldKept
  <1>13. Local(t)'
    <2>1. Inserting(t)' <=> Inserting(t)
      BY <1>2 DEF Inserting
    <2>2. 0 <= currentRow
      BY <1>5
    <2>. QED BY <1>2, <1>4, <1>5, <1>6, <1>8, <1>10, <2>1, <2>2
         DEF Local, AtCell, Between, Helping
  <1>. QED BY <1>7, <1>9, <1>11, <1>12, <1>13, StillStep

-----------------------------------------------------------------------------
(* The steps of the growing.                                               *)

\* Such a step keeps the invariant if it keeps the counts.
LEMMA GrowStep ==
  ASSUME HInv, NEW t \in Threads, Apart(t), Types', Local(t)',
         currentRow <= currentRow', {pc[t], pc'[t]} \cap {"idle", "return"} = {},
         UNCHANGED <<used, calls, tdInserts>>,
         OneBuilder', SegmentsCounted', UsersCounted'
  PROVE  HInv'
  <1>1. currentRow' \in Rows
    BY DEF Types
  <1>2. \A u \in Threads : Local(u)'
    BY <1>1, OthersKnowTheSame
  <1>3. Used'
    <2>1. Told(t)' = Told(t)
      BY DEF Told
    <2>2. Types /\ Used /\ Told(t) \in Int
      BY ToldIsANumber DEF HInv
    <2>. QED BY <2>1, <2>2, ToldKept
  <1>. QED BY <1>2, <1>3 DEF HInv

\* Nobody moves cells unless the rows grow, and whoever builds a row does so alone.
LEMMA Resting == ASSUME HInv, ~Moving PROVE Busy = {} /\ availableSegments <= 0
  BY DEF HInv, SegmentsCounted

LEMMA BuildsAlone ==
  ASSUME HInv, NEW t \in Threads, Builder(t)
  PROVE  growing /\ ~Moving /\ \A u \in Threads \ {t} : ~Builder(u)
  BY DEF HInv, OneBuilder, Moving

LEMMA NobodyBuilds ==
  ASSUME \A u \in Threads : ~Builder(u)'
  PROVE  OneBuilder'
  <1>1. \A u \in Threads : pc'[u] \notin {"workers", "segments", "release", "release last", "ungrow"}
    BY DEF Builder, Building
  <1>. QED BY <1>1 DEF OneBuilder

LEMMA OneBuilds ==
  ASSUME NEW t \in Threads, \A u \in Threads \ {t} : ~Builder(u)', growing',
         pc'[t] = "workers" => /\ currentRow' = tdRow'[t] + 1 /\ tableWorkers'[currentRow'] = 0
                               /\ table'[currentRow'] # <<>>,
         pc'[t] = "segments" => /\ row'[t] = currentRow' /\ currentRow' = tdRow'[t] + 1
                                /\ currentRow' > 1 /\ doneSegments' = 0,
         pc'[t] \in {"release", "release last", "ungrow"} => row'[t] = currentRow',
         pc'[t] = "release last" => currentRow' > 1
  PROVE  OneBuilder'
  <1>1. \A u \in Threads \ {t} :
          pc'[u] \notin {"workers", "segments", "release", "release last", "ungrow"}
    BY DEF Builder, Building
  <1>2. \A u, v \in Threads : Builder(u)' /\ Builder(v)' => u = v
    OBVIOUS
  <1>3. ASSUME NEW u \in Threads
        PROVE  /\ pc'[u] = "workers" => /\ currentRow' = tdRow'[u] + 1
                                        /\ tableWorkers'[currentRow'] = 0
                                        /\ table'[currentRow'] # <<>>
               /\ pc'[u] = "segments" => /\ row'[u] = currentRow'
                                         /\ currentRow' = tdRow'[u] + 1
                                         /\ currentRow' > 1 /\ doneSegments' = 0
               /\ pc'[u] \in {"release", "release last", "ungrow"} => row'[u] = currentRow'
               /\ pc'[u] = "release last" => currentRow' > 1
    BY <1>1
  <1>. QED BY <1>2, <1>3 DEF OneBuilder

\* Nobody moves cells before the step or after it.
LEMMA StillResting ==
  ASSUME HInv, NEW t \in Threads, Apart(t), ~Moving, ~Moving', availableSegments' <= 0,
         ~force'[t], pc'[t] # "invalidate"
  PROVE  SegmentsCounted'
  <1>1. Busy = {}
    BY Resting
  <1>2. Busy' = {}
    BY <1>1 DEF Busy, Apart
  <1>. QED BY <1>2 DEF SegmentsCounted

LEMMA UsersStay ==
  ASSUME HInv, NEW t \in Threads, Apart(t), Use(t)' = Use(t),
         tableWorkers' = tableWorkers, currentRow' = currentRow,
         \A r \in Rows : table'[r] = <<>> <=> table[r] = <<>>,
         \A r \in Rows \ {0} : Pending(r)' <=> Pending(r),
         pc[t] # "workers", pc'[t] # "workers"
  PROVE  UsersCounted'
  <1>1. ASSUME NEW r PROVE Users(r)' = Users(r)
    <2>1. ASSUME NEW u \in Threads PROVE Use(u)' = Use(u)
      BY DEF Apart, Use
    <2>. QED BY <2>1 DEF Users
  <1>2. \A u \in Threads : pc'[u] # "workers" <=> pc[u] # "workers"
    BY DEF Apart
  <1>3. 0 \in Rows
    BY SizesAreNumbers
  <1>4. UsersCounted
    BY DEF HInv
  <1>5. tableWorkers'[0] = 0 /\ table'[0] = <<>>
    BY <1>3, <1>4 DEF UsersCounted
  <1>6. ASSUME NEW r \in Rows \ {0}
        PROVE  /\ tableWorkers'[r] = Cardinality(Users(r)') + (IF Pending(r)' THEN 1 ELSE 0)
               /\ tableWorkers'[r] > 0 => table'[r] # <<>>
               /\ r > currentRow' => tableWorkers'[r] = 0
    <2>1. Users(r)' = Users(r)
      BY <1>1
    <2>2. Pending(r)' <=> Pending(r)
      OBVIOUS
    <2>3. /\ tableWorkers[r] = Cardinality(Users(r)) + (IF Pending(r) THEN 1 ELSE 0)
          /\ tableWorkers[r] > 0 => table[r] # <<>>
          /\ r > currentRow => tableWorkers[r] = 0
      BY <1>4 DEF UsersCounted
    <2>. QED BY <2>1, <2>2, <2>3
  <1>7. currentRow' # 0 /\ (\A u \in Threads : pc'[u] # "workers") => Users(currentRow)' # {}
    <2>1. Users(currentRow)' = Users(currentRow)
      BY <1>1 DEF Users
    <2>. QED BY <1>2, <1>4, <2>1 DEF UsersCounted
  <1>. QED BY <1>5, <1>6, <1>7 DEF UsersCounted

LEMMA TakeGrowingKeeps == ASSUME HInv, NEW t \in Threads, TakeGrowing(t) PROVE HInv'
  <1>. DEFINE y == IF growing THEN "help" ELSE "locked"
              q == IF growing THEN "lock" ELSE "update"
  <1>1. /\ pc[t] = "lock" /\ pc' = [pc EXCEPT ![t] = y]
        /\ ret' = [ret EXCEPT ![t] = q] /\ growing' = TRUE
    BY DEF TakeGrowing, Goto
  <1>2. /\ UNCHANGED <<table, tableWorkers, currentRow, availableSegments, doneSegments, used>>
        /\ UNCHANGED <<tdRow, tdInserts, call, calls, probe, force, moved, position, segment, row>>
    BY DEF TakeGrowing, cellVars, tdVars, callVars, moveVars
  <1>3. Types /\ Local(t) /\ currentRow \in Nat
    BY ReadingTheState DEF HInv
  <1>4. Types'
    BY <1>1, <1>2, <1>3 DEF Types, Labels
  <1>5. /\ pc'[t] = y /\ ret'[t] = q
        /\ \A u \in Threads \ {t} : pc'[u] = pc[u] /\ ret'[u] = ret[u]
    BY <1>1, <1>3 DEF Types
  <1>6. Apart(t)
    BY <1>2, <1>5 DEF Apart
  <1>7. ~force[t] /\ ret[t] # "grown"
    BY <1>1, <1>3, AtRest DEF AtCell, Local, Helping
  <1>8. Local(t)'
    <2>1. tdRow[t] <= currentRow /\ row[t] <= currentRow /\ call[t] \in Calls /\ tdRow[t] # LastRow
      BY <1>1, <1>3 DEF Local
    <2>2. y \in {"help", "locked"} /\ q \in {"lock", "update"} /\ (q = "lock" => y = "help")
      OBVIOUS
    <2>. HIDE DEF y, q
    <2>. QED BY <1>2, <1>5, <1>7, <2>1, <2>2 DEF Local, AtCell, Between, Helping
  <1>9. Use(t)' = Use(t)
    BY <1>1, <1>2, <1>5, <1>7 DEF Use
  <1>10. CASE growing
    <2>1. Still(t)
      <3>1. ~(t \in Busy) /\ ~(t \in Busy')
        BY <1>1, <1>2, <1>5, <1>7, <1>10 DEF Busy
      <3>2. growing' = growing
        BY <1>1, <1>3, <1>10 DEF Types
      <3>3. ~Builder(t) /\ ~Builder(t)'
        <4>1. pc'[t] = "help"
          BY <1>5, <1>10
        <4>. QED BY <1>1, <4>1 DEF Builder, Building
      <3>. QED BY <1>2, <1>9, <3>1, <3>2, <3>3 DEF Still, growVars
    <2>2. Used'
      <3>1. Told(t)' = Told(t)
        BY <1>1, <1>2, <1>5 DEF Told
      <3>2. Told(t) \in Int /\ Used
        BY <1>3, ToldIsANumber DEF HInv
      <3>. QED BY <1>2, <1>3, <1>4, <1>6, <3>1, <3>2, ToldKept
    <2>. QED BY <1>4, <1>6, <1>8, <2>1, <2>2, StillStep
  <1>11. CASE ~growing
    <2>1. pc'[t] = "locked" /\ \A u \in Threads : ~Builder(u)
      BY <1>5, <1>11 DEF HInv, OneBuilder
    <2>2. \A u \in Threads \ {t} : ~Builder(u)'
      BY <2>1, <1>6 DEF Apart, Builder
    <2>3. OneBuilder'
      BY <1>1, <2>1, <2>2, OneBuilds
    <2>4. ~Moving /\ ~Moving'
      BY <1>11, <2>1 DEF Moving, Builder, Building
    <2>5. SegmentsCounted'
      BY <1>2, <1>6, <1>7, <2>1, <2>4, Resting, StillResting
    <2>6. \A r \in Rows : ~Pending(r) /\ ~Pending(r)'
      BY <1>11, <2>1 DEF Pending
    <2>7. UsersCounted'
      BY <1>1, <1>2, <1>6, <1>9, <2>1, <2>6, UsersStay
    <2>8. currentRow <= currentRow' /\ {pc[t], pc'[t]} \cap {"idle", "return"} = {}
      BY <1>1, <1>2, <1>3, <2>1
    <2>. QED BY <1>2, <1>4, <1>6, <1>8, <2>3, <2>5, <2>7, <2>8, GrowStep
  <1>. QED BY <1>10, <1>11

LEMMA GrownAlreadyKeeps == ASSUME HInv, NEW t \in Threads, GrownAlready(t) PROVE HInv'
  <1>1. pc[t] = "locked" /\ pc' = [pc EXCEPT ![t] = "help"] /\ growing' = FALSE
    BY DEF GrownAlready, Goto
  <1>2. /\ UNCHANGED <<table, tableWorkers, currentRow, availableSegments, doneSegments, used>>
        /\ UNCHANGED <<tdRow, tdInserts, call, calls, probe, force, moved, position, segment,
                       row, ret>>
    BY DEF GrownAlready, cellVars, tdVars, callVars, moveVars
  <1>3. Types /\ Local(t) /\ currentRow \in Nat
    BY ReadingTheState DEF HInv
  <1>4. Types'
    BY <1>1, <1>2, <1>3 DEF Types, Labels
  <1>5. pc'[t] = "help" /\ \A u \in Threads \ {t} : pc'[u] = pc[u]
    BY <1>1, <1>3 DEF Types
  <1>6. Apart(t)
    BY <1>2, <1>5 DEF Apart
  <1>7. ~force[t] /\ ret[t] = "update"
    BY <1>1, AtRest DEF AtCell, Helping
  <1>8. Local(t)'
    <2>1. tdRow[t] <= currentRow /\ row[t] <= currentRow /\ call[t] \in Calls
      BY <1>1, <1>3 DEF Local
    <2>. QED BY <1>2, <1>5, <1>7, <2>1 DEF Local, AtCell, Between, Helping
  <1>9. growing /\ ~Moving /\ \A u \in Threads \ {t} : ~Builder(u)
    BY <1>1, BuildsAlone DEF Builder, Building
  <1>10. \A u \in Threads : ~Builder(u)'
    BY <1>5, <1>9 DEF Builder, Building
  <1>11. SegmentsCounted'
    <2>1. ~Moving'
      BY <1>1 DEF Moving
    <2>. QED BY <1>2, <1>5, <1>6, <1>7, <1>9, <2>1, Resting, StillResting
  <1>12. UsersCounted'
    <2>1. \A r \in Rows : ~Pending(r) /\ ~Pending(r)'
      BY <1>1 DEF Pending
    <2>2. Use(t)' = Use(t)
      BY <1>1, <1>2, <1>5 DEF Use
    <2>. QED BY <1>1, <1>2, <1>5, <1>6, <2>1, <2>2, UsersStay
  <1>13. currentRow <= currentRow' /\ {pc[t], pc'[t]} \cap {"idle", "return"} = {}
    BY <1>1, <1>2, <1>3, <1>5
  <1>. QED BY <1>2, <1>4, <1>6, <1>8, <1>10, <1>11, <1>12, <1>13, NobodyBuilds, GrowStep

\* The next row is there, and nobody uses it yet.
LEMMA NewRowKeeps == ASSUME HInv, NEW t \in Threads, NewRow(t) PROVE HInv'
  <1>1. /\ pc[t] = "locked" /\ pc' = [pc EXCEPT ![t] = "workers"]
        /\ currentRow <= tdRow[t] /\ currentRow' = tdRow[t] + 1
        /\ table' = [table EXCEPT ![tdRow[t] + 1] = [i \in 1 .. Size[tdRow[t] + 1] |-> Free]]
    BY DEF NewRow, Goto
  <1>2. /\ UNCHANGED <<tableWorkers, growing, availableSegments, doneSegments, used>>
        /\ UNCHANGED <<tdRow, tdInserts, call, calls, probe, force, moved, position, segment,
                       row, ret>>
    BY DEF NewRow, tdVars, callVars, moveVars
  <1>3. Types /\ Local(t)
    BY DEF HInv
  <1>4. PICK n : n = tdRow[t] + 1
    OBVIOUS
  <1>5. /\ tdRow[t] = currentRow /\ n \in Rows \ {0} /\ n > currentRow /\ currentRow \in Nat
        /\ currentRow' = n /\ n \in Nat
    <2>1. tdRow[t] # LastRow /\ tdRow[t] <= currentRow
      BY <1>1, <1>3 DEF Local
    <2>2. tdRow[t] \in Rows /\ tdRow[t] \in Nat /\ currentRow \in Nat
      BY ReadingTheState
    <2>. QED BY <1>1, <1>4, <2>1, <2>2, SizesAreNumbers
  <1>6. PICK f : f = [i \in 1 .. Size[n] |-> Free]
    OBVIOUS
  <1>7. f \in [1 .. Size[n] -> Cells] /\ f # <<>>
    <2>1. f \in [1 .. Size[n] -> Cells]
      BY <1>6, CellsHold
    <2>2. Size[n] \in Nat \ {0}
      BY <1>5, SizesAreNumbers
    <2>. QED BY <2>1, <2>2, RowIsThere
  <1>8. /\ DOMAIN table' = Rows /\ table'[n] = f
        /\ \A r \in Rows \ {n} : table'[r] = table[r]
    BY <1>1, <1>3, <1>4, <1>5, <1>6 DEF Types
  <1>9. Types'
    <2>1. \A r \in Rows : table'[r] = <<>> \/ table'[r] \in [1 .. Size[r] -> Cells]
      BY <1>3, <1>7, <1>8 DEF Types
    <2>. QED BY <1>1, <1>2, <1>3, <1>5, <1>8, <2>1 DEF Types, Labels
  <1>10. pc'[t] = "workers" /\ \A u \in Threads \ {t} : pc'[u] = pc[u]
    BY <1>1, <1>3 DEF Types
  <1>11. Apart(t)
    BY <1>2, <1>10 DEF Apart
  <1>12. ~force[t] /\ ret[t] = "update"
    BY <1>1, AtRest DEF AtCell, Helping
  <1>13. Local(t)'
    <2>1. row[t] <= currentRow /\ call[t] \in Calls /\ tdRow[t] # LastRow
      BY <1>1, <1>3 DEF Local
    <2>2. row[t] <= n /\ tdRow[t] <= n
      <3>1. row[t] \in Nat
        BY ReadingTheState
      <3>. QED BY <1>5, <2>1, <3>1
    <2>. QED BY <1>2, <1>5, <1>10, <1>12, <2>1, <2>2 DEF Local, AtCell, Between, Helping
  <1>14. growing /\ ~Moving /\ \A u \in Threads \ {t} : ~Builder(u)
    BY <1>1, BuildsAlone DEF Builder, Building
  <1>15. UsersCounted
    BY DEF HInv
  <1>16. tableWorkers[n] = 0
    BY <1>5, <1>15 DEF UsersCounted
  <1>17. OneBuilder'
    <2>1. \A u \in Threads \ {t} : ~Builder(u)'
      BY <1>10, <1>14 DEF Builder
    <2>2. table'[n] # <<>> /\ tableWorkers'[n] = 0 /\ growing' /\ tdRow'[t] + 1 = n
      BY <1>2, <1>4, <1>7, <1>8, <1>14, <1>16
    <2>3. currentRow' = tdRow'[t] + 1 /\ tableWorkers'[currentRow'] = 0 /\ table'[currentRow'] # <<>>
      BY <1>5, <2>2
    <2>. QED BY <1>10, <2>1, <2>2, <2>3, OneBuilds
  <1>18. SegmentsCounted'
    <2>1. ~Moving'
      BY <1>10 DEF Moving, Builder, Building
    <2>. QED BY <1>2, <1>10, <1>11, <1>12, <1>14, <2>1, Resting, StillResting
  <1>19. UsersCounted'
    <2>1. ASSUME NEW r PROVE Users(r)' = Users(r)
      <3>1. ASSUME NEW u \in Threads PROVE Use(u)' = Use(u)
        BY <1>1, <1>2, <1>10 DEF Use
      <3>. QED BY <3>1 DEF Users
    <2>2. \A r \in Rows : ~Pending(r) /\ ~Pending(r)'
      BY <1>1, <1>10 DEF Pending
    <2>3. 0 \in Rows \ {n} /\ table[0] = <<>> /\ tableWorkers[0] = 0
      BY <1>5, <1>15, SizesAreNumbers DEF UsersCounted
    <2>4. tableWorkers'[0] = 0 /\ table'[0] = <<>>
      BY <1>2, <1>8, <2>3
    <2>5. ASSUME NEW r \in Rows \ {0}
          PROVE  /\ tableWorkers'[r] = Cardinality(Users(r)') + (IF Pending(r)' THEN 1 ELSE 0)
                 /\ tableWorkers'[r] > 0 => table'[r] # <<>>
                 /\ r > currentRow' => tableWorkers'[r] = 0
      <3>1. /\ tableWorkers[r] = Cardinality(Users(r)) + (IF Pending(r) THEN 1 ELSE 0)
            /\ tableWorkers[r] > 0 => table[r] # <<>>
            /\ r > currentRow => tableWorkers[r] = 0
        BY <1>15 DEF UsersCounted
      <3>2. Users(r)' = Users(r) /\ ~Pending(r) /\ ~Pending(r)' /\ tableWorkers' = tableWorkers
        BY <1>2, <2>1, <2>2
      <3>3. tableWorkers'[r] > 0 => table'[r] # <<>>
        BY <1>7, <1>8, <3>1, <3>2
      <3>4. r > n => tableWorkers'[r] = 0
        <4>1. r \in Nat
          BY SizesAreNumbers
        <4>. QED BY <1>5, <3>1, <3>2, <4>1
      <3>. QED BY <1>5, <3>1, <3>2, <3>3, <3>4
    <2>. QED BY <1>10, <2>4, <2>5 DEF UsersCounted
  <1>20. currentRow <= currentRow' /\ {pc[t], pc'[t]} \cap {"idle", "return"} = {}
    BY <1>1, <1>5, <1>10
  <1>. QED BY <1>2, <1>9, <1>11, <1>13, <1>17, <1>18, <1>19, <1>20, GrowStep

\* Its maker is the first to use it, and leaves the row before.
LEMMA WorkersKeeps == ASSUME HInv, NEW t \in Threads, Workers(t) PROVE HInv'
  <1>. DEFINE y == IF table[tdRow[t]] = <<>> THEN "release" ELSE "segments"
  <1>0. PICK n : n = tdRow[t] + 1
    OBVIOUS
  <1>1. /\ pc[t] = "workers" /\ pc' = [pc EXCEPT ![t] = y]
        /\ tableWorkers' = [tableWorkers EXCEPT ![n] = 1] /\ doneSegments' = 0
        /\ row' = [row EXCEPT ![t] = n] /\ ret' = [ret EXCEPT ![t] = "grown"]
    BY <1>0 DEF Workers, Goto
  <1>2. /\ UNCHANGED <<table, currentRow, growing, availableSegments, used>>
        /\ UNCHANGED <<tdRow, tdInserts, call, calls, probe, force, moved, position, segment>>
    BY DEF Workers, cellVars, tdVars, callVars, moveVars
  <1>3. Types /\ Local(t) /\ UsersCounted
    BY DEF HInv
  <1>4. currentRow = n /\ tableWorkers[currentRow] = 0 /\ table[currentRow] # <<>>
    BY <1>0, <1>1 DEF HInv, OneBuilder
  <1>5. /\ n \in Rows \ {0} /\ n \in Nat /\ tdRow[t] \in Rows /\ tdRow[t] = n - 1
        /\ tdRow[t] \in Nat
    BY <1>0, <1>4, ReadingTheState
  <1>6. y \in {"release", "segments"} /\ (y = "segments" => tdRow[t] # 0)
    BY ReadingTheState
  <1>. HIDE DEF y
  <1>7. Types'
    <2>1. y \in Labels
      BY <1>6 DEF Labels
    <2>. QED BY <1>1, <1>2, <1>3, <1>5, <2>1 DEF Types
  <1>8. /\ pc'[t] = y /\ row'[t] = n /\ ret'[t] = "grown" /\ tableWorkers'[n] = 1
        /\ \A u \in Threads \ {t} : pc'[u] = pc[u] /\ row'[u] = row[u] /\ ret'[u] = ret[u]
        /\ \A r \in Rows \ {n} : tableWorkers'[r] = tableWorkers[r]
    BY <1>1, <1>3, <1>5 DEF Types
  <1>9. Apart(t)
    BY <1>2, <1>8 DEF Apart
  <1>10. ~force[t] /\ ret[t] = "update"
    BY <1>1, AtRest DEF AtCell, Helping
  <1>11. Local(t)'
    <2>1. call[t] \in Calls /\ tdRow[t] # LastRow
      BY <1>1, <1>3 DEF Local
    <2>2. tdRow[t] < n /\ tdRow[t] <= n /\ n <= n /\ n # 0
      BY <1>5
    <2>. QED BY <1>2, <1>4, <1>6, <1>8, <1>10, <2>1, <2>2 DEF Local, AtCell, Between, Helping
  <1>12. growing /\ ~Moving /\ \A u \in Threads \ {t} : ~Builder(u)
    BY <1>1, BuildsAlone DEF Builder, Building
  <1>13. \A u \in Threads \ {t} : ~Builder(u)'
    BY <1>8, <1>12 DEF Builder
  <1>14. OneBuilder'
    <2>1. y = "segments" => n > 1 /\ n = tdRow[t] + 1
      <3>1. PICK r : r = tdRow[t]
        OBVIOUS
      <3>2. r # 0 => n > 1
        BY <1>5, <3>1
      <3>. QED BY <1>0, <1>6, <3>1, <3>2
    <2>. QED BY <1>1, <1>2, <1>4, <1>6, <1>8, <1>12, <1>13, <2>1, OneBuilds
  <1>15. SegmentsCounted'
    <2>1. ~Moving'
      BY <1>6, <1>8 DEF Moving, Builder, Building
    <2>. QED BY <1>2, <1>6, <1>8, <1>9, <1>10, <1>12, <2>1, Resting, StillResting
  <1>16. UsersCounted'
    <2>1. Use(t) = n - 1 /\ Use(t)' = n
      BY <1>1, <1>2, <1>5, <1>6, <1>8, <1>10 DEF Use
    <2>2. ASSUME NEW u \in Threads \ {t} PROVE Use(u)' = Use(u)
      BY <1>2, <1>8 DEF Use
    <2>3. Users(n) = {}
      <3>1. tableWorkers[n] = Cardinality(Users(n)) + (IF Pending(n) THEN 1 ELSE 0)
        BY <1>3, <1>5 DEF UsersCounted
      <3>2. ~Pending(n)
        BY <1>1 DEF Pending
      <3>3. IsFiniteSet(Users(n)) /\ Cardinality(Users(n)) \in Nat
        BY <1>5, UsersAreFinite
      <3>4. Cardinality(Users(n)) = 0
        BY <1>4, <3>1, <3>2, <3>3
      <3>. QED BY <3>3, <3>4, FS_EmptySet
    <2>4. Users(n)' = {t}
      BY <2>1, <2>2, <2>3 DEF Users
    <2>5. ASSUME NEW r, r # n, r # n - 1 PROVE Users(r)' = Users(r)
      BY <2>1, <2>2, <2>5 DEF Users
    <2>6. t \in Users(n - 1) /\ Users(n - 1)' = Users(n - 1) \ {t}
      BY <1>5, <2>1, <2>2 DEF Users
    <2>7. ASSUME NEW r PROVE ~Pending(r) /\ (Pending(r)' <=> r = n - 1)
      <3>1. ~Pending(r)
        BY <1>1 DEF Pending
      <3>2. \A u \in Threads : pc'[u] \notin {"locked", "workers", "ungrow"}
        BY <1>6, <1>8, <1>13 DEF Builder, Building
      <3>. QED BY <1>2, <1>4, <1>12, <3>1, <3>2 DEF Pending
    <2>8. tableWorkers'[0] = 0 /\ table'[0] = <<>>
      <3>1. 0 \in Rows \ {n} /\ tableWorkers[0] = 0 /\ table[0] = <<>>
        BY <1>3, <1>5, SizesAreNumbers DEF UsersCounted
      <3>. QED BY <1>2, <1>8, <3>1
    <2>9. ASSUME NEW r \in Rows \ {0}
          PROVE  /\ tableWorkers'[r] = Cardinality(Users(r)') + (IF Pending(r)' THEN 1 ELSE 0)
                 /\ tableWorkers'[r] > 0 => table'[r] # <<>>
                 /\ r > currentRow' => tableWorkers'[r] = 0
      <3>1. /\ tableWorkers[r] = Cardinality(Users(r)) + (IF Pending(r) THEN 1 ELSE 0)
            /\ tableWorkers[r] > 0 => table[r] # <<>>
            /\ r > currentRow => tableWorkers[r] = 0
        BY <1>3 DEF UsersCounted
      <3>2. CASE r = n
        <4>1. Cardinality(Users(r)') = 1 /\ ~Pending(r)'
          <5>1. Cardinality({t}) = 1
            BY FS_Singleton
          <5>2. n # n - 1
            BY <1>5
          <5>. QED BY <2>4, <2>7, <3>2, <5>1, <5>2
        <4>2. tableWorkers'[r] = 1 /\ table'[r] # <<>> /\ ~(r > currentRow')
          BY <1>2, <1>4, <1>5, <1>8, <3>2
        <4>. QED BY <4>1, <4>2
      <3>3. CASE r = n - 1
        <4>1. Cardinality(Users(r)') = Cardinality(Users(r)) - 1 /\ Cardinality(Users(r)) \in Nat
          <5>1. IsFiniteSet(Users(r)) /\ Cardinality(Users(r)) \in Nat
            BY UsersAreFinite
          <5>2. t \in Users(r) /\ Users(r)' = Users(r) \ {t}
            BY <2>6, <3>3
          <5>. QED BY <5>1, <5>2, FS_RemoveElement
        <4>2. tableWorkers'[r] = tableWorkers[r] /\ table' = table
          BY <1>2, <1>5, <1>8, <3>3
        <4>3. Pending(r)' /\ ~Pending(r) /\ ~(r > currentRow')
          BY <1>2, <1>4, <1>5, <2>7, <3>3
        <4>. QED BY <3>1, <4>1, <4>2, <4>3
      <3>4. CASE r # n /\ r # n - 1
        <4>1. Users(r)' = Users(r) /\ ~Pending(r) /\ ~Pending(r)'
          BY <2>5, <2>7, <3>4
        <4>2. tableWorkers'[r] = tableWorkers[r] /\ table' = table /\ currentRow' = currentRow
          BY <1>2, <1>8, <3>4
        <4>. QED BY <3>1, <4>1, <4>2
      <3>. QED BY <3>2, <3>3, <3>4
    <2>10. Users(currentRow)' # {}
      <3>1. Users(currentRow)' = Users(n)'
        BY <1>2, <1>4 DEF Users
      <3>. QED BY <2>4, <3>1
    <2>. QED BY <2>8, <2>9, <2>10 DEF UsersCounted
  <1>17. currentRow <= currentRow' /\ {pc[t], pc'[t]} \cap {"idle", "return"} = {}
    <2>1. currentRow' = currentRow /\ currentRow \in Nat
      BY <1>2, ReadingTheState
    <2>. QED BY <1>1, <1>6, <1>8, <2>1
  <1>. QED BY <1>2, <1>7, <1>9, <1>11, <1>14, <1>15, <1>16, <1>17, GrowStep

LEMMA SegmentsAreThere == \A r \in Rows : Segments(r) \in Nat \ {0}
  <1>1. ASSUME NEW r \in Rows PROVE Segments(r) \in Nat \ {0}
    <2>1. PICK n, k : n = Size[r] /\ k = SegmentSize
      OBVIOUS
    <2>2. n \in Nat \ {0} /\ k \in Nat \ {0}
      BY <2>1, SizesAreNumbers
    <2>3. ~(n < k) => n \div k \in Nat \ {0}
      BY <2>2
    <2>. QED BY <2>1, <2>3 DEF Segments
  <1>. QED BY <1>1

LEMMA OpenSegmentsKeeps == ASSUME HInv, NEW t \in Threads, OpenSegments(t) PROVE HInv'
  <1>1. /\ pc[t] = "segments" /\ pc' = [pc EXCEPT ![t] = "try"]
        /\ availableSegments' = Segments(tdRow[t])
    BY DEF OpenSegments, Goto
  <1>2. /\ UNCHANGED <<table, tableWorkers, currentRow, growing, doneSegments, used>>
        /\ UNCHANGED <<tdRow, tdInserts, call, calls, probe, force, moved, position, segment,
                       row, ret>>
    BY DEF OpenSegments, cellVars, tdVars, callVars, moveVars
  <1>3. Types /\ Local(t)
    BY DEF HInv
  <1>4. /\ row[t] = currentRow /\ currentRow = tdRow[t] + 1 /\ currentRow > 1 /\ doneSegments = 0
        /\ tdRow[t] \in Rows /\ tdRow[t] \in Nat /\ tdRow[t] = currentRow - 1
        /\ currentRow \in Nat
    <2>1. row[t] = currentRow /\ currentRow = tdRow[t] + 1 /\ currentRow > 1 /\ doneSegments = 0
      BY <1>1 DEF HInv, OneBuilder
    <2>2. tdRow[t] \in Rows /\ tdRow[t] \in Nat /\ currentRow \in Nat
      BY ReadingTheState
    <2>. QED BY <2>1, <2>2
  <1>5. Segments(tdRow[t]) \in Nat \ {0}
    BY <1>4, SegmentsAreThere
  <1>6. Types'
    <2>1. Segments(tdRow[t]) \in Int /\ "try" \in Labels
      BY <1>5 DEF Labels
    <2>2. availableSegments' \in Int /\ pc' \in [Threads -> Labels]
      BY <1>1, <1>3, <2>1 DEF Types
    <2>. QED BY <1>2, <1>3, <2>2 DEF Types
  <1>7. pc'[t] = "try" /\ \A u \in Threads \ {t} : pc'[u] = pc[u]
    BY <1>1, <1>3 DEF Types
  <1>8. Apart(t)
    BY <1>2, <1>7 DEF Apart
  <1>9. ~force[t] /\ ret[t] = "grown" /\ tdRow[t] < currentRow /\ tdRow[t] # LastRow
        /\ call[t] \in Calls /\ tdRow[t] <= currentRow /\ row[t] <= currentRow
    BY <1>1, <1>3, AtRest DEF AtCell, Local
  <1>10. Local(t)'
    BY <1>2, <1>7, <1>9 DEF Local, AtCell, Between, Helping
  <1>11. growing /\ ~Moving /\ \A u \in Threads \ {t} : ~Builder(u)
    BY <1>1, BuildsAlone DEF Builder, Building
  <1>12. \A u \in Threads : ~Builder(u)'
    BY <1>7, <1>11 DEF Builder, Building
  <1>13. SegmentsCounted'
    <2>1. Moving'
      BY <1>2, <1>11, <1>12 DEF Moving
    <2>2. Busy' = {}
      <3>1. Busy = {}
        BY <1>11, Resting
      <3>. QED BY <1>2, <1>7, <1>9, <3>1 DEF Busy
    <2>3. Cardinality(Busy') = 0
      BY <2>2, FS_EmptySet
    <2>4. Left' = Segments(tdRow[t])
      BY <1>1, <1>5 DEF Left
    <2>5. Segments(currentRow - 1)' = Segments(tdRow[t])
      BY <1>2, <1>4 DEF Segments
    <2>6. currentRow' > 1 /\ doneSegments' + Cardinality(Busy') + Left' = Segments(currentRow - 1)'
      BY <1>2, <1>4, <1>5, <2>3, <2>4, <2>5
    <2>. QED BY <2>1, <2>2, <2>6 DEF SegmentsCounted
  <1>14. UsersCounted'
    <2>1. ASSUME NEW r PROVE Pending(r)' <=> Pending(r)
      BY <1>1, <1>2, <1>7 DEF Pending
    <2>2. Use(t)' = Use(t)
      BY <1>1, <1>2, <1>7 DEF Use
    <2>. QED BY <1>1, <1>2, <1>7, <1>8, <2>1, <2>2, UsersStay
  <1>15. currentRow <= currentRow' /\ {pc[t], pc'[t]} \cap {"idle", "return"} = {}
    BY <1>1, <1>2, <1>4, <1>7
  <1>. QED BY <1>2, <1>6, <1>8, <1>10, <1>12, <1>13, <1>14, <1>15, NobodyBuilds, GrowStep

\* A segment is taken, or there was none left.
LEMMA TakeSegmentKeeps == ASSUME HInv, NEW t \in Threads, TakeSegment(t) PROVE HInv'
  <1>. DEFINE y == IF availableSegments <= 0 THEN NoMore(t) ELSE "invalidate"
  <1>1. /\ pc[t] = "take" /\ pc' = [pc EXCEPT ![t] = y]
        /\ availableSegments' = availableSegments - 1
        /\ IF availableSegments <= 0
           THEN UNCHANGED <<segment, position, row>>
           ELSE /\ segment' = [segment EXCEPT ![t] = availableSegments']
                /\ position' = [position EXCEPT ![t] = SegmentSize * availableSegments']
                /\ row' = [row EXCEPT ![t] = currentRow]
    BY DEF TakeSegment, Goto
  <1>2. /\ UNCHANGED <<table, tableWorkers, currentRow, growing, doneSegments, used>>
        /\ UNCHANGED <<tdRow, tdInserts, call, calls, probe, force, moved, ret>>
    BY DEF TakeSegment, cellVars, tdVars, callVars
  <1>3. Types /\ Local(t) /\ availableSegments \in Int /\ currentRow \in Rows
        /\ currentRow \in Nat
    BY ReadingTheState DEF HInv, Types
  <1>4. /\ y \in {"grown", "help", "invalidate"}
        /\ (y = "grown" <=> availableSegments <= 0 /\ ret[t] = "grown")
        /\ (y = "invalidate" <=> ~(availableSegments <= 0))
    BY DEF NoMore
  <1>. HIDE DEF y
  <1>5. Types'
    <2>1. y \in Labels
      BY <1>4 DEF Labels
    <2>2. /\ segment \in [Threads -> Nat] /\ position \in [Threads -> Nat]
          /\ row \in [Threads -> Rows]
      BY <1>3 DEF Types
    <2>3. /\ segment' \in [Threads -> Nat] /\ position' \in [Threads -> Nat]
          /\ row' \in [Threads -> Rows]
      <3>1. CASE availableSegments <= 0
        BY <1>1, <2>2, <3>1
      <3>2. CASE ~(availableSegments <= 0)
        <4>1. PICK a, p : a = availableSegments' /\ p = SegmentSize * availableSegments'
          OBVIOUS
        <4>2. a \in Nat
          BY <1>1, <1>3, <3>2, <4>1
        <4>3. p \in Nat
          <5>1. PICK k : k = SegmentSize
            OBVIOUS
          <5>2. k \in Nat
            BY <5>1, SizesAreNumbers
          <5>3. p = k * a
            BY <4>1, <5>1
          <5>. QED BY <4>2, <5>2, <5>3
        <4>. QED BY <1>1, <1>3, <2>2, <3>2, <4>1, <4>2, <4>3
      <3>. QED BY <3>1, <3>2
    <2>4. availableSegments' \in Int
      BY <1>1, <1>3
    <2>. QED BY <1>1, <1>2, <1>3, <2>1, <2>3, <2>4 DEF Types
  <1>6. /\ pc'[t] = y
        /\ row'[t] = IF y = "invalidate" THEN currentRow ELSE row[t]
        /\ \A u \in Threads \ {t} : pc'[u] = pc[u] /\ row'[u] = row[u]
    <2>1. pc'[t] = y /\ \A u \in Threads \ {t} : pc'[u] = pc[u]
      BY <1>1, <1>3 DEF Types
    <2>2. CASE availableSegments <= 0
      BY <1>1, <1>4, <2>1, <2>2
    <2>3. CASE ~(availableSegments <= 0)
      BY <1>1, <1>3, <1>4, <2>1, <2>3 DEF Types
    <2>. QED BY <2>2, <2>3
  <1>7. Apart(t)
    BY <1>2, <1>6 DEF Apart
  <1>8. ~force[t]
    BY <1>1, AtRest DEF AtCell
  <1>9. Local(t)'
    <2>1. /\ tdRow[t] <= currentRow /\ row[t] <= currentRow /\ call[t] \in Calls
          /\ ret[t] # "update" => tdRow[t] # LastRow
          /\ ret[t] = "grown" => tdRow[t] < currentRow
      BY <1>1, <1>3 DEF Local
    <2>2. row'[t] <= currentRow
      BY <1>3, <1>6, <2>1
    <2>3. y = "help" => ret[t] # "grown"
      BY <1>4
    <2>. QED BY <1>2, <1>4, <1>6, <1>8, <2>1, <2>2, <2>3 DEF Local, AtCell, Between, Helping
  <1>10. \A u \in Threads : Builder(u)' <=> Builder(u)
    BY <1>1, <1>4, <1>6 DEF Builder, Building
  <1>11. OneBuilder'
    <2>1. ~Builder(t) /\ ~Builder(t)'
      BY <1>1, <1>10 DEF Builder, Building
    <2>2. \A u \in Threads \ {t} : pc'[u] = pc[u] /\ row'[u] = row[u] /\ tdRow'[u] = tdRow[u]
      BY <1>2, <1>6
    <2>3. pc'[t] \notin {"workers", "segments", "release", "release last", "ungrow"}
      BY <1>4, <1>6
    <2>4. \A u, v \in Threads : Builder(u)' /\ Builder(v)' => u = v
      BY <1>10 DEF HInv, OneBuilder
    <2>5. \A u \in Threads : Builder(u)' => growing'
      BY <1>2, <1>10 DEF HInv, OneBuilder
    <2>6. ASSUME NEW u \in Threads
          PROVE  /\ pc'[u] = "workers" => /\ currentRow' = tdRow'[u] + 1
                                          /\ tableWorkers'[currentRow'] = 0
                                          /\ table'[currentRow'] # <<>>
                 /\ pc'[u] = "segments" => /\ row'[u] = currentRow'
                                           /\ currentRow' = tdRow'[u] + 1
                                           /\ currentRow' > 1 /\ doneSegments' = 0
                 /\ pc'[u] \in {"release", "release last", "ungrow"} => row'[u] = currentRow'
                 /\ pc'[u] = "release last" => currentRow' > 1
      BY <1>2, <2>2, <2>3 DEF HInv, OneBuilder
    <2>. QED BY <2>4, <2>5, <2>6 DEF OneBuilder
  <1>12. Moving' <=> Moving
    BY <1>2, <1>10 DEF Moving
  <1>13. SegmentsCounted'
    <2>1. CASE availableSegments <= 0
      <3>1. Busy' = Busy
        BY <1>1, <1>2, <1>4, <1>6, <1>8, <2>1 DEF Busy
      <3>2. Left' = 0 /\ Left = 0 /\ availableSegments' <= 0
        BY <1>1, <1>3, <2>1 DEF Left
      <3>3. \A u \in Busy : row'[u] = row[u]
        BY <1>4, <1>6, <2>1 DEF Busy
      <3>4. Segments(currentRow - 1)' = Segments(currentRow - 1)
        BY <1>2 DEF Segments
      <3>. QED BY <1>2, <1>12, <3>1, <3>2, <3>3, <3>4 DEF HInv, SegmentsCounted
    <2>2. CASE ~(availableSegments <= 0)
      <3>1. Moving
        BY <2>2, Resting
      <3>2. currentRow > 1 /\ doneSegments + Cardinality(Busy) + Left = Segments(currentRow - 1)
        BY <3>1 DEF HInv, SegmentsCounted
      <3>3. t \notin Busy /\ Busy' = Busy \cup {t}
        BY <1>1, <1>2, <1>4, <1>6, <1>8, <2>2 DEF Busy
      <3>4. Cardinality(Busy') = Cardinality(Busy) + 1 /\ Cardinality(Busy) \in Nat
        BY <3>3, UsersAreFinite, FS_AddElement
      <3>5. Left = availableSegments /\ Left' = availableSegments - 1
        BY <1>1, <1>3, <2>2 DEF Left
      <3>6. \A u \in Busy' : row'[u] = currentRow'
        <4>1. \A u \in Busy : row[u] = currentRow
          BY DEF HInv, SegmentsCounted
        <4>2. row'[t] = currentRow
          BY <1>4, <1>6, <2>2
        <4>3. \A u \in Busy : u \in Threads \ {t}
          BY <3>3 DEF Busy
        <4>. QED BY <1>2, <1>6, <3>3, <4>1, <4>2, <4>3
      <3>7. Segments(currentRow - 1)' = Segments(currentRow - 1)
        BY <1>2 DEF Segments
      <3>8. doneSegments \in Nat
        BY <1>3 DEF Types
      <3>9. doneSegments' + Cardinality(Busy') + Left' = Segments(currentRow - 1)'
        <4>1. PICK d, b, a : d = doneSegments /\ b = Cardinality(Busy) /\ a = availableSegments
          OBVIOUS
        <4>2. d \in Nat /\ b \in Nat /\ a \in Int /\ d + (b + 1) + (a - 1) = d + b + a
          BY <1>3, <3>4, <3>8, <4>1
        <4>. QED BY <1>2, <3>2, <3>4, <3>5, <3>7, <4>1, <4>2
      <3>. QED BY <1>2, <1>12, <3>1, <3>2, <3>6, <3>9 DEF SegmentsCounted
    <2>. QED BY <2>1, <2>2
  <1>14. UsersCounted'
    <2>1. ASSUME NEW r PROVE Pending(r)' <=> Pending(r)
      <3>1. \A u \in Threads : pc'[u] \notin {"locked", "workers", "ungrow"}
                               <=> pc[u] \notin {"locked", "workers", "ungrow"}
        BY <1>1, <1>4, <1>6
      <3>. QED BY <1>2, <3>1 DEF Pending
    <2>2. Use(t)' = Use(t)
      BY <1>1, <1>2, <1>4, <1>6 DEF Use
    <2>3. pc'[t] # "workers" /\ pc[t] # "workers"
      BY <1>1, <1>4, <1>6
    <2>. QED BY <1>2, <1>7, <2>1, <2>2, <2>3, UsersStay
  <1>15. currentRow <= currentRow' /\ {pc[t], pc'[t]} \cap {"idle", "return"} = {}
    BY <1>1, <1>2, <1>3, <1>4, <1>6
  <1>. QED BY <1>2, <1>5, <1>7, <1>9, <1>11, <1>13, <1>14, <1>15, GrowStep

\* A segment is done: the one who has done the last goes on to release the row.
LEMMA SegmentDoneKeeps == ASSUME HInv, NEW t \in Threads, SegmentDone(t) PROVE HInv'
  <1>. DEFINE y == IF doneSegments + 1 = Segments(OldRow(t)) THEN "release" ELSE AfterSegment(t)
  <1>1. /\ pc[t] = "invalidate" /\ pc' = [pc EXCEPT ![t] = y]
        /\ doneSegments' = doneSegments + 1
    BY DEF SegmentDone, Goto
  <1>2. /\ UNCHANGED <<table, tableWorkers, currentRow, growing, availableSegments, used>>
        /\ UNCHANGED <<tdRow, tdInserts, call, calls, probe, force, moved, position, segment,
                       row, ret>>
    BY DEF SegmentDone, cellVars, tdVars, callVars, moveVars
  <1>3. Types /\ Local(t) /\ currentRow \in Nat /\ doneSegments \in Nat
        /\ availableSegments \in Int
    BY ReadingTheState DEF HInv, Types
  <1>4. /\ Moving /\ t \in Busy /\ row[t] = currentRow /\ currentRow > 1 /\ growing
        /\ currentRow - 1 \in Rows /\ \A u \in Threads : ~Builder(u)
    BY <1>1, BusyMove
  <1>5. /\ y \in {"release", "try", "grown", "help"}
        /\ (y = "release" => doneSegments + 1 = Segments(currentRow - 1))
        /\ (y = "grown" => ret[t] = "grown") /\ (y = "help" => ret[t] # "grown")
    BY <1>4 DEF AfterSegment, NoMore, OldRow
  <1>. HIDE DEF y
  <1>6. Types'
    <2>1. y \in Labels
      BY <1>5 DEF Labels
    <2>2. pc' \in [Threads -> Labels]
      BY <1>1, <1>3, <2>1 DEF Types
    <2>3. doneSegments' \in Nat
      BY <1>1, <1>3
    <2>. QED BY <1>2, <1>3, <2>2, <2>3 DEF Types
  <1>7. pc'[t] = y /\ \A u \in Threads \ {t} : pc'[u] = pc[u]
    BY <1>1, <1>3 DEF Types
  <1>8. Apart(t)
    BY <1>2, <1>7 DEF Apart
  <1>9. ~force[t]
    BY <1>1, AtRest DEF AtCell
  <1>10. Local(t)'
    <2>1. /\ tdRow[t] <= currentRow /\ row[t] <= currentRow /\ call[t] \in Calls
          /\ ret[t] # "update" => tdRow[t] # LastRow
          /\ ret[t] = "grown" => tdRow[t] < currentRow
      BY <1>1, <1>3 DEF Local
    <2>2. row[t] # 0 /\ row[t] # 1
      BY <1>3, <1>4
    <2>3. ret[t] = "lock" => y # "grown"
      BY <1>5
    <2>. QED BY <1>2, <1>5, <1>7, <1>9, <2>1, <2>2, <2>3 DEF Local, AtCell, Between, Helping
  <1>11. \A u \in Threads \ {t} : ~Builder(u)'
    BY <1>4, <1>7 DEF Builder
  <1>12. OneBuilder'
    <2>1. row'[t] = currentRow' /\ growing'
      BY <1>2, <1>4
    <2>. QED BY <1>5, <1>7, <1>11, <2>1, OneBuilds
  <1>13. t \in Busy /\ Busy' = Busy \ {t} /\ IsFiniteSet(Busy)
    <2>1. t \notin Busy'
      BY <1>2, <1>5, <1>7, <1>9 DEF Busy
    <2>2. \A u \in Threads \ {t} : u \in Busy' <=> u \in Busy
      BY <1>2, <1>7 DEF Busy
    <2>3. Busy \subseteq Threads /\ Busy' \subseteq Threads
      BY DEF Busy
    <2>. QED BY <1>4, <2>1, <2>2, <2>3, UsersAreFinite
  <1>14. PICK b : b = Cardinality(Busy)
    OBVIOUS
  <1>15. Cardinality(Busy') = b - 1 /\ b \in Nat /\ b > 0
    <2>1. Cardinality(Busy') = b - 1 /\ b \in Nat
      BY <1>13, <1>14, UsersAreFinite, FS_RemoveElement
    <2>2. b # 0
      BY <1>13, <1>14, FS_EmptySet
    <2>. QED BY <2>1, <2>2
  <1>16. PICK l : l = Left
    OBVIOUS
  <1>17. l \in Nat /\ l = Left' /\ (l = 0 => availableSegments <= 0)
    BY <1>2, <1>3, <1>16 DEF Left
  <1>18. doneSegments + b + l = Segments(currentRow - 1) /\ \A u \in Busy : row[u] = currentRow
    BY <1>4, <1>14, <1>16 DEF HInv, SegmentsCounted
  <1>19. SegmentsCounted'
    <2>1. CASE y = "release"
      <3>1. ~Moving'
        BY <1>7, <2>1 DEF Moving, Builder, Building
      <3>2. b = 1 /\ l = 0
        <4>1. doneSegments + b + l = doneSegments + 1
          BY <1>5, <1>18, <2>1
        <4>2. PICK d : d = doneSegments
          OBVIOUS
        <4>3. d \in Nat /\ d + b + l = d + 1
          BY <1>3, <4>1, <4>2
        <4>4. b \in Nat /\ b > 0 /\ l \in Nat
          BY <1>15, <1>17
        <4>. QED BY <4>3, <4>4
      <3>3. Busy' = {}
        <4>1. IsFiniteSet(Busy') /\ Cardinality(Busy') = 0
          BY <1>13, <1>15, <3>2, FS_RemoveElement
        <4>. QED BY <4>1, FS_EmptySet
      <3>. QED BY <1>2, <1>17, <3>1, <3>2, <3>3 DEF SegmentsCounted
    <2>2. CASE y # "release"
      <3>1. Moving'
        <4>1. ~Builder(t)'
          BY <1>5, <1>7, <2>2 DEF Builder, Building
        <4>. QED BY <1>2, <1>4, <1>11, <4>1 DEF Moving
      <3>2. Segments(currentRow - 1)' = Segments(currentRow - 1)
        BY <1>2 DEF Segments
      <3>3. doneSegments' + Cardinality(Busy') + Left' = Segments(currentRow - 1)'
        <4>1. PICK d, s : d = doneSegments /\ s = Segments(currentRow - 1)
          OBVIOUS
        <4>2. d \in Nat /\ d + b + l = s
          BY <1>3, <1>18, <4>1
        <4>3. (d + 1) + (b - 1) + l = s
          BY <1>15, <1>17, <4>2
        <4>. QED BY <1>1, <1>15, <1>17, <3>2, <4>1, <4>3
      <3>4. \A u \in Busy' : row'[u] = currentRow'
        BY <1>2, <1>13, <1>18
      <3>. QED BY <1>2, <1>4, <3>1, <3>3, <3>4 DEF SegmentsCounted
    <2>. QED BY <2>1, <2>2
  <1>20. UsersCounted'
    <2>1. ASSUME NEW r PROVE Pending(r)' <=> Pending(r)
      <3>1. \A u \in Threads : pc'[u] \notin {"locked", "workers", "ungrow"}
                               <=> pc[u] \notin {"locked", "workers", "ungrow"}
        BY <1>1, <1>5, <1>7
      <3>. QED BY <1>2, <3>1 DEF Pending
    <2>2. Use(t)' = Use(t)
      BY <1>1, <1>2, <1>5, <1>7 DEF Use
    <2>3. pc'[t] # "workers" /\ pc[t] # "workers"
      BY <1>1, <1>5, <1>7
    <2>. QED BY <1>2, <1>8, <2>1, <2>2, <2>3, UsersStay
  <1>21. currentRow <= currentRow' /\ {pc[t], pc'[t]} \cap {"idle", "return"} = {}
    BY <1>1, <1>2, <1>3, <1>5, <1>7
  <1>. QED BY <1>2, <1>6, <1>8, <1>10, <1>12, <1>19, <1>20, <1>21, GrowStep

\* The rows grow no more.
LEMMA DoneRehashingKeeps == ASSUME HInv, NEW t \in Threads, DoneRehashing(t) PROVE HInv'
  <1>. DEFINE y == IF OldRow(t) = 0 THEN "grown" ELSE AfterSegment(t)
  <1>1. pc[t] = "ungrow" /\ pc' = [pc EXCEPT ![t] = y] /\ growing' = FALSE
    BY DEF DoneRehashing, Goto
  <1>2. /\ UNCHANGED <<table, tableWorkers, currentRow, availableSegments, doneSegments, used>>
        /\ UNCHANGED <<tdRow, tdInserts, call, calls, probe, force, moved, position, segment,
                       row, ret>>
    BY DEF DoneRehashing, cellVars, tdVars, callVars, moveVars
  <1>3. Types /\ Local(t) /\ currentRow \in Nat /\ row[t] \in Nat
    BY ReadingTheState DEF HInv
  <1>4. /\ y \in {"try", "grown", "help"}
        /\ (y = "grown" => ret[t] = "grown") /\ (y = "help" => ret[t] # "grown")
    <2>1. OldRow(t) = 0 => ret[t] = "grown"
      <3>1. OldRow(t) = 0 => row[t] = 1
        BY <1>3 DEF OldRow
      <3>. QED BY <1>1, <1>3, <3>1 DEF Local
    <2>. QED BY <2>1 DEF AfterSegment, NoMore
  <1>. HIDE DEF y
  <1>5. Types'
    <2>1. y \in Labels
      BY <1>4 DEF Labels
    <2>2. pc' \in [Threads -> Labels] /\ growing' \in BOOLEAN
      BY <1>1, <1>3, <2>1 DEF Types
    <2>. QED BY <1>2, <1>3, <2>2 DEF Types
  <1>6. pc'[t] = y /\ \A u \in Threads \ {t} : pc'[u] = pc[u]
    BY <1>1, <1>3 DEF Types
  <1>7. Apart(t)
    BY <1>2, <1>6 DEF Apart
  <1>8. ~force[t]
    BY <1>1, AtRest DEF AtCell
  <1>9. Local(t)'
    <2>1. /\ tdRow[t] <= currentRow /\ row[t] <= currentRow /\ call[t] \in Calls
          /\ ret[t] # "update" => tdRow[t] # LastRow
          /\ ret[t] = "grown" => tdRow[t] < currentRow
      BY <1>1, <1>3 DEF Local
    <2>3. ret[t] = "lock" => y # "grown"
      BY <1>4
    <2>. QED BY <1>2, <1>4, <1>6, <1>8, <2>1, <2>3 DEF Local, AtCell, Between, Helping
  <1>10. ~Moving /\ \A u \in Threads \ {t} : ~Builder(u)
    BY <1>1, BuildsAlone DEF Builder, Building
  <1>11. \A u \in Threads : ~Builder(u)'
    BY <1>4, <1>6, <1>10 DEF Builder, Building
  <1>12. SegmentsCounted'
    <2>1. ~Moving'
      BY <1>1 DEF Moving
    <2>2. ~force'[t] /\ pc'[t] # "invalidate" /\ availableSegments' <= 0
      BY <1>2, <1>4, <1>6, <1>8, <1>10, Resting
    <2>. QED BY <1>7, <1>10, <2>1, <2>2, StillResting
  <1>13. UsersCounted'
    <2>1. \A r \in Rows : ~Pending(r) /\ ~Pending(r)'
      BY <1>1 DEF Pending
    <2>2. Use(t)' = Use(t)
      BY <1>1, <1>2, <1>4, <1>6 DEF Use
    <2>3. pc'[t] # "workers" /\ pc[t] # "workers"
      BY <1>1, <1>4, <1>6
    <2>. QED BY <1>2, <1>7, <2>1, <2>2, <2>3, UsersStay
  <1>14. currentRow <= currentRow' /\ {pc[t], pc'[t]} \cap {"idle", "return"} = {}
    BY <1>1, <1>2, <1>3, <1>4, <1>6
  <1>15. OneBuilder'
    BY <1>11, NobodyBuilds
  <1>. QED BY <1>2, <1>5, <1>7, <1>9, <1>12, <1>13, <1>14, <1>15, GrowStep

-----------------------------------------------------------------------------
(* The counts of the rows.                                                 *)

\* One count goes down, and the row goes with it when it is zero.
LEMMA RowLeft ==
  ASSUME Types, NEW r \in Rows \ {0}, NEW n \in Nat, tableWorkers[r] = n + 1, table[r] # <<>>,
         tableWorkers' = [tableWorkers EXCEPT ![r] = @ - 1],
         table' = IF tableWorkers'[r] = 0 THEN [table EXCEPT ![r] = <<>>] ELSE table
  PROVE  /\ tableWorkers'[r] = n /\ tableWorkers' \in [Rows -> Nat]
         /\ n > 0 => table'[r] # <<>>
         /\ \A q \in Rows \ {r} : tableWorkers'[q] = tableWorkers[q] /\ table'[q] = table[q]
         /\ DOMAIN table' = Rows
         /\ \A q \in Rows : table'[q] = <<>> \/ table'[q] \in [1 .. Size[q] -> Cells]
  <1>1. tableWorkers \in [Rows -> Nat] /\ DOMAIN table = Rows
        /\ \A q \in Rows : table[q] = <<>> \/ table[q] \in [1 .. Size[q] -> Cells]
    BY DEF Types
  <1>2. tableWorkers' = [tableWorkers EXCEPT ![r] = n]
    <2>1. PICK m : m = tableWorkers[r]
      OBVIOUS
    <2>2. m = n + 1
      BY <2>1
    <2>3. m - 1 = n
      BY <2>2
    <2>. QED BY <2>1, <2>3
  <1>3. /\ tableWorkers'[r] = n /\ tableWorkers' \in [Rows -> Nat]
        /\ \A q \in Rows \ {r} : tableWorkers'[q] = tableWorkers[q]
    BY <1>1, <1>2
  <1>4. CASE n = 0
    <2>1. table' = [table EXCEPT ![r] = <<>>]
      BY <1>3, <1>4
    <2>2. DOMAIN table' = Rows /\ table'[r] = <<>> /\ \A q \in Rows \ {r} : table'[q] = table[q]
      BY <1>1, <2>1
    <2>3. ASSUME NEW q \in Rows
          PROVE  table'[q] = <<>> \/ table'[q] \in [1 .. Size[q] -> Cells]
      BY <1>1, <2>2
    <2>. QED BY <1>3, <1>4, <2>2, <2>3
  <1>5. CASE n # 0
    <2>1. table' = table
      BY <1>3, <1>5
    <2>. QED BY <1>1, <1>3, <2>1
  <1>. QED BY <1>4, <1>5

\* The step changes one count, and its row.
LEMMA CountsStay ==
  ASSUME HInv, NEW r \in Rows \ {0}, r <= currentRow, currentRow' = currentRow,
         \A q \in Rows \ {0, r} : Pending(q)' <=> Pending(q),
         \A q \in Rows \ {0, r} : Users(q)' = Users(q),
         \A q \in Rows \ {r} : tableWorkers'[q] = tableWorkers[q] /\ table'[q] = table[q],
         tableWorkers'[r] = Cardinality(Users(r)') + (IF Pending(r)' THEN 1 ELSE 0),
         tableWorkers'[r] > 0 => table'[r] # <<>>,
         (\A t \in Threads : pc'[t] # "workers") => Users(currentRow)' # {}
  PROVE  UsersCounted'
  <1>1. 0 \in Rows \ {r} /\ UsersCounted
    BY SizesAreNumbers DEF HInv
  <1>2. tableWorkers'[0] = 0 /\ table'[0] = <<>>
    BY <1>1 DEF UsersCounted
  <1>3. ASSUME NEW q \in Rows \ {0}
        PROVE  /\ tableWorkers'[q] = Cardinality(Users(q)') + (IF Pending(q)' THEN 1 ELSE 0)
               /\ tableWorkers'[q] > 0 => table'[q] # <<>>
               /\ q > currentRow' => tableWorkers'[q] = 0
    <2>1. CASE q = r
      <3>1. ~(r > currentRow')
        BY SizesAreNumbers DEF HInv, Types
      <3>. QED BY <2>1, <3>1
    <2>2. CASE q # r
      <3>1. /\ tableWorkers[q] = Cardinality(Users(q)) + (IF Pending(q) THEN 1 ELSE 0)
            /\ tableWorkers[q] > 0 => table[q] # <<>>
            /\ q > currentRow => tableWorkers[q] = 0
        BY <1>1 DEF UsersCounted
      <3>2. Users(q)' = Users(q) /\ (Pending(q)' <=> Pending(q))
            /\ tableWorkers'[q] = tableWorkers[q] /\ table'[q] = table[q]
        BY <2>2
      <3>. QED BY <3>1, <3>2
    <2>. QED BY <2>1, <2>2
  <1>. QED BY <1>2, <1>3 DEF UsersCounted

\* The thread moves no cells and builds no row; no row is made or moved.
LEMMA Aside ==
  ASSUME HInv, NEW t \in Threads, Apart(t), ~Builder(t), ~Builder(t)', t \notin Busy, t \notin Busy',
         UNCHANGED <<currentRow, growing, availableSegments, doneSegments>>,
         tableWorkers[currentRow] = 0 => tableWorkers'[currentRow] = 0,
         tableWorkers[currentRow] = 0 => table'[currentRow] = table[currentRow]
  PROVE  /\ OneBuilder' /\ SegmentsCounted'
         /\ \A r : Pending(r)' <=> Pending(r)
         /\ \A u \in Threads : pc'[u] # "workers" <=> pc[u] # "workers"
  <1>1. /\ \A u \in Threads : Builder(u)' <=> Builder(u)
        /\ \A u \in Threads : (pc[u] \in Building \/ pc'[u] \in Building) => pc'[u] = pc[u]
        /\ \A u \in Threads : Builder(u) => row'[u] = row[u] /\ tdRow'[u] = tdRow[u]
    BY DEF Apart, Builder
  <1>2. OneBuilder'
    <2>1. \A u, v \in Threads : Builder(u)' /\ Builder(v)' => u = v
      BY <1>1 DEF HInv, OneBuilder
    <2>2. \A u \in Threads : Builder(u)' => growing'
      BY <1>1 DEF HInv, OneBuilder
    <2>3. ASSUME NEW u \in Threads, pc'[u] \in Building
          PROVE  pc'[u] = pc[u] /\ row'[u] = row[u] /\ tdRow'[u] = tdRow[u]
      BY <1>1, <2>3 DEF Builder
    <2>4. ASSUME NEW u \in Threads
          PROVE  /\ pc'[u] = "workers" => /\ currentRow' = tdRow'[u] + 1
                                          /\ tableWorkers'[currentRow'] = 0
                                          /\ table'[currentRow'] # <<>>
                 /\ pc'[u] = "segments" => /\ row'[u] = currentRow'
                                           /\ currentRow' = tdRow'[u] + 1
                                           /\ currentRow' > 1 /\ doneSegments' = 0
                 /\ pc'[u] \in {"release", "release last", "ungrow"} => row'[u] = currentRow'
                 /\ pc'[u] = "release last" => currentRow' > 1
      <3>1. CASE pc'[u] \in Building
        BY <2>3, <3>1 DEF HInv, OneBuilder
      <3>2. CASE pc'[u] \notin Building
        BY <3>2 DEF Building
      <3>. QED BY <3>1, <3>2
    <2>. QED BY <2>1, <2>2, <2>4 DEF OneBuilder
  <1>3. SegmentsCounted'
    <2>1. Busy' = Busy
      <3>1. \A u \in Threads \ {t} : u \in Busy' <=> u \in Busy
        BY DEF Apart, Busy
      <3>2. Busy \subseteq Threads /\ Busy' \subseteq Threads
        BY DEF Busy
      <3>. QED BY <3>1, <3>2
    <2>2. Moving' <=> Moving
      BY <1>1 DEF Moving
    <2>3. \A u \in Busy : row'[u] = row[u]
      <3>1. \A u \in Busy : u \in Threads \ {t}
        BY DEF Busy
      <3>. QED BY <3>1 DEF Apart
    <2>4. Left' = Left
      BY DEF Left
    <2>5. Segments(currentRow - 1)' = Segments(currentRow - 1)
      BY DEF Segments
    <2>. QED BY <2>1, <2>2, <2>3, <2>4, <2>5 DEF HInv, SegmentsCounted
  <1>4. ASSUME NEW r PROVE Pending(r)' <=> Pending(r)
    <2>1. \A u \in Threads : pc'[u] \notin {"locked", "workers", "ungrow"}
                             <=> pc[u] \notin {"locked", "workers", "ungrow"}
      BY <1>1 DEF Building
    <2>. QED BY <2>1 DEF Pending
  <1>5. \A u \in Threads : pc'[u] # "workers" <=> pc[u] # "workers"
    BY <1>1 DEF Building
  <1>. QED BY <1>2, <1>3, <1>4, <1>5

\* The old row is released for the thread that left it: row 0 was never there.
LEMMA ReleaseOldKeeps == ASSUME HInv, NEW t \in Threads, ReleaseOld(t) PROVE HInv'
  <1>1. PICK y, r : /\ r = OldRow(t)
                    /\ \/ /\ pc[t] = "release"
                          /\ y = IF tableWorkers[r] = 0 THEN "ungrow" ELSE "release last"
                          /\ tableWorkers' = tableWorkers /\ table' = table
                       \/ /\ pc[t] = "release last" /\ y = "ungrow"
                          /\ tableWorkers' = [tableWorkers EXCEPT ![r] = @ - 1]
                          /\ table' = IF tableWorkers'[r] = 0 THEN [table EXCEPT ![r] = <<>>]
                                                              ELSE table
                    /\ pc' = [pc EXCEPT ![t] = y]
    BY DEF ReleaseOld, Release, Goto
  <1>2. /\ UNCHANGED <<currentRow, growing, availableSegments, doneSegments, used>>
        /\ UNCHANGED <<tdRow, tdInserts, call, calls, probe, force, moved, position, segment,
                       row, ret>>
    BY DEF ReleaseOld, Release, tdVars, callVars, moveVars
  <1>3. Types /\ Local(t) /\ UsersCounted /\ currentRow \in Nat
    BY ReadingTheState DEF HInv
  <1>4. pc[t] \in {"release", "release last"} /\ y \in {"ungrow", "release last"}
    BY <1>1
  <1>5. growing /\ ~Moving /\ \A u \in Threads \ {t} : ~Builder(u)
    BY <1>4, BuildsAlone DEF Builder, Building
  <1>6. /\ row[t] = currentRow /\ currentRow # 0 /\ r = currentRow - 1 /\ r \in Rows /\ r \in Nat
        /\ r <= currentRow /\ r # currentRow
    <2>1. row[t] = currentRow /\ row[t] # 0
      BY <1>3, <1>4 DEF HInv, OneBuilder, Local
    <2>2. r = currentRow - 1
      BY <1>1, <2>1 DEF OldRow
    <2>3. currentRow \in Rows
      BY <1>3 DEF Types
    <2>. QED BY <1>3, <2>1, <2>2, <2>3, SizesAreNumbers
  \* The builder, who has left the row, is still counted in it.
  <1>7. \A q \in Rows : Pending(q) <=> q = r
    <2>1. \A u \in Threads : pc[u] \notin {"locked", "workers", "ungrow"}
      BY <1>4, <1>5 DEF Builder, Building
    <2>. QED BY <1>5, <1>6, <2>1 DEF Pending
  <1>8. PICK n : n = Cardinality(Users(r))
    OBVIOUS
  <1>9. n \in Nat
    BY <1>6, <1>8, UsersAreFinite
  <1>10. r # 0 => tableWorkers[r] = n + 1 /\ tableWorkers[r] # 0 /\ table[r] # <<>>
    <2>1. ASSUME r # 0 PROVE tableWorkers[r] = n + 1 /\ (tableWorkers[r] > 0 => table[r] # <<>>)
      BY <1>3, <1>6, <1>7, <1>8, <2>1 DEF UsersCounted
    <2>. QED BY <1>9, <2>1
  <1>11. \/ /\ pc[t] = "release" /\ tableWorkers' = tableWorkers /\ table' = table
            /\ y = "ungrow" <=> r = 0
         \/ /\ pc[t] = "release last" /\ y = "ungrow" /\ r # 0
    <2>1. tableWorkers[0] = 0
      BY <1>3 DEF UsersCounted
    <2>2. pc[t] = "release last" => r # 0
      <3>1. pc[t] = "release last" => currentRow > 1
        BY DEF HInv, OneBuilder
      <3>2. currentRow > 1 => r # 0
        <4>1. PICK c : c = currentRow
          OBVIOUS
        <4>2. c \in Nat /\ r = c - 1 /\ r \in Nat
          BY <1>3, <1>6, <4>1
        <4>3. c > 1 => r # 0
          BY <4>2
        <4>. QED BY <4>1, <4>3
      <3>. QED BY <3>1, <3>2
    <2>3. CASE pc[t] = "release last"
      BY <1>1, <2>2, <2>3
    <2>4. CASE pc[t] # "release last"
      <3>1. pc[t] = "release" /\ tableWorkers' = tableWorkers /\ table' = table
            /\ y = IF tableWorkers[r] = 0 THEN "ungrow" ELSE "release last"
        BY <1>1, <2>4
      <3>2. tableWorkers[r] = 0 <=> r = 0
        BY <1>10, <2>1
      <3>. QED BY <3>1, <3>2
    <2>. QED BY <2>3, <2>4
  <1>12. r # 0 /\ y = "ungrow" =>
           /\ tableWorkers'[r] = n /\ tableWorkers' \in [Rows -> Nat]
           /\ n > 0 => table'[r] # <<>>
           /\ \A q \in Rows \ {r} : tableWorkers'[q] = tableWorkers[q] /\ table'[q] = table[q]
           /\ DOMAIN table' = Rows
           /\ \A q \in Rows : table'[q] = <<>> \/ table'[q] \in [1 .. Size[q] -> Cells]
    <2>1. r # 0 /\ y = "ungrow" =>
            /\ tableWorkers' = [tableWorkers EXCEPT ![r] = @ - 1]
            /\ table' = IF tableWorkers'[r] = 0 THEN [table EXCEPT ![r] = <<>>] ELSE table
      BY <1>1, <1>11
    <2>2. ASSUME r # 0, y = "ungrow"
          PROVE  /\ Types /\ r \in Rows \ {0} /\ n \in Nat /\ tableWorkers[r] = n + 1
                 /\ table[r] # <<>>
                 /\ tableWorkers' = [tableWorkers EXCEPT ![r] = @ - 1]
                 /\ table' = IF tableWorkers'[r] = 0 THEN [table EXCEPT ![r] = <<>>] ELSE table
      BY <1>3, <1>6, <1>9, <1>10, <2>1, <2>2
    <2>. QED BY <2>2, RowLeft
  <1>13. ~(r # 0 /\ y = "ungrow") => tableWorkers' = tableWorkers /\ table' = table
    BY <1>11
  <1>14. Types'
    <2>1. pc' \in [Threads -> Labels]
      BY <1>1, <1>3, <1>4 DEF Types, Labels
    <2>2. /\ DOMAIN table' = Rows
          /\ \A q \in Rows : table'[q] = <<>> \/ table'[q] \in [1 .. Size[q] -> Cells]
          /\ tableWorkers' \in [Rows -> Nat]
      BY <1>3, <1>12, <1>13 DEF Types
    <2>. QED BY <1>2, <1>3, <2>1, <2>2 DEF Types
  <1>15. pc'[t] = y /\ \A u \in Threads \ {t} : pc'[u] = pc[u]
    <2>1. pc' = [pc EXCEPT ![t] = y] /\ pc \in [Threads -> Labels]
      BY <1>1, <1>3 DEF Types
    <2>. QED BY <2>1
  <1>16. Apart(t)
    BY <1>2, <1>15 DEF Apart
  <1>17. ~force[t]
    BY <1>4, AtRest DEF AtCell
  <1>18. Local(t)'
    <2>1. /\ tdRow[t] <= currentRow /\ row[t] <= currentRow /\ call[t] \in Calls
          /\ ret[t] # "update" => tdRow[t] # LastRow
          /\ ret[t] = "grown" => tdRow[t] < currentRow
          /\ row[t] # 0 /\ (row[t] = 1 => ret[t] = "grown")
      BY <1>3, <1>4 DEF Local
    <2>. QED BY <1>2, <1>4, <1>15, <1>17, <2>1 DEF Local, AtCell, Between, Helping
  <1>19. OneBuilder'
    <2>1. \A u \in Threads \ {t} : ~Builder(u)'
      BY <1>5, <1>15 DEF Builder
    <2>2. row'[t] = currentRow' /\ growing'
      BY <1>2, <1>5, <1>6
    <2>3. y = "release last" => currentRow' > 1
      <3>1. y = "release last" => r # 0
        BY <1>4, <1>11
      <3>2. r # 0 => currentRow > 1
        <4>1. PICK c : c = currentRow
          OBVIOUS
        <4>2. c \in Nat /\ r = c - 1 /\ r \in Nat
          BY <1>3, <1>6, <4>1
        <4>3. r # 0 => c > 1
          BY <4>2
        <4>. QED BY <4>1, <4>3
      <3>. QED BY <1>2, <3>1, <3>2
    <2>. QED BY <1>4, <1>15, <2>1, <2>2, <2>3, OneBuilds
  <1>20. SegmentsCounted'
    <2>1. ~Moving'
      BY <1>4, <1>15 DEF Moving, Builder, Building
    <2>2. ~force'[t] /\ pc'[t] # "invalidate" /\ availableSegments' <= 0
      BY <1>2, <1>4, <1>5, <1>15, <1>17, Resting
    <2>. QED BY <1>5, <1>16, <2>1, <2>2, StillResting
  <1>21. Use(t)' = Use(t)
    BY <1>2, <1>4, <1>15 DEF Use
  <1>22. y = "release last" => \A q \in Rows : Pending(q)' <=> Pending(q)
    <2>1. ASSUME y = "release last" PROVE \A u \in Threads : pc'[u] \notin {"locked", "workers", "ungrow"}
      BY <1>5, <1>15, <2>1 DEF Builder, Building
    <2>. QED BY <1>2, <1>5, <1>6, <1>7, <2>1 DEF Pending
  <1>23. y = "ungrow" => \A q : ~Pending(q)'
    BY <1>15 DEF Pending
  <1>24. UsersCounted'
    <2>1. pc'[t] # "workers" /\ pc[t] # "workers"
      BY <1>4, <1>15
    <2>2. CASE ~(r # 0 /\ y = "ungrow")
      <3>1. \A q \in Rows \ {0} : Pending(q)' <=> Pending(q)
        BY <1>4, <1>7, <1>22, <1>23, <2>2
      <3>. QED BY <1>2, <1>13, <1>16, <1>21, <2>1, <2>2, <3>1, UsersStay
    <2>3. CASE r # 0 /\ y = "ungrow"
      <3>1. ASSUME NEW q PROVE Users(q)' = Users(q)
        <4>1. ASSUME NEW u \in Threads PROVE Use(u)' = Use(u)
          BY <1>16, <1>21 DEF Apart, Use
        <4>. QED BY <4>1 DEF Users
      <3>2. \A q \in Rows \ {0, r} : Pending(q)' <=> Pending(q)
        BY <1>7, <1>23, <2>3
      <3>3. \A q \in Rows \ {0, r} : Users(q)' = Users(q)
        BY <3>1
      <3>4. tableWorkers'[r] = Cardinality(Users(r)') + (IF Pending(r)' THEN 1 ELSE 0)
        <4>1. Cardinality(Users(r)') = n /\ ~Pending(r)'
          BY <1>8, <1>23, <2>3, <3>1
        <4>. QED BY <1>9, <1>12, <2>3, <4>1
      <3>5. tableWorkers'[r] > 0 => table'[r] # <<>>
        BY <1>12, <2>3
      <3>6. Users(currentRow)' # {}
        <4>1. \A u \in Threads : pc[u] # "workers"
          BY <1>5, <2>1 DEF Builder, Building
        <4>2. Users(currentRow) # {}
          BY <1>3, <1>6, <4>1 DEF UsersCounted
        <4>3. Users(currentRow)' = Users(currentRow)
          BY <1>2, <3>1 DEF Users
        <4>. QED BY <4>2, <4>3
      <3>7. \A q \in Rows \ {r} : tableWorkers'[q] = tableWorkers[q] /\ table'[q] = table[q]
        BY <1>12, <2>3
      <3>8. currentRow' = currentRow /\ r \in Rows \ {0}
        BY <1>2, <1>6, <2>3
      <3>. QED BY <1>6, <3>2, <3>3, <3>4, <3>5, <3>6, <3>7, <3>8, CountsStay
    <2>. QED BY <2>2, <2>3
  <1>25. currentRow <= currentRow' /\ {pc[t], pc'[t]} \cap {"idle", "return"} = {}
    <2>1. currentRow <= currentRow'
      BY <1>2, <1>3
    <2>. QED BY <1>4, <1>15, <2>1
  <1>. QED BY <1>2, <1>14, <1>16, <1>18, <1>19, <1>20, <1>24, <1>25, GrowStep

\* A thread leaves its row, in which it is counted unless it is row 0.
LEMMA ReleaseMineKeeps == ASSUME HInv, NEW t \in Threads, ReleaseMine(t) PROVE HInv'
  <1>1. PICK y, r : /\ r = tdRow[t]
                    /\ \/ /\ pc[t] = "leave"
                          /\ y = IF tableWorkers[r] = 0 THEN "acquire" ELSE "leave last"
                          /\ tableWorkers' = tableWorkers /\ table' = table
                       \/ /\ pc[t] = "leave last" /\ y = "acquire"
                          /\ tableWorkers' = [tableWorkers EXCEPT ![r] = @ - 1]
                          /\ table' = IF tableWorkers'[r] = 0 THEN [table EXCEPT ![r] = <<>>]
                                                              ELSE table
                    /\ pc' = [pc EXCEPT ![t] = y]
    BY DEF ReleaseMine, Release, Goto
  <1>2. /\ UNCHANGED <<currentRow, growing, availableSegments, doneSegments, used>>
        /\ UNCHANGED <<tdRow, tdInserts, call, calls, probe, force, moved, position, segment,
                       row, ret>>
    BY DEF ReleaseMine, Release, tdVars, callVars, moveVars
  <1>3. Types /\ Local(t) /\ UsersCounted /\ currentRow \in Nat /\ r \in Rows /\ r \in Nat
        /\ row[t] \in Nat
    BY <1>1, ReadingTheState DEF HInv
  <1>4. pc[t] \in {"leave", "leave last"} /\ y \in {"acquire", "leave last"}
    BY <1>1
  <1>5. ~force[t] /\ ret[t] = "update"
    BY <1>4, AtRest DEF AtCell, Helping
  <1>6. r < row[t] /\ row[t] <= currentRow /\ r <= currentRow /\ r # currentRow
    <2>1. r < row[t] /\ row[t] <= currentRow
      BY <1>1, <1>3, <1>4 DEF Local
    <2>. QED BY <1>3, <2>1
  <1>7. r # 0 => Use(t) = r /\ table[r] # <<>> /\ tableWorkers[r] > 0
    BY <1>1, <1>4, <1>5, OwnRowIsThere
  <1>8. \/ /\ pc[t] = "leave" /\ tableWorkers' = tableWorkers /\ table' = table
           /\ y = "acquire" <=> r = 0
        \/ /\ pc[t] = "leave last" /\ y = "acquire" /\ r # 0
           /\ tableWorkers' = [tableWorkers EXCEPT ![r] = @ - 1]
           /\ table' = IF tableWorkers'[r] = 0 THEN [table EXCEPT ![r] = <<>>] ELSE table
    <2>1. tableWorkers[0] = 0
      BY <1>3 DEF UsersCounted
    <2>2. pc[t] = "leave last" => r # 0
      BY <1>1, <1>3 DEF Local
    <2>3. tableWorkers[r] = 0 <=> r = 0
      <3>1. r # 0 => tableWorkers[r] # 0
        BY <1>7
      <3>. QED BY <2>1, <3>1
    <2>4. CASE pc[t] = "leave last"
      BY <1>1, <2>2, <2>4
    <2>5. CASE pc[t] # "leave last"
      <3>1. pc[t] = "leave" /\ tableWorkers' = tableWorkers /\ table' = table
            /\ y = IF tableWorkers[r] = 0 THEN "acquire" ELSE "leave last"
        BY <1>1, <2>5
      <3>. QED BY <2>3, <3>1
    <2>. QED BY <2>4, <2>5
  <1>9. pc' \in [Threads -> Labels]
    BY <1>1, <1>3, <1>4 DEF Types, Labels
  <1>10. pc'[t] = y /\ \A u \in Threads \ {t} : pc'[u] = pc[u]
    <2>1. pc' = [pc EXCEPT ![t] = y] /\ pc \in [Threads -> Labels]
      BY <1>1, <1>3 DEF Types
    <2>. QED BY <2>1
  <1>11. Apart(t)
    BY <1>2, <1>10 DEF Apart
  <1>12. Local(t)'
    <2>1. tdRow[t] <= currentRow /\ row[t] <= currentRow /\ call[t] \in Calls /\ tdRow[t] < row[t]
      BY <1>3, <1>4 DEF Local
    <2>2. y = "leave last" => tdRow[t] # 0
      BY <1>1, <1>4, <1>8
    <2>. QED BY <1>2, <1>4, <1>5, <1>10, <2>1, <2>2 DEF Local, AtCell, Between, Helping
  <1>13. ~Builder(t) /\ ~Builder(t)' /\ t \notin Busy /\ t \notin Busy'
    BY <1>2, <1>4, <1>5, <1>10 DEF Builder, Building, Busy
  <1>14. currentRow <= currentRow' /\ {pc[t], pc'[t]} \cap {"idle", "return"} = {}
    <2>1. currentRow <= currentRow'
      BY <1>2, <1>3
    <2>. QED BY <1>4, <1>10, <2>1
  <1>15. CASE pc[t] = "leave"
    <2>1. tableWorkers' = tableWorkers /\ table' = table /\ (y = "acquire" <=> r = 0)
      BY <1>8, <1>15
    <2>2. Types'
      BY <1>2, <1>3, <1>9, <2>1 DEF Types
    <2>3. Use(t)' = Use(t)
      BY <1>1, <1>2, <1>4, <1>5, <1>10, <1>15, <2>1 DEF Use
    <2>4. Still(t)
      BY <1>2, <1>13, <2>1, <2>3 DEF Still, growVars
    <2>5. Used'
      <3>1. Told(t)' = Told(t)
        BY <1>2, <1>14 DEF Told
      <3>2. Told(t) \in Int /\ Used
        BY <1>3, ToldIsANumber DEF HInv
      <3>. QED BY <1>2, <1>3, <1>11, <2>2, <3>1, <3>2, ToldKept
    <2>. QED BY <1>11, <1>12, <2>2, <2>4, <2>5, StillStep
  <1>16. CASE pc[t] = "leave last"
    <2>1. /\ y = "acquire" /\ r \in Rows \ {0}
          /\ tableWorkers' = [tableWorkers EXCEPT ![r] = @ - 1]
          /\ table' = IF tableWorkers'[r] = 0 THEN [table EXCEPT ![r] = <<>>] ELSE table
      BY <1>3, <1>8, <1>16
    <2>2. PICK m, p : m = Cardinality(Users(r)) /\ p = IF Pending(r) THEN 1 ELSE 0
      OBVIOUS
    <2>3. Use(t) = r /\ Use(t)' = 0 /\ table[r] # <<>>
      BY <1>4, <1>7, <1>10, <2>1 DEF Use
    <2>4. \A u \in Threads \ {t} : Use(u)' = Use(u)
      BY <1>11 DEF Apart, Use
    <2>5. t \in Users(r) /\ Users(r)' = Users(r) \ {t}
      BY <2>1, <2>3, <2>4 DEF Users
    <2>6. \A q \in Rows \ {0, r} : Users(q)' = Users(q)
      BY <2>3, <2>4 DEF Users
    <2>7. m \in Nat /\ m # 0 /\ Cardinality(Users(r)') = m - 1 /\ p \in Nat
      <3>1. IsFiniteSet(Users(r)) /\ Cardinality(Users(r)) \in Nat
        BY <1>3, UsersAreFinite
      <3>2. Cardinality(Users(r)') = m - 1
        BY <2>2, <2>5, <3>1, FS_RemoveElement
      <3>3. m # 0
        BY <2>2, <2>5, <3>1, FS_EmptySet
      <3>4. p \in Nat
        BY <2>2
      <3>. QED BY <2>2, <3>1, <3>2, <3>3, <3>4
    <2>8. tableWorkers[r] = m + p
      BY <1>3, <2>1, <2>2 DEF UsersCounted
    <2>9. PICK n : n = m - 1 + p
      OBVIOUS
    <2>10. n \in Nat /\ tableWorkers[r] = n + 1
      BY <2>7, <2>8, <2>9
    <2>11. /\ tableWorkers'[r] = n /\ tableWorkers' \in [Rows -> Nat]
           /\ n > 0 => table'[r] # <<>>
           /\ \A q \in Rows \ {r} : tableWorkers'[q] = tableWorkers[q] /\ table'[q] = table[q]
           /\ DOMAIN table' = Rows
           /\ \A q \in Rows : table'[q] = <<>> \/ table'[q] \in [1 .. Size[q] -> Cells]
      BY <1>3, <2>1, <2>3, <2>10, RowLeft
    <2>12. Types'
      BY <1>2, <1>3, <1>9, <2>11 DEF Types
    <2>13. currentRow \in Rows \ {r}
      BY <1>3, <1>6 DEF Types
    <2>14. /\ OneBuilder' /\ SegmentsCounted'
           /\ \A q : Pending(q)' <=> Pending(q)
           /\ \A u \in Threads : pc'[u] # "workers" <=> pc[u] # "workers"
      BY <1>2, <1>11, <1>13, <2>11, <2>13, Aside
    <2>15. UsersCounted'
      <3>1. tableWorkers'[r] = Cardinality(Users(r)') + (IF Pending(r)' THEN 1 ELSE 0)
        <4>1. p = IF Pending(r)' THEN 1 ELSE 0
          BY <2>2, <2>14
        <4>. QED BY <2>7, <2>9, <2>11, <4>1
      <3>2. (\A u \in Threads : pc'[u] # "workers") => Users(currentRow)' # {}
        <4>1. currentRow # 0
          BY <1>3, <1>6
        <4>2. Users(currentRow)' = Users(currentRow)
          <5>1. Users(currentRow)' = {u \in Threads : Use(u)' = currentRow}
            BY <1>2 DEF Users
          <5>2. \A u \in Threads : Use(u)' = currentRow <=> Use(u) = currentRow
            BY <1>6, <2>3, <2>4, <4>1
          <5>. QED BY <5>1, <5>2 DEF Users
        <4>. QED BY <1>3, <2>14, <4>1, <4>2 DEF UsersCounted
      <3>3. tableWorkers'[r] > 0 => table'[r] # <<>>
        BY <2>11
      <3>4. \A q \in Rows \ {0, r} : Pending(q)' <=> Pending(q)
        BY <2>14
      <3>5. \A q \in Rows \ {r} : tableWorkers'[q] = tableWorkers[q] /\ table'[q] = table[q]
        BY <2>11
      <3>. QED BY <1>2, <1>6, <2>1, <2>6, <3>1, <3>2, <3>3, <3>4, <3>5, CountsStay
    <2>. QED BY <1>2, <1>11, <1>12, <1>14, <2>12, <2>14, <2>15, GrowStep
  <1>. QED BY <1>4, <1>15, <1>16

\* It is counted in the row it has read, if that is still there.
LEMMA AcquireKeeps == ASSUME HInv, NEW t \in Threads, Acquire(t) PROVE HInv'
  <1>. DEFINE y == Start(t)
  <1>1. PICK r : r = row[t]
    OBVIOUS
  <1>2. /\ pc[t] = "acquire" /\ pc' = [pc EXCEPT ![t] = y] /\ tableWorkers[r] > 0
        /\ tableWorkers' = [tableWorkers EXCEPT ![r] = @ + 1]
        /\ tdRow' = [tdRow EXCEPT ![t] = r]
        /\ row' = [row EXCEPT ![t] = 0] /\ position' = [position EXCEPT ![t] = 0]
        /\ segment' = [segment EXCEPT ![t] = 0] /\ ret' = [ret EXCEPT ![t] = "update"]
    BY <1>1 DEF Acquire, Goto, Settle
  <1>3. /\ UNCHANGED <<table, currentRow, growing, availableSegments, doneSegments, used>>
        /\ UNCHANGED <<tdInserts, call, calls, probe, force, moved>>
    BY DEF Acquire, cellVars, callVars
  <1>4. Types /\ Local(t) /\ UsersCounted /\ currentRow \in Nat /\ r \in Rows /\ r \in Nat
    BY <1>1, ReadingTheState DEF HInv
  <1>5. y \in {"usage", "before"} /\ (y = "before" => ~Inserting(t))
    BY DEF Start
  <1>. HIDE DEF y
  <1>6. ~force[t] /\ ret[t] = "update"
    BY <1>2, AtRest DEF AtCell, Helping
  <1>7. r \in Rows \ {0} /\ r <= currentRow
    <2>1. r # 0
      BY <1>2, <1>4 DEF UsersCounted
    <2>2. r <= currentRow
      BY <1>1, <1>4 DEF Local
    <2>. QED BY <1>4, <2>1, <2>2
  <1>8. PICK w : w = tableWorkers[r]
    OBVIOUS
  <1>9. w \in Nat /\ w > 0 /\ tableWorkers' = [tableWorkers EXCEPT ![r] = w + 1]
    BY <1>2, <1>4, <1>8 DEF Types
  <1>10. /\ tableWorkers'[r] = w + 1 /\ tableWorkers' \in [Rows -> Nat]
         /\ \A q \in Rows \ {r} : tableWorkers'[q] = tableWorkers[q]
    BY <1>4, <1>9 DEF Types
  <1>11. Types'
    <2>1. pc' \in [Threads -> Labels]
      <3>1. y \in Labels
        BY <1>5 DEF Labels
      <3>. QED BY <1>2, <1>4, <3>1 DEF Types
    <2>2. /\ tdRow' \in [Threads -> Rows] /\ row' \in [Threads -> Rows]
          /\ position' \in [Threads -> Nat] /\ segment' \in [Threads -> Nat]
          /\ ret' \in [Threads -> {"update", "lock", "grown"}]
      <3>1. 0 \in Rows
        BY SizesAreNumbers
      <3>. QED BY <1>2, <1>4, <3>1 DEF Types
    <2>. QED BY <1>3, <1>4, <1>10, <2>1, <2>2 DEF Types
  <1>12. /\ pc'[t] = y /\ tdRow'[t] = r /\ row'[t] = 0 /\ ret'[t] = "update"
         /\ \A u \in Threads \ {t} : /\ pc'[u] = pc[u] /\ tdRow'[u] = tdRow[u]
                                     /\ row'[u] = row[u] /\ ret'[u] = ret[u]
    BY <1>2, <1>4 DEF Types
  <1>13. Apart(t)
    BY <1>3, <1>12 DEF Apart
  <1>14. Local(t)'
    <2>1. call[t] \in Calls
      BY <1>2, <1>4 DEF Local
    <2>2. Inserting(t)' <=> Inserting(t)
      BY <1>3 DEF Inserting
    <2>3. 0 <= currentRow
      BY <1>4
    <2>. QED BY <1>3, <1>5, <1>6, <1>7, <1>12, <2>1, <2>2, <2>3 DEF Local, AtCell, Between, Helping
  <1>15. ~Builder(t) /\ ~Builder(t)' /\ t \notin Busy /\ t \notin Busy'
    BY <1>2, <1>3, <1>5, <1>6, <1>12 DEF Builder, Building, Busy
  <1>16. currentRow <= currentRow' /\ {pc[t], pc'[t]} \cap {"idle", "return"} = {}
    BY <1>2, <1>3, <1>4, <1>5, <1>12
  <1>17. tableWorkers[currentRow] = 0 => tableWorkers'[currentRow] = 0
    <2>1. ASSUME tableWorkers[currentRow] = 0 PROVE currentRow \in Rows \ {r}
      BY <1>4, <1>8, <1>9, <2>1 DEF Types
    <2>. QED BY <1>10, <2>1
  <1>18. /\ OneBuilder' /\ SegmentsCounted'
         /\ \A q : Pending(q)' <=> Pending(q)
         /\ \A u \in Threads : pc'[u] # "workers" <=> pc[u] # "workers"
    BY <1>3, <1>13, <1>15, <1>17, Aside
  <1>19. Use(t) = 0 /\ Use(t)' = r
    BY <1>2, <1>5, <1>12 DEF Use
  <1>20. \A u \in Threads \ {t} : Use(u)' = Use(u)
    BY <1>13 DEF Apart, Use
  <1>21. UsersCounted'
    <2>1. t \notin Users(r) /\ Users(r)' = Users(r) \cup {t}
      BY <1>7, <1>19, <1>20 DEF Users
    <2>2. \A q \in Rows \ {0, r} : Users(q)' = Users(q)
      BY <1>19, <1>20 DEF Users
    <2>3. PICK m, p : m = Cardinality(Users(r)) /\ p = IF Pending(r) THEN 1 ELSE 0
      OBVIOUS
    <2>4. m \in Nat /\ Cardinality(Users(r)') = m + 1 /\ p \in Nat
      <3>1. IsFiniteSet(Users(r)) /\ Cardinality(Users(r)) \in Nat
        BY <1>4, UsersAreFinite
      <3>2. Cardinality(Users(r)') = m + 1
        BY <2>1, <2>3, <3>1, FS_AddElement
      <3>3. p \in Nat
        BY <2>3
      <3>. QED BY <2>3, <3>1, <3>2, <3>3
    <2>5. w = m + p /\ table[r] # <<>>
      BY <1>4, <1>7, <1>8, <1>9, <2>3 DEF UsersCounted
    <2>6. tableWorkers'[r] = Cardinality(Users(r)') + (IF Pending(r)' THEN 1 ELSE 0)
      <3>1. p = IF Pending(r)' THEN 1 ELSE 0
        BY <1>18, <2>3
      <3>2. w + 1 = (m + 1) + p
        BY <2>4, <2>5
      <3>. QED BY <1>10, <2>4, <3>1, <3>2
    <2>7. (\A u \in Threads : pc'[u] # "workers") => Users(currentRow)' # {}
      <3>1. currentRow # 0
        BY <1>4, <1>7
      <3>2. Users(currentRow)' = {u \in Threads : Use(u)' = currentRow}
        BY <1>3 DEF Users
      <3>3. ASSUME NEW u \in Threads, Use(u) = currentRow PROVE Use(u)' = currentRow
        BY <1>19, <1>20, <3>1, <3>3
      <3>4. (\A u \in Threads : pc'[u] # "workers") => \E u \in Threads : Use(u) = currentRow
        BY <1>4, <1>18, <3>1 DEF UsersCounted, Users
      <3>. QED BY <3>2, <3>3, <3>4
    <2>8. tableWorkers'[r] > 0 => table'[r] # <<>>
      BY <1>3, <2>5
    <2>9. \A q \in Rows \ {r} : tableWorkers'[q] = tableWorkers[q] /\ table'[q] = table[q]
      BY <1>3, <1>10
    <2>10. \A q \in Rows \ {0, r} : Pending(q)' <=> Pending(q)
      BY <1>18
    <2>. QED BY <1>3, <1>7, <2>2, <2>6, <2>7, <2>8, <2>9, <2>10, CountsStay
  <1>. QED BY <1>3, <1>11, <1>13, <1>14, <1>16, <1>18, <1>21, GrowStep

-----------------------------------------------------------------------------
(* The theorems.                                                           *)

LEMMA CreditsAreFinite == /\ IsFiniteSet(Threads \X (1 .. MaxCalls))
                          /\ Cardinality(Threads \X (1 .. MaxCalls)) = MaxCalls * Cardinality(Threads)
                          /\ IsFiniteSet(Credits) /\ Cardinality(Credits) \in Nat
                          /\ Cardinality(Credits) <= MaxCalls * Cardinality(Threads)
  <1>1. IsFiniteSet(1 .. MaxCalls) /\ Cardinality(1 .. MaxCalls) = MaxCalls
    <2>1. IsFiniteSet(1 .. MaxCalls)
          /\ Cardinality(1 .. MaxCalls) = IF 1 > MaxCalls THEN 0 ELSE MaxCalls - 1 + 1
      BY FS_Interval, SizesAreNumbers
    <2>2. PICK m : m = MaxCalls
      OBVIOUS
    <2>3. m \in Nat
      BY <2>2, SizesAreNumbers
    <2>4. (IF 1 > m THEN 0 ELSE m - 1 + 1) = m
      BY <2>3
    <2>. QED BY <2>1, <2>2, <2>4
  <1>2. IsFiniteSet(Threads) /\ Cardinality(Threads) \in Nat
    BY FiniteSets
  <1>3. IsFiniteSet(Threads \X (1 .. MaxCalls))
        /\ Cardinality(Threads \X (1 .. MaxCalls)) = Cardinality(Threads) * Cardinality(1 .. MaxCalls)
    BY <1>1, <1>2, FS_Product
  <1>4. Cardinality(Threads \X (1 .. MaxCalls)) = MaxCalls * Cardinality(Threads)
    <2>1. PICK c, m : c = Cardinality(Threads) /\ m = MaxCalls
      OBVIOUS
    <2>2. c \in Nat /\ m \in Nat
      BY <1>2, <2>1, SizesAreNumbers
    <2>3. c * m = m * c
      BY <2>2
    <2>. QED BY <1>1, <1>3, <2>1, <2>3
  <1>5. Credits \in SUBSET (Threads \X (1 .. MaxCalls))
    BY DEF Credits
  <1>6. IsFiniteSet(Credits) /\ Cardinality(Credits) <= Cardinality(Threads \X (1 .. MaxCalls))
    BY <1>3, <1>5, FS_Subset
  <1>. QED BY <1>3, <1>4, <1>6, FS_CardinalityType

LEMMA InitHInv == Init => HInv
  <1>. SUFFICES ASSUME Init PROVE HInv
    OBVIOUS
  <1>1. 0 \in Rows /\ 0 \in Nat
    BY SizesAreNumbers
  <1>2. Types
    <2>1. /\ 0 \in 0 .. SyncPoint - 1 /\ 0 \in 0 .. MaxCalls /\ 0 \in 0 .. MaxCollisions
          /\ "idle" \in Labels
      BY SizesAreNumbers DEF Labels
    <2>2. DOMAIN table = Rows /\ \A r \in Rows : table[r] = <<>>
      <3>1. table = [r \in Rows |-> <<>>]
        BY DEF Init
      <3>. QED BY <3>1
    <2>3. /\ tableWorkers \in [Rows -> Nat] /\ currentRow \in Rows /\ growing \in BOOLEAN
          /\ availableSegments \in Int /\ doneSegments \in Nat
      <3>1. tableWorkers \in [Rows -> Nat]
        BY <1>1 DEF Init
      <3>2. growing \in BOOLEAN
        BY Zenon DEF Init
      <3>3. currentRow \in Rows /\ availableSegments \in Int /\ doneSegments \in Nat
        BY <1>1 DEF Init
      <3>. QED BY <3>1, <3>2, <3>3
    <2>4. /\ tdRow \in [Threads -> Rows] /\ tdInserts \in [Threads -> 0 .. SyncPoint - 1]
          /\ call \in [Threads -> Calls \cup {NoCall}] /\ calls \in [Threads -> 0 .. MaxCalls]
          /\ probe \in [Threads -> 0 .. MaxCollisions] /\ force \in [Threads -> BOOLEAN]
      BY <1>1, <2>1 DEF Init
    <2>5. /\ moved \in [Threads -> Values \cup {NoValue}]
          /\ position \in [Threads -> Nat] /\ segment \in [Threads -> Nat]
          /\ row \in [Threads -> Rows] /\ ret \in [Threads -> {"update", "lock", "grown"}]
          /\ pc \in [Threads -> Labels]
      BY <1>1, <2>1 DEF Init
    <2>. QED BY <2>2, <2>3, <2>4, <2>5 DEF Types
  <1>3. \A t \in Threads : /\ pc[t] = "idle" /\ ret[t] = "update" /\ ~force[t]
                           /\ tdRow[t] = 0 /\ row[t] = 0 /\ calls[t] = 0 /\ tdInserts[t] = 0
    BY DEF Init
  <1>4. currentRow = 0 /\ growing = FALSE /\ used = 0 /\ availableSegments = 0
    BY DEF Init
  <1>5. \A t \in Threads : Local(t)
    <2>1. 0 <= 0 /\ ~(0 < 0)
      OBVIOUS
    <2>2. ASSUME NEW t \in Threads PROVE Local(t)
      <3>1. /\ pc[t] = "idle" /\ ret[t] = "update" /\ ~force[t]
            /\ tdRow[t] <= currentRow /\ row[t] <= currentRow
        BY <1>3, <1>4, <2>1
      <3>. QED BY <3>1 DEF Local, AtCell, Between, Helping
    <2>. QED BY <2>2
  <1>6. \A t \in Threads : ~Builder(t)
    BY <1>3 DEF Builder, Building
  <1>7. OneBuilder
    BY <1>3, <1>6 DEF OneBuilder
  <1>8. SegmentsCounted
    <2>1. Busy = {} /\ ~Moving
      BY <1>3, <1>4 DEF Busy, Moving
    <2>. QED BY <1>4, <2>1 DEF SegmentsCounted
  <1>9. UsersCounted
    <2>1. ASSUME NEW r \in Rows \ {0} PROVE Cardinality(Users(r)) = 0
      <3>1. Users(r) = {}
        BY <1>3 DEF Users, Use
      <3>. QED BY <3>1, FS_EmptySet
    <2>2. \A r : ~Pending(r)
      BY <1>4 DEF Pending
    <2>3. \A r \in Rows : tableWorkers[r] = 0 /\ table[r] = <<>>
      BY DEF Init
    <2>. QED BY <1>1, <1>4, <2>1, <2>2, <2>3 DEF UsersCounted
  <1>10. Used
    <2>1. \A t \in Threads : Told(t) = 0
      BY <1>3 DEF Told
    <2>2. PICK c : c = Cardinality(Credits)
      OBVIOUS
    <2>3. c \in Nat
      BY <2>2, CreditsAreFinite
    <2>4. 0 <= c /\ 0 \in Nat
      BY <2>3
    <2>. QED BY <1>4, <2>1, <2>2, <2>4 DEF Used
  <1>. QED BY <1>2, <1>5, <1>7, <1>8, <1>9, <1>10 DEF HInv

LEMMA StutterKeeps == HInv /\ UNCHANGED vars => HInv'
  <1>. SUFFICES ASSUME HInv, UNCHANGED vars PROVE HInv'
    OBVIOUS
  <1>1. /\ UNCHANGED <<table, tableWorkers, currentRow, growing, availableSegments, doneSegments>>
        /\ UNCHANGED <<used, tdRow, tdInserts, call, calls, probe, force, moved, position,
                       segment, row, ret, pc>>
    BY DEF vars, cellVars, growVars, tdVars, callVars, moveVars
  <1>2. Types' /\ OneBuilder' /\ SegmentsCounted'
    BY <1>1 DEF HInv, Types, OneBuilder, SegmentsCounted, Builder, Busy, Moving, Left, Segments
  <1>3. UsersCounted'
    BY <1>1 DEF HInv, UsersCounted, Users, Use, Pending
  <1>4. Used'
    BY <1>1 DEF HInv, Used, Credits, Told
  <1>5. ASSUME NEW t \in Threads PROVE Local(t)'
    <2>1. Local(t)
      BY DEF HInv
    <2>2. Inserting(t)' <=> Inserting(t)
      BY <1>1 DEF Inserting
    <2>3. /\ pc'[t] = pc[t] /\ call'[t] = call[t] /\ probe'[t] = probe[t]
          /\ force'[t] = force[t] /\ moved'[t] = moved[t] /\ ret'[t] = ret[t]
          /\ row'[t] = row[t] /\ tdRow'[t] = tdRow[t] /\ currentRow' = currentRow
      BY <1>1
    <2>4. /\ pc'[t] # "idle" => call'[t] \in Calls
          /\ pc'[t] \in AtCell \cup Between => probe'[t] < MaxCollisions
          /\ force'[t] => pc'[t] \in AtCell \cup {"error"} /\ moved'[t] \in Values
          /\ ret'[t] = "grown" => force'[t] \/ pc'[t] \in Helping \cup {"segments", "grown"}
          /\ ret'[t] = "lock" => force'[t] \/ pc'[t] \in Helping \cup {"lock", "help"}
          /\ pc'[t] \in {"segments", "grown"} => ret'[t] = "grown"
      BY <2>1, <2>3 DEF Local
    <2>5. /\ pc'[t] \in {"release", "release last", "ungrow"} /\ row'[t] = 1 => ret'[t] = "grown"
          /\ pc'[t] \in {"release", "release last", "ungrow"} => row'[t] # 0
          /\ pc'[t] \in {"lock", "locked", "workers"} \/ ret'[t] # "update" => tdRow'[t] # LastRow
          /\ tdRow'[t] <= currentRow' /\ row'[t] <= currentRow'
          /\ ret'[t] = "grown" => tdRow'[t] < currentRow'
      BY <2>1, <2>3 DEF Local
    <2>6. /\ pc'[t] \in {"leave", "leave last"} => tdRow'[t] < row'[t]
          /\ pc'[t] = "leave last" => tdRow'[t] # 0
          /\ ~force'[t] /\ pc'[t] \in AtCell \cup Between => tdRow'[t] # 0
          /\ pc'[t] \in {"before", "before growing"} /\ Inserting(t)' => tdRow'[t] # 0
      BY <2>1, <2>2, <2>3 DEF Local
    <2>. QED BY <2>4, <2>5, <2>6 DEF Local
  <1>. QED BY <1>2, <1>3, <1>4, <1>5 DEF HInv

LEMMA StepKeeps == ASSUME HInv, NEW t \in Threads, Step(t) PROVE HInv'
  <1>1. CASE Return(t) \/ Usage(t) \/ ChangedRow(t) \/ ChangedGrowing(t) \/ BeginProbing(t)
    BY <1>1, ReturnKeeps, UsageKeeps, ChangedRowKeeps, ChangedGrowingKeeps, BeginProbingKeeps
  <1>2. CASE Probing(t) \/ LookAtCell(t) \/ TryStore(t) \/ LoseCell(t) \/ Write(t) \/ Count(t)
    BY <1>2, ProbingKeeps, LookAtCellKeeps, TryStoreKeeps, LoseCellKeeps, WriteKeeps, CountKeeps
  <1>3. CASE Is(t) \/ Wait(t) \/ IsInvalid(t) \/ NextCell(t)
    BY <1>3, IsKeeps, WaitKeeps, IsInvalidKeeps, NextCellKeeps
  <1>4. CASE Grow(t) \/ TakeGrowing(t) \/ GrownAlready(t) \/ NewRow(t) \/ Workers(t)
    BY <1>4, GrowKeeps, TakeGrowingKeeps, GrownAlreadyKeeps, NewRowKeeps, WorkersKeeps
  <1>5. CASE OpenSegments(t) \/ Grown(t) \/ TrySegment(t) \/ TakeSegment(t) \/ Invalidate(t)
    BY <1>5, OpenSegmentsKeeps, GrownKeeps, TrySegmentKeeps, TakeSegmentKeeps, InvalidateKeeps
  <1>6. CASE SegmentDone(t) \/ DoneRehashing(t) \/ Help(t) \/ Update(t)
    BY <1>6, SegmentDoneKeeps, DoneRehashingKeeps, HelpKeeps, UpdateKeeps
  <1>7. CASE ReleaseOld(t) \/ ReleaseMine(t) \/ Acquire(t) \/ AcquireAgain(t)
    BY <1>7, ReleaseOldKeeps, ReleaseMineKeeps, AcquireKeeps, AcquireAgainKeeps
  <1>. QED BY <1>1, <1>2, <1>3, <1>4, <1>5, <1>6, <1>7 DEF Step

LEMMA NextKeeps == HInv /\ [Next]_vars => HInv'
  <1>. SUFFICES ASSUME HInv, [Next]_vars PROVE HInv'
    OBVIOUS
  <1>1. CASE UNCHANGED vars
    BY <1>1, StutterKeeps
  <1>2. ASSUME NEW t \in Threads, Step(t) PROVE HInv'
    BY <1>2, StepKeeps
  <1>3. ASSUME NEW t \in Threads, NEW op \in {"insert", "find"}, NEW v \in Values, Call(t, op, v)
        PROVE  HInv'
    BY <1>3, CallKeeps
  <1>. QED BY <1>1, <1>2, <1>3 DEF Next, Done

LEMMA Invariance == Spec => []HInv
  BY InitHInv, NextKeeps, PTL DEF Spec

\* What a row that is there holds.
LEMMA CellsAreTyped ==
  ASSUME NEW c \in Cells
  PROVE  c \in {Free, Invalid} \/ \E v \in Values : c \in {Cell("locked", v), Cell("valid", v)}
  BY DEF Cells

LEMMA TypesHold == HInv => TypeOK
  <1>. SUFFICES ASSUME HInv PROVE TypeOK
    OBVIOUS
  <1>1. Types /\ UsersCounted /\ Used
    BY DEF HInv
  <1>2. ASSUME NEW r \in Rows
        PROVE  /\ Len(table[r]) \in {0, Size[r]}
               /\ \A i \in DOMAIN table[r] :
                    \/ table[r][i] \in {Free, Invalid}
                    \/ \E v \in Values : table[r][i] \in {Cell("locked", v), Cell("valid", v)}
    <2>1. CASE table[r] = <<>>
      BY <2>1, NoRowIsEmpty
    <2>2. CASE table[r] \in [1 .. Size[r] -> Cells]
      <3>1. Size[r] \in Nat \ {0}
        BY SizesAreNumbers
      <3>2. PICK n, f : n = Size[r] /\ f = table[r]
        OBVIOUS
      <3>3. n \in Nat \ {0} /\ f \in [1 .. n -> Cells]
        BY <2>2, <3>1, <3>2
      <3>4. Len(f) = n
        BY <3>3, RowIsThere
      <3>5. \A i \in DOMAIN f : f[i] \in Cells
        BY <3>3
      <3>. QED BY <3>2, <3>4, <3>5, CellsAreTyped
    <2>. QED BY <1>1, <2>1, <2>2 DEF Types
  <1>3. tableWorkers \in [Rows -> 0 .. Cardinality(Threads) + 1]
    <2>1. ASSUME NEW r \in Rows PROVE tableWorkers[r] \in 0 .. Cardinality(Threads) + 1
      <3>1. PICK c, u, p : c = Cardinality(Threads) /\ u = Cardinality(Users(r))
                           /\ p = IF Pending(r) THEN 1 ELSE 0
        OBVIOUS
      <3>2. c \in Nat /\ u \in Nat /\ u <= c /\ p \in {0, 1}
        <4>1. IsFiniteSet(Threads) /\ Cardinality(Threads) \in Nat
          BY FiniteSets
        <4>2. Users(r) \in SUBSET Threads /\ Cardinality(Users(r)) \in Nat
          BY UsersAreFinite
        <4>3. Cardinality(Users(r)) <= Cardinality(Threads)
          BY <4>1, <4>2, FS_Subset
        <4>. QED BY <3>1, <4>1, <4>2, <4>3
      <3>3. tableWorkers[r] = 0 \/ tableWorkers[r] = u + p
        BY <1>1, <3>1 DEF UsersCounted
      <3>4. 0 \in 0 .. c + 1 /\ u + p \in 0 .. c + 1
        BY <3>2
      <3>. QED BY <3>1, <3>3, <3>4
    <2>. QED BY <1>1, <2>1 DEF Types
  <1>4. used \in 0 .. MaxCalls * Cardinality(Threads)
    <2>1. PICK c, m, n : c = Cardinality(Credits) /\ m = MaxCalls * Cardinality(Threads) /\ n = used
      OBVIOUS
    <2>2. c \in Nat /\ c <= m /\ n \in Nat /\ n <= c
      BY <1>1, <2>1, CreditsAreFinite DEF Used
    <2>3. m \in Nat
      <3>1. PICK k, l : k = MaxCalls /\ l = Cardinality(Threads)
        OBVIOUS
      <3>2. k \in Nat /\ l \in Nat
        BY <3>1, FiniteSets, SizesAreNumbers
      <3>3. k * l \in Nat
        BY <3>2
      <3>. QED BY <2>1, <3>1, <3>3
    <2>4. n \in 0 .. m
      BY <2>2, <2>3
    <2>. QED BY <2>1, <2>4
  <1>. QED BY <1>1, <1>2, <1>3, <1>4 DEF TypeOK, Types

\* The variables keep their types: a row has all its cells or none, no more
\* threads than there are are counted in a row, with the one that has left it
\* while it grew, and `used' counts no insertion that was not made.
THEOREM TypesKept == Spec => []TypeOK
  BY Invariance, TypesHold, PTL

\* The row of a thread is not freed until the thread has left it, or has made
\* the next (bricks/brick-hashset.h:834-856): every other thread that uses it
\* is counted, and so is the one that made the next, until the last segment
\* has been moved.
THEOREM RowsKept == Spec => []RowsAreKept
  BY Invariance, RowsThere, PTL

\* No thread looks at a cell, stores in one or moves one of a row that has been
\* freed or is not there yet.
THEOREM NoFreedCells == Spec => []CellsAreThere
  BY Invariance, CellsThere, PTL
-----------------------------------------------------------------------------
(* Where the values are.                                                   *)

\* The cells that are probed for a value, the first of them d away at most.
Place(r, v, d) == 1 + ((Hash[v] + d) % Size[r])
Visible(r, v, d) == \A j \in 0 .. d : table[r][Place(r, v, j)].flag # "free"

\* A row from which every cell has been moved.
Cleared(r) == \A i \in DOMAIN table[r] : table[r][i] = Invalid

\* The cells of the row before the current one are moved, or about to be.
Shifting == Moving \/ \E t \in Threads : pc[t] \in {"workers", "segments"}

\* A call probes the row of its thread, and has seen the cells before this one.
Searching(t) == ~force[t] /\ pc[t] \in (AtCell \ {"write"}) \cup Between
SeenTo(t) == IF pc[t] \in {"after growing", "next"} THEN probe[t] + 1 ELSE probe[t]
Wanted(t) == Inserting(t) \/ ~call[t].absent

\* Each call answers once, and what a search may not miss stays where it can be found.
Answers(t) ==
  /\ pc[t] = "idle" => call[t] = NoCall
  /\ pc[t] \in {"return", "count"} \/ (pc[t] = "write" /\ ~force[t]) => call[t].answer # "none"
  /\ pc[t] \notin {"idle", "return", "count"} /\ (pc[t] = "write" => force[t])
       => call[t].answer = "none"
  /\ ~force[t] /\ pc[t] \in {"store", "lost", "lost growing", "after", "after growing"}
       => Inserting(t)
  /\ ~force[t] /\ pc[t] \in {"head", "head growing", "invalid", "next"} => ~Inserting(t)
  /\ pc[t] \notin {"idle", "return"} /\ ~Inserting(t)
       => call[t].absent \/ call[t].value \in Contents
  /\ pc[t] = "before growing" /\ tdRow[t] = 0 => Inserting(t) \/ call[t].absent
  /\ ~force[t] => moved[t] = NoValue

\* What the thread has seen of the row it probes: other values, whose cells stay taken.
Missing(r, v, n) == \A j \in 0 .. n - 1 : table[r][Place(r, v, j)].value # v
Passed(t) ==
  pc[t] \in AtCell \cup Between =>
    /\ Visible(Row(t), Value(t), SeenTo(t) - 1)
    /\ ~force[t] => Missing(Row(t), Value(t), SeenTo(t))
    /\ pc[t] \in {"is", "wait", "lost", "lost growing", "after", "invalid"}
         => Probed(t).flag # "free"
    /\ pc[t] \in {"after", "invalid"} => Probed(t).value # Value(t)
    /\ pc[t] = "write" => Probed(t) = Cell("locked", Value(t))

OneWriter ==
  \A t, u \in Threads :
    pc[t] = "write" /\ pc[u] = "write" /\ Row(t) = Row(u) /\ Index(t) = Index(u) => t = u

\* A value is where its probing comes to before it comes to a free cell.
Reached(r, i) == \E d \in 0 .. MaxCollisions - 1 :
                   i = Place(r, table[r][i].value, d) /\ Visible(r, table[r][i].value, d)
Reachable ==
  \A r \in Rows : \A i \in DOMAIN table[r] : table[r][i].value # NoValue => Reached(r, i)

\* A value has left the row, for one of the next or for the hands of a thread.
Gone(r, v) == \/ \E q \in Rows : q > r /\ \E i \in DOMAIN table[q] : table[q][i].value = v
              \/ r < currentRow /\ \E u \in Threads : moved[u] = v

\* Its cell is still there, and whoever probes the row has yet to come to it.
Trace(r, v, n) == \E d \in 0 .. MaxCollisions - 1 :
                    n <= d /\ Visible(r, v, d) /\ table[r][Place(r, v, d)] = Invalid
Traced(t) ==
  Searching(t) /\ Wanted(t) /\ Gone(tdRow[t], call[t].value) =>
    \/ Inserting(t) /\ Cleared(tdRow[t])
    \/ Trace(tdRow[t], call[t].value, SeenTo(t))

\* The old rows hold nothing, but for the one whose cells are moved: those that are
\* left are in a segment that is open, or ahead of the thread that moves the segment.
Ahead(t, c) == position[t] <= c /\ c < SegmentEnd(t)
Later == \A r \in Rows : r > currentRow => table[r] = <<>>
Earlier == \A r \in Rows : r < currentRow /\ (r = currentRow - 1 => ~Shifting) => Cleared(r)
Covered == Moving => \A c \in 0 .. Size[currentRow - 1] - 1 :
                       \/ table[currentRow - 1][c + 1] = Invalid
                       \/ c < SegmentSize * availableSegments
                       \/ \E t \in Busy : Ahead(t, c)
TakenOut == \A t \in Threads : force[t] => /\ position[t] < SegmentEnd(t)
                                         /\ table[currentRow - 1][position[t] + 1] = Invalid
Settled == \A t \in Threads : Searching(t) /\ tdRow[t] = currentRow => ~Shifting

SInv == /\ OneWriter /\ Reachable
        /\ Later /\ Earlier /\ Covered /\ TakenOut /\ Settled
        /\ \A t \in Threads : Answers(t) /\ Passed(t) /\ Traced(t)

-----------------------------------------------------------------------------
(* What the cells may become.                                              *)

LEMMA CellKinds ==
  ASSUME NEW c \in Cells
  PROVE  /\ c.flag \in {"free", "locked", "valid", "invalid"}
         /\ c.value \in Values \cup {NoValue} /\ NoValue \notin Values
         /\ c.flag = "free" <=> c = Free
         /\ c.flag = "invalid" <=> c = Invalid
         /\ c.flag \in {"locked", "valid"} <=> c.value \in Values
         /\ c.flag \in {"locked", "valid"} => c = Cell(c.flag, c.value)
  <1>1. NoValue \notin Values
    BY HashSetAssumption
  <1>2. CASE c \in {Free, Invalid}
    BY <1>1, <1>2 DEF Free, Invalid, Cell
  <1>3. CASE c \notin {Free, Invalid}
    <2>1. PICK f \in {"locked", "valid"}, v \in Values : c = Cell(f, v)
      BY <1>3 DEF Cells
    <2>2. c = [flag |-> f, value |-> v]
      BY <2>1 DEF Cell
    <2>3. c.flag = f /\ c.value = v
      BY <2>2
    <2>. QED BY <1>1, <1>3, <2>1, <2>3 DEF Cell, Free, Invalid
  <1>. QED BY <1>2, <1>3

LEMMA NewCells ==
  /\ Free \in Cells /\ Invalid \in Cells
  /\ \A v \in Values : Cell("locked", v) \in Cells /\ Cell("valid", v) \in Cells
  /\ \A v : /\ Cell("locked", v).flag = "locked" /\ Cell("locked", v).value = v
            /\ Cell("valid", v).flag = "valid" /\ Cell("valid", v).value = v
            /\ Cell("locked", v) # Invalid /\ Cell("valid", v) # Cell("locked", v)
  /\ Free.flag = "free" /\ Free.value = NoValue
  /\ Invalid.flag = "invalid" /\ Invalid.value = NoValue
  <1>1. Free \in Cells /\ Invalid \in Cells
        /\ \A v \in Values : Cell("locked", v) \in Cells /\ Cell("valid", v) \in Cells
    BY DEF Cells
  <1>2. ASSUME NEW v
        PROVE  /\ Cell("locked", v).flag = "locked" /\ Cell("locked", v).value = v
               /\ Cell("valid", v).flag = "valid" /\ Cell("valid", v).value = v
    BY DEF Cell
  <1>3. Free.flag = "free" /\ Free.value = NoValue
        /\ Invalid.flag = "invalid" /\ Invalid.value = NoValue
    BY DEF Free, Invalid, Cell
  <1>. QED BY <1>1, <1>2, <1>3

\* A free cell is taken, a locked one unlocked, and any that is not locked invalidated.
Becomes(c, d) == \/ d = c
                 \/ c.flag = "free" /\ d.flag # "free"
                 \/ c.flag = "locked" /\ d = Cell("valid", c.value)
                 \/ c.flag # "locked" /\ d = Invalid

LEMMA BecomesWhat ==
  ASSUME NEW c \in Cells, NEW d \in Cells, Becomes(c, d)
  PROVE  /\ c.flag # "free" => d.flag # "free"
         /\ \A v \in Values : c.flag # "free" /\ c.value # v => d.value # v
         /\ c = Invalid => d = Invalid
         /\ c.flag # "free" /\ d.value # NoValue => d.value = c.value
  <1>1. /\ c.flag = "free" <=> c = Free
        /\ c.flag = "invalid" <=> c = Invalid
        /\ c.flag \in {"free", "locked", "valid", "invalid"}
        /\ NoValue \notin Values
    BY CellKinds
  <1>2. Invalid.flag = "invalid" /\ Invalid.value = NoValue
    BY NewCells
  <1>3. Cell("valid", c.value).flag = "valid" /\ Cell("valid", c.value).value = c.value
    BY NewCells
  <1>4. CASE d = c
    BY <1>4
  <1>5. CASE c.flag = "free" /\ d.flag # "free"
    BY <1>1, <1>2, <1>5
  <1>6. CASE c.flag = "locked" /\ d = Cell("valid", c.value)
    BY <1>1, <1>2, <1>3, <1>6
  <1>7. CASE c.flag # "locked" /\ d = Invalid
    BY <1>1, <1>2, <1>7
  <1>. QED BY <1>4, <1>5, <1>6, <1>7 DEF Becomes

\* The cells of a row that stays.
Grows(r) ==
  /\ DOMAIN table'[r] = DOMAIN table[r]
  /\ \A i \in DOMAIN table[r] : Becomes(table[r][i], table'[r][i])

LEMMA RowCells ==
  ASSUME HInv, NEW r \in Rows
  PROVE  /\ table[r] # <<>> => /\ table[r] \in [1 .. Size[r] -> Cells]
                               /\ DOMAIN table[r] = 1 .. Size[r]
         /\ table[r] = <<>> => DOMAIN table[r] = {}
         /\ \A i \in DOMAIN table[r] : table[r][i] \in Cells /\ i \in 1 .. Size[r] /\ table[r] # <<>>
  <1>1. table[r] = <<>> \/ table[r] \in [1 .. Size[r] -> Cells]
    BY DEF HInv, Types
  <1>2. DOMAIN <<>> = {}
    BY NoRowIsEmpty
  <1>3. CASE table[r] = <<>>
    BY <1>2, <1>3
  <1>4. CASE table[r] # <<>>
    BY <1>1, <1>4
  <1>. QED BY <1>3, <1>4

LEMMA PlaceIsThere ==
  ASSUME NEW r \in Rows, NEW v \in Values, NEW d \in Nat
  PROVE  Place(r, v, d) \in 1 .. Size[r]
  <1>1. PICK h, n : h = Hash[v] /\ n = Size[r]
    OBVIOUS
  <1>2. h \in Nat /\ n \in Nat \ {0}
    BY <1>1, HashSetAssumption, SizesAreNumbers
  <1>3. h + d \in Nat
    BY <1>2
  <1>4. (h + d) % n \in 0 .. n - 1
    BY <1>2, <1>3
  <1>5. 1 + ((h + d) % n) \in 1 .. n
    BY <1>2, <1>4
  <1>. QED BY <1>1, <1>5 DEF Place

LEMMA SeenToIs ==
  ASSUME NEW t \in Threads, probe[t] \in Nat
  PROVE  /\ SeenTo(t) \in Nat
         /\ pc[t] \in {"after growing", "next"} => SeenTo(t) = probe[t] + 1
         /\ pc[t] \notin {"after growing", "next"} => SeenTo(t) = probe[t]
  <1>1. PICK p, b : p = probe[t] /\ b = pc[t]
    OBVIOUS
  <1>2. SeenTo(t) = IF b \in {"after growing", "next"} THEN p + 1 ELSE p
    BY <1>1 DEF SeenTo
  <1>3. p \in Nat /\ p + 1 \in Nat
    BY <1>1
  <1>. QED BY <1>1, <1>2, <1>3

\* What a thread that probes looks at.
LEMMA IndexIsPlace ==
  ASSUME NEW t \in Threads
  PROVE  /\ Index(t) = Place(Row(t), Value(t), probe[t])
         /\ Probed(t) = table[Row(t)][Index(t)]
  BY DEF Index, Place, Probed

LEMMA SearchingRow ==
  ASSUME HInv, NEW t \in Threads, Searching(t)
  PROVE  /\ Row(t) = tdRow[t] /\ Value(t) = call[t].value /\ call[t].value \in Values
         /\ tdRow[t] \in Rows /\ tdRow[t] # 0 /\ table[tdRow[t]] # <<>>
         /\ tdRow[t] <= currentRow /\ probe[t] \in Nat /\ probe[t] < MaxCollisions
         /\ SeenTo(t) \in Nat
         /\ call[t] \in Calls /\ pc[t] \in AtCell \cup Between /\ ~force[t]
  <1>1. ~force[t] /\ pc[t] \in AtCell \cup Between
    BY DEF Searching
  <1>2. Row(t) = tdRow[t] /\ Value(t) = call[t].value
    BY <1>1 DEF Row, Value
  <1>3. call[t] \in Calls
    BY <1>1 DEF HInv, Local, AtCell, Between
  <1>4. call[t].value \in Values
    BY <1>3 DEF Calls
  <1>5. tdRow[t] # 0 /\ tdRow[t] \in Rows /\ tdRow[t] <= currentRow /\ probe[t] < MaxCollisions
        /\ probe[t] \in Nat
    BY <1>1, ReadingTheState DEF Local
  <1>6. ret[t] # "grown" /\ pc[t] \notin {"acquire", "reread"}
    BY <1>1 DEF HInv, Local, AtCell, Between, Helping
  <1>7. table[tdRow[t]] # <<>>
    BY <1>5, <1>6, OwnRowIsThere
  <1>8. SeenTo(t) \in Nat
    BY <1>5, SeenToIs
  <1>. QED BY <1>1, <1>2, <1>3, <1>4, <1>5, <1>7, <1>8

\* Of any thread at a cell, whether it searches or moves a value.
LEMMA LookingRow ==
  ASSUME HInv, NEW t \in Threads, pc[t] \in AtCell \cup Between
  PROVE  /\ Row(t) \in Rows /\ table[Row(t)] # <<>> /\ Value(t) \in Values
         /\ probe[t] \in Nat /\ probe[t] < MaxCollisions /\ SeenTo(t) \in Nat
         /\ table[Row(t)] \in [1 .. Size[Row(t)] -> Cells]
         /\ \A j \in Nat : Place(Row(t), Value(t), j) \in 1 .. Size[Row(t)]
         /\ Probed(t) = table[Row(t)][Place(Row(t), Value(t), probe[t])]
         /\ Probed(t) \in Cells
  <1>1. Row(t) \in Rows /\ table[Row(t)] # <<>> /\ Value(t) \in Values
    <2>1. CASE pc[t] \in AtCell
      BY <2>1, CellIsThere
    <2>2. CASE pc[t] \notin AtCell
      <3>1. Searching(t)
        <4>1. pc[t] # "error" /\ pc[t] \in Between
          BY <2>2 DEF Between
        <4>2. ~force[t]
          BY <2>2, <4>1 DEF HInv, Local
        <4>. QED BY <4>1, <4>2 DEF Searching
      <3>. QED BY <3>1, SearchingRow
    <2>. QED BY <2>1, <2>2
  <1>2. probe[t] \in Nat /\ probe[t] < MaxCollisions
    BY ReadingTheState DEF Local
  <1>3. SeenTo(t) \in Nat
    BY <1>2, SeenToIs
  <1>4. table[Row(t)] \in [1 .. Size[Row(t)] -> Cells]
    BY <1>1, RowCells
  <1>5. \A j \in Nat : Place(Row(t), Value(t), j) \in 1 .. Size[Row(t)]
    BY <1>1, PlaceIsThere
  <1>6. Probed(t) = table[Row(t)][Place(Row(t), Value(t), probe[t])]
    BY IndexIsPlace
  <1>. QED BY <1>1, <1>2, <1>3, <1>4, <1>5, <1>6

-----------------------------------------------------------------------------
(* What a step of one thread leaves to the others.                         *)

\* What a thread knows is not changed.
Rests(u) ==
  /\ pc'[u] = pc[u] /\ tdRow'[u] = tdRow[u] /\ row'[u] = row[u]
  /\ force'[u] = force[u] /\ moved'[u] = moved[u] /\ probe'[u] = probe[u] /\ call'[u] = call[u]

LEMMA OthersRest ==
  ASSUME NEW t \in Threads, Apart(t), NEW u \in Threads \ {t}
  PROVE  Rests(u)
  BY DEF Apart, Rests

LEMMA RestsWhat ==
  ASSUME NEW u \in Threads, Rests(u)
  PROVE  /\ Row(u)' = Row(u) /\ Value(u)' = Value(u) /\ SeenTo(u)' = SeenTo(u)
         /\ Searching(u)' <=> Searching(u)
         /\ Inserting(u)' <=> Inserting(u)
         /\ Wanted(u)' <=> Wanted(u)
         /\ Index(u)' = Index(u)
  <1>1. Row(u)' = Row(u)
    BY DEF Rests, Row
  <1>2. Value(u)' = Value(u)
    BY DEF Rests, Value
  <1>3. SeenTo(u)' = SeenTo(u)
    BY DEF Rests, SeenTo
  <1>4. Searching(u)' <=> Searching(u)
    BY DEF Rests, Searching
  <1>5. Inserting(u)' <=> Inserting(u)
    BY DEF Rests, Inserting
  <1>6. Wanted(u)' <=> Wanted(u)
    BY <1>5 DEF Rests, Wanted
  <1>7. Index(u)' = Index(u)
    BY <1>1, <1>2 DEF Rests, Index
  <1>. QED BY <1>1, <1>2, <1>3, <1>4, <1>5, <1>6, <1>7

RowsTyped == \A r \in Rows : \A k \in DOMAIN table[r] : table[r][k] \in Cells

LEMMA CellsTyped == HInv => RowsTyped
  BY RowCells DEF RowsTyped

LEMMA BecomesThere ==
  ASSUME HInv, HInv', NEW r \in Rows, table[r] # <<>>, Grows(r), NEW i \in 1 .. Size[r]
  PROVE  /\ table[r][i] \in Cells /\ table'[r][i] \in Cells /\ Becomes(table[r][i], table'[r][i])
         /\ i \in DOMAIN table[r] /\ i \in DOMAIN table'[r]
  <1>1. DOMAIN table[r] = 1 .. Size[r] /\ \A k \in DOMAIN table[r] : table[r][k] \in Cells
    BY RowCells
  <1>2. DOMAIN table'[r] = 1 .. Size[r] /\ Becomes(table[r][i], table'[r][i])
    BY <1>1 DEF Grows
  <1>3. \A k \in DOMAIN table'[r] : table'[r][k] \in Cells
    <2>1. (HInv => RowsTyped)'
      BY CellsTyped, PTL
    <2>. QED BY <2>1 DEF RowsTyped
  <1>. QED BY <1>1, <1>2, <1>3

LEMMA VisibleStays ==
  ASSUME HInv, HInv', NEW r \in Rows, table[r] # <<>>, Grows(r), NEW v \in Values,
         NEW d \in Int, Visible(r, v, d)
  PROVE  Visible(r, v, d)'
  <1>1. ASSUME NEW j \in 0 .. d PROVE table'[r][Place(r, v, j)].flag # "free"
    <2>1. PICK i : i = Place(r, v, j)
      OBVIOUS
    <2>2. j \in Nat
      OBVIOUS
    <2>3. i \in 1 .. Size[r]
      BY <2>1, <2>2, PlaceIsThere
    <2>4. table[r][i].flag # "free"
      BY <2>1 DEF Visible
    <2>. QED BY <2>1, <2>3, <2>4, BecomesThere, BecomesWhat
  <1>. QED BY <1>1 DEF Visible, Place

LEMMA MissingStays ==
  ASSUME HInv, HInv', NEW r \in Rows, table[r] # <<>>, Grows(r), NEW v \in Values,
         NEW n \in Int, Visible(r, v, n - 1), Missing(r, v, n)
  PROVE  Missing(r, v, n)'
  <1>1. ASSUME NEW j \in 0 .. n - 1 PROVE table'[r][Place(r, v, j)].value # v
    <2>1. PICK i : i = Place(r, v, j)
      OBVIOUS
    <2>2. j \in Nat
      OBVIOUS
    <2>3. i \in 1 .. Size[r]
      BY <2>1, <2>2, PlaceIsThere
    <2>4. table[r][i].flag # "free" /\ table[r][i].value # v
      BY <2>1 DEF Visible, Missing
    <2>5. table[r][i] \in Cells /\ table'[r][i] \in Cells /\ Becomes(table[r][i], table'[r][i])
      BY <2>3, BecomesThere
    <2>6. table'[r][i].value # v
      BY <2>4, <2>5, BecomesWhat
    <2>. QED BY <2>1, <2>6
  <1>. QED BY <1>1 DEF Missing, Place

LEMMA PassedStays ==
  ASSUME HInv, HInv', NEW u \in Threads, Rests(u), Passed(u),
         pc[u] \in AtCell \cup Between => Grows(Row(u)),
         pc[u] = "write" => Probed(u)' = Probed(u)
  PROVE  Passed(u)'
  <1>1. CASE pc[u] \notin AtCell \cup Between
    BY <1>1 DEF Rests, Passed
  <1>2. CASE pc[u] \in AtCell \cup Between
    <2>1. PICK r, v, n, i : r = Row(u) /\ v = Value(u) /\ n = SeenTo(u) /\ i = Index(u)
      OBVIOUS
    <2>2. Row(u)' = r /\ Value(u)' = v /\ SeenTo(u)' = n /\ Index(u)' = i
      BY <2>1, RestsWhat DEF Rests
    <2>3. r \in Rows /\ v \in Values /\ n \in Nat /\ table[r] # <<>> /\ Grows(r)
          /\ i \in 1 .. Size[r]
      BY <1>2, <2>1, LookingRow, IndexIsPlace
    <2>4. Visible(r, v, n - 1) /\ (~force[u] => Missing(r, v, n))
      BY <1>2, <2>1 DEF Passed
    <2>5. Visible(r, v, n - 1)'
      BY <2>3, <2>4, VisibleStays
    <2>6. ~force[u] => Missing(r, v, n)'
      BY <2>3, <2>4, MissingStays
    <2>12. /\ Visible(Row(u), Value(u), SeenTo(u) - 1)'
           /\ ~force'[u] => Missing(Row(u), Value(u), SeenTo(u))'
      BY <2>2, <2>5, <2>6 DEF Visible, Missing, Place, Rests
    <2>7. Probed(u) = table[r][i] /\ Probed(u)' = table'[r][i]
      BY <2>1, <2>2 DEF Probed
    <2>8. table[r][i] \in Cells /\ table'[r][i] \in Cells /\ Becomes(table[r][i], table'[r][i])
      BY <2>3, BecomesThere
    <2>9. /\ pc[u] \in {"is", "wait", "lost", "lost growing", "after", "invalid"}
               => table[r][i].flag # "free"
          /\ pc[u] \in {"after", "invalid"} => table[r][i].value # v
          /\ pc[u] = "write" => table[r][i] = Cell("locked", v)
      BY <1>2, <2>1, <2>7 DEF Passed
    <2>10. /\ pc[u] \in {"is", "wait", "lost", "lost growing", "after", "invalid"}
                => table'[r][i].flag # "free"
           /\ pc[u] \in {"after", "invalid"} => table'[r][i].value # v
           /\ pc[u] = "write" => table'[r][i] = Cell("locked", v)
      <3>1. pc[u] \in {"is", "wait", "lost", "lost growing", "after", "invalid"}
                => table'[r][i].flag # "free"
        BY <2>8, <2>9, BecomesWhat
      <3>2. pc[u] \in {"after", "invalid"} => table'[r][i].value # v
        BY <2>3, <2>8, <2>9, BecomesWhat
      <3>3. pc[u] = "write" => table'[r][i] = Cell("locked", v)
        BY <2>7, <2>9
      <3>. QED BY <3>1, <3>2, <3>3
    <2>11. pc'[u] = pc[u]
      BY DEF Rests
    <2>. QED BY <2>2, <2>12, <2>7, <2>10, <2>11 DEF Passed, Rests
  <1>. QED BY <1>1, <1>2

LEMMA TracedStays ==
  ASSUME HInv, HInv', NEW u \in Threads, Rests(u), Traced(u),
         Searching(u) => Grows(tdRow[u]),
         Searching(u) /\ Wanted(u) /\ Gone(tdRow[u], call[u].value)' => Gone(tdRow[u], call[u].value)
  PROVE  Traced(u)'
  <1>1. PICK r, v, n : r = tdRow[u] /\ v = call[u].value /\ n = SeenTo(u)
    OBVIOUS
  <1>2. tdRow'[u] = r /\ call'[u].value = v /\ SeenTo(u)' = n
    BY <1>1, RestsWhat DEF Rests
  <1>3. /\ Searching(u)' <=> Searching(u)
        /\ Inserting(u)' <=> Inserting(u)
        /\ Wanted(u)' <=> Wanted(u)
    BY RestsWhat
  <1>4. SUFFICES ASSUME Searching(u), Wanted(u), Gone(tdRow[u], call[u].value)'
                 PROVE  \/ Inserting(u) /\ Cleared(r)'
                        \/ Trace(r, v, n)'
    BY <1>2, <1>3 DEF Traced, Cleared, Trace, Visible, Place
  <1>5. r \in Rows /\ v \in Values /\ n \in Nat /\ table[r] # <<>> /\ Grows(r)
    BY <1>1, <1>4, SearchingRow
  <1>6. Gone(tdRow[u], call[u].value)
    BY <1>4
  <1>7. (Inserting(u) /\ Cleared(r)) \/ Trace(r, v, n)
    BY <1>1, <1>4, <1>6 DEF Traced
  <1>8. CASE Inserting(u) /\ Cleared(r)
    <2>1. ASSUME NEW i \in DOMAIN table'[r] PROVE table'[r][i] = Invalid
      <3>1. i \in DOMAIN table[r] /\ i \in 1 .. Size[r] /\ table[r][i] = Invalid
        BY <1>5, <1>8, RowCells DEF Grows, Cleared
      <3>. QED BY <1>5, <3>1, BecomesThere, BecomesWhat
    <2>. QED BY <1>8, <2>1 DEF Cleared
  <1>9. CASE Trace(r, v, n)
    <2>1. PICK d \in 0 .. MaxCollisions - 1 :
            n <= d /\ Visible(r, v, d) /\ table[r][Place(r, v, d)] = Invalid
      BY <1>9 DEF Trace
    <2>2. d \in Nat
      BY SizesAreNumbers
    <2>3. PICK i : i = Place(r, v, d)
      OBVIOUS
    <2>4. i \in 1 .. Size[r] /\ table[r][i] = Invalid
      BY <1>5, <2>1, <2>2, <2>3, PlaceIsThere
    <2>5. table'[r][i] = Invalid
      BY <1>5, <2>4, BecomesThere, BecomesWhat
    <2>6. Visible(r, v, d)'
      BY <1>5, <2>1, <2>2, VisibleStays
    <2>7. n <= d /\ Visible(r, v, d)' /\ table'[r][Place(r, v, d)] = Invalid
      BY <2>1, <2>3, <2>5, <2>6
    <2>. QED BY <2>7 DEF Trace, Place, Visible
  <1>. QED BY <1>7, <1>8, <1>9

-----------------------------------------------------------------------------
(* A value that is in the set is where the probing has yet to come.        *)

LEMMA MovedIsBusy ==
  ASSUME HInv, SInv, NEW u \in Threads, moved[u] \in Values
  PROVE  force[u] /\ Moving /\ Shifting /\ currentRow > 1
  <1>1. force[u]
    BY HashSetAssumption DEF SInv, Answers
  <1>. QED BY <1>1, BusyMove DEF Shifting

LEMMA WhereItIs ==
  ASSUME HInv, SInv, NEW t \in Threads, Searching(t), Wanted(t), call[t].value \in Contents
  PROVE  \/ Inserting(t) /\ Cleared(tdRow[t])
         \/ \E d \in 0 .. MaxCollisions - 1 :
              SeenTo(t) <= d /\ Visible(tdRow[t], call[t].value, d)
  <1>1. PICK r, v : r = tdRow[t] /\ v = call[t].value
    OBVIOUS
  <1>2. /\ Row(t) = r /\ Value(t) = v /\ v \in Values /\ v # NoValue
        /\ r \in Rows /\ r \in Nat /\ currentRow \in Nat /\ r <= currentRow
        /\ SeenTo(t) \in Nat /\ ~force[t] /\ pc[t] \in AtCell \cup Between
    BY <1>1, SearchingRow, ReadingTheState, HashSetAssumption
  <1>3. r = currentRow => ~Shifting
    BY <1>1 DEF SInv, Settled
  <1>4. Gone(r, v) => \/ Inserting(t) /\ Cleared(r)
                      \/ \E d \in 0 .. MaxCollisions - 1 : SeenTo(t) <= d /\ Visible(r, v, d)
    BY <1>1 DEF SInv, Traced, Trace
  <1>5. \/ \E q \in Rows : \E i \in DOMAIN table[q] : table[q][i].value = v
        \/ \E u \in Threads : moved[u] = v
    BY <1>1 DEF Contents
  <1>6. ASSUME NEW u \in Threads, moved[u] = v
        PROVE  Gone(r, v)
    <2>1. Shifting
      BY <1>2, <1>6, MovedIsBusy
    <2>2. r < currentRow
      BY <1>2, <1>3, <2>1
    <2>. QED BY <1>6, <2>2 DEF Gone
  <1>7. ASSUME NEW q \in Rows, NEW i \in DOMAIN table[q], table[q][i].value = v, q > r
        PROVE  Gone(r, v)
    BY <1>7 DEF Gone
  <1>8. ASSUME NEW q \in Rows, NEW i \in DOMAIN table[q], table[q][i].value = v, q = r
        PROVE  \E d \in 0 .. MaxCollisions - 1 : SeenTo(t) <= d /\ Visible(r, v, d)
    <2>1. PICK d \in 0 .. MaxCollisions - 1 : i = Place(r, v, d) /\ Visible(r, v, d)
      BY <1>2, <1>8 DEF SInv, Reachable, Reached
    <2>2. Missing(r, v, SeenTo(t))
      BY <1>2 DEF SInv, Passed
    <2>3. SeenTo(t) <= d
      <3>1. SUFFICES ASSUME ~(SeenTo(t) <= d) PROVE FALSE
        OBVIOUS
      <3>2. d \in 0 .. SeenTo(t) - 1
        BY <1>2, <3>1
      <3>3. table[r][Place(r, v, d)].value # v
        BY <2>2, <3>2 DEF Missing
      <3>. QED BY <1>8, <2>1, <3>3
    <2>. QED BY <2>1, <2>3
  <1>9. ASSUME NEW q \in Rows, NEW i \in DOMAIN table[q], table[q][i].value = v, q < r
        PROVE  FALSE
    <2>1. q \in Nat
      BY SizesAreNumbers
    <2>2. q < currentRow /\ (q = currentRow - 1 => r = currentRow)
      BY <1>2, <1>9, <2>1
    <2>3. Cleared(q)
      BY <1>3, <2>2 DEF SInv, Earlier
    <2>4. table[q][i] = Invalid
      BY <2>3 DEF Cleared
    <2>. QED BY <1>2, <1>9, <2>4, NewCells
  <1>10. \A q \in Rows : q > r \/ q = r \/ q < r
    BY <1>2, SizesAreNumbers
  <1>11. \/ Gone(r, v)
         \/ \E d \in 0 .. MaxCollisions - 1 : SeenTo(t) <= d /\ Visible(r, v, d)
    BY <1>5, <1>6, <1>7, <1>8, <1>9, <1>10
  <1>. QED BY <1>1, <1>4, <1>11

\* So that it is not in the set when the probing comes to a free cell,
LEMMA NotAtAFreeCell ==
  ASSUME HInv, SInv, NEW t \in Threads, Searching(t), Wanted(t), SeenTo(t) = probe[t],
         Probed(t).flag = "free"
  PROVE  call[t].value \notin Contents
  <1>. SUFFICES ASSUME call[t].value \in Contents PROVE FALSE
    OBVIOUS
  <1>1. PICK r, v, p, i : r = tdRow[t] /\ v = call[t].value /\ p = probe[t] /\ i = Place(r, v, p)
    OBVIOUS
  <1>2. /\ r \in Rows /\ v \in Values /\ p \in Nat /\ table[r] # <<>>
        /\ Row(t) = r /\ Value(t) = v
    BY <1>1, SearchingRow
  <1>3. Probed(t) = table[r][i] /\ i \in 1 .. Size[r] /\ i \in DOMAIN table[r]
    BY <1>1, <1>2, IndexIsPlace, PlaceIsThere, RowCells
  <1>4. ~Cleared(r)
    BY <1>3, NewCells DEF Cleared
  <1>5. PICK d \in 0 .. MaxCollisions - 1 : p <= d /\ Visible(r, v, d)
    BY <1>1, <1>4, WhereItIs
  <1>6. p \in 0 .. d
    BY <1>2, <1>5
  <1>7. table[r][Place(r, v, p)].flag # "free"
    BY <1>5, <1>6 DEF Visible
  <1>. QED BY <1>1, <1>3, <1>7

\* nor when a search has come to its end.
LEMMA NotPastTheLast ==
  ASSUME HInv, SInv, NEW t \in Threads, Searching(t), ~Inserting(t), SeenTo(t) = MaxCollisions
  PROVE  call[t].absent \/ call[t].value \notin Contents
  <1>. SUFFICES ASSUME Wanted(t), call[t].value \in Contents PROVE FALSE
    BY DEF Wanted
  <1>1. PICK d \in 0 .. MaxCollisions - 1 : SeenTo(t) <= d
    BY WhereItIs
  <1>. QED BY <1>1, SizesAreNumbers

-----------------------------------------------------------------------------
(* Steps that leave the cells alone.                                       *)

LEMMA SameContents == ASSUME UNCHANGED <<table, moved>> PROVE Contents' = Contents
  BY DEF Contents

LEMMA SameRowsGrow == ASSUME UNCHANGED table PROVE \A r \in Rows : Grows(r)
  BY DEF Grows, Becomes

LEMMA AnswersStay ==
  ASSUME NEW u \in Threads, Rests(u), Answers(u), Contents \subseteq Contents'
  PROVE  Answers(u)'
  <1>1. Inserting(u)' <=> Inserting(u)
    BY RestsWhat
  <1>2. /\ pc'[u] = "idle" => call'[u] = NoCall
        /\ pc'[u] \in {"return", "count"} \/ (pc'[u] = "write" /\ ~force'[u])
             => call'[u].answer # "none"
        /\ pc'[u] \notin {"idle", "return", "count"} /\ (pc'[u] = "write" => force'[u])
             => call'[u].answer = "none"
    BY DEF Rests, Answers
  <1>3. /\ ~force'[u] /\ pc'[u] \in {"store", "lost", "lost growing", "after", "after growing"}
             => Inserting(u)'
        /\ ~force'[u] /\ pc'[u] \in {"head", "head growing", "invalid", "next"} => ~Inserting(u)'
    BY <1>1 DEF Rests, Answers
  <1>4. /\ pc'[u] \notin {"idle", "return"} /\ ~Inserting(u)'
             => call'[u].absent \/ call'[u].value \in Contents'
        /\ pc'[u] = "before growing" /\ tdRow'[u] = 0 => Inserting(u)' \/ call'[u].absent
        /\ ~force'[u] => moved'[u] = NoValue
    BY <1>1 DEF Rests, Answers
  <1>. QED BY <1>2, <1>3, <1>4 DEF Answers

\* Where no cell is looked at nothing needs to be known of them.
LEMMA Away ==
  ASSUME NEW t \in Threads, pc'[t] \notin AtCell \cup Between
  PROVE  Passed(t)' /\ Traced(t)' /\ ~Searching(t)'
  BY DEF Passed, Traced, Searching

LEMMA SameWriters ==
  ASSUME SInv, NEW t \in Threads, Apart(t), pc'[t] # "write"
  PROVE  OneWriter'
  <1>1. ASSUME NEW u \in Threads, pc'[u] = "write"
        PROVE  pc[u] = "write" /\ Row(u)' = Row(u) /\ Index(u)' = Index(u)
    <2>1. u # t
      BY <1>1
    <2>2. Rests(u)
      BY <2>1, OthersRest
    <2>. QED BY <1>1, <2>2, RestsWhat DEF Rests
  <1>. QED BY <1>1 DEF SInv, OneWriter

\* The other threads' part of the invariant.
LEMMA OthersSee ==
  ASSUME HInv, HInv', SInv, NEW t \in Threads, Apart(t), UNCHANGED <<table, moved, currentRow>>
  PROVE  \A u \in Threads \ {t} : Answers(u)' /\ Passed(u)' /\ Traced(u)'
  <1>. SUFFICES ASSUME NEW u \in Threads \ {t}
                PROVE  Answers(u)' /\ Passed(u)' /\ Traced(u)'
    OBVIOUS
  <1>1. Rests(u)
    BY OthersRest
  <1>2. Answers(u) /\ Passed(u) /\ Traced(u)
    BY DEF SInv
  <1>3. Answers(u)'
    BY <1>1, <1>2, SameContents, AnswersStay
  <1>4. Passed(u)'
    <2>1. pc[u] \in AtCell \cup Between => Grows(Row(u))
      BY LookingRow, SameRowsGrow
    <2>2. Probed(u)' = Probed(u)
      BY <1>1, RestsWhat DEF Probed
    <2>. QED BY <1>1, <1>2, <2>1, <2>2, PassedStays
  <1>5. Traced(u)'
    <2>1. Searching(u) => Grows(tdRow[u])
      BY SearchingRow, SameRowsGrow
    <2>2. Gone(tdRow[u], call[u].value)' => Gone(tdRow[u], call[u].value)
      BY <1>1 DEF Gone, Rests
    <2>. QED BY <1>1, <1>2, <2>1, <2>2, TracedStays
  <1>. QED BY <1>3, <1>4, <1>5

LEMMA SameReachable == ASSUME SInv, UNCHANGED table PROVE Reachable'
  BY DEF SInv, Reachable, Reached, Visible, Place

LEMMA SameShifting ==
  ASSUME NEW t \in Threads, Apart(t), growing' = growing,
         pc[t] \notin Building, pc'[t] \notin Building
  PROVE  (Moving' <=> Moving) /\ (Shifting' <=> Shifting)
  <1>1. \A u \in Threads : (pc[u] \in Building \/ pc'[u] \in Building) => pc'[u] = pc[u]
    BY DEF Apart
  <1>2. \A u \in Threads : Builder(u)' <=> Builder(u)
    BY <1>1 DEF Builder
  <1>3. Moving' <=> Moving
    BY <1>2 DEF Moving
  <1>4. \A u \in Threads : pc'[u] \in {"workers", "segments"} <=> pc[u] \in {"workers", "segments"}
    BY <1>1 DEF Building
  <1>. QED BY <1>3, <1>4 DEF Shifting

\* Who moves cells goes on at the same place.
Steady(u) == position'[u] = position[u] /\ segment'[u] = segment[u] /\ row'[u] = row[u]

LEMMA SteadyAhead ==
  ASSUME NEW u \in Threads, Steady(u)
  PROVE  SegmentEnd(u)' = SegmentEnd(u) /\ \A c : Ahead(u, c)' <=> Ahead(u, c)
  <1>1. OldRow(u)' = OldRow(u)
    BY DEF Steady, OldRow
  <1>2. SegmentEnd(u)' = SegmentEnd(u)
    BY <1>1 DEF Steady, SegmentEnd
  <1>. QED BY <1>2 DEF Ahead, Steady

\* The rows that are not there yet and those that hold nothing any more.
LEMMA SameRows ==
  ASSUME SInv, NEW t \in Threads, Apart(t), UNCHANGED <<table, currentRow>>,
         Shifting' => Shifting,
         Shifting /\ ~Shifting' => Cleared(currentRow - 1),
         Searching(t)' /\ tdRow'[t] = currentRow => ~Shifting'
  PROVE  Later' /\ Earlier' /\ Settled'
  <1>1. Later'
    BY DEF SInv, Later
  <1>2. Earlier'
    <2>1. ASSUME NEW r \in Rows, r < currentRow, r = currentRow - 1 => ~Shifting'
          PROVE  Cleared(r)
      <3>1. CASE r = currentRow - 1 /\ Shifting
        BY <2>1, <3>1
      <3>2. CASE r # currentRow - 1 \/ ~Shifting
        BY <2>1, <3>2 DEF SInv, Earlier
      <3>. QED BY <3>1, <3>2
    <2>. QED BY <2>1 DEF Cleared, Earlier
  <1>3. ASSUME NEW u \in Threads, Searching(u)', tdRow'[u] = currentRow'
        PROVE  ~Shifting'
    <2>1. CASE u = t
      BY <1>3, <2>1
    <2>2. CASE u # t
      <3>1. Rests(u)
        BY <2>2, OthersRest
      <3>2. Searching(u) /\ tdRow[u] = currentRow
        BY <1>3, <3>1, RestsWhat DEF Rests
      <3>. QED BY <3>2 DEF SInv, Settled
    <2>. QED BY <2>1, <2>2
  <1>. QED BY <1>1, <1>2, <1>3 DEF Settled

\* The values that are being moved.
LEMMA SameTakenOut ==
  ASSUME SInv, UNCHANGED <<table, force, currentRow>>,
         \A u \in Threads : force[u] => Steady(u)
  PROVE  TakenOut'
  <1>. SUFFICES ASSUME NEW u \in Threads, force[u]
                PROVE  /\ position'[u] < SegmentEnd(u)'
                       /\ table'[currentRow' - 1][position'[u] + 1] = Invalid
    BY DEF TakenOut
  <1>1. Steady(u)
    OBVIOUS
  <1>2. SegmentEnd(u)' = SegmentEnd(u) /\ position'[u] = position[u]
    BY <1>1, SteadyAhead DEF Steady
  <1>3. /\ position[u] < SegmentEnd(u)
        /\ table[currentRow - 1][position[u] + 1] = Invalid
    BY DEF SInv, TakenOut
  <1>. QED BY <1>2, <1>3

LEMMA SameCovered ==
  ASSUME SInv, NEW t \in Threads, Apart(t), UNCHANGED <<table, force, currentRow>>,
         \A u \in Busy : Steady(u),
         pc'[t] = "invalidate" <=> pc[t] = "invalidate",
         Moving' => Moving /\ availableSegments' = availableSegments
  PROVE  Covered'
  <1>1. Busy' = Busy
    <2>1. \A u \in Threads : force'[u] = force[u] /\ (pc'[u] = "invalidate" <=> pc[u] = "invalidate")
      BY DEF Apart
    <2>. QED BY <2>1 DEF Busy
  <1>. SUFFICES ASSUME Moving', NEW c \in 0 .. Size[currentRow - 1] - 1
                PROVE  \/ table[currentRow - 1][c + 1] = Invalid
                       \/ c < SegmentSize * availableSegments
                       \/ \E u \in Busy : Ahead(u, c)'
    BY <1>1 DEF Covered
  <1>2. \/ table[currentRow - 1][c + 1] = Invalid
        \/ c < SegmentSize * availableSegments
        \/ \E u \in Busy : Ahead(u, c)
    BY DEF SInv, Covered
  <1>3. \A u \in Busy : Ahead(u, c)' <=> Ahead(u, c)
    BY SteadyAhead DEF Busy
  <1>. QED BY <1>2, <1>3

LEMMA StillSees ==
  ASSUME HInv, HInv', SInv, NEW t \in Threads, Apart(t),
         UNCHANGED <<table, moved, force, currentRow>>,
         Later', Earlier', Covered', TakenOut', Settled', pc'[t] # "write", Answers(t)', Passed(t)', Traced(t)'
  PROVE  SInv'
  <1>1. OneWriter'
    BY SameWriters
  <1>2. Reachable'
    BY SameReachable
  <1>3. \A u \in Threads \ {t} : Answers(u)' /\ Passed(u)' /\ Traced(u)'
    BY OthersSee
  <1>4. \A u \in Threads : Answers(u)' /\ Passed(u)' /\ Traced(u)'
    BY <1>3
  <1>. QED BY <1>1, <1>2, <1>4 DEF SInv

\* A thread that looks at a cell or another, or goes where it looks at none.
LEMMA LookSees ==
  ASSUME HInv, HInv', SInv, NEW t \in Threads, Apart(t), 
         UNCHANGED <<table, moved, force, currentRow, growing, availableSegments>>,
         \A u \in Busy : Steady(u),
         pc[t] \notin Building \cup {"invalidate"},
         pc'[t] \notin Building \cup {"invalidate", "write"},
         Searching(t)' => (Searching(t) /\ tdRow'[t] = tdRow[t]) \/ ~Shifting,
         Answers(t)', Passed(t)', Traced(t)'
  PROVE  SInv'
  <1>1. (Moving' <=> Moving) /\ (Shifting' <=> Shifting)
    BY SameShifting
  <1>2. Searching(t)' /\ tdRow'[t] = currentRow => ~Shifting'
    BY <1>1 DEF SInv, Settled
  <1>3. Later' /\ Earlier' /\ Settled'
    BY <1>1, <1>2, SameRows
  <1>4. TakenOut' /\ Covered'
    BY <1>1, SameTakenOut, SameCovered DEF Busy
  <1>. QED BY <1>3, <1>4, StillSees

\* Answers, when the call does not change.
LEMMA AnswersOn ==
  ASSUME HInv, SInv, NEW t \in Threads, UNCHANGED call, Contents \subseteq Contents',
         ~force'[t] => moved'[t] = NoValue,
         pc[t] \notin {"idle", "return", "count"}, pc[t] = "write" => force[t],
         pc'[t] \notin {"idle", "return", "count", "before growing", "write"},
         ~force'[t] /\ pc'[t] \in {"store", "lost", "lost growing", "after", "after growing"}
           => Inserting(t),
         ~force'[t] /\ pc'[t] \in {"head", "head growing", "invalid", "next"} => ~Inserting(t)
  PROVE  Answers(t)'
  <1>1. Inserting(t)' <=> Inserting(t)
    BY DEF Inserting
  <1>2. Answers(t)
    BY DEF SInv
  <1>3. call'[t].answer = "none"
    BY <1>2 DEF Answers
  <1>4. ~Inserting(t)' => call'[t].absent \/ call'[t].value \in Contents'
    BY <1>1, <1>2 DEF Answers
  <1>. QED BY <1>1, <1>3, <1>4 DEF Answers

LEMMA SameAnswers ==
  ASSUME HInv, SInv, NEW t \in Threads, UNCHANGED <<table, moved, force, call>>,
         pc[t] \notin {"idle", "return", "count"}, pc[t] = "write" => force[t],
         pc'[t] \notin {"idle", "return", "count", "before growing", "write"},
         ~force[t] /\ pc'[t] \in {"store", "lost", "lost growing", "after", "after growing"}
           => Inserting(t),
         ~force[t] /\ pc'[t] \in {"head", "head growing", "invalid", "next"} => ~Inserting(t)
  PROVE  Answers(t)'
  <1>1. Contents' = Contents
    BY SameContents
  <1>2. ~force'[t] => moved'[t] = NoValue
    BY DEF SInv, Answers
  <1>. QED BY <1>1, <1>2, AnswersOn

-----------------------------------------------------------------------------
(* Steps to where no cell is looked at.                                    *)

Silent == {"idle", "return", "count"}

LEMMA AwaySees ==
  ASSUME HInv, HInv', SInv, NEW t \in Threads, Apart(t),
         UNCHANGED <<table, moved, force, call, currentRow, growing, availableSegments>>,
         \A u \in Busy : Steady(u),
         pc[t] \notin Building \cup Silent \cup {"invalidate", "write"},
         pc'[t] \notin Building \cup AtCell \cup Between \cup Silent
                       \cup {"invalidate", "before growing"}
  PROVE  SInv'
  <1>1. Passed(t)' /\ Traced(t)' /\ ~Searching(t)'
    BY Away
  <1>2. Answers(t)'
    BY SameAnswers DEF Silent, AtCell, Between
  <1>. QED BY <1>1, <1>2, LookSees DEF AtCell

LEMMA JumpApart ==
  ASSUME HInv, NEW t \in Threads, NEW y, pc' = [pc EXCEPT ![t] = y],
         UNCHANGED <<tdVars, callVars, probe, moveVars, row, ret>>
  PROVE  /\ Apart(t) /\ pc'[t] = y /\ \A u \in Threads : Steady(u)
         /\ UNCHANGED <<tdRow, tdInserts, call, calls, force, moved, position, segment>>
  <1>1. UNCHANGED <<tdRow, tdInserts, call, calls, probe, force, moved, position, segment, row, ret>>
    BY DEF tdVars, callVars, moveVars
  <1>2. pc'[t] = y /\ \A u \in Threads \ {t} : pc'[u] = pc[u]
    BY DEF HInv, Types
  <1>. QED BY <1>1, <1>2 DEF Apart, Steady

LEMMA JumpSees ==
  ASSUME HInv, HInv', SInv, NEW t \in Threads, NEW y, pc' = [pc EXCEPT ![t] = y],
         UNCHANGED <<cellVars, growVars, used, tdVars, callVars, probe, moveVars, row, ret>>,
         pc[t] \notin Building \cup Silent \cup {"invalidate", "write"},
         y \notin Building \cup AtCell \cup Between \cup Silent \cup {"invalidate", "before growing"}
  PROVE  SInv'
  <1>1. /\ Apart(t) /\ pc'[t] = y /\ \A u \in Threads : Steady(u)
        /\ UNCHANGED <<tdRow, tdInserts, call, calls, force, moved, position, segment>>
    BY JumpApart
  <1>2. UNCHANGED <<table, currentRow, growing, availableSegments>>
    BY DEF cellVars, growVars
  <1>. QED BY <1>1, <1>2, AwaySees DEF Busy

LEMMA UsageSees == ASSUME HInv, HInv', SInv, NEW t \in Threads, Usage(t) PROVE SInv'
  <1>1. PICK y : y = IF IsFull(t) THEN "grow" ELSE "before"
    OBVIOUS
  <1>2. pc[t] = "usage" /\ pc' = [pc EXCEPT ![t] = y] /\ y \in {"grow", "before"}
    BY <1>1 DEF Usage, Goto
  <1>. QED BY <1>2, JumpSees DEF Usage, Building, Silent, AtCell, Between

LEMMA ChangedGrowingSees ==
  ASSUME HInv, HInv', SInv, NEW t \in Threads, ChangedGrowing(t) PROVE SInv'
  <1>1. /\ pc[t] \in {"before growing", "lost growing", "after growing", "head growing"}
        /\ pc' = [pc EXCEPT ![t] = "help"]
    BY AskingIs DEF ChangedGrowing, Goto
  <1>. QED BY <1>1, JumpSees DEF ChangedGrowing, Building, Silent, AtCell, Between

LEMMA GrowSees == ASSUME HInv, HInv', SInv, NEW t \in Threads, Grow(t) PROVE SInv'
  <1>1. PICK y \in {"error", "help", "lock"} : pc[t] = "grow" /\ pc' = [pc EXCEPT ![t] = y]
    BY DEF Grow, Goto
  <1>. QED BY <1>1, JumpSees DEF Grow, Building, Silent, AtCell, Between

LEMMA TrySegmentSees ==
  ASSUME HInv, HInv', SInv, NEW t \in Threads, TrySegment(t) PROVE SInv'
  <1>1. PICK y \in {"grown", "help", "take"} : pc[t] = "try" /\ pc' = [pc EXCEPT ![t] = y]
    BY DEF TrySegment, Goto, NoMore
  <1>. QED BY <1>1, JumpSees DEF TrySegment, Building, Silent, AtCell, Between

LEMMA HelpSees == ASSUME HInv, HInv', SInv, NEW t \in Threads, Help(t) PROVE SInv'
  <1>1. ret[t] \in {"update", "lock", "grown"}
    BY ReadingTheState
  <1>2. PICK y \in {"try", "update", "lock", "grown"} :
          pc[t] = "help" /\ pc' = [pc EXCEPT ![t] = y]
    BY <1>1 DEF Help, Goto
  <1>. QED BY <1>2, JumpSees DEF Help, Building, Silent, AtCell, Between

\* The row and what follows are set where no cell is moved.
LEMMA NotBusySteady ==
  ASSUME HInv, NEW t \in Threads, pc[t] \notin AtCell \cup {"error", "invalidate"},
         \A u \in Threads \ {t} : Steady(u)
  PROVE  \A u \in Busy : Steady(u)
  BY AtRest DEF Busy

LEMMA UpdateSees == ASSUME HInv, HInv', SInv, NEW t \in Threads, Update(t) PROVE SInv'
  <1>1. UNCHANGED <<cellVars, growVars, used, tdVars, callVars, probe, moveVars, ret>>
    BY DEF Update
  <1>2. PICK y : y = IF currentRow = tdRow[t] THEN Start(t) ELSE "leave"
    OBVIOUS
  <1>3. /\ y \in {"usage", "before", "leave"} /\ pc[t] = "update" /\ pc' = [pc EXCEPT ![t] = y]
        /\ row' = [row EXCEPT ![t] = currentRow]
    BY <1>2 DEF Update, Goto, Start
  <1>4. pc'[t] = y /\ \A u \in Threads \ {t} : pc'[u] = pc[u] /\ row'[u] = row[u]
    BY <1>3 DEF HInv, Types
  <1>5. UNCHANGED <<tdRow, tdInserts, call, calls, probe, force, moved, position, segment, ret,
                    table, currentRow, growing, availableSegments>>
    BY <1>1 DEF cellVars, growVars, tdVars, callVars, moveVars
  <1>6. Apart(t) /\ \A u \in Threads \ {t} : Steady(u)
    BY <1>4, <1>5 DEF Apart, Steady
  <1>7. \A u \in Busy : Steady(u)
    BY <1>3, <1>6, NotBusySteady DEF AtCell
  <1>. QED BY <1>3, <1>4, <1>5, <1>6, <1>7, AwaySees DEF Building, Silent, AtCell, Between

LEMMA AcquireAgainSees ==
  ASSUME HInv, HInv', SInv, NEW t \in Threads, AcquireAgain(t) PROVE SInv'
  <1>1. UNCHANGED <<cellVars, growVars, used, tdVars, callVars, probe, moveVars, ret>>
    BY DEF AcquireAgain
  <1>2. PICK y \in {"acquire", "reread"} :
          pc[t] \in {"acquire", "reread"} /\ pc' = [pc EXCEPT ![t] = y]
    BY DEF AcquireAgain, Goto
  <1>3. PICK r : row' = [row EXCEPT ![t] = r]
    <2>1. CASE row' = row
      <3>1. row' = [row EXCEPT ![t] = row[t]]
        BY <2>1 DEF HInv, Types
      <3>. QED BY <3>1
    <2>2. CASE row' = [row EXCEPT ![t] = currentRow]
      BY <2>2
    <2>. QED BY <2>1, <2>2 DEF AcquireAgain
  <1>4. pc'[t] = y /\ \A u \in Threads \ {t} : pc'[u] = pc[u] /\ row'[u] = row[u]
    BY <1>2, <1>3 DEF HInv, Types
  <1>5. UNCHANGED <<tdRow, tdInserts, call, calls, probe, force, moved, position, segment, ret,
                    table, currentRow, growing, availableSegments>>
    BY <1>1 DEF cellVars, growVars, tdVars, callVars, moveVars
  <1>6. Apart(t) /\ \A u \in Threads \ {t} : Steady(u)
    BY <1>4, <1>5 DEF Apart, Steady
  <1>7. \A u \in Busy : Steady(u)
    BY <1>2, <1>6, NotBusySteady DEF AtCell
  <1>. QED BY <1>2, <1>4, <1>5, <1>6, <1>7, AwaySees DEF Building, Silent, AtCell, Between

\* Settle, and a new row for the thread.
LEMMA SettleSees ==
  ASSUME HInv, HInv', SInv, NEW t \in Threads, Apart(t), \A u \in Threads \ {t} : Steady(u),
         pc[t] \in {"grown", "acquire"}, pc'[t] \in {"usage", "before"},
         UNCHANGED <<table, currentRow, growing, availableSegments, call, force, moved>>
  PROVE  SInv'
  <1>1. \A u \in Busy : Steady(u)
    BY NotBusySteady DEF AtCell
  <1>. QED BY <1>1, AwaySees DEF Building, Silent, AtCell, Between

LEMMA SettleApart ==
  ASSUME HInv, NEW t \in Threads, Settle(t), NEW y, pc' = [pc EXCEPT ![t] = y],
         \A u \in Threads \ {t} : tdRow'[u] = tdRow[u] /\ probe'[u] = probe[u] /\ call'[u] = call[u],
         UNCHANGED <<tdInserts, calls, force, moved>>
  PROVE  Apart(t) /\ pc'[t] = y /\ \A u \in Threads \ {t} : Steady(u)
  <1>1. /\ row' = [row EXCEPT ![t] = 0] /\ position' = [position EXCEPT ![t] = 0]
        /\ segment' = [segment EXCEPT ![t] = 0] /\ ret' = [ret EXCEPT ![t] = "update"]
    BY DEF Settle
  <1>2. pc'[t] = y /\ \A u \in Threads \ {t} : pc'[u] = pc[u] /\ row'[u] = row[u] /\ ret'[u] = ret[u]
    BY <1>1 DEF HInv, Types
  <1>3. \A u \in Threads \ {t} : position'[u] = position[u] /\ segment'[u] = segment[u]
    BY <1>1 DEF HInv, Types
  <1>. QED BY <1>2, <1>3 DEF Apart, Steady

LEMMA GrownSees == ASSUME HInv, HInv', SInv, NEW t \in Threads, Grown(t) PROVE SInv'
  <1>1. UNCHANGED <<table, currentRow, growing, availableSegments, tdInserts, call, calls,
                    probe, force, moved>>
    BY DEF Grown, cellVars, growVars, callVars
  <1>2. PICK y : y = Start(t) /\ y \in {"usage", "before"}
    BY DEF Start
  <1>3. pc[t] = "grown" /\ pc' = [pc EXCEPT ![t] = y] /\ tdRow' = [tdRow EXCEPT ![t] = @ + 1]
    BY <1>2 DEF Grown, Goto
  <1>4. \A u \in Threads \ {t} : tdRow'[u] = tdRow[u]
    BY <1>3 DEF HInv, Types
  <1>5. Settle(t)
    BY DEF Grown
  <1>6. Apart(t) /\ pc'[t] = y /\ \A u \in Threads \ {t} : Steady(u)
    BY <1>1, <1>3, <1>4, <1>5, SettleApart
  <1>. QED BY <1>1, <1>2, <1>3, <1>6, SettleSees

LEMMA AcquireSees == ASSUME HInv, HInv', SInv, NEW t \in Threads, Acquire(t) PROVE SInv'
  <1>1. UNCHANGED <<table, currentRow, growing, availableSegments, tdInserts, call, calls,
                    probe, force, moved>>
    BY DEF Acquire, cellVars, callVars
  <1>2. PICK y : y = Start(t) /\ y \in {"usage", "before"}
    BY DEF Start
  <1>3. pc[t] = "acquire" /\ pc' = [pc EXCEPT ![t] = y] /\ tdRow' = [tdRow EXCEPT ![t] = row[t]]
    BY <1>2 DEF Acquire, Goto
  <1>4. \A u \in Threads \ {t} : tdRow'[u] = tdRow[u]
    BY <1>3 DEF HInv, Types
  <1>5. Settle(t)
    BY DEF Acquire
  <1>6. Apart(t) /\ pc'[t] = y /\ \A u \in Threads \ {t} : Steady(u)
    BY <1>1, <1>3, <1>4, <1>5, SettleApart
  <1>. QED BY <1>1, <1>2, <1>3, <1>6, SettleSees

-----------------------------------------------------------------------------
(* Steps from one cell to another.                                         *)

LEMMA LookApart ==
  ASSUME HInv, NEW t \in Threads, NEW y, pc' = [pc EXCEPT ![t] = y],
         \A u \in Threads \ {t} : probe'[u] = probe[u] /\ call'[u] = call[u],
         UNCHANGED <<cellVars, growVars, tdRow, calls, moveVars, row, ret>>,
         \A u \in Threads \ {t} : tdInserts'[u] = tdInserts[u]
  PROVE  /\ Apart(t) /\ pc'[t] = y /\ \A u \in Busy : Steady(u)
         /\ UNCHANGED <<table, moved, force, currentRow, growing, availableSegments, tdRow, row>>
  <1>1. UNCHANGED <<tdRow, calls, force, moved, position, segment, row, ret,
                    table, currentRow, growing, availableSegments>>
    BY DEF cellVars, growVars, moveVars
  <1>2. pc'[t] = y /\ \A u \in Threads \ {t} : pc'[u] = pc[u]
    BY DEF HInv, Types
  <1>. QED BY <1>1, <1>2 DEF Apart, Steady

\* The call is over.
LEMMA EndSees ==
  ASSUME HInv, HInv', SInv, NEW t \in Threads, Apart(t), \A u \in Busy : Steady(u),
         UNCHANGED <<table, moved, force, currentRow, growing, availableSegments>>,
         pc[t] \notin Building \cup {"invalidate"},
         \/ pc'[t] = "return" /\ call'[t].answer # "none"
         \/ pc'[t] = "idle" /\ call'[t] = NoCall
  PROVE  SInv'
  <1>1. pc'[t] \in {"return", "idle"}
    OBVIOUS
  <1>2. Passed(t)' /\ Traced(t)' /\ ~Searching(t)'
    BY <1>1, Away DEF AtCell, Between
  <1>3. ~force'[t] => moved'[t] = NoValue
    BY DEF SInv, Answers
  <1>4. Answers(t)'
    BY <1>1, <1>3 DEF Answers
  <1>5. pc'[t] \notin Building \cup {"invalidate", "write"}
    BY <1>1 DEF Building
  <1>. QED BY <1>2, <1>4, <1>5, LookSees

LEMMA AnswerIs ==
  ASSUME HInv, NEW t \in Threads, pc[t] # "idle", NEW a, Answered(t, a)
  PROVE  call'[t].answer = a /\ \A u \in Threads \ {t} : call'[u] = call[u]
  <1>1. call[t] \in Calls
    BY ReadingTheState
  <1>. QED BY <1>1 DEF Answered, HInv, Types, Calls

LEMMA ReturnSees == ASSUME HInv, HInv', SInv, NEW t \in Threads, Return(t) PROVE SInv'
  <1>1. /\ pc[t] = "return" /\ pc' = [pc EXCEPT ![t] = "idle"]
        /\ call' = [call EXCEPT ![t] = NoCall] /\ probe' = [probe EXCEPT ![t] = 0]
        /\ Settle(t)
    BY DEF Return, Goto
  <1>2. UNCHANGED <<table, currentRow, growing, availableSegments, tdRow, tdInserts, calls,
                    force, moved>>
    BY DEF Return, cellVars, growVars, tdVars
  <1>3. /\ call'[t] = NoCall
        /\ \A u \in Threads \ {t} : probe'[u] = probe[u] /\ call'[u] = call[u]
    BY <1>1 DEF HInv, Types
  <1>4. \A u \in Threads \ {t} : tdRow'[u] = tdRow[u] /\ probe'[u] = probe[u] /\ call'[u] = call[u]
    BY <1>2, <1>3
  <1>5. Apart(t) /\ pc'[t] = "idle" /\ \A u \in Threads \ {t} : Steady(u)
    BY <1>1, <1>2, <1>4, SettleApart
  <1>6. \A u \in Busy : Steady(u)
    BY <1>1, <1>5, NotBusySteady DEF AtCell
  <1>7. pc[t] \notin Building \cup {"invalidate"}
    BY <1>1 DEF Building
  <1>. QED BY <1>2, <1>3, <1>5, <1>6, <1>7, EndSees

LEMMA CountSees == ASSUME HInv, HInv', SInv, NEW t \in Threads, Count(t) PROVE SInv'
  <1>1. /\ pc[t] = "count" /\ pc' = [pc EXCEPT ![t] = "return"]
        /\ tdInserts' = [tdInserts EXCEPT ![t] = (@ + 1) % SyncPoint]
        /\ UNCHANGED <<cellVars, growVars, tdRow, calls, probe, call, moveVars, row, ret>>
    BY DEF Count, Goto, callVars
  <1>2. \A u \in Threads \ {t} : tdInserts'[u] = tdInserts[u]
    BY <1>1 DEF HInv, Types
  <1>3. /\ Apart(t) /\ pc'[t] = "return" /\ \A u \in Busy : Steady(u)
        /\ UNCHANGED <<table, moved, force, currentRow, growing, availableSegments, tdRow, row>>
    BY <1>1, <1>2, LookApart
  <1>4. call'[t].answer # "none"
    BY <1>1 DEF SInv, Answers
  <1>. QED BY <1>1, <1>3, <1>4, EndSees DEF Building

LEMMA CallSees ==
  ASSUME HInv, HInv', SInv, NEW t \in Threads, NEW op \in {"insert", "find"}, NEW v \in Values,
         Call(t, op, v)
  PROVE  SInv'
  <1>1. PICK y : y = (IF op = "insert" THEN "usage" ELSE "before")
    OBVIOUS
  <1>2. PICK c : c = [op |-> op, value |-> v, absent |-> v \notin Contents, answer |-> "none"]
    OBVIOUS
  <1>3. /\ pc[t] = "idle" /\ pc' = [pc EXCEPT ![t] = y] /\ call' = [call EXCEPT ![t] = c]
        /\ calls' = [calls EXCEPT ![t] = @ + 1]
    BY <1>1, <1>2 DEF Call, Goto
  <1>4. UNCHANGED <<table, currentRow, growing, availableSegments, tdRow, tdInserts, probe, ret, row,
                    force, moved, position, segment>>
    BY DEF Call, cellVars, growVars, tdVars, moveVars
  <1>5. /\ pc'[t] = y /\ call'[t] = c
        /\ \A u \in Threads \ {t} : pc'[u] = pc[u] /\ call'[u] = call[u] /\ calls'[u] = calls[u]
    BY <1>3 DEF HInv, Types
  <1>6. Apart(t) /\ \A u \in Busy : Steady(u)
    BY <1>4, <1>5 DEF Apart, Steady
  <1>7. y \in {"usage", "before"}
    BY <1>1
  <1>8. Passed(t)' /\ Traced(t)' /\ ~Searching(t)'
    BY <1>5, <1>7, Away DEF AtCell, Between
  <1>9. Answers(t)'
    <2>1. Contents' = Contents
      BY <1>4, SameContents
    <2>2. c.answer = "none" /\ c.value = v /\ (c.absent \/ v \in Contents')
      BY <1>2, <2>1
    <2>3. ~force'[t] => moved'[t] = NoValue
      BY <1>4 DEF SInv, Answers
    <2>. QED BY <1>5, <1>7, <2>2, <2>3 DEF Answers
  <1>10. pc[t] \notin Building \cup {"invalidate"} /\ pc'[t] \notin Building \cup {"invalidate", "write"}
    BY <1>3, <1>5, <1>7 DEF Building
  <1>. QED BY <1>4, <1>6, <1>8, <1>9, <1>10, LookSees

\* What is known of the cells seen, n of them after the step.
Looking == (AtCell \ {"write"}) \cup Between
LEMMA Onward ==
  ASSUME HInv, SInv, NEW t \in Threads, NEW n,
         UNCHANGED <<table, moved, force, currentRow, tdRow, row>>, call'[t] = call[t],
         pc[t] \in Looking, pc'[t] \in Looking, SeenTo(t)' = n,
         Visible(Row(t), Value(t), n - 1),
         ~force[t] => Missing(Row(t), Value(t), n),
         pc'[t] \in {"is", "wait", "lost", "lost growing", "after", "invalid"}
           => probe'[t] = probe[t] /\ Probed(t).flag # "free",
         pc'[t] \in {"after", "invalid"} => Probed(t).value # Value(t),
         Searching(t) /\ Wanted(t) /\ Gone(tdRow[t], call[t].value) =>
           \/ Inserting(t) /\ Cleared(tdRow[t])
           \/ Trace(tdRow[t], call[t].value, n)
  PROVE  Passed(t)' /\ Traced(t)' /\ (Searching(t)' => Searching(t))
  <1>1. Row(t)' = Row(t) /\ Value(t)' = Value(t)
    BY DEF Row, Value
  <1>2. Searching(t)' <=> Searching(t)
    BY DEF Searching, Looking
  <1>3. (Inserting(t)' <=> Inserting(t)) /\ (Wanted(t)' <=> Wanted(t))
    BY DEF Inserting, Wanted
  <1>4. probe'[t] = probe[t] => Probed(t)' = Probed(t)
    BY <1>1 DEF Probed, Index
  <1>5. Passed(t)'
    <2>1. Visible(Row(t), Value(t), SeenTo(t) - 1)'
      BY <1>1 DEF Visible, Place
    <2>2. ~force'[t] => Missing(Row(t), Value(t), SeenTo(t))'
      BY <1>1 DEF Missing, Place
    <2>3. pc'[t] \in {"is", "wait", "lost", "lost growing", "after", "invalid"}
            => Probed(t)'.flag # "free"
      BY <1>4
    <2>4. pc'[t] \in {"after", "invalid"} => Probed(t)'.value # Value(t)'
      BY <1>1, <1>4
    <2>5. pc'[t] # "write"
      BY DEF Looking, Between
    <2>. QED BY <2>1, <2>2, <2>3, <2>4, <2>5 DEF Passed
  <1>6. Traced(t)'
    <2>1. Gone(tdRow[t], call[t].value)' <=> Gone(tdRow[t], call[t].value)
      BY DEF Gone
    <2>2. Cleared(tdRow[t])' <=> Cleared(tdRow[t])
      BY DEF Cleared
    <2>3. Trace(tdRow[t], call[t].value, SeenTo(t))' <=> Trace(tdRow[t], call[t].value, n)
      BY DEF Trace, Visible, Place
    <2>. QED BY <1>2, <1>3, <2>1, <2>2, <2>3 DEF Traced
  <1>. QED BY <1>2, <1>5, <1>6

LEMMA SamePlace ==
  ASSUME HInv, SInv, NEW t \in Threads,
         UNCHANGED <<table, moved, force, currentRow, tdRow, row>>, call'[t] = call[t],
         pc[t] \in Looking, pc'[t] \in Looking, SeenTo(t)' = SeenTo(t),
         pc'[t] \in {"is", "wait", "lost", "lost growing", "after", "invalid"}
           => probe'[t] = probe[t] /\ Probed(t).flag # "free",
         pc'[t] \in {"after", "invalid"} => Probed(t).value # Value(t)
  PROVE  Passed(t)' /\ Traced(t)' /\ (Searching(t)' => Searching(t))
  <1>1. PICK n : n = SeenTo(t)
    OBVIOUS
  <1>2. Visible(Row(t), Value(t), n - 1) /\ (~force[t] => Missing(Row(t), Value(t), n))
    BY <1>1 DEF SInv, Passed, Looking
  <1>3. Searching(t) /\ Wanted(t) /\ Gone(tdRow[t], call[t].value) =>
           \/ Inserting(t) /\ Cleared(tdRow[t])
           \/ Trace(tdRow[t], call[t].value, n)
    BY <1>1 DEF SInv, Traced
  <1>. QED BY <1>1, <1>2, <1>3, Onward

\* One cell more has been seen.
LEMMA OneMore ==
  ASSUME HInv, SInv, NEW t \in Threads, pc[t] \in Looking, SeenTo(t) = probe[t],
         Probed(t).flag # "free", Probed(t).value # Value(t), NEW n, n = probe[t] + 1
  PROVE  /\ Visible(Row(t), Value(t), n - 1)
         /\ ~force[t] => Missing(Row(t), Value(t), n)
  <1>1. PICK r, v, p : r = Row(t) /\ v = Value(t) /\ p = probe[t]
    OBVIOUS
  <1>2. p \in Nat /\ n - 1 = p
    BY <1>1, ReadingTheState
  <1>3. Visible(r, v, p - 1) /\ (~force[t] => Missing(r, v, p))
    BY <1>1 DEF SInv, Passed, Looking
  <1>4. table[r][Place(r, v, p)].flag # "free" /\ table[r][Place(r, v, p)].value # v
    BY <1>1, IndexIsPlace
  <1>5. \A j \in 0 .. n - 1 : j \in 0 .. p - 1 \/ j = p
    BY <1>2
  <1>6. Visible(r, v, n - 1)
    BY <1>3, <1>4, <1>5 DEF Visible
  <1>7. Missing(r, v, p) => Missing(r, v, n)
    BY <1>4, <1>5 DEF Missing
  <1>. QED BY <1>1, <1>3, <1>6, <1>7

LEMMA ChangedRowSees == ASSUME HInv, HInv', SInv, NEW t \in Threads, ChangedRow(t) PROVE SInv'
  <1>1. PICK x \in {"before", "lost", "after", "head"} : x = pc[t]
    BY AskingIs DEF ChangedRow
  <1>2. PICK y : y = IF tdRow[t] < currentRow THEN "help" ELSE Asking[x]
    OBVIOUS
  <1>3. pc' = [pc EXCEPT ![t] = y]
    BY <1>1, <1>2 DEF ChangedRow, HInv, Types
  <1>4. UNCHANGED <<cellVars, growVars, used, tdVars, callVars, probe, moveVars, row, ret>>
    BY DEF ChangedRow
  <1>5. UNCHANGED <<tdRow, tdInserts, calls, probe, call>>
    BY <1>4 DEF tdVars, callVars
  <1>6. /\ Apart(t) /\ pc'[t] = y /\ \A u \in Busy : Steady(u)
        /\ UNCHANGED <<table, moved, force, currentRow, growing, availableSegments, tdRow, row>>
    BY <1>3, <1>4, <1>5, LookApart
  <1>7. CASE y = "help"
    BY <1>1, <1>3, <1>4, <1>7, JumpSees DEF Building, Silent, AtCell, Between
  <1>8. CASE y # "help" /\ x = "before"
    <2>1. y = "before growing"
      BY <1>2, <1>8, AskingIs
    <2>2. Passed(t)' /\ Traced(t)' /\ ~Searching(t)'
      BY <1>6, <2>1, Away DEF AtCell, Between
    <2>3. Contents' = Contents /\ (Inserting(t)' <=> Inserting(t))
      BY <1>5, <1>6, SameContents DEF Inserting
    <2>4. ~force[t]
      BY <1>1, <1>8, AtRest DEF AtCell
    <2>5. tdRow[t] = 0 => Inserting(t) \/ call[t].absent
      <3>. SUFFICES ASSUME tdRow[t] = 0, ~Inserting(t) PROVE call[t].absent
        OBVIOUS
      <3>1. currentRow = 0
        BY <1>2, <1>8, ReadingTheState
      <3>2. \A r \in Rows : DOMAIN table[r] = {}
        <4>. SUFFICES ASSUME NEW r \in Rows PROVE table[r] = <<>>
          BY RowCells
        <4>1. r = 0 \/ r > currentRow
          BY <3>1, SizesAreNumbers
        <4>. QED BY <4>1, ReadingTheState DEF SInv, Later
      <3>3. \A u \in Threads : moved[u] \notin Values
        BY <3>1, MovedIsBusy
      <3>4. call[t].value \notin Contents
        BY <3>2, <3>3 DEF Contents
      <3>. QED BY <1>1, <1>8, <3>4 DEF SInv, Answers
    <2>6. Answers(t)'
      <3>1. Answers(t) /\ pc[t] = "before"
        BY <1>1, <1>8 DEF SInv
      <3>2. call[t].answer = "none" /\ (~Inserting(t) => call[t].absent \/ call[t].value \in Contents)
            /\ moved[t] = NoValue
        BY <2>4, <3>1 DEF Answers
      <3>. QED BY <1>5, <1>6, <2>1, <2>3, <2>5, <3>2 DEF Answers
    <2>7. pc[t] \notin Building \cup {"invalidate"} /\ pc'[t] \notin Building \cup {"invalidate", "write"}
      BY <1>1, <1>6, <1>8, <2>1 DEF Building
    <2>. QED BY <1>6, <2>2, <2>6, <2>7, LookSees
  <1>9. CASE y # "help" /\ x # "before"
    <2>1. /\ pc[t] \in {"lost", "after", "head"}
          /\ pc[t] = "lost" => pc'[t] = "lost growing"
          /\ pc[t] = "after" => pc'[t] = "after growing"
          /\ pc[t] = "head" => pc'[t] = "head growing"
      BY <1>1, <1>2, <1>6, <1>9, AskingIs
    <2>2. pc[t] \in Looking /\ pc'[t] \in Looking /\ ~force[t] /\ probe[t] \in Nat
      BY <2>1, AtRest, ReadingTheState DEF Looking, Between, AtCell
    <2>3. Answers(t)'
      <3>1. ~force[t] /\ pc'[t] \in {"store", "lost", "lost growing", "after", "after growing"}
              => Inserting(t)
        BY <2>1 DEF SInv, Answers
      <3>2. ~force[t] /\ pc'[t] \in {"head", "head growing", "invalid", "next"} => ~Inserting(t)
        BY <2>1 DEF SInv, Answers
      <3>3. /\ pc[t] \notin {"idle", "return", "count", "write"}
            /\ pc'[t] \notin {"idle", "return", "count", "before growing", "write"}
        BY <2>1
      <3>. QED BY <1>5, <1>6, <3>1, <3>2, <3>3, SameAnswers
    <2>4. Passed(t)' /\ Traced(t)' /\ (Searching(t)' => Searching(t))
      <3>1. CASE pc[t] \in {"lost", "head"}
        <4>1. SeenTo(t)' = SeenTo(t)
          BY <1>5, <2>1, <3>1 DEF SeenTo
        <4>2. pc[t] = "lost" => Probed(t).flag # "free"
          BY DEF SInv, Passed, Between
        <4>. QED BY <1>5, <1>6, <2>1, <2>2, <3>1, <4>1, <4>2, SamePlace
      <3>2. CASE pc[t] = "after"
        <4>. PICK n : n = probe[t] + 1
          OBVIOUS
        <4>1. SeenTo(t)' = n /\ SeenTo(t) = probe[t]
          BY <1>5, <2>1, <3>2 DEF SeenTo
        <4>2. Probed(t).flag # "free" /\ Probed(t).value # Value(t)
          BY <3>2 DEF SInv, Passed, Between
        <4>3. /\ Visible(Row(t), Value(t), n - 1)
              /\ ~force[t] => Missing(Row(t), Value(t), n)
          BY <2>2, <4>1, <4>2, OneMore
        <4>4. ~Gone(tdRow[t], call[t].value)
          <5>1. tdRow[t] = currentRow
            <6>1. ~(tdRow[t] < currentRow)
              BY <1>2, <1>9
            <6>2. Local(t) /\ tdRow[t] \in Nat /\ currentRow \in Nat
              BY ReadingTheState
            <6>3. tdRow[t] <= currentRow
              BY <6>2 DEF Local
            <6>. QED BY <6>1, <6>2, <6>3
          <5>2. \A q \in Rows : q > tdRow[t] => DOMAIN table[q] = {}
            BY <5>1, RowCells DEF SInv, Later
          <5>3. ~(tdRow[t] < currentRow)
            BY <1>2, <1>9
          <5>. QED BY <5>2, <5>3 DEF Gone
        <4>5. /\ pc'[t] = "after growing"
              /\ pc'[t] \notin {"is", "wait", "lost", "lost growing", "after", "invalid"}
              /\ pc'[t] \notin {"after", "invalid"}
          BY <2>1, <3>2
        <4>. QED BY <1>5, <1>6, <2>2, <4>1, <4>3, <4>4, <4>5, Onward
      <3>. QED BY <2>1, <3>1, <3>2
    <2>5. pc[t] \notin Building \cup {"invalidate"} /\ pc'[t] \notin Building \cup {"invalidate", "write"}
      BY <2>1 DEF Building
    <2>. QED BY <1>6, <2>3, <2>4, <2>5, LookSees
  <1>. QED BY <1>7, <1>8, <1>9

\* Neither cells are moved nor about to be where the set is not growing.
LEMMA NotShifting == HInv /\ ~growing => ~Shifting /\ ~Moving
  <1>. SUFFICES ASSUME HInv, ~growing PROVE ~Shifting /\ ~Moving
    OBVIOUS
  <1>1. \A u \in Threads : pc[u] \notin Building
    BY DEF HInv, OneBuilder, Builder
  <1>. QED BY <1>1 DEF Shifting, Moving, Building

LEMMA BeginProbingSees ==
  ASSUME HInv, HInv', SInv, NEW t \in Threads, BeginProbing(t) PROVE SInv'
  <1>1. PICK y : y = IF NoRow(t) THEN "return" ELSE IF Inserting(t) THEN "cell" ELSE "head"
    OBVIOUS
  <1>2. /\ pc[t] = "before growing" /\ pc' = [pc EXCEPT ![t] = y] /\ ~growing
        /\ probe' = [probe EXCEPT ![t] = 0]
        /\ UNCHANGED <<cellVars, growVars, tdRow, tdInserts, calls, moveVars, row, ret>>
    BY <1>1 DEF BeginProbing, Goto, tdVars
  <1>3. probe'[t] = 0 /\ \A u \in Threads \ {t} : probe'[u] = probe[u]
    BY <1>2 DEF HInv, Types
  <1>4. /\ NoRow(t) => call'[t].answer = "not found"
        /\ ~NoRow(t) => call' = call
        /\ \A u \in Threads \ {t} : call'[u] = call[u]
    <2>1. CASE NoRow(t)
      BY <1>2, <2>1, AnswerIs DEF BeginProbing
    <2>2. CASE ~NoRow(t)
      BY <2>2 DEF BeginProbing
    <2>. QED BY <2>1, <2>2
  <1>5. /\ Apart(t) /\ pc'[t] = y /\ \A u \in Busy : Steady(u)
        /\ UNCHANGED <<table, moved, force, currentRow, growing, availableSegments, tdRow, row>>
    BY <1>2, <1>3, <1>4, LookApart
  <1>6. CASE NoRow(t)
    BY <1>1, <1>2, <1>4, <1>5, <1>6, EndSees DEF Building
  <1>7. CASE ~NoRow(t)
    <2>1. /\ pc'[t] \in {"cell", "head"} /\ (pc'[t] = "head" => ~Inserting(t))
      BY <1>1, <1>5, <1>7
    <2>2. ~force[t]
      BY <1>2, AtRest DEF AtCell
    <2>3. Answers(t)'
      BY <1>2, <1>4, <1>5, <1>7, <2>1, SameAnswers
    <2>4. table[tdRow[t]] # <<>> /\ tdRow[t] \in Rows /\ tdRow[t] <= currentRow /\ call[t].value \in Values
      <3>1. Local(t) /\ tdRow[t] \in Rows /\ call[t] \in Calls
        BY <1>2, ReadingTheState
      <3>2. ~Inserting(t) => table[tdRow[t]] # <<>>
        BY <1>7 DEF NoRow
      <3>3. Inserting(t) => table[tdRow[t]] # <<>>
        <4>1. Inserting(t) => tdRow[t] # 0
          BY <1>2, <3>1 DEF Local
        <4>2. ret[t] # "grown"
          BY <1>2, <2>2, AtRest DEF Helping
        <4>. QED BY <1>2, <4>1, <4>2, OwnRowIsThere
      <3>. QED BY <3>1, <3>2, <3>3 DEF Local, Calls
    <2>5. SeenTo(t)' = 0
      BY <1>3, <2>1 DEF SeenTo
    <2>6. Row(t)' = tdRow[t] /\ Value(t)' = call[t].value
      BY <1>4, <1>5, <1>7, <2>2 DEF Row, Value
    <2>7. Passed(t)'
      <3>1. \A r, v : Visible(r, v, 0 - 1)' /\ Missing(r, v, 0)'
        <4>1. 0 .. 0 - 1 = {}
          OBVIOUS
        <4>. QED BY <4>1 DEF Visible, Missing
      <3>2. Visible(Row(t), Value(t), SeenTo(t) - 1)' /\ Missing(Row(t), Value(t), SeenTo(t))'
        BY <2>5, <3>1 DEF Visible, Missing
      <3>. QED BY <2>1, <3>2 DEF Passed
    <2>8. Traced(t)'
      <3>1. PICK r, v : r = tdRow[t] /\ v = call[t].value
        OBVIOUS
      <3>2. tdRow'[t] = r /\ call'[t].value = v
        BY <1>4, <1>5, <1>7, <3>1
      <3>3. r \in Rows /\ v \in Values /\ table[r] # <<>> /\ r \in Nat /\ currentRow \in Nat /\ r <= currentRow
        BY <2>4, <3>1, ReadingTheState
      <3>4. r = currentRow => ~Gone(r, v)
        BY <3>3, RowCells DEF SInv, Later, Gone
      <3>5. r # currentRow => Cleared(r)
        <4>1. ~Shifting
          BY <1>2, NotShifting
        <4>. QED BY <3>3, <4>1 DEF SInv, Earlier
      <3>6. Cleared(r) => Trace(r, v, 0)
        <4>. SUFFICES ASSUME Cleared(r) PROVE Trace(r, v, 0)
          OBVIOUS
        <4>1. Place(r, v, 0) \in 1 .. Size[r] /\ DOMAIN table[r] = 1 .. Size[r]
          BY <3>3, PlaceIsThere, RowCells
        <4>2. table[r][Place(r, v, 0)] = Invalid
          BY <4>1 DEF Cleared
        <4>3. table[r][Place(r, v, 0)].flag # "free"
          BY <4>2, NewCells
        <4>4. \A j \in 0 .. 0 : j = 0
          OBVIOUS
        <4>5. Visible(r, v, 0)
          BY <4>3, <4>4 DEF Visible
        <4>6. 0 \in 0 .. MaxCollisions - 1
          BY SizesAreNumbers
        <4>. QED BY <4>2, <4>5, <4>6 DEF Trace
      <3>7. Gone(r, v) => Trace(r, v, 0)
        BY <3>4, <3>5, <3>6
      <3>8. (Gone(r, v)' <=> Gone(r, v)) /\ (Trace(r, v, 0)' <=> Trace(r, v, 0))
        BY <1>5 DEF Gone, Trace, Visible, Place
      <3>9. Gone(tdRow[t], call[t].value)' <=> Gone(r, v)'
        BY <3>2 DEF Gone
      <3>10. Trace(tdRow[t], call[t].value, SeenTo(t))' <=> Trace(r, v, 0)'
        BY <2>5, <3>2 DEF Trace, Visible, Place
      <3>. QED BY <3>7, <3>8, <3>9, <3>10 DEF Traced
    <2>9. ~Shifting
      BY <1>2, NotShifting
    <2>10. pc[t] \notin Building \cup {"invalidate"} /\ pc'[t] \notin Building \cup {"invalidate", "write"}
      BY <1>2, <2>1 DEF Building
    <2>. QED BY <1>5, <2>3, <2>7, <2>8, <2>9, <2>10, LookSees
  <1>. QED BY <1>6, <1>7

\* A look at a cell that leads to another look, with what was seen before.
LEMMA LookOn ==
  ASSUME HInv, HInv', SInv, NEW t \in Threads, NEW y, pc' = [pc EXCEPT ![t] = y],
         UNCHANGED <<cellVars, growVars, used, tdVars, callVars, probe, moveVars, row, ret>>,
         pc[t] \in Looking \ {"after growing", "next"}, y \in Looking \ {"after growing", "next"},
         y \in {"is", "wait", "lost", "lost growing", "after", "invalid"} => Probed(t).flag # "free",
         y \in {"after", "invalid"} => Probed(t).value # Value(t),
         ~force[t] /\ y \in {"store", "lost", "lost growing", "after"} => Inserting(t),
         ~force[t] /\ y \in {"head", "head growing", "invalid"} => ~Inserting(t)
  PROVE  SInv'
  <1>1. UNCHANGED <<tdRow, tdInserts, calls, probe, call>>
    BY DEF tdVars, callVars
  <1>2. /\ Apart(t) /\ pc'[t] = y /\ \A u \in Busy : Steady(u)
        /\ UNCHANGED <<table, moved, force, currentRow, growing, availableSegments, tdRow, row>>
    BY <1>1, LookApart
  <1>3. SeenTo(t)' = SeenTo(t)
    BY <1>1, <1>2 DEF SeenTo
  <1>4. Passed(t)' /\ Traced(t)' /\ (Searching(t)' => Searching(t))
    BY <1>1, <1>2, <1>3, SamePlace
  <1>5. Answers(t)'
    <2>1. /\ pc[t] \notin {"idle", "return", "count", "write"}
          /\ pc'[t] \notin {"idle", "return", "count", "before growing", "write"}
      BY <1>2 DEF Looking, AtCell, Between
    <2>2. ~force[t] /\ pc'[t] \in {"store", "lost", "lost growing", "after", "after growing"}
            => Inserting(t)
      BY <1>2
    <2>3. ~force[t] /\ pc'[t] \in {"head", "head growing", "invalid", "next"} => ~Inserting(t)
      BY <1>2
    <2>. QED BY <1>1, <1>2, <2>1, <2>2, <2>3, SameAnswers
  <1>6. pc[t] \notin Building \cup {"invalidate"} /\ pc'[t] \notin Building \cup {"invalidate", "write"}
    BY <1>2 DEF Building, Looking, AtCell, Between
  <1>. QED BY <1>2, <1>4, <1>5, <1>6, LookSees

\* A look at a cell that leads to the answer.
LEMMA LookEnds ==
  ASSUME HInv, HInv', SInv, NEW t \in Threads, pc' = [pc EXCEPT ![t] = "return"],
         NEW a, a # "none", Answered(t, a), pc[t] \in Looking,
         \A u \in Threads \ {t} : probe'[u] = probe[u],
         UNCHANGED <<cellVars, growVars, tdVars, calls, moveVars, row, ret>>
  PROVE  SInv'
  <1>1. UNCHANGED <<tdRow, tdInserts, calls>>
    BY DEF tdVars
  <1>2. pc[t] # "idle" /\ pc[t] \notin Building \cup {"invalidate"}
    BY DEF Building, Looking, AtCell, Between
  <1>3. call'[t].answer = a /\ \A u \in Threads \ {t} : call'[u] = call[u]
    BY <1>2, AnswerIs
  <1>4. /\ Apart(t) /\ pc'[t] = "return" /\ \A u \in Busy : Steady(u)
        /\ UNCHANGED <<table, moved, force, currentRow, growing, availableSegments, tdRow, row>>
    BY <1>1, <1>3, LookApart
  <1>. QED BY <1>2, <1>3, <1>4, EndSees

LEMMA ProbingSees == ASSUME HInv, HInv', SInv, NEW t \in Threads, Probing(t) PROVE SInv'
  <1>1. PICK y \in {"is", "cell"} :
          /\ pc' = [pc EXCEPT ![t] = y]
          /\ y = "is" => pc[t] = "lost growing"
          /\ pc[t] \in {"lost growing", "head growing"}
    BY DEF Probing, Goto
  <1>2. UNCHANGED <<cellVars, growVars, used, tdVars, callVars, probe, moveVars, row, ret>>
    BY DEF Probing
  <1>3. pc[t] = "lost growing" => Probed(t).flag # "free"
    BY DEF SInv, Passed, Between
  <1>. QED BY <1>1, <1>2, <1>3, LookOn DEF Looking, AtCell, Between

LEMMA LookAtCellSees ==
  ASSUME HInv, HInv', SInv, NEW t \in Threads, LookAtCell(t) PROVE SInv'
  <1>1. pc[t] = "cell" /\ pc[t] \in Looking \ {"after growing", "next"}
    BY DEF LookAtCell, Looking, AtCell, Between
  <1>2. UNCHANGED <<cellVars, growVars, used, tdVars, calls, probe, moveVars, row, ret>>
    BY DEF LookAtCell
  <1>3. CASE Probed(t).flag # "free"
    <2>1. pc' = [pc EXCEPT ![t] = "is"] /\ UNCHANGED callVars
      BY <1>3, <1>2 DEF LookAtCell, Goto, callVars
    <2>. QED BY <1>1, <1>2, <1>3, <2>1, LookOn DEF Looking, AtCell, Between
  <1>4. CASE Probed(t).flag = "free" /\ (force[t] \/ Inserting(t))
    <2>1. pc' = [pc EXCEPT ![t] = "store"] /\ UNCHANGED callVars
      BY <1>4, <1>2 DEF LookAtCell, Goto, callVars
    <2>. QED BY <1>1, <1>2, <1>4, <2>1, LookOn DEF Looking, AtCell, Between
  <1>5. CASE Probed(t).flag = "free" /\ ~(force[t] \/ Inserting(t))
    <2>1. pc' = [pc EXCEPT ![t] = "return"] /\ Answered(t, "not found")
      BY <1>5 DEF LookAtCell, Goto
    <2>. QED BY <1>1, <1>2, <2>1, LookEnds
  <1>. QED BY <1>3, <1>4, <1>5

LEMMA LoseCellSees ==
  ASSUME HInv, HInv', SInv, NEW t \in Threads, LoseCell(t) PROVE SInv'
  <1>1. PICK y \in {"is", "lost"} : y = IF force[t] THEN "is" ELSE "lost"
    OBVIOUS
  <1>2. pc[t] = "store" /\ pc' = [pc EXCEPT ![t] = y] /\ Probed(t).flag # "free"
    BY <1>1 DEF LoseCell, Goto
  <1>3. UNCHANGED <<cellVars, growVars, used, tdVars, callVars, probe, moveVars, row, ret>>
    BY DEF LoseCell
  <1>4. ~force[t] => Inserting(t)
    BY <1>2 DEF SInv, Answers
  <1>. QED BY <1>1, <1>2, <1>3, <1>4, LookOn DEF Looking, AtCell, Between

\* The cell that does not match has been seen.
LEMMA DiffersSees ==
  ASSUME HInv, HInv', SInv, NEW t \in Threads, pc' = [pc EXCEPT ![t] = Differs(t)],
         UNCHANGED <<cellVars, growVars, used, tdVars, callVars, probe, moveVars, row, ret>>,
         pc[t] \in {"is", "wait"}, Probed(t).value # Value(t)
  PROVE  SInv'
  <1>1. Probed(t).flag # "free" /\ pc[t] \in Looking \ {"after growing", "next"}
    BY DEF SInv, Passed, AtCell, Looking
  <1>2. CASE ~force[t]
    <2>1. PICK y \in {"after", "invalid"} : y = Differs(t) /\ (y = "after" <=> Inserting(t))
      BY <1>2 DEF Differs
    <2>. QED BY <1>1, <1>2, <2>1, LookOn DEF Looking, AtCell, Between
  <1>3. CASE force[t]
    <2>1. UNCHANGED <<tdRow, tdInserts, calls, probe, call>>
      BY DEF tdVars, callVars
    <2>2. pc' = [pc EXCEPT ![t] = "next"]
      BY <1>3 DEF Differs
    <2>3. /\ Apart(t) /\ pc'[t] = "next" /\ \A u \in Busy : Steady(u)
          /\ UNCHANGED <<table, moved, force, currentRow, growing, availableSegments, tdRow, row>>
      BY <2>1, <2>2, LookApart
    <2>4. PICK n : n = probe[t] + 1
      OBVIOUS
    <2>5. SeenTo(t) = probe[t] /\ SeenTo(t)' = n
      BY <2>1, <2>3, <2>4 DEF SeenTo
    <2>6. Visible(Row(t), Value(t), n - 1) /\ (~force[t] => Missing(Row(t), Value(t), n))
      BY <1>1, <2>4, <2>5, OneMore
    <2>7. ~Searching(t)
      BY <1>3 DEF Searching
    <2>8. /\ pc'[t] \in Looking
          /\ pc'[t] \notin {"is", "wait", "lost", "lost growing", "after", "invalid"}
          /\ pc'[t] \notin {"after", "invalid"}
      BY <2>3 DEF Looking, AtCell
    <2>9. Passed(t)' /\ Traced(t)' /\ (Searching(t)' => Searching(t))
      BY <1>1, <2>1, <2>3, <2>5, <2>6, <2>7, <2>8, Onward
    <2>10. Answers(t)'
      BY <1>3, <2>1, <2>3, SameAnswers
    <2>11. pc[t] \notin Building \cup {"invalidate"} /\ pc'[t] \notin Building \cup {"invalidate", "write"}
      BY <2>3 DEF Building
    <2>. QED BY <2>3, <2>7, <2>9, <2>10, <2>11, LookSees
  <1>. QED BY <1>2, <1>3

LEMMA IsSees == ASSUME HInv, HInv', SInv, NEW t \in Threads, Is(t) PROVE SInv'
  <1>1. PICK c : c = Probed(t)
    OBVIOUS
  <1>2. PICK same \in BOOLEAN : same = (c.value # NoValue /\ Hash[c.value] = Hash[Value(t)])
    OBVIOUS
  <1>3. UNCHANGED <<cellVars, growVars, used, tdVars, callVars, probe, moveVars, row, ret>>
    BY DEF Is
  <1>4. pc[t] = "is" /\ pc' = [pc EXCEPT ![t] = IF same THEN "wait" ELSE Differs(t)]
    BY <1>1, <1>2 DEF Is, Goto
  <1>5. pc[t] \in Looking \ {"after growing", "next"} /\ Probed(t).flag # "free" /\ Value(t) \in Values
    BY <1>4, LookingRow DEF SInv, Passed, AtCell, Looking
  <1>6. CASE same
    BY <1>3, <1>4, <1>5, <1>6, LookOn DEF Looking, AtCell, Between
  <1>7. CASE ~same
    <2>1. Probed(t).value # Value(t)
      BY <1>1, <1>2, <1>5, <1>7, HashSetAssumption
    <2>. QED BY <1>3, <1>4, <1>7, <2>1, DiffersSees
  <1>. QED BY <1>6, <1>7

LEMMA WaitSees == ASSUME HInv, HInv', SInv, NEW t \in Threads, Wait(t) PROVE SInv'
  <1>1. pc[t] = "wait" /\ UNCHANGED <<cellVars, growVars, used, tdVars, calls, probe, moveVars, row, ret>>
    BY DEF Wait
  <1>2. CASE Probed(t).value # Value(t)
    <2>1. pc' = [pc EXCEPT ![t] = Differs(t)] /\ UNCHANGED callVars
      BY <1>1, <1>2 DEF Wait, Goto, callVars
    <2>. QED BY <1>1, <1>2, <2>1, DiffersSees
  <1>3. CASE Probed(t).value = Value(t) /\ force[t]
    <2>1. pc' = [pc EXCEPT ![t] = "error"] /\ UNCHANGED callVars
      BY <1>1, <1>3 DEF Wait, Goto, callVars
    <2>. QED BY <1>1, <2>1, JumpSees DEF Building, Silent, AtCell, Between
  <1>4. CASE Probed(t).value = Value(t) /\ ~force[t]
    <2>1. pc' = [pc EXCEPT ![t] = "return"] /\ Answered(t, "found")
      BY <1>4 DEF Wait, Goto
    <2>2. pc[t] \in Looking
      BY <1>1 DEF Looking, AtCell
    <2>. QED BY <1>1, <2>1, <2>2, LookEnds
  <1>. QED BY <1>2, <1>3, <1>4

LEMMA IsInvalidSees ==
  ASSUME HInv, HInv', SInv, NEW t \in Threads, IsInvalid(t) PROVE SInv'
  <1>1. UNCHANGED <<cellVars, growVars, used, tdVars, callVars, probe, moveVars, row, ret>>
    BY DEF IsInvalid
  <1>2. CASE Probed(t).flag = "invalid"
    <2>1. pc[t] = "invalid" /\ pc' = [pc EXCEPT ![t] = "help"]
      BY <1>2 DEF IsInvalid, Goto
    <2>. QED BY <1>1, <2>1, JumpSees DEF Building, Silent, AtCell, Between
  <1>3. CASE Probed(t).flag # "invalid"
    <2>1. pc[t] = "invalid" /\ pc' = [pc EXCEPT ![t] = "next"]
      BY <1>3 DEF IsInvalid, Goto
    <2>2. UNCHANGED <<tdRow, tdInserts, calls, probe, call>>
      BY <1>1 DEF tdVars, callVars
    <2>3. /\ Apart(t) /\ pc'[t] = "next" /\ \A u \in Busy : Steady(u)
          /\ UNCHANGED <<table, moved, force, currentRow, growing, availableSegments, tdRow, row>>
      BY <1>1, <2>1, <2>2, LookApart
    <2>4. PICK n : n = probe[t] + 1
      OBVIOUS
    <2>5. SeenTo(t) = probe[t] /\ SeenTo(t)' = n /\ probe[t] \in Nat
      BY <2>1, <2>2, <2>3, <2>4, ReadingTheState DEF SeenTo
    <2>6. /\ Probed(t).flag # "free" /\ Probed(t).value # Value(t)
          /\ pc[t] \in Looking /\ pc'[t] \in Looking /\ ~force[t]
      BY <2>1, <2>3, AtRest DEF SInv, Passed, Between, Looking, AtCell
    <2>7. Visible(Row(t), Value(t), n - 1) /\ (~force[t] => Missing(Row(t), Value(t), n))
      BY <2>4, <2>5, <2>6, OneMore
    <2>8. Trace(tdRow[t], call[t].value, SeenTo(t)) => Trace(tdRow[t], call[t].value, n)
      <3>1. PICK r, v, p : r = tdRow[t] /\ v = call[t].value /\ p = probe[t]
        OBVIOUS
      <3>2. Row(t) = r /\ Value(t) = v
        BY <2>6, <3>1 DEF Row, Value
      <3>3. table[r][Place(r, v, p)] # Invalid
        BY <1>3, <3>1, <3>2, IndexIsPlace, NewCells
      <3>4. ASSUME NEW d \in 0 .. MaxCollisions - 1, p <= d, table[r][Place(r, v, d)] = Invalid
            PROVE  n <= d
        <4>1. d # p
          BY <3>3, <3>4
        <4>. QED BY <2>4, <2>5, <3>1, <3>4, <4>1
      <3>. QED BY <2>5, <3>1, <3>4 DEF Trace
    <2>9. Searching(t) /\ Wanted(t) /\ Gone(tdRow[t], call[t].value) =>
           \/ Inserting(t) /\ Cleared(tdRow[t])
           \/ Trace(tdRow[t], call[t].value, n)
      BY <2>8 DEF SInv, Traced
    <2>10. /\ pc'[t] \notin {"is", "wait", "lost", "lost growing", "after", "invalid"}
           /\ pc'[t] \notin {"after", "invalid"}
      BY <2>3
    <2>11. Passed(t)' /\ Traced(t)' /\ (Searching(t)' => Searching(t))
      BY <2>2, <2>3, <2>5, <2>6, <2>7, <2>9, <2>10, Onward
    <2>12. ~Inserting(t)
      BY <2>1, <2>6 DEF SInv, Answers
    <2>13. Answers(t)'
      BY <2>1, <2>2, <2>3, <2>12, SameAnswers
    <2>14. pc[t] \notin Building \cup {"invalidate"} /\ pc'[t] \notin Building \cup {"invalidate", "write"}
      BY <2>1, <2>3 DEF Building
    <2>. QED BY <2>3, <2>11, <2>13, <2>14, LookSees
  <1>. QED BY <1>2, <1>3

LEMMA NextCellSees ==
  ASSUME HInv, HInv', SInv, NEW t \in Threads, NextCell(t) PROVE SInv'
  <1>1. PICK p : p = probe[t] + 1
    OBVIOUS
  <1>2. PICK find \in BOOLEAN : find = (~force[t] /\ ~Inserting(t))
    OBVIOUS
  <1>3. PICK y : y = (IF p # MaxCollisions THEN IF find THEN "head" ELSE "cell"
                      ELSE IF force[t] THEN "error" ELSE IF find THEN "return" ELSE "grow")
    OBVIOUS
  <1>4. /\ pc[t] \in {"after growing", "next"} /\ probe' = [probe EXCEPT ![t] = @ + 1]
        /\ UNCHANGED <<cellVars, growVars, used, tdVars, calls, moveVars, row, ret>>
    BY DEF NextCell
  <1>5. probe'[t] = p /\ \A u \in Threads \ {t} : probe'[u] = probe[u]
    BY <1>1, <1>4 DEF HInv, Types
  <1>6. /\ pc' = [pc EXCEPT ![t] = y]
        /\ IF p = MaxCollisions /\ find THEN Answered(t, "not found") ELSE UNCHANGED call
    BY <1>2, <1>3, <1>5 DEF NextCell
  <1>7. pc[t] \in Looking /\ probe[t] \in Nat
    BY <1>4, ReadingTheState DEF Looking, AtCell, Between
  <1>8. CASE p = MaxCollisions /\ find
    <2>1. y = "return" /\ Answered(t, "not found")
      BY <1>2, <1>3, <1>6, <1>8
    <2>. QED BY <1>4, <1>5, <1>6, <1>7, <2>1, LookEnds
  <1>9. CASE ~(p = MaxCollisions /\ find)
    <2>1. UNCHANGED <<call, tdRow, calls, tdInserts>>
      BY <1>4, <1>6, <1>9 DEF tdVars
    <2>2. /\ Apart(t) /\ pc'[t] = y /\ \A u \in Busy : Steady(u)
          /\ UNCHANGED <<table, moved, force, currentRow, growing, availableSegments, tdRow, row>>
      BY <1>4, <1>5, <1>6, <2>1, LookApart
    <2>3. y \in {"head", "cell", "error", "grow"} /\ (y = "head" => ~Inserting(t) /\ ~force[t])
      BY <1>2, <1>3, <1>9
    <2>4. Answers(t)'
      BY <1>4, <2>1, <2>2, <2>3, SameAnswers
    <2>5. Passed(t)' /\ Traced(t)' /\ (Searching(t)' => Searching(t))
      <3>1. CASE y \in {"error", "grow"}
        BY <2>2, <3>1, Away DEF AtCell, Between
      <3>2. CASE y \in {"head", "cell"}
        <4>1. SeenTo(t)' = SeenTo(t)
          BY <1>1, <1>4, <1>5, <2>2, <3>2 DEF SeenTo
        <4>2. /\ pc'[t] \in Looking
              /\ pc'[t] \notin {"is", "wait", "lost", "lost growing", "after", "invalid"}
              /\ pc'[t] \notin {"after", "invalid"}
          BY <2>2, <3>2 DEF Looking, AtCell, Between
        <4>. QED BY <1>7, <2>1, <2>2, <4>1, <4>2, SamePlace
      <3>. QED BY <2>3, <3>1, <3>2
    <2>6. pc[t] \notin Building \cup {"invalidate"} /\ pc'[t] \notin Building \cup {"invalidate", "write"}
      BY <1>4, <2>2, <2>3 DEF Building
    <2>. QED BY <2>2, <2>4, <2>5, <2>6, LookSees
  <1>. QED BY <1>8, <1>9

-----------------------------------------------------------------------------
(* Steps of the growing, that leave the cells alone.                       *)

Quiet(t) == pc[t] \in {"locked", "release", "release last", "ungrow"} => ~Shifting /\ ~Moving

AllQuiet == \A t \in Threads : Quiet(t)

LEMMA BuilderIsQuiet == HInv => AllQuiet
  <1>. SUFFICES ASSUME HInv, NEW t \in Threads,
                       pc[t] \in {"locked", "release", "release last", "ungrow"}
                PROVE  ~Shifting /\ ~Moving
    BY DEF AllQuiet, Quiet
  <1>1. ~Moving /\ \A u \in Threads \ {t} : ~Builder(u)
    BY BuildsAlone DEF Builder, Building
  <1>2. \A u \in Threads : pc[u] \notin {"workers", "segments"}
    BY <1>1 DEF Builder, Building
  <1>. QED BY <1>1, <1>2 DEF Shifting

LEMMA AwayStill ==
  ASSUME HInv, HInv', SInv, NEW t \in Threads, Apart(t),
         UNCHANGED <<table, moved, force, call, currentRow>>,
         pc[t] \notin Silent \cup {"write"},
         pc'[t] \notin AtCell \cup Between \cup Silent \cup {"before growing"},
         Shifting' => Shifting, Shifting /\ ~Shifting' => Cleared(currentRow - 1),
         Covered', \A u \in Threads : force[u] => Steady(u)
  PROVE  SInv'
  <1>1. Passed(t)' /\ Traced(t)' /\ ~Searching(t)'
    BY Away
  <1>2. Answers(t)'
    BY SameAnswers DEF Silent, AtCell, Between
  <1>3. Later' /\ Earlier' /\ Settled'
    BY <1>1, SameRows
  <1>4. TakenOut'
    BY SameTakenOut
  <1>. QED BY <1>1, <1>2, <1>3, <1>4, StillSees DEF AtCell

LEMMA NotMovingCovered == ~Moving' => Covered'
  BY DEF Covered

LEMMA TakeGrowingSees ==
  ASSUME HInv, HInv', SInv, NEW t \in Threads, TakeGrowing(t) PROVE SInv'
  <1>1. PICK y, r : y = (IF growing THEN "help" ELSE "locked") /\ r = (IF growing THEN "lock" ELSE "update")
    OBVIOUS
  <1>2. /\ pc[t] = "lock" /\ pc' = [pc EXCEPT ![t] = y] /\ ret' = [ret EXCEPT ![t] = r]
        /\ growing' = TRUE
    BY <1>1 DEF TakeGrowing, Goto
  <1>3. UNCHANGED <<table, currentRow, availableSegments, tdRow, tdInserts, call, calls, probe,
                    force, moved, position, segment, row>>
    BY DEF TakeGrowing, cellVars, tdVars, callVars, moveVars
  <1>4. pc'[t] = y /\ \A u \in Threads \ {t} : pc'[u] = pc[u] /\ ret'[u] = ret[u]
    BY <1>2 DEF HInv, Types
  <1>5. Apart(t) /\ \A u \in Threads : Steady(u)
    BY <1>3, <1>4 DEF Apart, Steady
  <1>6. CASE growing
    <2>1. growing' = growing /\ y = "help"
      BY <1>1, <1>2, <1>6 DEF HInv, Types
    <2>. QED BY <1>2, <1>3, <1>4, <1>5, <2>1, AwaySees DEF Building, Silent, AtCell, Between, Busy
  <1>7. CASE ~growing
    <2>1. pc'[t] = "locked"
      BY <1>1, <1>4, <1>7
    <2>2. ~Shifting
      BY <1>7, NotShifting
    <2>3. ~Shifting' /\ ~Moving'
      <3>1. (HInv => AllQuiet)'
        BY BuilderIsQuiet, PTL
      <3>. QED BY <2>1, <3>1 DEF AllQuiet, Quiet
    <2>4. Covered'
      BY <2>3, NotMovingCovered
    <2>. QED BY <1>2, <1>3, <1>5, <2>1, <2>2, <2>3, <2>4, AwayStill DEF Silent, AtCell, Between
  <1>. QED BY <1>6, <1>7

\* The thread gives the lock back.
LEMMA UngrowSees ==
  ASSUME HInv, HInv', SInv, NEW t \in Threads, Apart(t), \A u \in Threads : Steady(u),
         pc[t] \in {"locked", "ungrow"}, pc'[t] \in {"help", "grown", "try"}, growing' = FALSE,
         UNCHANGED <<table, moved, force, call, currentRow>>
  PROVE  SInv'
  <1>1. ~Shifting
    BY BuilderIsQuiet DEF AllQuiet, Quiet
  <1>2. ~Shifting' /\ ~Moving'
    <2>1. (HInv /\ ~growing => ~Shifting /\ ~Moving)'
      BY NotShifting, PTL
    <2>. QED BY <2>1
  <1>3. Covered'
    BY <1>2, NotMovingCovered
  <1>4. pc[t] \notin Silent \cup {"write"} /\ pc'[t] \notin AtCell \cup Between \cup Silent \cup {"before growing"}
    BY DEF Silent, AtCell, Between
  <1>. QED BY <1>1, <1>2, <1>3, <1>4, AwayStill

LEMMA GrownAlreadySees ==
  ASSUME HInv, HInv', SInv, NEW t \in Threads, GrownAlready(t) PROVE SInv'
  <1>1. pc[t] = "locked" /\ pc' = [pc EXCEPT ![t] = "help"] /\ growing' = FALSE
    BY DEF GrownAlready, Goto
  <1>2. UNCHANGED <<table, currentRow, availableSegments, tdRow, tdInserts, call, calls, probe,
                    force, moved, position, segment, row, ret>>
    BY DEF GrownAlready, cellVars, tdVars, callVars, moveVars
  <1>3. pc'[t] = "help" /\ \A u \in Threads \ {t} : pc'[u] = pc[u]
    BY <1>1 DEF HInv, Types
  <1>4. Apart(t) /\ \A u \in Threads : Steady(u)
    BY <1>2, <1>3 DEF Apart, Steady
  <1>. QED BY <1>1, <1>2, <1>3, <1>4, UngrowSees

LEMMA DoneRehashingSees ==
  ASSUME HInv, HInv', SInv, NEW t \in Threads, DoneRehashing(t) PROVE SInv'
  <1>1. PICK y \in {"grown", "try", "help"} :
          pc[t] = "ungrow" /\ pc' = [pc EXCEPT ![t] = y] /\ growing' = FALSE
    BY DEF DoneRehashing, Goto, AfterSegment, NoMore
  <1>2. UNCHANGED <<table, currentRow, availableSegments, tdRow, tdInserts, call, calls, probe,
                    force, moved, position, segment, row, ret>>
    BY DEF DoneRehashing, cellVars, tdVars, callVars, moveVars
  <1>3. pc'[t] = y /\ \A u \in Threads \ {t} : pc'[u] = pc[u]
    BY <1>1 DEF HInv, Types
  <1>4. Apart(t) /\ \A u \in Threads : Steady(u)
    BY <1>2, <1>3 DEF Apart, Steady
  <1>. QED BY <1>1, <1>2, <1>3, <1>4, UngrowSees

LEMMA WorkersSees == ASSUME HInv, HInv', SInv, NEW t \in Threads, Workers(t) PROVE SInv'
  <1>1. PICK y \in {"release", "segments"} : y = IF table[tdRow[t]] = <<>> THEN "release" ELSE "segments"
    OBVIOUS
  <1>2. /\ pc[t] = "workers" /\ pc' = [pc EXCEPT ![t] = y]
        /\ row' = [row EXCEPT ![t] = tdRow[t] + 1] /\ ret' = [ret EXCEPT ![t] = "grown"]
    BY <1>1 DEF Workers, Goto
  <1>3. UNCHANGED <<table, currentRow, growing, availableSegments, tdRow, tdInserts, call, calls,
                    probe, force, moved, position, segment>>
    BY DEF Workers, cellVars, tdVars, callVars, moveVars
  <1>4. pc'[t] = y /\ \A u \in Threads \ {t} : pc'[u] = pc[u] /\ row'[u] = row[u] /\ ret'[u] = ret[u]
    BY <1>2 DEF HInv, Types
  <1>5. Apart(t) /\ \A u \in Threads \ {t} : Steady(u)
    BY <1>3, <1>4 DEF Apart, Steady
  <1>6. ~force[t]
    BY <1>2, AtRest DEF AtCell
  <1>7. Shifting
    BY <1>2 DEF Shifting
  <1>8. ~Moving'
    BY <1>1, <1>4 DEF Moving, Builder, Building
  <1>9. Covered'
    BY <1>8, NotMovingCovered
  <1>10. ~Shifting' => Cleared(currentRow - 1)
    <2>1. currentRow = tdRow[t] + 1 /\ tdRow[t] \in Nat
      BY <1>2, ReadingTheState DEF HInv, OneBuilder
    <2>2. ~Shifting' => table[tdRow[t]] = <<>>
      BY <1>1, <1>4 DEF Shifting
    <2>3. table[tdRow[t]] = <<>> => Cleared(tdRow[t])
      BY NoRowIsEmpty DEF Cleared
    <2>4. currentRow - 1 = tdRow[t]
      BY <2>1
    <2>. QED BY <2>2, <2>3, <2>4
  <1>11. pc[t] \notin Silent \cup {"write"} /\ pc'[t] \notin AtCell \cup Between \cup Silent \cup {"before growing"}
    BY <1>1, <1>2, <1>4 DEF Silent, AtCell, Between
  <1>. QED BY <1>3, <1>5, <1>6, <1>7, <1>9, <1>10, <1>11, AwayStill

\* The segments are those of the whole row.
LEMMA SegmentsCover ==
  ASSUME NEW r \in Rows
  PROVE  Size[r] <= SegmentSize * Segments(r)
  <1>1. PICK n, s : n = Size[r] /\ s = SegmentSize
    OBVIOUS
  <1>2. n \in Nat \ {0} /\ s \in Nat \ {0}
    BY <1>1, SizesAreNumbers
  <1>3. CASE n < s
    BY <1>1, <1>2, <1>3 DEF Segments
  <1>4. CASE ~(n < s)
    <2>1. n % s = 0
      BY <1>1, <1>4, SegmentsAssumption
    <2>2. n = s * (n \div s)
      BY <1>2, <2>1
    <2>3. Segments(r) = n \div s
      BY <1>1, <1>4 DEF Segments
    <2>. QED BY <1>1, <1>2, <2>2, <2>3
  <1>. QED BY <1>3, <1>4

LEMMA OpenSegmentsSees ==
  ASSUME HInv, HInv', SInv, NEW t \in Threads, OpenSegments(t) PROVE SInv'
  <1>1. /\ pc[t] = "segments" /\ pc' = [pc EXCEPT ![t] = "try"]
        /\ availableSegments' = Segments(tdRow[t])
    BY DEF OpenSegments, Goto
  <1>2. UNCHANGED <<table, currentRow, growing, tdRow, tdInserts, call, calls, probe, force, moved,
                    position, segment, row, ret>>
    BY DEF OpenSegments, cellVars, tdVars, callVars, moveVars
  <1>3. pc'[t] = "try" /\ \A u \in Threads \ {t} : pc'[u] = pc[u]
    BY <1>1 DEF HInv, Types
  <1>4. Apart(t) /\ \A u \in Threads : Steady(u)
    BY <1>2, <1>3 DEF Apart, Steady
  <1>5. Shifting
    BY <1>1 DEF Shifting
  <1>6. growing /\ \A u \in Threads \ {t} : ~Builder(u)
    BY <1>1, BuildsAlone DEF Builder, Building
  <1>7. Shifting'
    <2>1. \A u \in Threads : ~Builder(u)'
      BY <1>3, <1>6 DEF Builder, Building
    <2>. QED BY <1>2, <1>6, <2>1 DEF Shifting, Moving
  <1>8. Covered'
    <2>1. PICK r \in Rows : r = tdRow[t] /\ currentRow = r + 1 /\ r \in Nat
      BY <1>1, ReadingTheState DEF HInv, OneBuilder
    <2>2. currentRow - 1 = r
      BY <2>1
    <2>3. Size[r] <= SegmentSize * Segments(r) /\ Size[r] \in Nat
      BY SegmentsCover, SizesAreNumbers
    <2>4. Segments(r) \in Nat /\ SegmentSize \in Nat
      BY SegmentsAreThere, SizesAreNumbers
    <2>5. PICK m, n : m = Size[r] /\ n = SegmentSize * Segments(r) /\ m \in Nat /\ n \in Int
      BY <2>3, <2>4
    <2>6. \A c \in 0 .. m - 1 : c < n
      BY <2>3, <2>5
    <2>7. SegmentSize * availableSegments' = n /\ currentRow' - 1 = r
      BY <1>1, <1>2, <2>1, <2>2, <2>5
    <2>. QED BY <2>5, <2>6, <2>7 DEF Covered
  <1>9. pc[t] \notin Silent \cup {"write"} /\ pc'[t] \notin AtCell \cup Between \cup Silent \cup {"before growing"}
    BY <1>1, <1>3 DEF Silent, AtCell, Between
  <1>. QED BY <1>2, <1>4, <1>5, <1>7, <1>8, <1>9, AwayStill

LEMMA TakeSegmentSees ==
  ASSUME HInv, HInv', SInv, NEW t \in Threads, TakeSegment(t) PROVE SInv'
  <1>1. UNCHANGED <<table, currentRow, growing, tdRow, tdInserts, call, calls, probe, force, moved, ret>>
    BY DEF TakeSegment, cellVars, tdVars, callVars
  <1>2. pc[t] = "take" /\ ~force[t] /\ availableSegments' = availableSegments - 1
        /\ availableSegments \in Int
    BY AtRest DEF TakeSegment, Goto, AtCell, HInv, Types
  <1>3. CASE availableSegments <= 0
    <2>1. PICK y \in {"grown", "help"} : pc' = [pc EXCEPT ![t] = y]
      BY <1>3 DEF TakeSegment, Goto, NoMore
    <2>2. UNCHANGED <<position, segment, row>>
      BY <1>3 DEF TakeSegment
    <2>3. pc'[t] = y /\ \A u \in Threads \ {t} : pc'[u] = pc[u]
      BY <2>1 DEF HInv, Types
    <2>4. Apart(t) /\ \A u \in Threads : Steady(u)
      BY <1>1, <2>2, <2>3 DEF Apart, Steady
    <2>5. pc[t] \notin Building /\ pc'[t] \notin Building /\ growing' = growing
      BY <1>1, <1>2, <2>3 DEF Building
    <2>6. (Moving' <=> Moving) /\ (Shifting' <=> Shifting)
      BY <2>4, <2>5, SameShifting
    <2>7. \A u \in Threads : u \in Busy' <=> u \in Busy
      BY <1>1, <1>2, <2>3 DEF Busy
    <2>8. Covered'
      <3>. SUFFICES ASSUME Moving', NEW c \in 0 .. Size[currentRow - 1] - 1
                    PROVE  \/ table[currentRow - 1][c + 1] = Invalid
                           \/ \E u \in Busy' : Ahead(u, c)'
        BY <1>1 DEF Covered
      <3>1. \/ table[currentRow - 1][c + 1] = Invalid
            \/ c < SegmentSize * availableSegments
            \/ \E u \in Busy : Ahead(u, c)
        BY <2>6 DEF SInv, Covered
      <3>2. ~(c < SegmentSize * availableSegments)
        <4>1. PICK s, n : s = SegmentSize /\ n = availableSegments /\ s \in Nat /\ n \in Int
          BY <1>2, SizesAreNumbers
        <4>2. s * n <= 0
          BY <1>3, <4>1
        <4>. QED BY <4>1, <4>2
      <3>3. \A u \in Busy : u \in Busy' /\ (Ahead(u, c)' <=> Ahead(u, c))
        BY <2>4, <2>7, SteadyAhead DEF Busy
      <3>. QED BY <3>1, <3>2, <3>3
    <2>9. pc[t] \notin Silent \cup {"write"} /\ pc'[t] \notin AtCell \cup Between \cup Silent \cup {"before growing"}
      BY <1>2, <2>3 DEF Silent, AtCell, Between
    <2>. QED BY <1>1, <2>4, <2>6, <2>8, <2>9, AwayStill
  <1>4. CASE ~(availableSegments <= 0)
    <2>1. PICK a : a = availableSegments - 1
      OBVIOUS
    <2>2. /\ pc' = [pc EXCEPT ![t] = "invalidate"] /\ segment' = [segment EXCEPT ![t] = a]
          /\ position' = [position EXCEPT ![t] = SegmentSize * a]
          /\ row' = [row EXCEPT ![t] = currentRow]
      BY <1>2, <1>4, <2>1 DEF TakeSegment, Goto
    <2>3. /\ pc'[t] = "invalidate"
          /\ \A u \in Threads \ {t} : pc'[u] = pc[u] /\ row'[u] = row[u]
      BY <2>2 DEF HInv, Types
    <2>4. /\ segment'[t] = a /\ position'[t] = SegmentSize * a /\ row'[t] = currentRow
          /\ \A u \in Threads \ {t} : segment'[u] = segment[u] /\ position'[u] = position[u]
      BY <2>2 DEF HInv, Types
    <2>5. Apart(t) /\ \A u \in Threads \ {t} : Steady(u)
      BY <1>1, <2>3, <2>4 DEF Apart, Steady
    <2>6. pc[t] \notin Building /\ pc'[t] \notin Building /\ growing' = growing
      BY <1>1, <1>2, <2>3 DEF Building
    <2>7. (Moving' <=> Moving) /\ (Shifting' <=> Shifting)
      BY <2>5, <2>6, SameShifting
    <2>8. Moving /\ currentRow > 1
      BY <1>4 DEF HInv, SegmentsCounted
    <2>9. PICK r \in Rows : r = currentRow - 1
      BY <2>8, SizesAreNumbers, ReadingTheState
    <2>10. t \notin Busy /\ t \in Busy' /\ \A u \in Busy : u \in Busy' /\ u # t /\ Steady(u)
      BY <1>1, <1>2, <2>3, <2>5 DEF Busy
    <2>11. PICK s, n : s = SegmentSize /\ n = Size[r] /\ s \in Nat \ {0} /\ n \in Nat /\ a \in Nat
      BY <1>2, <1>4, <2>1, SizesAreNumbers
    <2>12. OldRow(t)' = r
      BY <2>4, <2>9 DEF OldRow
    <2>13. SegmentEnd(t)' = IF s * (a + 1) > n THEN n ELSE s * (a + 1)
      BY <2>4, <2>11, <2>12 DEF SegmentEnd
    <2>14. Covered'
      <3>. SUFFICES ASSUME NEW c \in 0 .. n - 1
                    PROVE  \/ table[r][c + 1] = Invalid
                           \/ c < s * a
                           \/ \E u \in Busy' : Ahead(u, c)'
        BY <1>1, <1>2, <2>1, <2>9, <2>11 DEF Covered
      <3>1. \/ table[r][c + 1] = Invalid
            \/ c < s * (a + 1)
            \/ \E u \in Busy : Ahead(u, c)
        <4>1. availableSegments = a + 1
          BY <1>2, <2>1
        <4>. QED BY <2>8, <2>9, <2>11, <4>1 DEF SInv, Covered
      <3>2. ASSUME c < s * (a + 1), ~(c < s * a)
            PROVE  Ahead(t, c)'
        <4>1. PICK d, e : d = s * a /\ e = s * (a + 1) /\ d \in Int /\ e \in Int
          BY <2>11
        <4>2. d <= c
          BY <3>2, <4>1
        <4>3. c < IF e > n THEN n ELSE e
          BY <2>11, <3>2, <4>1
        <4>4. position'[t] = d /\ SegmentEnd(t)' = IF e > n THEN n ELSE e
          BY <2>4, <2>11, <2>13, <4>1
        <4>. QED BY <4>2, <4>3, <4>4 DEF Ahead
      <3>3. \A u \in Busy : u \in Busy' /\ (Ahead(u, c)' <=> Ahead(u, c))
        BY <2>10, SteadyAhead DEF Busy
      <3>. QED BY <2>10, <3>1, <3>2, <3>3
    <2>15. pc[t] \notin Silent \cup {"write"} /\ pc'[t] \notin AtCell \cup Between \cup Silent \cup {"before growing"}
      BY <1>2, <2>3 DEF Silent, AtCell, Between
    <2>16. \A u \in Threads : force[u] => Steady(u)
      BY <1>2, <2>5
    <2>. QED BY <1>1, <2>5, <2>7, <2>14, <2>15, <2>16, AwayStill
  <1>. QED BY <1>3, <1>4

LEMMA SegmentDoneSees ==
  ASSUME HInv, HInv', SInv, NEW t \in Threads, SegmentDone(t) PROVE SInv'
  <1>1. PICK y \in {"release", "try", "grown", "help"} :
          y = IF doneSegments + 1 = Segments(OldRow(t)) THEN "release" ELSE AfterSegment(t)
    BY DEF AfterSegment, NoMore
  <1>2. /\ pc[t] = "invalidate" /\ position[t] = SegmentEnd(t) /\ pc' = [pc EXCEPT ![t] = y]
    BY <1>1 DEF SegmentDone, Goto
  <1>3. UNCHANGED <<table, currentRow, growing, availableSegments, tdRow, tdInserts, call, calls,
                    probe, force, moved, position, segment, row, ret>>
    BY DEF SegmentDone, cellVars, tdVars, callVars, moveVars
  <1>4. pc'[t] = y /\ \A u \in Threads \ {t} : pc'[u] = pc[u]
    BY <1>2 DEF HInv, Types
  <1>5. Apart(t) /\ \A u \in Threads : Steady(u)
    BY <1>3, <1>4 DEF Apart, Steady
  <1>6. /\ Moving /\ t \in Busy /\ row[t] = currentRow /\ currentRow > 1
        /\ currentRow - 1 \in Rows /\ \A u \in Threads : ~Builder(u)
        /\ table[currentRow - 1] # <<>> /\ ~force[t]
    BY <1>2, BusyMove, AtRest DEF AtCell
  <1>7. Shifting
    BY <1>6 DEF Shifting
  <1>8. PICK r \in Rows : r = currentRow - 1 /\ r = OldRow(t)
    BY <1>6 DEF OldRow
  <1>9. \A c \in 0 .. Size[r] - 1 : ~Ahead(t, c)
    <2>1. Size[r] \in Nat /\ position[t] \in Nat
      BY SizesAreNumbers DEF HInv, Types
    <2>. QED BY <1>2, <2>1 DEF Ahead
  <1>10. \A c \in 0 .. Size[r] - 1 :
            \/ table[r][c + 1] = Invalid
            \/ c < SegmentSize * availableSegments
            \/ \E u \in Busy \ {t} : Ahead(u, c)
    BY <1>6, <1>8, <1>9 DEF SInv, Covered
  <1>11. \A u \in Busy \ {t} : u \in Busy' /\ \A c : Ahead(u, c)' <=> Ahead(u, c)
    <2>1. \A u \in Busy \ {t} : u \in Busy'
      BY <1>3, <1>4 DEF Busy
    <2>. QED BY <1>5, <2>1, SteadyAhead DEF Busy
  <1>12. Covered'
    BY <1>3, <1>8, <1>10, <1>11 DEF Covered
  <1>13. ~Shifting' => Cleared(r)
    <2>1. CASE y = "release"
      <3>1. doneSegments + 1 = Segments(r) /\ doneSegments + Cardinality(Busy) + Left = Segments(r)
            /\ Segments(r) \in Nat /\ doneSegments \in Nat /\ availableSegments \in Int
        <4>1. doneSegments + 1 = Segments(r)
          BY <1>1, <1>8, <2>1 DEF AfterSegment, NoMore
        <4>2. doneSegments + Cardinality(Busy) + Left = Segments(r)
          BY <1>6, <1>8 DEF HInv, SegmentsCounted
        <4>. QED BY <4>1, <4>2, SegmentsAreThere DEF HInv, Types
      <3>2. IsFiniteSet(Busy) /\ Cardinality(Busy) \in Nat
        BY UsersAreFinite
      <3>3. Busy \ {t} = {}
        <4>1. IsFiniteSet(Busy \ {t}) /\ Cardinality(Busy \ {t}) = Cardinality(Busy) - 1
          BY <1>6, <3>2, FS_RemoveElement
        <4>2. Left \in Nat
          BY <3>1 DEF Left
        <4>3. Cardinality(Busy \ {t}) \in Nat
          BY <4>1, FS_CardinalityType
        <4>4. Cardinality(Busy \ {t}) = 0
          BY <3>1, <3>2, <4>1, <4>2, <4>3
        <4>. QED BY <4>1, <4>4, FS_EmptySet
      <3>4. availableSegments <= 0
        <4>1. Cardinality(Busy) # 0
          BY <1>6, <3>2, FS_EmptySet
        <4>2. Left \in Nat
          BY <3>1 DEF Left
        <4>3. Left = 0
          BY <3>1, <3>2, <4>1, <4>2
        <4>. QED BY <3>1, <4>3 DEF Left
      <3>5. \A c \in 0 .. Size[r] - 1 : table[r][c + 1] = Invalid
        <4>1. PICK s, n : s = SegmentSize /\ n = availableSegments /\ s \in Nat /\ n \in Int
          BY <3>1, SizesAreNumbers
        <4>2. s * n <= 0
          BY <3>4, <4>1
        <4>3. \A c \in 0 .. Size[r] - 1 : ~(c < SegmentSize * availableSegments)
          BY <4>1, <4>2
        <4>. QED BY <1>10, <3>3, <4>3
      <3>6. DOMAIN table[r] = 1 .. Size[r] /\ Size[r] \in Nat
        BY <1>6, <1>8, RowCells, SizesAreNumbers
      <3>7. ASSUME NEW i \in 1 .. Size[r] PROVE table[r][i] = Invalid
        <4>1. PICK c : c = i - 1
          OBVIOUS
        <4>2. c \in 0 .. Size[r] - 1 /\ i = c + 1
          BY <3>6, <4>1
        <4>. QED BY <3>5, <4>2
      <3>. QED BY <3>6, <3>7 DEF Cleared
    <2>2. CASE y # "release"
      <3>1. pc[t] \notin Building /\ pc'[t] \notin Building
        BY <1>1, <1>2, <1>4, <2>2 DEF Building
      <3>2. Shifting' <=> Shifting
        BY <1>3, <1>5, <3>1, SameShifting
      <3>. QED BY <1>7, <3>2
    <2>. QED BY <2>1, <2>2
  <1>14. pc[t] \notin Silent \cup {"write"} /\ pc'[t] \notin AtCell \cup Between \cup Silent \cup {"before growing"}
    BY <1>1, <1>2, <1>4 DEF Silent, AtCell, Between
  <1>. QED BY <1>3, <1>5, <1>7, <1>8, <1>12, <1>13, <1>14, AwayStill

-----------------------------------------------------------------------------
(* Steps that change a cell.                                               *)

LEMMA OneCell ==
  ASSUME HInv, NEW r \in Rows, table[r] # <<>>, NEW i \in 1 .. Size[r], NEW c,
         Becomes(table[r][i], c), table' = [table EXCEPT ![r][i] = c]
  PROVE  /\ table'[r][i] = c
         /\ \A k \in 1 .. Size[r] : k # i => table'[r][k] = table[r][k]
         /\ \A q \in Rows \ {r} : table'[q] = table[q]
         /\ \A q \in Rows : Grows(q)
  <1>1. table[r] \in [1 .. Size[r] -> Cells] /\ DOMAIN table[r] = 1 .. Size[r] /\ DOMAIN table = Rows
    BY RowCells DEF HInv, Types
  <1>2. table'[r] = [table[r] EXCEPT ![i] = c] /\ \A q \in Rows \ {r} : table'[q] = table[q]
    BY <1>1
  <1>3. table'[r][i] = c /\ (\A k \in 1 .. Size[r] : k # i => table'[r][k] = table[r][k])
        /\ DOMAIN table'[r] = 1 .. Size[r]
    BY <1>1, <1>2
  <1>4. \A q \in Rows \ {r} : Grows(q)
    BY <1>2 DEF Grows, Becomes
  <1>5. \A k \in 1 .. Size[r] : Becomes(table[r][k], table'[r][k])
    BY <1>3 DEF Becomes
  <1>6. Grows(r)
    BY <1>1, <1>3, <1>5 DEF Grows
  <1>. QED BY <1>2, <1>3, <1>4, <1>6

LEMMA InvalidStays ==
  ASSUME HInv, HInv', NEW r \in Rows, Grows(r), NEW k \in DOMAIN table[r], table[r][k] = Invalid
  PROVE  table'[r][k] = Invalid
  <1>1. table[r] # <<>> /\ k \in 1 .. Size[r]
    BY RowCells
  <1>. QED BY <1>1, BecomesThere, BecomesWhat

LEMMA ClearedStays ==
  ASSUME HInv, HInv', NEW r \in Rows, Grows(r), Cleared(r)
  PROVE  Cleared(r)'
  <1>1. DOMAIN table'[r] = DOMAIN table[r]
    BY DEF Grows
  <1>2. \A k \in DOMAIN table[r] : table'[r][k] = Invalid
    BY InvalidStays DEF Cleared
  <1>. QED BY <1>1, <1>2 DEF Cleared

RowsThereAre == \A r \in Rows : DOMAIN table[r] = {} => table[r] = <<>>
LEMMA EmptyRows == HInv => RowsThereAre
  <1>. SUFFICES ASSUME HInv, NEW r \in Rows, table[r] # <<>> PROVE DOMAIN table[r] # {}
    BY DEF RowsThereAre
  <1>1. DOMAIN table[r] = 1 .. Size[r] /\ Size[r] \in Nat \ {0}
    BY RowCells, SizesAreNumbers
  <1>2. 1 \in 1 .. Size[r]
    BY <1>1
  <1>. QED BY <1>1, <1>2

LEMMA GrownRows ==
  ASSUME HInv, HInv', SInv, NEW t \in Threads, Apart(t), \A q \in Rows : Grows(q),
         currentRow' = currentRow, Shifting' <=> Shifting, ~Searching(t)'
  PROVE  Later' /\ Earlier' /\ Settled'
  <1>1. Later'
    <2>1. (HInv => RowsThereAre)'
      BY EmptyRows, PTL
    <2>2. ASSUME NEW r \in Rows, r > currentRow PROVE table'[r] = <<>>
      <3>1. table[r] = <<>> /\ DOMAIN table'[r] = DOMAIN table[r]
        BY <2>2 DEF SInv, Later, Grows
      <3>2. DOMAIN table'[r] = {}
        BY <3>1, RowCells
      <3>. QED BY <2>1, <3>2 DEF RowsThereAre
    <2>. QED BY <2>2 DEF Later
  <1>2. Earlier'
    <2>1. ASSUME NEW r \in Rows, r < currentRow, r = currentRow - 1 => ~Shifting
          PROVE  Cleared(r)'
      BY <2>1, ClearedStays DEF SInv, Earlier
    <2>. QED BY <2>1 DEF Earlier
  <1>3. Settled'
    <2>1. ASSUME NEW u \in Threads, Searching(u)', tdRow'[u] = currentRow'
          PROVE  ~Shifting'
      <3>1. u # t
        BY <2>1
      <3>2. Rests(u)
        BY <3>1, OthersRest
      <3>3. Searching(u) /\ tdRow[u] = currentRow
        BY <2>1, <3>2, RestsWhat DEF Rests
      <3>. QED BY <3>3 DEF SInv, Settled
    <2>. QED BY <2>1 DEF Settled
  <1>. QED BY <1>1, <1>2, <1>3

\* The cell that is moved is of the row before the current one.
LEMMA PositionIsThere ==
  ASSUME HInv, NEW u \in Threads, force[u] \/ pc[u] = "invalidate", position[u] < SegmentEnd(u)
  PROVE  /\ currentRow - 1 \in Rows /\ OldRow(u) = currentRow - 1 /\ table[currentRow - 1] # <<>>
         /\ position[u] \in Nat /\ SegmentEnd(u) \in Int
         /\ position[u] \in 0 .. Size[currentRow - 1] - 1
         /\ position[u] + 1 \in 1 .. Size[currentRow - 1]
         /\ DOMAIN table[currentRow - 1] = 1 .. Size[currentRow - 1]
  <1>1. /\ row[u] = currentRow /\ currentRow - 1 \in Rows /\ table[currentRow - 1] # <<>>
    BY BusyMove
  <1>2. PICK r \in Rows : r = currentRow - 1 /\ r = OldRow(u)
    BY <1>1 DEF OldRow
  <1>3. PICK n, s, g, p : n = Size[r] /\ s = SegmentSize /\ g = segment[u] /\ p = position[u]
    OBVIOUS
  <1>4. n \in Nat /\ s \in Nat /\ g \in Nat /\ p \in Nat
    BY <1>3, SizesAreNumbers DEF HInv, Types
  <1>5. SegmentEnd(u) = IF s * (g + 1) > n THEN n ELSE s * (g + 1)
    BY <1>2, <1>3 DEF SegmentEnd
  <1>6. PICK m \in Int : m = s * (g + 1)
    BY <1>4
  <1>7. SegmentEnd(u) <= n /\ SegmentEnd(u) \in Int
    BY <1>4, <1>5, <1>6
  <1>8. p \in 0 .. n - 1 /\ p + 1 \in 1 .. n
    BY <1>3, <1>4, <1>7
  <1>. QED BY <1>1, <1>2, <1>3, <1>4, <1>7, <1>8, RowCells

LEMMA TakenOutStays ==
  ASSUME HInv, HInv', SInv, NEW u \in Threads, force[u], Steady(u), \A q \in Rows : Grows(q),
         currentRow' = currentRow
  PROVE  /\ position'[u] < SegmentEnd(u)'
         /\ table'[currentRow' - 1][position'[u] + 1] = Invalid
  <1>1. /\ position[u] < SegmentEnd(u) /\ table[currentRow - 1][position[u] + 1] = Invalid
    BY DEF SInv, TakenOut
  <1>2. position'[u] = position[u] /\ SegmentEnd(u)' = SegmentEnd(u)
    BY SteadyAhead DEF Steady
  <1>3. currentRow - 1 \in Rows /\ position[u] + 1 \in DOMAIN table[currentRow - 1]
    BY <1>1, PositionIsThere
  <1>4. table'[currentRow - 1][position[u] + 1] = Invalid
    BY <1>1, <1>3, InvalidStays
  <1>. QED BY <1>1, <1>2, <1>4

LEMMA CoveredStays ==
  ASSUME HInv, HInv', SInv, \A q \in Rows : Grows(q), currentRow' = currentRow,
         availableSegments' = availableSegments, Moving' => Moving,
         \A u \in Busy : \A c \in 0 .. Size[currentRow - 1] - 1 :
            Ahead(u, c) => \/ u \in Busy' /\ Ahead(u, c)'
                           \/ table'[currentRow - 1][c + 1] = Invalid
  PROVE  Covered'
  <1>. SUFFICES ASSUME Moving', NEW c \in 0 .. Size[currentRow - 1] - 1
                PROVE  \/ table'[currentRow - 1][c + 1] = Invalid
                       \/ c < SegmentSize * availableSegments
                       \/ \E u \in Busy' : Ahead(u, c)'
    BY DEF Covered
  <1>1. PICK r \in Rows : r = currentRow - 1 /\ table[r] # <<>>
    BY OldRowIsThere DEF HInv, SegmentsCounted
  <1>2. c + 1 \in DOMAIN table[r]
    BY <1>1, RowCells, SizesAreNumbers
  <1>3. table[r][c + 1] = Invalid => table'[r][c + 1] = Invalid
    BY <1>2, InvalidStays
  <1>4. \/ table[r][c + 1] = Invalid
        \/ c < SegmentSize * availableSegments
        \/ \E u \in Busy : Ahead(u, c)
    BY <1>1 DEF SInv, Covered
  <1>. QED BY <1>1, <1>3, <1>4

LEMMA ReachedStays ==
  ASSUME HInv, HInv', NEW q \in Rows, Grows(q), NEW k \in DOMAIN table[q],
         table'[q][k].value = table[q][k].value, table[q][k].value # NoValue, Reached(q, k)
  PROVE  Reached(q, k)'
  <1>1. PICK w : w = table[q][k].value
    OBVIOUS
  <1>2. PICK d \in 0 .. MaxCollisions - 1 : k = Place(q, w, d) /\ Visible(q, w, d)
    BY <1>1 DEF Reached
  <1>3. w \in Values /\ table[q] # <<>> /\ d \in Int
    BY <1>1, RowCells, CellKinds
  <1>4. Visible(q, w, d)'
    BY <1>2, <1>3, VisibleStays
  <1>5. table'[q][k].value = w
    BY <1>1
  <1>6. Visible(q, table[q][k].value, d)'
    BY <1>4, <1>5 DEF Visible, Place
  <1>. QED BY <1>2, <1>5, <1>6 DEF Reached, Place

LEMMA ReachableStays ==
  ASSUME HInv, HInv', SInv, \A q \in Rows : Grows(q),
         \A q \in Rows : \A k \in DOMAIN table[q] : table'[q][k].value # NoValue =>
            table'[q][k].value = table[q][k].value \/ Reached(q, k)'
  PROVE  Reachable'
  <1>. SUFFICES ASSUME NEW q \in Rows, NEW k \in DOMAIN table'[q], table'[q][k].value # NoValue
                PROVE  Reached(q, k)'
    BY DEF Reachable
  <1>1. k \in DOMAIN table[q] /\ Grows(q)
    BY DEF Grows
  <1>2. CASE table'[q][k].value = table[q][k].value
    BY <1>1, <1>2, ReachedStays DEF SInv, Reachable
  <1>. QED BY <1>1, <1>2

LEMMA OthersStay ==
  ASSUME HInv, HInv', SInv, NEW t \in Threads, Apart(t), \A q \in Rows : Grows(q),
         Contents \subseteq Contents',
         \A u \in Threads \ {t} : pc[u] = "write" => Probed(u)' = Probed(u)
  PROVE  \A u \in Threads \ {t} : Answers(u)' /\ Passed(u)'
  <1>. SUFFICES ASSUME NEW u \in Threads \ {t} PROVE Answers(u)' /\ Passed(u)'
    OBVIOUS
  <1>1. Rests(u) /\ Answers(u) /\ Passed(u)
    BY OthersRest DEF SInv
  <1>2. pc[u] \in AtCell \cup Between => Grows(Row(u))
    BY LookingRow
  <1>. QED BY <1>1, <1>2, AnswersStay, PassedStays

\* No other thread writes to the cell of one that writes, or to a free one.
LEMMA TryStoreSees ==
  ASSUME HInv, HInv', SInv, NEW t \in Threads, TryStore(t)
  PROVE  /\ SInv'
         /\ force[t] => Contents' = Contents
         /\ ~force[t] => /\ Inserting(t) /\ call[t].value \notin Contents
                         /\ Contents' = Contents \cup {call[t].value}
  <1>1. PICK r, v, p, i : r = Row(t) /\ v = Value(t) /\ p = probe[t] /\ i = Index(t)
    OBVIOUS
  <1>2. /\ pc[t] = "store" /\ pc' = [pc EXCEPT ![t] = "write"] /\ Probed(t).flag = "free"
        /\ table' = [table EXCEPT ![r][i] = Cell("locked", v)]
        /\ force[t] => UNCHANGED call
        /\ ~force[t] => Answered(t, "new")
    BY <1>1 DEF TryStore, Goto, SetCell
  <1>3. UNCHANGED <<currentRow, growing, availableSegments, tdRow, tdInserts, calls, probe, force,
                    moved, position, segment, row, ret>>
    BY DEF TryStore, growVars, tdVars, moveVars
  <1>4. pc'[t] = "write" /\ \A u \in Threads \ {t} : pc'[u] = pc[u]
    BY <1>2 DEF HInv, Types
  <1>5. /\ ~force[t] => call'[t].answer = "new"
        /\ \A u \in Threads \ {t} : call'[u] = call[u]
        /\ call'[t].op = call[t].op /\ call'[t].value = call[t].value
    <2>1. call[t] \in Calls
      BY <1>2, ReadingTheState
    <2>2. CASE force[t]
      BY <1>2, <2>2
    <2>3. CASE ~force[t]
      <3>1. Answered(t, "new") /\ pc[t] # "idle"
        BY <1>2, <2>3
      <3>2. call'[t].answer = "new" /\ \A u \in Threads \ {t} : call'[u] = call[u]
        BY <3>1, AnswerIs
      <3>3. call'[t].op = call[t].op /\ call'[t].value = call[t].value
        BY <2>1, <3>1 DEF Answered, HInv, Types, Calls
      <3>. QED BY <2>3, <3>2, <3>3
    <2>. QED BY <2>2, <2>3
  <1>6. Apart(t) /\ \A u \in Threads : Steady(u)
    BY <1>3, <1>4, <1>5 DEF Apart, Steady
  <1>7. /\ r \in Rows /\ table[r] # <<>> /\ v \in Values /\ p \in Nat /\ p < MaxCollisions
        /\ table[r] \in [1 .. Size[r] -> Cells] /\ i \in 1 .. Size[r] /\ i = Place(r, v, p)
        /\ Probed(t) = table[r][i]
    BY <1>1, <1>2, LookingRow, IndexIsPlace DEF AtCell
  <1>8. Becomes(table[r][i], Cell("locked", v))
    BY <1>2, <1>7, NewCells DEF Becomes
  <1>9. /\ table'[r][i] = Cell("locked", v)
        /\ \A k \in 1 .. Size[r] : k # i => table'[r][k] = table[r][k]
        /\ \A q \in Rows \ {r} : table'[q] = table[q]
        /\ \A q \in Rows : Grows(q)
    BY <1>2, <1>7, <1>8, OneCell
  <1>10. table[r][i] = Free /\ table[r][i].value = NoValue /\ v # NoValue
    BY <1>2, <1>7, CellKinds
  <1>11. SeenTo(t) = p /\ SeenTo(t)' = p
    BY <1>1, <1>2, <1>3, <1>4 DEF SeenTo
  <1>12. ~force[t] => /\ r = tdRow[t] /\ v = call[t].value /\ Inserting(t) /\ Searching(t)
                      /\ v \notin Contents
    <2>. SUFFICES ASSUME ~force[t] PROVE /\ r = tdRow[t] /\ v = call[t].value /\ Inserting(t)
                                         /\ Searching(t) /\ v \notin Contents
      OBVIOUS
    <2>1. r = tdRow[t] /\ v = call[t].value
      BY <1>1 DEF Row, Value
    <2>2. Inserting(t)
      BY <1>2 DEF SInv, Answers
    <2>3. Searching(t) /\ Wanted(t)
      BY <1>2, <2>2 DEF Searching, AtCell, Wanted
    <2>. QED BY <1>1, <1>2, <1>11, <2>1, <2>2, <2>3, NotAtAFreeCell
  <1>13. force[t] => r = row[t] /\ v = moved[t] /\ row[t] = currentRow
    BY <1>1, BusyMove DEF Row, Value
  <1>14. \A q \in Rows : \A k \in DOMAIN table[q] : q # r \/ k # i => table'[q][k] = table[q][k]
    BY <1>9, RowCells
  <1>15. i \in DOMAIN table'[r] /\ i \in DOMAIN table[r]
    BY <1>7, <1>9, RowCells DEF Grows
  <1>16. Contents \subseteq Contents' /\ v \in Contents'
    <2>1. v \in Contents'
      BY <1>7, <1>9, <1>15, NewCells DEF Contents
    <2>2. ASSUME NEW w \in Values, NEW q \in Rows, NEW k \in DOMAIN table[q], table[q][k].value = w
          PROVE  w \in Contents'
      <3>1. q # r \/ k # i
        BY <1>10, <2>2, HashSetAssumption
      <3>2. table'[q][k].value = w /\ k \in DOMAIN table'[q]
        BY <1>9, <1>14, <2>2, <3>1 DEF Grows
      <3>. QED BY <3>2 DEF Contents
    <2>3. ASSUME NEW w \in Values, NEW u \in Threads, moved[u] = w
          PROVE  w \in Contents'
      BY <1>3, <2>3 DEF Contents
    <2>. QED BY <2>1, <2>2, <2>3 DEF Contents
  <1>17. (Moving' <=> Moving) /\ (Shifting' <=> Shifting)
    <2>1. pc[t] \notin Building /\ pc'[t] \notin Building
      BY <1>2, <1>4 DEF Building
    <2>. QED BY <1>3, <1>6, <2>1, SameShifting
  <1>18. ~Searching(t)'
    BY <1>4 DEF Searching, Between
  <1>19. Later' /\ Earlier' /\ Settled'
    BY <1>3, <1>6, <1>9, <1>17, <1>18, GrownRows
  <1>20. \A u \in Threads \ {t} : pc[u] = "write" => Row(u) # r \/ Index(u) # i
    <2>. SUFFICES ASSUME NEW u \in Threads \ {t}, pc[u] = "write", Row(u) = r, Index(u) = i
                  PROVE  FALSE
      OBVIOUS
    <2>1. Probed(u) = Cell("locked", Value(u)) /\ Probed(u) = table[r][i]
      BY DEF SInv, Passed, AtCell, Probed
    <2>. QED BY <1>2, <1>7, <2>1, NewCells
  <1>21. OneWriter'
    <2>1. ASSUME NEW u \in Threads \ {t}, pc'[u] = "write"
          PROVE  pc[u] = "write" /\ Row(u)' = Row(u) /\ Index(u)' = Index(u)
      BY <1>6, <2>1, OthersRest, RestsWhat DEF Rests
    <2>2. Row(t)' = r /\ Index(t)' = i
      <3>1. Row(t)' = r
        BY <1>1, <1>3 DEF Row
      <3>2. Value(t)' = v
        BY <1>1, <1>3, <1>5 DEF Value
      <3>. QED BY <1>1, <1>3, <3>1, <3>2 DEF Index
    <2>3. ASSUME NEW u \in Threads \ {t}, pc'[u] = "write"
          PROVE  ~(Row(u)' = r /\ Index(u)' = i)
      BY <1>20, <2>1, <2>3
    <2>4. ASSUME NEW u \in Threads, NEW w \in Threads, pc'[u] = "write", pc'[w] = "write",
                 Row(u)' = Row(w)', Index(u)' = Index(w)'
          PROVE  u = w
      <3>1. CASE u = t
        BY <2>2, <2>3, <2>4, <3>1
      <3>2. CASE w = t
        BY <2>2, <2>3, <2>4, <3>2
      <3>3. CASE u # t /\ w # t
        BY <2>1, <2>4, <3>3 DEF SInv, OneWriter
      <3>. QED BY <3>1, <3>2, <3>3
    <2>. QED BY <2>4 DEF OneWriter
  <1>22. \A u \in Threads \ {t} : pc[u] = "write" => Probed(u)' = Probed(u)
    <2>. SUFFICES ASSUME NEW u \in Threads \ {t}, pc[u] = "write" PROVE Probed(u)' = Probed(u)
      OBVIOUS
    <2>1. Row(u)' = Row(u) /\ Index(u)' = Index(u)
      BY <1>6, OthersRest, RestsWhat
    <2>2. Row(u) \in Rows /\ Index(u) \in DOMAIN table[Row(u)]
      BY LookingRow, IndexIsPlace DEF AtCell
    <2>3. table'[Row(u)][Index(u)] = table[Row(u)][Index(u)]
      BY <1>14, <1>20, <2>2
    <2>. QED BY <2>1, <2>3 DEF Probed
  <1>23. \A u \in Threads \ {t} : Answers(u)' /\ Passed(u)'
    BY <1>6, <1>9, <1>16, <1>22, OthersStay
  <1>24. Visible(r, v, p)'
    <2>1. Visible(r, v, p - 1) /\ p - 1 \in Int
      <3>1. Visible(Row(t), Value(t), SeenTo(t) - 1)
        BY <1>2 DEF SInv, Passed, AtCell
      <3>. QED BY <1>1, <1>7, <1>11, <3>1
    <2>2. Visible(r, v, p - 1)'
      BY <1>7, <1>9, <2>1, VisibleStays
    <2>3. table'[r][Place(r, v, p)].flag # "free"
      BY <1>7, <1>9, NewCells
    <2>4. \A j \in 0 .. p : j \in 0 .. p - 1 \/ j = p
      BY <1>7
    <2>. QED BY <2>2, <2>3, <2>4 DEF Visible, Place
  <1>25. Reachable'
    <2>1. Reached(r, i)'
      <3>1. table'[r][i].value = v
        BY <1>9, NewCells
      <3>2. p \in 0 .. MaxCollisions - 1
        BY <1>7, SizesAreNumbers
      <3>. QED BY <1>7, <1>24, <3>1, <3>2 DEF Reached, Visible, Place
    <2>2. \A q \in Rows : \A k \in DOMAIN table[q] : table'[q][k].value # NoValue =>
            table'[q][k].value = table[q][k].value \/ Reached(q, k)'
      BY <1>14, <2>1
    <2>. QED BY <1>9, <2>2, ReachableStays
  <1>26. Covered'
    <2>1. \A u \in Busy : u \in Busy' /\ Steady(u)
      BY <1>2, <1>3, <1>4, <1>6 DEF Busy
    <2>2. \A u \in Busy : \A c : Ahead(u, c) => u \in Busy' /\ Ahead(u, c)'
      BY <2>1, SteadyAhead DEF Busy
    <2>. QED BY <1>3, <1>9, <1>17, <2>2, CoveredStays
  <1>27. TakenOut'
    BY <1>3, <1>6, <1>9, TakenOutStays DEF TakenOut
  <1>28. Answers(t)'
    <2>1. Inserting(t)' <=> Inserting(t)
      BY <1>5 DEF Inserting
    <2>2. CASE force[t]
      <3>1. call'[t].answer = "none" /\ (~Inserting(t) => call'[t].absent \/ call'[t].value \in Contents)
        BY <1>2, <2>2 DEF SInv, Answers
      <3>. QED BY <1>3, <1>4, <1>16, <2>1, <2>2, <3>1 DEF Answers
    <2>3. CASE ~force[t]
      <3>1. call'[t].answer = "new" /\ Inserting(t)' /\ moved[t] = NoValue
        BY <1>5, <1>12, <2>1, <2>3 DEF SInv, Answers
      <3>. QED BY <1>3, <1>4, <2>3, <3>1 DEF Answers
    <2>. QED BY <2>2, <2>3
  <1>29. Passed(t)'
    <2>1. Row(t)' = r /\ Value(t)' = v
      BY <1>1, <1>3, <1>5 DEF Row, Value
    <2>2. Index(t)' = i
      BY <1>1, <1>3, <2>1 DEF Index
    <2>3. Probed(t)' = Cell("locked", Value(t)')
      BY <1>9, <2>1, <2>2 DEF Probed
    <2>4. Visible(r, v, p - 1) /\ (~force[t] => Missing(r, v, p))
      BY <1>1, <1>2, <1>11 DEF SInv, Passed, AtCell
    <2>5. p \in Int /\ p - 1 \in Int
      BY <1>7
    <2>6. Visible(r, v, p - 1)'
      BY <1>7, <1>9, <2>4, <2>5, VisibleStays
    <2>7. ~force[t] => Missing(r, v, p)'
      BY <1>7, <1>9, <2>4, <2>5, MissingStays
    <2>8. Visible(Row(t), Value(t), SeenTo(t) - 1)'
      BY <1>11, <2>1, <2>6 DEF Visible, Place
    <2>9. ~force'[t] => Missing(Row(t), Value(t), SeenTo(t))'
      BY <1>3, <1>11, <2>1, <2>7 DEF Missing, Place
    <2>. QED BY <1>4, <2>3, <2>8, <2>9 DEF Passed
  <1>30. Traced(t)'
    BY <1>18 DEF Traced
  <1>31. ASSUME NEW u \in Threads \ {t} PROVE Traced(u)'
    <2>1. Rests(u) /\ Traced(u)
      BY <1>6, OthersRest DEF SInv
    <2>2. Searching(u) => tdRow[u] \in Rows /\ tdRow[u] \in Nat /\ call[u].value \in Values
                          /\ pc[u] \notin {"idle", "return"}
      BY SearchingRow, SizesAreNumbers DEF Searching, AtCell, Between
    <2>3. ASSUME Searching(u), Wanted(u), Gone(tdRow[u], call[u].value)', ~Gone(tdRow[u], call[u].value)
          PROVE  tdRow[u] < r /\ call[u].value = v
      <3>1. ~(tdRow[u] < currentRow' /\ \E x \in Threads : moved'[x] = call[u].value)
        BY <1>3, <2>1, <2>3 DEF Gone, Rests
      <3>2. PICK q \in Rows : q > tdRow[u] /\ \E k \in DOMAIN table'[q] : table'[q][k].value = call[u].value
        BY <2>1, <2>3, <3>1 DEF Gone, Rests
      <3>5. PICK k \in DOMAIN table'[q] : table'[q][k].value = call[u].value
        BY <3>2
      <3>3. k \in DOMAIN table[q]
        BY <1>9 DEF Grows
      <3>4. q = r /\ k = i
        BY <1>14, <2>3, <3>2, <3>5, <3>3 DEF Gone
      <3>. QED BY <1>9, <3>2, <3>5, <3>4, NewCells
    <2>4. CASE Searching(u) /\ Wanted(u) /\ tdRow[u] < r /\ call[u].value = v
      <3>1. CASE force[t]
        <4>1. Gone(tdRow[u], call[u].value)
          BY <1>13, <2>4, <3>1 DEF Gone
        <4>. QED BY <1>9, <2>1, <2>2, <4>1, TracedStays
      <3>2. CASE ~force[t]
        <4>1. Inserting(u)
          BY <1>12, <2>2, <2>4, <3>2 DEF SInv, Answers, Wanted
        <4>2. Cleared(tdRow[u])
          <5>1. /\ r = tdRow[t] /\ Searching(t) /\ r \in Nat /\ currentRow \in Nat /\ r <= currentRow
            BY <1>12, <3>2, SearchingRow, ReadingTheState
          <5>2. tdRow[u] < currentRow /\ (tdRow[u] = currentRow - 1 => r = currentRow)
            BY <2>2, <2>4, <5>1
          <5>3. tdRow[u] = currentRow - 1 => ~Shifting
            BY <5>1, <5>2 DEF SInv, Settled
          <5>. QED BY <2>2, <2>4, <5>2, <5>3 DEF SInv, Earlier
        <4>3. Cleared(tdRow[u])'
          <5>1. \A q \in Rows : Cleared(q) => Cleared(q)'
            BY <1>9, ClearedStays
          <5>2. PICK q \in Rows : q = tdRow[u]
            BY <2>2, <2>4
          <5>3. Cleared(q)' /\ tdRow'[u] = q
            BY <2>1, <4>2, <5>1, <5>2 DEF Rests
          <5>. QED BY <5>3 DEF Cleared
        <4>4. Inserting(u)'
          BY <2>1, <4>1, RestsWhat
        <4>. QED BY <4>3, <4>4 DEF Traced
      <3>. QED BY <3>1, <3>2
    <2>5. CASE ~(Searching(u) /\ Wanted(u) /\ tdRow[u] < r /\ call[u].value = v)
      BY <1>9, <2>1, <2>2, <2>3, <2>5, TracedStays
    <2>. QED BY <2>4, <2>5
  <1>32. \A u \in Threads : Answers(u)' /\ Passed(u)' /\ Traced(u)'
    BY <1>23, <1>28, <1>29, <1>30, <1>31
  <1>33. Contents' \subseteq Contents \cup {v}
    <2>1. ASSUME NEW w \in Values, NEW q \in Rows, NEW k \in DOMAIN table'[q], table'[q][k].value = w
          PROVE  w \in Contents \cup {v}
      <3>1. k \in DOMAIN table[q]
        BY <1>9 DEF Grows
      <3>2. CASE q = r /\ k = i
        BY <1>9, <2>1, <3>2, NewCells
      <3>3. CASE q # r \/ k # i
        BY <1>14, <2>1, <3>1, <3>3 DEF Contents
      <3>. QED BY <3>2, <3>3
    <2>2. ASSUME NEW w \in Values, NEW u \in Threads, moved'[u] = w
          PROVE  w \in Contents
      BY <1>3, <2>2 DEF Contents
    <2>. QED BY <2>1, <2>2 DEF Contents
  <1>34. force[t] => v \in Contents
    BY <1>7, <1>13 DEF Contents
  <1>35. SInv'
    BY <1>19, <1>21, <1>25, <1>26, <1>27, <1>32 DEF SInv
  <1>. QED BY <1>12, <1>16, <1>33, <1>34, <1>35

\* The cells that another thread writes to, or the last cell before it, are not these.
LEMMA OtherCell ==
  ASSUME HInv, NEW t \in Threads, Apart(t), NEW u \in Threads \ {t}, pc[u] = "write",
         NEW r \in Rows, NEW i \in 1 .. Size[r],
         Row(u) # r \/ Index(u) # i,
         \A k \in 1 .. Size[r] : k # i => table'[r][k] = table[r][k],
         \A q \in Rows \ {r} : table'[q] = table[q]
  PROVE  Probed(u)' = Probed(u)
  <1>1. Row(u)' = Row(u) /\ Index(u)' = Index(u)
    BY OthersRest, RestsWhat
  <1>2. Row(u) \in Rows /\ Index(u) \in 1 .. Size[Row(u)]
    BY LookingRow, IndexIsPlace DEF AtCell
  <1>3. table'[Row(u)][Index(u)] = table[Row(u)][Index(u)]
    BY <1>2
  <1>. QED BY <1>1, <1>3 DEF Probed

LEMMA WriteSees ==
  ASSUME HInv, HInv', SInv, NEW t \in Threads, Write(t) PROVE SInv' /\ Contents' = Contents
  <1>1. PICK r, v, i : r = Row(t) /\ v = Value(t) /\ i = Index(t)
    OBVIOUS
  <1>2. /\ pc[t] = "write" /\ table' = [table EXCEPT ![r][i] = Cell("valid", v)]
        /\ moved' = [moved EXCEPT ![t] = NoValue] /\ force' = [force EXCEPT ![t] = FALSE]
        /\ force[t] => /\ pc' = [pc EXCEPT ![t] = "invalidate"]
                       /\ position' = [position EXCEPT ![t] = @ + 1]
        /\ ~force[t] => pc' = [pc EXCEPT ![t] = "count"] /\ UNCHANGED position
    BY <1>1 DEF Write, Goto, SetCell
  <1>3. UNCHANGED <<currentRow, growing, availableSegments, tdRow, tdInserts, call, calls, probe,
                    segment, row, ret>>
    BY DEF Write, growVars, tdVars, callVars
  <1>4. /\ pc'[t] = (IF force[t] THEN "invalidate" ELSE "count")
        /\ \A u \in Threads \ {t} : pc'[u] = pc[u]
    <2>1. CASE force[t]
      BY <1>2, <2>1 DEF HInv, Types
    <2>2. CASE ~force[t]
      BY <1>2, <2>2 DEF HInv, Types
    <2>. QED BY <2>1, <2>2
  <1>5. /\ moved'[t] = NoValue /\ force'[t] = FALSE
        /\ \A u \in Threads \ {t} : moved'[u] = moved[u] /\ force'[u] = force[u]
    BY <1>2 DEF HInv, Types
  <1>6. /\ \A u \in Threads \ {t} : position'[u] = position[u]
        /\ force[t] => position'[t] = position[t] + 1
    <2>1. position \in [Threads -> Nat]
      BY DEF HInv, Types
    <2>2. CASE force[t]
      BY <1>2, <2>1, <2>2
    <2>3. CASE ~force[t]
      BY <1>2, <2>3
    <2>. QED BY <2>2, <2>3
  <1>7. Apart(t) /\ \A u \in Threads \ {t} : Steady(u)
    BY <1>3, <1>4, <1>5, <1>6 DEF Apart, Steady
  <1>8. /\ r \in Rows /\ table[r] # <<>> /\ v \in Values
        /\ table[r] \in [1 .. Size[r] -> Cells] /\ i \in 1 .. Size[r]
        /\ Probed(t) = table[r][i] /\ Probed(t) = Cell("locked", v)
    <2>1. Probed(t) = Cell("locked", v)
      BY <1>1, <1>2 DEF SInv, Passed, AtCell
    <2>. QED BY <1>1, <1>2, <2>1, LookingRow, IndexIsPlace DEF AtCell
  <1>9. Becomes(table[r][i], Cell("valid", v))
    BY <1>8, NewCells DEF Becomes
  <1>10. /\ table'[r][i] = Cell("valid", v)
         /\ \A k \in 1 .. Size[r] : k # i => table'[r][k] = table[r][k]
         /\ \A q \in Rows \ {r} : table'[q] = table[q]
         /\ \A q \in Rows : Grows(q)
    BY <1>2, <1>8, <1>9, OneCell
  <1>11. \A q \in Rows : \A k \in DOMAIN table[q] : table'[q][k].value = table[q][k].value
    <2>1. table[r][i].value = v /\ table'[r][i].value = v
      BY <1>8, <1>10, NewCells
    <2>2. ASSUME NEW q \in Rows, NEW k \in DOMAIN table[q]
          PROVE  table'[q][k].value = table[q][k].value
      <3>1. k \in 1 .. Size[q]
        BY RowCells
      <3>. QED BY <1>10, <2>1, <3>1
    <2>. QED BY <2>2
  <1>12. i \in DOMAIN table'[r] /\ table'[r][i].value = v
    BY <1>8, <1>10, RowCells, NewCells DEF Grows
  <1>13. Contents \subseteq Contents'
    <2>1. ASSUME NEW w \in Values, NEW q \in Rows, NEW k \in DOMAIN table[q], table[q][k].value = w
          PROVE  w \in Contents'
      <3>1. table'[q][k].value = w /\ k \in DOMAIN table'[q]
        BY <1>10, <1>11, <2>1 DEF Grows
      <3>. QED BY <3>1 DEF Contents
    <2>2. ASSUME NEW w \in Values, NEW u \in Threads, moved[u] = w
          PROVE  w \in Contents'
      <3>1. CASE u # t
        BY <1>5, <2>2, <3>1 DEF Contents
      <3>2. CASE u = t
        <4>1. force[t]
          BY <2>2, <3>2, MovedIsBusy
        <4>2. w = v
          BY <1>1, <2>2, <3>2, <4>1 DEF Value
        <4>. QED BY <1>8, <1>12, <4>2 DEF Contents
      <3>. QED BY <3>1, <3>2
    <2>. QED BY <2>1, <2>2 DEF Contents
  <1>14. (Moving' <=> Moving) /\ (Shifting' <=> Shifting)
    <2>1. pc[t] \notin Building /\ pc'[t] \notin Building
      BY <1>2, <1>4 DEF Building
    <2>. QED BY <1>3, <1>7, <2>1, SameShifting
  <1>15. pc'[t] \in {"invalidate", "count"}
    BY <1>4
  <1>16. Passed(t)' /\ Traced(t)' /\ ~Searching(t)' /\ pc'[t] # "write"
    BY <1>15, Away DEF AtCell, Between
  <1>17. Later' /\ Earlier' /\ Settled'
    BY <1>3, <1>7, <1>10, <1>14, <1>16, GrownRows
  <1>18. OneWriter'
    BY <1>7, <1>16, SameWriters
  <1>19. Reachable'
    BY <1>10, <1>11, ReachableStays
  <1>20. \A u \in Threads \ {t} : pc[u] = "write" => Probed(u)' = Probed(u)
    <2>1. \A u \in Threads \ {t} : pc[u] = "write" => Row(u) # r \/ Index(u) # i
      BY <1>1, <1>2 DEF SInv, OneWriter
    <2>. QED BY <1>7, <1>8, <1>10, <2>1, OtherCell
  <1>21. \A u \in Threads \ {t} : Answers(u)' /\ Passed(u)'
    BY <1>7, <1>10, <1>13, <1>20, OthersStay
  <1>22. Covered'
    <2>1. \A u \in Busy \ {t} : u \in Busy' /\ \A c : Ahead(u, c)' <=> Ahead(u, c)
      BY <1>4, <1>5, <1>7, SteadyAhead DEF Busy
    <2>2. ASSUME t \in Busy, NEW c \in 0 .. Size[currentRow - 1] - 1, Ahead(t, c)
          PROVE  \/ t \in Busy' /\ Ahead(t, c)'
                 \/ table'[currentRow - 1][c + 1] = Invalid
      <3>1. force[t] /\ pc'[t] = "invalidate"
        BY <1>2, <1>4, <2>2 DEF Busy
      <3>2. position[t] < SegmentEnd(t) /\ table[currentRow - 1][position[t] + 1] = Invalid
        BY <3>1 DEF SInv, TakenOut
      <3>3. /\ currentRow - 1 \in Rows /\ position[t] + 1 \in DOMAIN table[currentRow - 1]
            /\ position[t] \in Nat
        BY <3>1, <3>2, PositionIsThere
      <3>4. table'[currentRow - 1][position[t] + 1] = Invalid
        BY <1>10, <3>2, <3>3, InvalidStays
      <3>5. c # position[t] => Ahead(t, c)'
        <4>1. SegmentEnd(t)' = SegmentEnd(t)
          BY <1>3 DEF SegmentEnd, OldRow
        <4>2. position[t] <= c /\ c < SegmentEnd(t)
          BY <2>2 DEF Ahead
        <4>3. c # position[t] => position[t] + 1 <= c
          BY <3>3, <4>2
        <4>. QED BY <1>6, <3>1, <4>1, <4>2, <4>3 DEF Ahead
      <3>. QED BY <3>1, <3>4, <3>5 DEF Busy
    <2>. QED BY <1>3, <1>10, <1>14, <2>1, <2>2, CoveredStays
  <1>23. TakenOut'
    <2>1. ASSUME NEW u \in Threads, force'[u]
          PROVE  /\ position'[u] < SegmentEnd(u)'
                 /\ table'[currentRow' - 1][position'[u] + 1] = Invalid
      <3>1. u # t /\ force[u]
        BY <1>5, <2>1
      <3>. QED BY <1>3, <1>7, <1>10, <3>1, TakenOutStays
    <2>. QED BY <2>1 DEF TakenOut
  <1>24. Answers(t)'
    <2>1. CASE force[t]
      BY <1>2, <1>3, <1>4, <1>5, <1>13, <2>1, AnswersOn
    <2>2. CASE ~force[t]
      <3>1. pc'[t] = "count" /\ call'[t].answer # "none"
        BY <1>2, <1>3, <1>4, <2>2 DEF SInv, Answers
      <3>2. ~Inserting(t)' => call'[t].absent \/ call'[t].value \in Contents'
        BY <1>2, <1>3, <1>13 DEF SInv, Answers, Inserting
      <3>. QED BY <1>5, <3>1, <3>2 DEF Answers
    <2>. QED BY <2>1, <2>2
  <1>25. ASSUME NEW u \in Threads \ {t} PROVE Traced(u)'
    <2>1. Rests(u) /\ Traced(u)
      BY <1>7, OthersRest DEF SInv
    <2>2. Searching(u) => Grows(tdRow[u]) /\ call[u].value \in Values
      BY <1>10, SearchingRow
    <2>3. ASSUME Searching(u), Gone(tdRow[u], call[u].value)'
          PROVE  Gone(tdRow[u], call[u].value)
      <3>1. \/ \E q \in Rows : q > tdRow[u] /\ \E k \in DOMAIN table'[q] : table'[q][k].value = call[u].value
            \/ tdRow[u] < currentRow /\ \E x \in Threads : moved'[x] = call[u].value
        BY <1>3, <2>1, <2>3 DEF Gone, Rests
      <3>2. \A q \in Rows : \A k \in DOMAIN table'[q] :
               k \in DOMAIN table[q] /\ table'[q][k].value = table[q][k].value
        BY <1>10, <1>11 DEF Grows
      <3>3. \A x \in Threads : moved'[x] = call[u].value => moved[x] = call[u].value
        BY <1>5, <2>2, <2>3, HashSetAssumption
      <3>. QED BY <3>1, <3>2, <3>3 DEF Gone
    <2>. QED BY <2>1, <2>2, <2>3, TracedStays
  <1>26. \A u \in Threads : Answers(u)' /\ Passed(u)' /\ Traced(u)'
    BY <1>16, <1>21, <1>24, <1>25
  <1>27. Contents' \subseteq Contents
    <2>1. \A q \in Rows : \A k \in DOMAIN table'[q] :
             k \in DOMAIN table[q] /\ table'[q][k].value = table[q][k].value
      BY <1>10, <1>11 DEF Grows
    <2>2. \A u \in Threads : moved'[u] \in Values => moved'[u] = moved[u]
      BY <1>5, HashSetAssumption
    <2>. QED BY <2>1, <2>2 DEF Contents
  <1>28. SInv'
    BY <1>17, <1>18, <1>19, <1>22, <1>23, <1>26 DEF SInv
  <1>. QED BY <1>13, <1>27, <1>28

\* What a thread takes out of the old row is in its hands.
LEMMA TakeOutSees ==
  ASSUME HInv, HInv', SInv, NEW t \in Threads, NEW r \in Rows, NEW i \in 1 .. Size[r],
         r = currentRow - 1, i = position[t] + 1, table[r] # <<>>, position[t] < SegmentEnd(t),
         pc[t] = "invalidate", ~force[t], Moving, Apart(t), Steady(t),
         \A u \in Threads \ {t} : Steady(u),
         table[r][i].flag = "valid", table[r][i].value \in Values,
         table'[r][i] = Invalid, \A k \in 1 .. Size[r] : k # i => table'[r][k] = table[r][k],
         \A q \in Rows \ {r} : table'[q] = table[q], \A q \in Rows : Grows(q),
         pc'[t] = "cell", force'[t], moved'[t] = table[r][i].value, probe'[t] = 0,
         UNCHANGED <<currentRow, growing, availableSegments, call>>
  PROVE  SInv' /\ Contents' = Contents
  <1>1. PICK w : w = table[r][i].value
    OBVIOUS
  <1>2. \A q \in Rows : \A k \in DOMAIN table[q] : q # r \/ k # i => table'[q][k] = table[q][k]
    BY RowCells
  <1>3. Contents \subseteq Contents'
    <2>1. ASSUME NEW x \in Values, NEW q \in Rows, NEW k \in DOMAIN table[q], table[q][k].value = x
          PROVE  x \in Contents'
      <3>1. CASE q = r /\ k = i
        BY <1>1, <2>1, <3>1 DEF Contents
      <3>2. CASE q # r \/ k # i
        <4>1. table'[q][k].value = x /\ k \in DOMAIN table'[q]
          BY <1>2, <2>1, <3>2 DEF Grows
        <4>. QED BY <4>1 DEF Contents
      <3>. QED BY <3>1, <3>2
    <2>2. ASSUME NEW x \in Values, NEW u \in Threads, moved[u] = x
          PROVE  x \in Contents'
      <3>1. u # t
        BY <2>2, MovedIsBusy
      <3>2. moved'[u] = x
        BY <2>2, <3>1 DEF Apart
      <3>. QED BY <3>2 DEF Contents
    <2>. QED BY <2>1, <2>2 DEF Contents
  <1>4. (Moving' <=> Moving) /\ (Shifting' <=> Shifting)
    BY SameShifting DEF Building
  <1>5. ~Searching(t)'
    BY DEF Searching
  <1>6. Later' /\ Earlier' /\ Settled'
    BY <1>4, <1>5, GrownRows
  <1>7. OneWriter'
    BY SameWriters
  <1>8. Reachable'
    <2>1. \A q \in Rows : \A k \in DOMAIN table[q] : table'[q][k].value # NoValue =>
             table'[q][k].value = table[q][k].value
      BY <1>2, NewCells
    <2>. QED BY <2>1, ReachableStays
  <1>9. \A u \in Threads \ {t} : pc[u] = "write" => Row(u) # r \/ Index(u) # i
    <2>. SUFFICES ASSUME NEW u \in Threads \ {t}, pc[u] = "write", Row(u) = r, Index(u) = i
                  PROVE  FALSE
      OBVIOUS
    <2>1. Probed(u) = Cell("locked", Value(u)) /\ Probed(u) = table[r][i]
      BY DEF SInv, Passed, AtCell, Probed
    <2>. QED BY <2>1, NewCells DEF Cell
  <1>10. \A u \in Threads \ {t} : Answers(u)' /\ Passed(u)'
    BY <1>3, <1>9, OtherCell, OthersStay
  <1>11. Covered'
    <2>1. \A u \in Busy : u \in Busy' /\ Steady(u)
      BY DEF Busy, Apart
    <2>2. \A u \in Busy : \A c : Ahead(u, c) => u \in Busy' /\ Ahead(u, c)'
      BY <2>1, SteadyAhead DEF Busy
    <2>. QED BY <1>4, <2>2, CoveredStays
  <1>12. TakenOut'
    <2>1. ASSUME NEW u \in Threads \ {t}, force'[u]
          PROVE  /\ position'[u] < SegmentEnd(u)'
                 /\ table'[currentRow' - 1][position'[u] + 1] = Invalid
      <3>1. force[u]
        BY <2>1 DEF Apart
      <3>. QED BY <2>1, <3>1, TakenOutStays
    <2>2. SegmentEnd(t)' = SegmentEnd(t) /\ position'[t] = position[t]
      BY SteadyAhead DEF Steady
    <2>3. /\ position'[t] < SegmentEnd(t)'
          /\ table'[currentRow' - 1][position'[t] + 1] = Invalid
      BY <2>2
    <2>. QED BY <2>1, <2>3 DEF TakenOut
  <1>13. Answers(t)'
    BY <1>3, AnswersOn
  <1>14. Passed(t)'
    <2>1. SeenTo(t)' = 0
      BY DEF SeenTo
    <2>2. 0 .. 0 - 1 = {}
      OBVIOUS
    <2>3. Visible(Row(t), Value(t), SeenTo(t) - 1)'
      BY <2>1, <2>2 DEF Visible
    <2>. QED BY <2>3 DEF Passed
  <1>15. Traced(t)'
    BY <1>5 DEF Traced
  <1>16. ASSUME NEW u \in Threads \ {t} PROVE Traced(u)'
    <2>1. Rests(u) /\ Traced(u)
      BY OthersRest DEF SInv
    <2>. PICK o, x, n : o = tdRow[u] /\ x = call[u].value /\ n = SeenTo(u)
      OBVIOUS
    <2>2. Searching(u) => /\ o \in Rows /\ o \in Nat /\ x \in Values /\ n \in Nat /\ table[o] # <<>>
                          /\ pc[u] \in AtCell \cup Between /\ Row(u) = o /\ Value(u) = x /\ ~force[u]
      BY SearchingRow, SizesAreNumbers
    <2>3. ASSUME Searching(u), Gone(tdRow[u], call[u].value)', ~Gone(tdRow[u], call[u].value)
          PROVE  o < currentRow /\ x = w /\ ~(o < r)
      <3>1. \/ \E q \in Rows : q > o /\ \E k \in DOMAIN table'[q] : table'[q][k].value = x
            \/ o < currentRow /\ \E y \in Threads : moved'[y] = x
        BY <2>1, <2>3 DEF Gone, Rests
      <3>2. \A q \in Rows : \A k \in DOMAIN table'[q] : k \in DOMAIN table[q]
        BY DEF Grows
      <3>3. \A q \in Rows : \A k \in DOMAIN table'[q] : table'[q][k].value = x => table[q][k].value = x
        <4>1. x # NoValue /\ table'[r][i].value = NoValue
          BY <2>2, <2>3, NewCells, HashSetAssumption
        <4>2. ASSUME NEW q \in Rows, NEW k \in DOMAIN table'[q], table'[q][k].value = x
              PROVE  table[q][k].value = x
          <5>1. q # r \/ k # i
            BY <4>1, <4>2
          <5>2. table'[q][k] = table[q][k]
            BY <1>2, <3>2, <5>1
          <5>. QED BY <4>2, <5>2
        <4>. QED BY <4>2
      <3>4. o < currentRow /\ \E y \in Threads : moved'[y] = x
        BY <2>3, <3>1, <3>2, <3>3 DEF Gone
      <3>5. \A y \in Threads \ {t} : moved[y] # x
        BY <2>3, <3>4 DEF Gone
      <3>6. x = w
        BY <1>1, <3>4, <3>5 DEF Apart
      <3>7. ~(o < r)
        <4>1. i \in DOMAIN table[r] /\ table[r][i].value = x
          BY <1>1, <3>6, RowCells
        <4>. QED BY <2>3, <4>1 DEF Gone
      <3>. QED BY <3>4, <3>6, <3>7
    <2>4. CASE Searching(u) /\ o < currentRow /\ x = w /\ ~(o < r)
      <3>1. o = r
        BY <2>2, <2>4, ReadingTheState
      <3>2. i \in DOMAIN table[r]
        BY RowCells
      <3>3. Reached(r, i)
        BY <1>1, <2>2, <2>4, <3>2, HashSetAssumption DEF SInv, Reachable
      <3>4. PICK d \in 0 .. MaxCollisions - 1 : i = Place(r, x, d) /\ Visible(r, x, d)
        BY <1>1, <2>4, <3>3 DEF Reached
      <3>5. Missing(r, x, n)
        <4>1. Missing(Row(u), Value(u), SeenTo(u))
          BY <2>2, <2>4 DEF SInv, Passed
        <4>. QED BY <2>2, <2>4, <3>1, <4>1
      <3>6. n <= d
        <4>1. d \in 0 .. n - 1 => FALSE
          BY <1>1, <2>4, <3>4, <3>5 DEF Missing
        <4>. QED BY <2>2, <2>4, <4>1
      <3>7. Visible(r, x, d)'
        BY <2>2, <2>4, <3>4, VisibleStays
      <3>8. table'[r][Place(r, x, d)] = Invalid
        BY <3>4
      <3>9. Trace(r, x, n)'
        BY <3>6, <3>7, <3>8 DEF Trace, Visible, Place
      <3>10. tdRow'[u] = r /\ call'[u].value = x /\ SeenTo(u)' = n
        BY <2>1, <3>1, RestsWhat DEF Rests
      <3>. QED BY <3>9, <3>10 DEF Traced, Trace, Visible, Place
    <2>5. CASE ~(Searching(u) /\ o < currentRow /\ x = w /\ ~(o < r))
      BY <2>1, <2>2, <2>3, <2>5, TracedStays
    <2>. QED BY <2>4, <2>5
  <1>17. \A u \in Threads : Answers(u)' /\ Passed(u)' /\ Traced(u)'
    BY <1>10, <1>13, <1>14, <1>15, <1>16
  <1>18. Contents' \subseteq Contents
    <2>1. ASSUME NEW x \in Values, NEW q \in Rows, NEW k \in DOMAIN table'[q], table'[q][k].value = x
          PROVE  x \in Contents
      <3>1. k \in DOMAIN table[q]
        BY DEF Grows
      <3>2. q # r \/ k # i
        <4>1. table'[r][i].value = NoValue /\ NoValue \notin Values
          BY NewCells, HashSetAssumption
        <4>. QED BY <2>1, <4>1
      <3>3. table[q][k].value = x
        BY <1>2, <2>1, <3>1, <3>2
      <3>. QED BY <3>1, <3>3 DEF Contents
    <2>2. ASSUME NEW x \in Values, NEW u \in Threads, moved'[u] = x
          PROVE  x \in Contents
      <3>1. CASE u = t
        <4>1. i \in DOMAIN table[r] /\ table[r][i].value = x
          BY <2>2, <3>1, RowCells
        <4>. QED BY <4>1 DEF Contents
      <3>2. CASE u # t
        BY <2>2, <3>2 DEF Apart, Contents
      <3>. QED BY <3>1, <3>2
    <2>. QED BY <2>1, <2>2 DEF Contents
  <1>19. SInv'
    BY <1>6, <1>7, <1>8, <1>11, <1>12, <1>17 DEF SInv
  <1>. QED BY <1>3, <1>18, <1>19

\* A cell without a value is invalidated.
LEMMA PassOverSees ==
  ASSUME HInv, HInv', SInv, NEW t \in Threads, NEW r \in Rows, NEW i \in 1 .. Size[r],
         r = currentRow - 1, i = position[t] + 1, table[r] # <<>>, position[t] < SegmentEnd(t),
         pc[t] = "invalidate", ~force[t], Moving, Apart(t),
         \A u \in Threads \ {t} : Steady(u),
         table[r][i].flag \notin {"valid", "locked"}, table[r][i] \in Cells,
         table'[r][i] = Invalid, \A k \in 1 .. Size[r] : k # i => table'[r][k] = table[r][k],
         \A q \in Rows \ {r} : table'[q] = table[q], \A q \in Rows : Grows(q),
         pc'[t] = "invalidate", position'[t] = position[t] + 1,
         UNCHANGED <<currentRow, growing, availableSegments, call, force, moved, segment, row>>
  PROVE  SInv' /\ Contents' = Contents
  <1>1. table[r][i].value = NoValue
    BY CellKinds
  <1>2. \A q \in Rows : \A k \in DOMAIN table[q] : table'[q][k].value = table[q][k].value
    <2>1. ASSUME NEW q \in Rows, NEW k \in DOMAIN table[q]
          PROVE  table'[q][k].value = table[q][k].value
      <3>1. k \in 1 .. Size[q]
        BY RowCells
      <3>. QED BY <1>1, <3>1, NewCells
    <2>. QED BY <2>1
  <1>3. Contents = Contents'
    <2>1. \A q \in Rows : DOMAIN table'[q] = DOMAIN table[q]
      BY DEF Grows
    <2>. QED BY <1>2, <2>1 DEF Contents
  <1>4. (Moving' <=> Moving) /\ (Shifting' <=> Shifting)
    BY SameShifting DEF Building
  <1>5. Passed(t)' /\ Traced(t)' /\ ~Searching(t)'
    BY Away DEF AtCell, Between
  <1>6. Later' /\ Earlier' /\ Settled'
    BY <1>4, <1>5, GrownRows
  <1>7. OneWriter'
    BY SameWriters
  <1>8. Reachable'
    BY <1>2, ReachableStays
  <1>9. \A u \in Threads \ {t} : pc[u] = "write" => Row(u) # r \/ Index(u) # i
    <2>. SUFFICES ASSUME NEW u \in Threads \ {t}, pc[u] = "write", Row(u) = r, Index(u) = i
                  PROVE  FALSE
      OBVIOUS
    <2>1. Probed(u) = Cell("locked", Value(u)) /\ Probed(u) = table[r][i]
      BY DEF SInv, Passed, AtCell, Probed
    <2>. QED BY <2>1, NewCells DEF Cell
  <1>10. \A u \in Threads \ {t} : Answers(u)' /\ Passed(u)'
    BY <1>3, <1>9, OtherCell, OthersStay
  <1>11. Covered'
    <2>1. \A u \in Busy \ {t} : u \in Busy' /\ \A c : Ahead(u, c)' <=> Ahead(u, c)
      BY SteadyAhead DEF Busy, Apart
    <2>2. ASSUME NEW c \in 0 .. Size[currentRow - 1] - 1, Ahead(t, c)
          PROVE  \/ t \in Busy' /\ Ahead(t, c)'
                 \/ table'[currentRow - 1][c + 1] = Invalid
      <3>1. position[t] \in Nat /\ position[t] <= c /\ c < SegmentEnd(t)
        BY <2>2, PositionIsThere DEF Ahead
      <3>2. SegmentEnd(t)' = SegmentEnd(t)
        BY DEF SegmentEnd, OldRow
      <3>3. c # position[t] => position[t] + 1 <= c
        BY <3>1
      <3>4. c # position[t] => Ahead(t, c)'
        BY <3>1, <3>2, <3>3 DEF Ahead
      <3>. QED BY <3>4 DEF Busy
    <2>. QED BY <1>4, <2>1, <2>2, CoveredStays
  <1>12. TakenOut'
    <2>1. ASSUME NEW u \in Threads, force'[u]
          PROVE  /\ position'[u] < SegmentEnd(u)'
                 /\ table'[currentRow' - 1][position'[u] + 1] = Invalid
      <3>1. u # t /\ force[u]
        BY <2>1
      <3>. QED BY <3>1, TakenOutStays
    <2>. QED BY <2>1 DEF TakenOut
  <1>13. Answers(t)'
    BY <1>3, AnswersOn DEF SInv, Answers
  <1>14. ASSUME NEW u \in Threads \ {t} PROVE Traced(u)'
    <2>1. Rests(u) /\ Traced(u)
      BY OthersRest DEF SInv
    <2>2. Searching(u) => Grows(tdRow[u])
      BY SearchingRow
    <2>3. Gone(tdRow[u], call[u].value)' => Gone(tdRow[u], call[u].value)
      <3>1. \A q \in Rows : \A k \in DOMAIN table'[q] :
               k \in DOMAIN table[q] /\ table'[q][k].value = table[q][k].value
        BY <1>2 DEF Grows
      <3>. QED BY <2>1, <3>1 DEF Gone, Rests
    <2>. QED BY <2>1, <2>2, <2>3, TracedStays
  <1>15. \A u \in Threads : Answers(u)' /\ Passed(u)' /\ Traced(u)'
    BY <1>5, <1>10, <1>13, <1>14
  <1>16. SInv'
    BY <1>6, <1>7, <1>8, <1>11, <1>12, <1>15 DEF SInv
  <1>. QED BY <1>3, <1>16

LEMMA InvalidateSees ==
  ASSUME HInv, HInv', SInv, NEW t \in Threads, Invalidate(t) PROVE SInv' /\ Contents' = Contents
  <1>1. PICK c : c = table[OldRow(t)][position[t] + 1]
    OBVIOUS
  <1>2. /\ pc[t] = "invalidate" /\ position[t] < SegmentEnd(t) /\ c.flag # "locked"
        /\ table' = [table EXCEPT ![OldRow(t)][position[t] + 1] = Invalid]
        /\ IF c.flag = "valid"
           THEN /\ Goto(t, "invalidate", "cell")
                /\ force' = [force EXCEPT ![t] = TRUE]
                /\ moved' = [moved EXCEPT ![t] = c.value]
                /\ probe' = [probe EXCEPT ![t] = 0]
                /\ UNCHANGED position
           ELSE /\ position' = [position EXCEPT ![t] = @ + 1]
                /\ UNCHANGED <<pc, force, moved, probe>>
    BY <1>1 DEF Invalidate
  <1>3. UNCHANGED <<currentRow, growing, availableSegments, tdRow, tdInserts, call, calls, segment,
                    row, ret>>
    BY DEF Invalidate, growVars, tdVars, callVars
  <1>4. /\ currentRow - 1 \in Rows /\ OldRow(t) = currentRow - 1 /\ table[currentRow - 1] # <<>>
        /\ position[t] + 1 \in 1 .. Size[currentRow - 1]
    BY <1>2, PositionIsThere
  <1>5. PICK r \in Rows, i \in Nat : r = currentRow - 1 /\ i = position[t] + 1 /\ i \in 1 .. Size[r]
    BY <1>4
  <1>6. /\ table[r] # <<>> /\ table[r] \in [1 .. Size[r] -> Cells] /\ c = table[r][i] /\ c \in Cells
        /\ table' = [table EXCEPT ![r][i] = Invalid]
    BY <1>1, <1>2, <1>4, <1>5, RowCells
  <1>7. Becomes(table[r][i], Invalid)
    BY <1>2, <1>6 DEF Becomes
  <1>8. /\ table'[r][i] = Invalid
        /\ \A k \in 1 .. Size[r] : k # i => table'[r][k] = table[r][k]
        /\ \A q \in Rows \ {r} : table'[q] = table[q]
        /\ \A q \in Rows : Grows(q)
    <2>1. r \in Rows /\ i \in 1 .. Size[r] /\ table[r] # <<>>
      BY <1>5, <1>6
    <2>2. table' = [table EXCEPT ![r][i] = Invalid]
      BY <1>6
    <2>. QED BY <1>7, <2>1, <2>2, OneCell
  <1>9. Moving /\ ~force[t]
    BY <1>2, BusyMove, AtRest DEF AtCell
  <1>10. CASE c.flag = "valid"
    <2>1. /\ pc' = [pc EXCEPT ![t] = "cell"] /\ force' = [force EXCEPT ![t] = TRUE]
          /\ moved' = [moved EXCEPT ![t] = c.value] /\ probe' = [probe EXCEPT ![t] = 0]
          /\ UNCHANGED position
      BY <1>2, <1>10 DEF Goto
    <2>2. /\ pc'[t] = "cell" /\ force'[t] /\ moved'[t] = c.value /\ probe'[t] = 0
          /\ \A u \in Threads \ {t} : /\ pc'[u] = pc[u] /\ force'[u] = force[u]
                                      /\ moved'[u] = moved[u] /\ probe'[u] = probe[u]
      BY <2>1 DEF HInv, Types
    <2>3. Apart(t) /\ \A u \in Threads : Steady(u)
      BY <1>3, <2>1, <2>2 DEF Apart, Steady
    <2>4. c.value \in Values
      BY <1>6, <1>10, CellsHold
    <2>. QED BY <1>2, <1>3, <1>5, <1>6, <1>8, <1>9, <1>10, <2>2, <2>3, <2>4, TakeOutSees
  <1>11. CASE c.flag # "valid"
    <2>1. position' = [position EXCEPT ![t] = @ + 1] /\ UNCHANGED <<pc, force, moved, probe>>
      BY <1>2, <1>11
    <2>2. position'[t] = position[t] + 1 /\ \A u \in Threads \ {t} : position'[u] = position[u]
      BY <2>1 DEF HInv, Types
    <2>3. Apart(t) /\ \A u \in Threads \ {t} : Steady(u)
      BY <1>3, <2>1, <2>2 DEF Apart, Steady
    <2>. QED BY <1>2, <1>3, <1>5, <1>6, <1>8, <1>9, <1>11, <2>1, <2>2, <2>3, PassOverSees
  <1>. QED BY <1>10, <1>11

-----------------------------------------------------------------------------
(* Rows that appear and go.                                                *)

LEMMA NewRowSees ==
  ASSUME HInv, HInv', SInv, NEW t \in Threads, NewRow(t) PROVE SInv' /\ Contents' = Contents
  <1>1. PICK r : r = tdRow[t] + 1
    OBVIOUS
  <1>2. /\ pc[t] = "locked" /\ pc' = [pc EXCEPT ![t] = "workers"] /\ currentRow' = r
        /\ currentRow <= tdRow[t]
        /\ table' = [table EXCEPT ![r] = [i \in 1 .. Size[r] |-> Free]]
    BY <1>1 DEF NewRow, Goto
  <1>3. UNCHANGED <<growing, availableSegments, tdRow, tdInserts, call, calls, probe, force, moved,
                    position, segment, row, ret>>
    BY DEF NewRow, tdVars, callVars, moveVars
  <1>4. pc'[t] = "workers" /\ \A u \in Threads \ {t} : pc'[u] = pc[u]
    BY <1>2 DEF HInv, Types
  <1>5. Apart(t) /\ \A u \in Threads : Steady(u)
    BY <1>3, <1>4 DEF Apart, Steady
  <1>6. currentRow \in Nat /\ tdRow[t] = currentRow /\ r = currentRow + 1
    <2>1. tdRow[t] \in Nat /\ currentRow \in Nat /\ Local(t)
      BY ReadingTheState
    <2>2. tdRow[t] <= currentRow
      BY <2>1 DEF Local
    <2>. QED BY <1>1, <1>2, <2>1, <2>2
  <1>7. r \in Rows
    <2>1. currentRow' \in Rows
      BY DEF HInv, Types
    <2>. QED BY <1>2, <2>1
  <1>8. table[r] = <<>> /\ \A q \in Rows : q > r => table[q] = <<>>
    BY <1>6, <1>7, SizesAreNumbers DEF SInv, Later
  <1>9. /\ table'[r] = [i \in 1 .. Size[r] |-> Free] /\ \A q \in Rows \ {r} : table'[q] = table[q]
    BY <1>2, <1>7 DEF HInv, Types
  <1>10. \A q \in Rows \ {r} : Grows(q)
    BY <1>9 DEF Grows, Becomes
  <1>11. ~Shifting /\ ~Moving /\ Busy = {}
    <2>1. ~Shifting /\ ~Moving
      BY <1>2, BuilderIsQuiet DEF AllQuiet, Quiet
    <2>. QED BY <2>1, Resting
  <1>12. \A u \in Threads : ~force[u] /\ moved[u] = NoValue
    BY <1>11 DEF Busy, SInv, Answers
  <1>13. DOMAIN table'[r] = 1 .. Size[r] /\ \A k \in 1 .. Size[r] : table'[r][k].value = NoValue
    BY <1>9, NewCells
  <1>14. Contents' = Contents
    <2>1. \A w \in Values : (\E q \in Rows : \E k \in DOMAIN table'[q] : table'[q][k].value = w)
                            <=> (\E q \in Rows : \E k \in DOMAIN table[q] : table[q][k].value = w)
      <3>1. \A q \in Rows \ {r} : table'[q] = table[q]
        BY <1>9
      <3>2. \A k \in DOMAIN table'[r] : table'[r][k].value \notin Values
        BY <1>13, HashSetAssumption
      <3>3. DOMAIN table[r] = {}
        BY <1>8, NoRowIsEmpty
      <3>. QED BY <3>1, <3>2, <3>3
    <2>. QED BY <1>3, <2>1 DEF Contents
  <1>15. Passed(t)' /\ Traced(t)' /\ ~Searching(t)' /\ pc'[t] # "write"
    BY <1>4, Away DEF AtCell, Between
  <1>16. OneWriter'
    BY <1>5, <1>15, SameWriters
  <1>17. Reachable'
    <2>1. ASSUME NEW q \in Rows, NEW k \in DOMAIN table'[q], table'[q][k].value # NoValue
          PROVE  Reached(q, k)'
      <3>1. q # r
        BY <1>13, <2>1
      <3>2. k \in DOMAIN table[q] /\ table'[q] = table[q] /\ Grows(q)
        BY <1>9, <1>10, <2>1, <3>1
      <3>3. Reached(q, k)
        BY <2>1, <3>2 DEF SInv, Reachable
      <3>. QED BY <2>1, <3>2, <3>3, ReachedStays
    <2>. QED BY <2>1 DEF Reachable
  <1>18. Later'
    <2>1. ASSUME NEW q \in Rows, q > r PROVE table'[q] = <<>>
      <3>1. q \in Nat /\ r \in Nat
        BY <1>7, SizesAreNumbers
      <3>2. q # r /\ table[q] = <<>>
        BY <1>8, <2>1, <3>1
      <3>. QED BY <1>9, <3>2
    <2>. QED BY <1>2, <2>1 DEF Later
  <1>19. Shifting'
    BY <1>4 DEF Shifting
  <1>20. Earlier'
    <2>1. ASSUME NEW q \in Rows, q < r, q # r - 1
          PROVE  Cleared(q)'
      <3>1. q \in Nat /\ q < currentRow /\ q # r
        BY <1>6, <2>1, SizesAreNumbers
      <3>2. Cleared(q)
        BY <1>11, <3>1 DEF SInv, Earlier
      <3>. QED BY <1>9, <3>1, <3>2 DEF Cleared
    <2>. QED BY <1>2, <1>19, <2>1 DEF Earlier
  <1>21. Settled'
    <2>1. ASSUME NEW u \in Threads, Searching(u)', tdRow'[u] = r
          PROVE  FALSE
      <3>1. u # t
        BY <1>15, <2>1
      <3>2. Rests(u)
        BY <1>5, <3>1, OthersRest
      <3>3. Searching(u) /\ tdRow[u] = r
        BY <2>1, <3>2, RestsWhat DEF Rests
      <3>4. tdRow[u] <= currentRow
        BY <3>3, SearchingRow
      <3>. QED BY <1>6, <3>3, <3>4
    <2>. QED BY <1>2, <2>1 DEF Settled
  <1>22. Covered'
    <2>1. ~Moving'
      BY <1>4 DEF Moving, Builder, Building
    <2>. QED BY <2>1, NotMovingCovered
  <1>23. TakenOut'
    BY <1>3, <1>12 DEF TakenOut
  <1>24. Answers(t)'
    BY <1>2, <1>3, <1>4, <1>12, <1>14, AnswersOn
  <1>25. ASSUME NEW u \in Threads \ {t}
         PROVE  Answers(u)' /\ Passed(u)' /\ Traced(u)'
    <2>1. Rests(u) /\ Answers(u) /\ Passed(u) /\ Traced(u)
      BY <1>5, OthersRest DEF SInv
    <2>2. Answers(u)'
      BY <1>14, <2>1, AnswersStay
    <2>3. pc[u] \in AtCell \cup Between => Row(u) \in Rows \ {r} /\ Grows(Row(u))
      BY <1>8, <1>10, LookingRow
    <2>4. Row(u)' = Row(u) /\ Index(u)' = Index(u)
      BY <2>1, RestsWhat
    <2>5. pc[u] = "write" => Probed(u)' = Probed(u)
      BY <1>9, <2>3, <2>4 DEF Probed, AtCell
    <2>6. Passed(u)'
      BY <2>1, <2>3, <2>5, PassedStays
    <2>7. Searching(u) => Grows(tdRow[u]) /\ call[u].value \in Values
      BY <1>8, <1>10, SearchingRow
    <2>8. ASSUME Searching(u), Gone(tdRow[u], call[u].value)'
          PROVE  Gone(tdRow[u], call[u].value)
      <3>1. call[u].value # NoValue
        BY <2>7, <2>8, HashSetAssumption
      <3>2. \E q \in Rows : q > tdRow[u] /\ \E k \in DOMAIN table'[q] : table'[q][k].value = call[u].value
        BY <1>3, <1>12, <2>8, <3>1 DEF Gone
      <3>3. \E q \in Rows : q > tdRow[u] /\ \E k \in DOMAIN table[q] : table[q][k].value = call[u].value
        <4>1. PICK q \in Rows : q > tdRow[u] /\ \E k \in DOMAIN table'[q] : table'[q][k].value = call[u].value
          BY <3>2
        <4>2. q # r
          BY <1>13, <3>1, <4>1
        <4>3. table'[q] = table[q]
          BY <1>9, <4>2
        <4>. QED BY <4>1, <4>3
      <3>. QED BY <3>3 DEF Gone
    <2>9. Traced(u)'
      BY <2>1, <2>7, <2>8, TracedStays
    <2>. QED BY <2>2, <2>6, <2>9
  <1>26. \A u \in Threads : Answers(u)' /\ Passed(u)' /\ Traced(u)'
    BY <1>15, <1>24, <1>25
  <1>27. SInv'
    BY <1>16, <1>17, <1>18, <1>20, <1>21, <1>22, <1>23, <1>26 DEF SInv
  <1>. QED BY <1>14, <1>27

\* A row that somebody probes is there.
RowsLookedAt == \A u \in Threads : pc[u] \in AtCell \cup Between => table[Row(u)] # <<>>

LEMMA LookedAt == HInv => RowsLookedAt
  BY LookingRow DEF RowsLookedAt

\* Numbers, for rows and counts.
LEMMA Numbers ==
  /\ \A a, b, c \in Nat : a > b /\ c < b => a # c
  /\ \A a, b, c \in Nat : b = a + 1 /\ c = b - 1 => a = c
  /\ \A m \in Nat, p \in {0, 1} : m # 0 /\ m + p = 1 => m = 1 /\ m - 1 = 0 /\ p # 1
  OBVIOUS

\* A row that is freed holds nothing, and nobody probes it.
LEMMA FreedSees ==
  ASSUME HInv, HInv', SInv, NEW t \in Threads, Apart(t), \A u \in Threads : Steady(u),
         NEW r \in Rows, r < currentRow, r = currentRow - 1 => ~Shifting,
         table'[r] = <<>>, \A q \in Rows \ {r} : table'[q] = table[q],
         UNCHANGED <<moved, force, call, currentRow, availableSegments>>,
         pc[t] \in {"release last", "leave last"}, pc'[t] \in {"ungrow", "acquire"},
         Shifting' <=> Shifting, Moving' => Moving
  PROVE  SInv' /\ Contents' = Contents
  <1>1. Cleared(r)
    BY DEF SInv, Earlier
  <1>2. DOMAIN table'[r] = {} /\ DOMAIN <<>> = {}
    BY NoRowIsEmpty
  <1>3. \A k \in DOMAIN table[r] : table[r][k].value \notin Values /\ table[r][k].value = NoValue
    BY <1>1, NewCells, HashSetAssumption DEF Cleared
  <1>4. \A q \in Rows \ {r} : Grows(q)
    BY DEF Grows, Becomes
  <1>5. currentRow \in Nat /\ r \in Nat
    BY ReadingTheState, SizesAreNumbers
  <1>6. Contents' = Contents
    <2>1. \A w \in Values : (\E q \in Rows : \E k \in DOMAIN table'[q] : table'[q][k].value = w)
                            <=> (\E q \in Rows : \E k \in DOMAIN table[q] : table[q][k].value = w)
      BY <1>2, <1>3
    <2>. QED BY <2>1 DEF Contents
  <1>7. Passed(t)' /\ Traced(t)' /\ ~Searching(t)' /\ pc'[t] # "write"
    BY Away DEF AtCell, Between
  <1>8. OneWriter'
    BY <1>7, SameWriters
  <1>9. Reachable'
    <2>1. ASSUME NEW q \in Rows, NEW k \in DOMAIN table'[q], table'[q][k].value # NoValue
          PROVE  Reached(q, k)'
      <3>1. q # r
        BY <1>2, <2>1
      <3>2. k \in DOMAIN table[q] /\ table'[q] = table[q] /\ Grows(q)
        BY <1>4, <2>1, <3>1
      <3>3. Reached(q, k)
        BY <2>1, <3>2 DEF SInv, Reachable
      <3>. QED BY <2>1, <3>2, <3>3, ReachedStays
    <2>. QED BY <2>1 DEF Reachable
  <1>10. Later'
    <2>1. ASSUME NEW q \in Rows, q > currentRow PROVE table'[q] = <<>>
      <3>1. q # r
        <4>1. q \in Nat
          BY SizesAreNumbers
        <4>. QED BY <1>5, <2>1, <4>1, Numbers
      <3>2. table[q] = <<>>
        BY <2>1 DEF SInv, Later
      <3>. QED BY <3>1, <3>2
    <2>. QED BY <2>1 DEF Later
  <1>11. Earlier'
    <2>1. ASSUME NEW q \in Rows, q < currentRow, q = currentRow - 1 => ~Shifting
          PROVE  Cleared(q)'
      <3>1. CASE q = r
        BY <1>2, <3>1 DEF Cleared
      <3>2. CASE q # r
        <4>1. Cleared(q)
          BY <2>1 DEF SInv, Earlier
        <4>. QED BY <3>2, <4>1 DEF Cleared
      <3>. QED BY <3>1, <3>2
    <2>. QED BY <2>1 DEF Earlier
  <1>12. Settled'
    <2>1. ASSUME NEW u \in Threads, Searching(u)', tdRow'[u] = currentRow'
          PROVE  ~Shifting'
      <3>1. u # t
        BY <1>7, <2>1
      <3>2. Rests(u)
        BY <3>1, OthersRest
      <3>3. Searching(u) /\ tdRow[u] = currentRow
        BY <2>1, <3>2, RestsWhat DEF Rests
      <3>. QED BY <3>3 DEF SInv, Settled
    <2>. QED BY <2>1 DEF Settled
  <1>13. Moving => currentRow - 1 \in Rows \ {r}
    <2>1. ASSUME Moving PROVE Shifting /\ currentRow > 1 /\ currentRow - 1 \in Rows
      <3>1. currentRow > 1
        BY <2>1 DEF HInv, SegmentsCounted
      <3>2. currentRow - 1 \in Rows
        BY <2>1, <3>1, OldRowIsThere DEF HInv
      <3>. QED BY <2>1, <3>1, <3>2 DEF Shifting
    <2>. QED BY <2>1
  <1>14. Busy' = Busy
    <2>1. \A u \in Threads : force'[u] = force[u] /\ (pc'[u] = "invalidate" <=> pc[u] = "invalidate")
      BY DEF Apart
    <2>. QED BY <2>1 DEF Busy
  <1>15. Covered'
    <2>1. ASSUME Moving', NEW c \in 0 .. Size[currentRow - 1] - 1
          PROVE  \/ table'[currentRow - 1][c + 1] = Invalid
                 \/ c < SegmentSize * availableSegments
                 \/ \E u \in Busy : Ahead(u, c)'
      <3>1. Moving /\ table'[currentRow - 1] = table[currentRow - 1]
        BY <1>13, <2>1
      <3>2. \/ table[currentRow - 1][c + 1] = Invalid
            \/ c < SegmentSize * availableSegments
            \/ \E u \in Busy : Ahead(u, c)
        BY <3>1 DEF SInv, Covered
      <3>3. \A u \in Busy : Ahead(u, c)' <=> Ahead(u, c)
        BY SteadyAhead DEF Busy
      <3>. QED BY <3>1, <3>2, <3>3
    <2>. QED BY <1>14, <2>1 DEF Covered
  <1>16. TakenOut'
    <2>1. ASSUME NEW u \in Threads, force[u]
          PROVE  /\ position'[u] < SegmentEnd(u)'
                 /\ table'[currentRow' - 1][position'[u] + 1] = Invalid
      <3>1. SegmentEnd(u)' = SegmentEnd(u) /\ position'[u] = position[u]
        BY SteadyAhead DEF Steady
      <3>2. position[u] < SegmentEnd(u) /\ table[currentRow - 1][position[u] + 1] = Invalid
        BY <2>1 DEF SInv, TakenOut
      <3>3. table'[currentRow - 1] = table[currentRow - 1]
        BY <1>13, <2>1, BusyMove
      <3>. QED BY <3>1, <3>2, <3>3
    <2>. QED BY <2>1 DEF TakenOut
  <1>17. Answers(t)'
    <2>1. ~force'[t] => moved'[t] = NoValue
      BY DEF SInv, Answers
    <2>. QED BY <1>6, <2>1, AnswersOn
  <1>18. ASSUME NEW u \in Threads \ {t}
         PROVE  Answers(u)' /\ Passed(u)' /\ Traced(u)'
    <2>1. Rests(u) /\ Answers(u) /\ Passed(u) /\ Traced(u)
      BY OthersRest DEF SInv
    <2>2. Answers(u)'
      BY <1>6, <2>1, AnswersStay
    <2>3. Row(u)' = Row(u) /\ Index(u)' = Index(u)
      BY <2>1, RestsWhat
    <2>4. pc[u] \in AtCell \cup Between => Row(u) \in Rows \ {r} /\ Grows(Row(u))
      <3>1. RowsLookedAt'
        <4>1. (HInv => RowsLookedAt)'
          BY LookedAt, PTL
        <4>. QED BY <4>1
      <3>2. pc'[u] = pc[u]
        BY <2>1 DEF Rests
      <3>3. pc[u] \in AtCell \cup Between => table'[Row(u)] # <<>>
        BY <2>3, <3>1, <3>2 DEF RowsLookedAt
      <3>4. pc[u] \in AtCell \cup Between => Row(u) \in Rows
        BY LookingRow
      <3>. QED BY <1>4, <3>3, <3>4
    <2>5. pc[u] = "write" => Probed(u)' = Probed(u)
      BY <2>3, <2>4 DEF Probed, AtCell
    <2>6. Passed(u)'
      BY <2>1, <2>4, <2>5, PassedStays
    <2>7. Searching(u) => Grows(tdRow[u]) /\ call[u].value \in Values
      BY <2>4, SearchingRow
    <2>8. ASSUME Searching(u), Gone(tdRow[u], call[u].value)'
          PROVE  Gone(tdRow[u], call[u].value)
      <3>1. call[u].value \in Values /\ tdRow'[u] = tdRow[u] /\ call'[u] = call[u]
        BY <2>1, <2>7, <2>8 DEF Rests
      <3>2. \A q \in Rows : (\E k \in DOMAIN table'[q] : table'[q][k].value = call[u].value)
                            => \E k \in DOMAIN table[q] : table[q][k].value = call[u].value
        BY <1>2
      <3>. QED BY <2>8, <3>1, <3>2 DEF Gone
    <2>9. Traced(u)'
      BY <2>1, <2>7, <2>8, TracedStays
    <2>. QED BY <2>2, <2>6, <2>9
  <1>19. \A u \in Threads : Answers(u)' /\ Passed(u)' /\ Traced(u)'
    BY <1>7, <1>17, <1>18
  <1>20. SInv'
    BY <1>8, <1>9, <1>10, <1>11, <1>12, <1>15, <1>16, <1>19 DEF SInv
  <1>. QED BY <1>6, <1>20

LEMMA ReleaseOldSees ==
  ASSUME HInv, HInv', SInv, NEW t \in Threads, ReleaseOld(t) PROVE SInv' /\ Contents' = Contents
  <1>1. PICK y, r : /\ r = OldRow(t) /\ pc' = [pc EXCEPT ![t] = y]
                    /\ \/ /\ pc[t] = "release" /\ y \in {"ungrow", "release last"}
                          /\ table' = table
                       \/ /\ pc[t] = "release last" /\ y = "ungrow"
                          /\ table' = table \/ table' = [table EXCEPT ![r] = <<>>]
    BY DEF ReleaseOld, Release, Goto
  <1>2. UNCHANGED <<currentRow, growing, availableSegments, tdRow, tdInserts, call, calls, probe,
                    force, moved, position, segment, row, ret>>
    BY DEF ReleaseOld, Release, tdVars, callVars, moveVars
  <1>3. pc'[t] = y /\ \A u \in Threads \ {t} : pc'[u] = pc[u]
    BY <1>1 DEF HInv, Types
  <1>4. Apart(t) /\ \A u \in Threads : Steady(u)
    BY <1>2, <1>3 DEF Apart, Steady
  <1>5. pc[t] \in {"release", "release last"} /\ pc'[t] \in {"ungrow", "release last"}
    BY <1>1, <1>3
  <1>6. ~Shifting /\ ~Moving
    BY <1>5, BuilderIsQuiet DEF AllQuiet, Quiet
  <1>7. ~Shifting' /\ ~Moving'
    <2>1. (HInv => AllQuiet)'
      BY BuilderIsQuiet, PTL
    <2>. QED BY <1>5, <2>1 DEF AllQuiet, Quiet
  <1>8. CASE table' = table
    <2>1. Covered'
      BY <1>7, NotMovingCovered
    <2>2. SInv'
      BY <1>2, <1>4, <1>5, <1>6, <1>7, <1>8, <2>1, AwayStill DEF Silent, AtCell, Between
    <2>. QED BY <1>2, <1>8, <2>2, SameContents
  <1>9. CASE table' # table
    <2>1. pc[t] = "release last" /\ y = "ungrow" /\ table' = [table EXCEPT ![r] = <<>>]
      BY <1>1, <1>9
    <2>2. row[t] = currentRow /\ row[t] # 0 /\ currentRow \in Nat
      BY <2>1, ReadingTheState DEF HInv, OneBuilder, Local
    <2>3. r = currentRow - 1
      BY <1>1, <2>2 DEF OldRow
    <2>4. r \in Rows /\ r < currentRow
      <3>1. currentRow \in Rows
        BY DEF HInv, Types
      <3>. QED BY <2>2, <2>3, <3>1, SizesAreNumbers
    <2>5. table'[r] = <<>> /\ \A q \in Rows \ {r} : table'[q] = table[q]
      BY <2>1, <2>4 DEF HInv, Types
    <2>. QED BY <1>2, <1>3, <1>4, <1>6, <1>7, <2>1, <2>4, <2>5, FreedSees
  <1>. QED BY <1>8, <1>9

\* Whoever frees the row it leaves was the last to use it: no cell of it is left to be moved.
LEMMA LastToLeave ==
  ASSUME HInv, NEW t \in Threads, pc[t] = "leave last", NEW r \in Rows \ {0}, r = tdRow[t],
         r = currentRow - 1, tableWorkers[r] = 1
  PROVE  ~Shifting
  <1>1. ret[t] = "update"
    BY AtRest DEF AtCell, Helping
  <1>2. t \in Users(r)
    BY <1>1 DEF Users, Use
  <1>3. PICK m, p : m = Cardinality(Users(r)) /\ p = IF Pending(r) THEN 1 ELSE 0
    OBVIOUS
  <1>4. IsFiniteSet(Users(r)) /\ m \in Nat /\ m # 0
    <2>1. IsFiniteSet(Users(r)) /\ Cardinality(Users(r)) \in Nat
      BY UsersAreFinite
    <2>. QED BY <1>2, <1>3, <2>1, FS_EmptySet
  <1>5. m + p = 1
    BY <1>3 DEF HInv, UsersCounted
  <1>6. m - 1 = 0 /\ ~Pending(r)
    <2>1. p \in {0, 1} /\ (Pending(r) => p = 1)
      BY <1>3
    <2>2. m - 1 = 0 /\ p # 1
      BY <1>4, <1>5, <2>1, Numbers
    <2>. QED BY <2>1, <2>2
  <1>7. \A u \in Users(r) : u = t
    <2>1. PICK S : S = Users(r) \ {t}
      OBVIOUS
    <2>2. Cardinality(S) = m - 1 /\ IsFiniteSet(S)
      BY <1>2, <1>3, <1>4, <2>1, FS_RemoveElement
    <2>3. Cardinality(S) = 0
      BY <1>6, <2>2
    <2>4. S = {}
      BY <2>2, <2>3, FS_EmptySet
    <2>. QED BY <2>1, <2>4
  <1>8. ~Moving
    BY <1>6 DEF Pending, Moving, Builder, Building
  <1>9. ASSUME NEW u \in Threads, pc[u] = "segments" PROVE FALSE
    <2>1. growing /\ \A w \in Threads \ {u} : ~Builder(w)
      BY <1>9, BuildsAlone DEF Builder, Building
    <2>. QED BY <1>6, <1>9, <2>1 DEF Pending, Builder, Building
  <1>10. ASSUME NEW u \in Threads, pc[u] = "workers" PROVE FALSE
    <2>1. ret[u] = "update"
      BY <1>10, AtRest DEF AtCell, Helping
    <2>2. currentRow = tdRow[u] + 1 /\ tdRow[u] \in Nat
      BY <1>10, ReadingTheState DEF HInv, OneBuilder
    <2>3. tdRow[u] = r
      <3>1. r \in Nat /\ currentRow \in Nat
        BY ReadingTheState, SizesAreNumbers
      <3>. QED BY <2>2, <3>1, Numbers
    <2>4. u \in Users(r)
      BY <1>10, <2>1, <2>3 DEF Users, Use
    <2>. QED BY <1>7, <1>10, <2>4
  <1>. QED BY <1>8, <1>9, <1>10 DEF Shifting

LEMMA ReleaseMineSees ==
  ASSUME HInv, HInv', SInv, NEW t \in Threads, ReleaseMine(t) PROVE SInv' /\ Contents' = Contents
  <1>1. PICK y, r : /\ r = tdRow[t] /\ pc' = [pc EXCEPT ![t] = y]
                    /\ \/ /\ pc[t] = "leave" /\ y \in {"acquire", "leave last"}
                          /\ table' = table
                       \/ /\ pc[t] = "leave last" /\ y = "acquire"
                          /\ tableWorkers' = [tableWorkers EXCEPT ![r] = @ - 1]
                          /\ table' = IF tableWorkers'[r] = 0 THEN [table EXCEPT ![r] = <<>>]
                                                              ELSE table
    BY DEF ReleaseMine, Release, Goto
  <1>2. UNCHANGED <<currentRow, growing, availableSegments, tdRow, tdInserts, call, calls, probe,
                    force, moved, position, segment, row, ret>>
    BY DEF ReleaseMine, Release, tdVars, callVars, moveVars
  <1>3. pc'[t] = y /\ \A u \in Threads \ {t} : pc'[u] = pc[u]
    BY <1>1 DEF HInv, Types
  <1>4. Apart(t) /\ \A u \in Threads : Steady(u)
    BY <1>2, <1>3 DEF Apart, Steady
  <1>5. pc[t] \in {"leave", "leave last"} /\ pc'[t] \in {"acquire", "leave last"}
    BY <1>1, <1>3
  <1>6. CASE table' = table
    <2>1. SInv'
      BY <1>2, <1>4, <1>5, <1>6, AwaySees DEF Building, Silent, AtCell, Between, Busy
    <2>. QED BY <1>2, <1>6, <2>1, SameContents
  <1>7. CASE table' # table
    <2>1. /\ pc[t] = "leave last" /\ y = "acquire"
          /\ tableWorkers' = [tableWorkers EXCEPT ![r] = @ - 1]
          /\ tableWorkers'[r] = 0 /\ table' = [table EXCEPT ![r] = <<>>]
      BY <1>1, <1>7
    <2>2. r \in Rows \ {0} /\ r \in Nat /\ row[t] \in Nat /\ currentRow \in Nat
          /\ r < row[t] /\ row[t] <= currentRow
      BY <1>1, <2>1, ReadingTheState DEF Local
    <2>3. r < currentRow
      BY <2>2
    <2>4. tableWorkers[r] = 1
      <3>1. tableWorkers \in [Rows -> Nat] /\ tableWorkers[r] \in Nat
        BY <2>2 DEF HInv, Types
      <3>2. tableWorkers'[r] = tableWorkers[r] - 1
        BY <2>1, <2>2, <3>1
      <3>3. PICK n : n = tableWorkers[r]
        OBVIOUS
      <3>4. n \in Nat /\ n - 1 = 0
        BY <2>1, <3>1, <3>2, <3>3
      <3>5. n = 1
        BY <3>4
      <3>. QED BY <3>3, <3>5
    <2>5. r = currentRow - 1 => ~Shifting
      BY <1>1, <2>1, <2>2, <2>4, LastToLeave
    <2>6. table'[r] = <<>> /\ \A q \in Rows \ {r} : table'[q] = table[q]
      BY <2>1, <2>2 DEF HInv, Types
    <2>7. (Moving' <=> Moving) /\ (Shifting' <=> Shifting)
      BY <1>2, <1>4, <1>5, SameShifting DEF Building
    <2>. QED BY <1>2, <1>3, <1>4, <2>1, <2>2, <2>3, <2>5, <2>6, <2>7, FreedSees
  <1>. QED BY <1>6, <1>7

-----------------------------------------------------------------------------
(* Every step.                                                             *)

LEMMA StepSees == ASSUME HInv, HInv', SInv, NEW t \in Threads, Step(t) PROVE SInv'
  <1>1. CASE Return(t) \/ Usage(t) \/ ChangedRow(t) \/ ChangedGrowing(t) \/ BeginProbing(t)
    BY <1>1, ReturnSees, UsageSees, ChangedRowSees, ChangedGrowingSees, BeginProbingSees
  <1>2. CASE Probing(t) \/ LookAtCell(t) \/ TryStore(t) \/ LoseCell(t) \/ Write(t) \/ Count(t)
    BY <1>2, ProbingSees, LookAtCellSees, TryStoreSees, LoseCellSees, WriteSees, CountSees
  <1>3. CASE Is(t) \/ Wait(t) \/ IsInvalid(t) \/ NextCell(t)
    BY <1>3, IsSees, WaitSees, IsInvalidSees, NextCellSees
  <1>4. CASE Grow(t) \/ TakeGrowing(t) \/ GrownAlready(t) \/ NewRow(t) \/ Workers(t)
    BY <1>4, GrowSees, TakeGrowingSees, GrownAlreadySees, NewRowSees, WorkersSees
  <1>5. CASE OpenSegments(t) \/ Grown(t) \/ TrySegment(t) \/ TakeSegment(t) \/ Invalidate(t)
    BY <1>5, OpenSegmentsSees, GrownSees, TrySegmentSees, TakeSegmentSees, InvalidateSees
  <1>6. CASE SegmentDone(t) \/ DoneRehashing(t) \/ Help(t) \/ Update(t)
    BY <1>6, SegmentDoneSees, DoneRehashingSees, HelpSees, UpdateSees
  <1>7. CASE ReleaseOld(t) \/ ReleaseMine(t) \/ Acquire(t) \/ AcquireAgain(t)
    BY <1>7, ReleaseOldSees, ReleaseMineSees, AcquireSees, AcquireAgainSees
  <1>. QED BY <1>1, <1>2, <1>3, <1>4, <1>5, <1>6, <1>7 DEF Step

LEMMA StutterSees == ASSUME SInv, UNCHANGED vars PROVE SInv'
  <1>1. UNCHANGED <<table, currentRow, growing, availableSegments, tdRow, call, probe, force,
                    moved, position, segment, row, pc>>
    BY DEF vars, cellVars, growVars, tdVars, callVars, moveVars
  <1>2. OneWriter' /\ Reachable'
    BY <1>1 DEF SInv, OneWriter, Reachable, Reached, Visible, Place, Row, Index, Value
  <1>3. Shifting' <=> Shifting
    BY <1>1 DEF Shifting, Moving, Builder
  <1>4. Later' /\ Earlier' /\ Settled'
    BY <1>1, <1>3 DEF SInv, Later, Earlier, Settled, Cleared, Searching
  <1>5. Covered' /\ TakenOut'
    <2>1. \A u \in Threads : Steady(u)
      BY <1>1 DEF Steady
    <2>2. TakenOut'
      BY <1>1, <2>1, SameTakenOut
    <2>3. Covered'
      BY <1>1 DEF SInv, Covered, Moving, Builder, Busy, Ahead, SegmentEnd, OldRow
    <2>. QED BY <2>2, <2>3
  <1>6. ASSUME NEW t \in Threads PROVE Answers(t)' /\ Passed(t)' /\ Traced(t)'
    <2>1. Answers(t)'
      BY <1>1 DEF SInv, Answers, Inserting, Contents
    <2>2. Passed(t)'
      BY <1>1 DEF SInv, Passed, Visible, Missing, Place, Probed, Row, Value, Index, SeenTo
    <2>3. Traced(t)'
      BY <1>1 DEF SInv, Traced, Searching, Wanted, Inserting, Gone, Trace, Visible, Place,
                  Cleared, SeenTo
    <2>. QED BY <2>1, <2>2, <2>3
  <1>. QED BY <1>2, <1>4, <1>5, <1>6 DEF SInv

LEMMA InitSInv == Init => SInv
  <1>. SUFFICES ASSUME Init PROVE SInv
    OBVIOUS
  <1>1. /\ table = [r \in Rows |-> <<>>] /\ ~growing
        /\ \A t \in Threads : /\ pc[t] = "idle" /\ ~force[t] /\ moved[t] = NoValue
                              /\ call[t] = NoCall
    BY DEF Init
  <1>2. \A r \in Rows : table[r] = <<>> /\ DOMAIN table[r] = {}
    BY <1>1, NoRowIsEmpty
  <1>3. OneWriter /\ Reachable /\ Later /\ Earlier
    BY <1>1, <1>2 DEF OneWriter, Reachable, Later, Earlier, Cleared
  <1>4. Covered /\ TakenOut /\ Settled
    BY <1>1 DEF Covered, Moving, TakenOut, Settled, Searching, AtCell, Between
  <1>5. \A t \in Threads : Answers(t) /\ Passed(t) /\ Traced(t)
    BY <1>1 DEF Answers, Passed, Traced, Searching, AtCell, Between
  <1>. QED BY <1>3, <1>4, <1>5 DEF SInv

LEMMA NextSees == HInv /\ SInv /\ [Next]_vars => HInv' /\ SInv'
  <1>. SUFFICES ASSUME HInv, SInv, [Next]_vars PROVE HInv' /\ SInv'
    OBVIOUS
  <1>1. HInv'
    BY NextKeeps
  <1>2. CASE UNCHANGED vars
    BY <1>1, <1>2, StutterSees
  <1>3. ASSUME NEW t \in Threads, Step(t) PROVE SInv'
    BY <1>1, <1>3, StepSees
  <1>4. ASSUME NEW t \in Threads, NEW op \in {"insert", "find"}, NEW v \in Values, Call(t, op, v)
        PROVE  SInv'
    BY <1>1, <1>4, CallSees
  <1>. QED BY <1>1, <1>2, <1>3, <1>4 DEF Next, Done

LEMMA SetInvariance == Spec => [](HInv /\ SInv)
  BY InitHInv, InitSInv, NextSees, PTL DEF Spec

-----------------------------------------------------------------------------
(* The steps of the set.                                                   *)

\* Most steps are of no concern to it.
LEMMA Unseen ==
  ASSUME Contents' = Contents, UNCHANGED call
  PROVE  [Set!Next]_(Set!vars)
  BY DEF Set!vars

Inside(t) ==
  \/ Usage(t) \/ ChangedRow(t) \/ ChangedGrowing(t) \/ Probing(t) \/ LoseCell(t) \/ Count(t)
  \/ Is(t) \/ IsInvalid(t) \/ Grow(t) \/ TakeGrowing(t) \/ GrownAlready(t) \/ Workers(t)
  \/ OpenSegments(t) \/ Grown(t) \/ TrySegment(t) \/ TakeSegment(t) \/ SegmentDone(t)
  \/ DoneRehashing(t) \/ Help(t) \/ Update(t) \/ Acquire(t) \/ AcquireAgain(t)

LEMMA InsideRefines == ASSUME NEW t \in Threads, Inside(t) PROVE [Set!Next]_(Set!vars)
  <1>1. CASE Usage(t) \/ ChangedRow(t) \/ ChangedGrowing(t) \/ Probing(t) \/ LoseCell(t)
    <2>1. UNCHANGED <<table, moved, call>>
      BY <1>1 DEF Usage, ChangedRow, ChangedGrowing, Probing, LoseCell, cellVars, callVars, moveVars
    <2>. QED BY <2>1, SameContents, Unseen
  <1>2. CASE Count(t) \/ Is(t) \/ IsInvalid(t) \/ Grow(t) \/ TakeGrowing(t) \/ GrownAlready(t)
    <2>1. UNCHANGED <<table, moved, call>>
      BY <1>2 DEF Count, Is, IsInvalid, Grow, TakeGrowing, GrownAlready, cellVars, callVars, moveVars
    <2>. QED BY <2>1, SameContents, Unseen
  <1>3. CASE Workers(t) \/ OpenSegments(t) \/ Grown(t) \/ TrySegment(t) \/ TakeSegment(t)
    <2>1. UNCHANGED <<table, moved, call>>
      BY <1>3 DEF Workers, OpenSegments, Grown, TrySegment, TakeSegment, cellVars, callVars, moveVars
    <2>. QED BY <2>1, SameContents, Unseen
  <1>4. CASE SegmentDone(t) \/ DoneRehashing(t) \/ Help(t) \/ Update(t) \/ Acquire(t) \/ AcquireAgain(t)
    <2>1. UNCHANGED <<table, moved, call>>
      BY <1>4 DEF SegmentDone, DoneRehashing, Help, Update, Acquire, AcquireAgain, cellVars, callVars,
                  moveVars
    <2>. QED BY <2>1, SameContents, Unseen
  <1>. QED BY <1>1, <1>2, <1>3, <1>4 DEF Inside

\* The cells and the rows change, and what the set holds does not.
LEMMA MovingRefines ==
  ASSUME HInv, HInv', SInv, NEW t \in Threads,
         Write(t) \/ Invalidate(t) \/ NewRow(t) \/ ReleaseOld(t) \/ ReleaseMine(t)
  PROVE  [Set!Next]_(Set!vars)
  <1>1. Contents' = Contents
    BY WriteSees, InvalidateSees, NewRowSees, ReleaseOldSees, ReleaseMineSees
  <1>2. UNCHANGED call
    BY DEF Write, Invalidate, NewRow, ReleaseOld, ReleaseMine, Release, callVars
  <1>. QED BY <1>1, <1>2, Unseen

\* An answer is the only one of its call.
LEMMA AnswerIsGiven ==
  ASSUME HInv, SInv, NEW t \in Threads, pc[t] \notin {"idle", "return", "count", "write"},
         NEW a, Answered(t, a), NEW op, call[t].op = op
  PROVE  Set!Answer(t, op, a)
  <1>1. call[t] \in Calls /\ NoCall \notin Calls
    BY ReadingTheState, NoCallAssumption DEF Calls
  <1>2. call[t].answer = "none"
    BY DEF SInv, Answers
  <1>. QED BY <1>1, <1>2 DEF Set!Answer, Answered

LEMMA TheOperation ==
  ASSUME HInv, NEW t \in Threads, pc[t] # "idle"
  PROVE  /\ Inserting(t) => call[t].op = "insert"
         /\ ~Inserting(t) => call[t].op = "find"
  BY ReadingTheState DEF Inserting

\* A find says no where the value was not when it was called, or is not now.
LEMMA NoIsRight ==
  ASSUME HInv, SInv, NEW t \in Threads, pc[t] \notin {"idle", "return", "count", "write"},
         Answered(t, "not found"), ~Inserting(t), call[t].absent, UNCHANGED <<table, moved>>
  PROVE  [Set!Next]_(Set!vars)
  <1>1. Set!Answer(t, "find", "not found")
    BY TheOperation, AnswerIsGiven
  <1>2. Contents' = Contents
    BY SameContents
  <1>. QED BY <1>1, <1>2 DEF Set!NotFound, Set!Next

LEMMA WasAbsent ==
  ASSUME HInv, SInv, NEW t \in Threads, pc[t] \notin {"idle", "return"}, ~Inserting(t),
         call[t].absent \/ call[t].value \notin Contents
  PROVE  call[t].absent
  BY DEF SInv, Answers

LEMMA BeginProbingRefines ==
  ASSUME HInv, SInv, NEW t \in Threads, BeginProbing(t) PROVE [Set!Next]_(Set!vars)
  <1>1. pc[t] = "before growing" /\ UNCHANGED <<table, moved>>
    BY DEF BeginProbing, Goto, cellVars, moveVars
  <1>2. CASE NoRow(t)
    <2>1. Answered(t, "not found") /\ ~Inserting(t) /\ table[tdRow[t]] = <<>>
      BY <1>2 DEF BeginProbing, NoRow
    <2>2. ret[t] # "grown" /\ ~force[t]
      BY <1>1, AtRest DEF AtCell, Helping
    <2>3. tdRow[t] = 0
      BY <1>1, <2>1, <2>2, OwnRowIsThere
    <2>4. call[t].absent
      BY <1>1, <2>1, <2>3 DEF SInv, Answers
    <2>. QED BY <1>1, <2>1, <2>4, NoIsRight
  <1>3. CASE ~NoRow(t)
    <2>1. UNCHANGED call
      BY <1>3 DEF BeginProbing
    <2>. QED BY <1>1, <2>1, SameContents, Unseen
  <1>. QED BY <1>2, <1>3

LEMMA LookAtCellRefines ==
  ASSUME HInv, SInv, NEW t \in Threads, LookAtCell(t) PROVE [Set!Next]_(Set!vars)
  <1>1. pc[t] = "cell" /\ UNCHANGED <<table, moved>>
    BY DEF LookAtCell, cellVars, moveVars
  <1>2. CASE Probed(t).flag = "free" /\ ~force[t] /\ ~Inserting(t)
    <2>1. Answered(t, "not found")
      BY <1>2 DEF LookAtCell
    <2>2. call[t].absent \/ call[t].value \notin Contents
      <3>1. Searching(t) /\ SeenTo(t) = probe[t]
        BY <1>1, <1>2 DEF Searching, AtCell, SeenTo
      <3>2. Wanted(t) => call[t].value \notin Contents
        BY <1>2, <3>1, NotAtAFreeCell
      <3>. QED BY <3>2 DEF Wanted
    <2>3. call[t].absent
      BY <1>1, <1>2, <2>2, WasAbsent
    <2>. QED BY <1>1, <1>2, <2>1, <2>3, NoIsRight
  <1>3. CASE ~(Probed(t).flag = "free" /\ ~force[t] /\ ~Inserting(t))
    <2>1. UNCHANGED call
      BY <1>3 DEF LookAtCell
    <2>. QED BY <1>1, <2>1, SameContents, Unseen
  <1>. QED BY <1>2, <1>3

LEMMA NextCellRefines ==
  ASSUME HInv, SInv, NEW t \in Threads, NextCell(t) PROVE [Set!Next]_(Set!vars)
  <1>1. /\ pc[t] \in {"after growing", "next"} /\ UNCHANGED <<table, moved>>
        /\ probe' = [probe EXCEPT ![t] = @ + 1]
    BY DEF NextCell, cellVars, moveVars
  <1>2. probe'[t] = probe[t] + 1 /\ probe[t] \in Nat
    BY <1>1, ReadingTheState DEF HInv, Types
  <1>3. CASE probe'[t] = MaxCollisions /\ ~force[t] /\ ~Inserting(t)
    <2>1. Answered(t, "not found")
      BY <1>3 DEF NextCell
    <2>2. Searching(t) /\ SeenTo(t) = MaxCollisions
      BY <1>1, <1>2, <1>3, SeenToIs DEF Searching, AtCell, Between
    <2>3. call[t].absent
      BY <1>1, <1>3, <2>2, NotPastTheLast, WasAbsent
    <2>. QED BY <1>1, <1>3, <2>1, <2>3, NoIsRight
  <1>4. CASE ~(probe'[t] = MaxCollisions /\ ~force[t] /\ ~Inserting(t))
    <2>1. UNCHANGED call
      BY <1>4 DEF NextCell
    <2>. QED BY <1>1, <2>1, SameContents, Unseen
  <1>. QED BY <1>3, <1>4

\* The value has been found in a cell.
LEMMA WaitRefines ==
  ASSUME HInv, SInv, NEW t \in Threads, Wait(t) PROVE [Set!Next]_(Set!vars)
  <1>1. pc[t] = "wait" /\ UNCHANGED <<table, moved>>
    BY DEF Wait, cellVars, moveVars
  <1>2. CASE Probed(t).value = Value(t) /\ ~force[t]
    <2>1. Answered(t, "found")
      BY <1>2 DEF Wait
    <2>2. call[t].value \in Contents
      <3>1. /\ Row(t) \in Rows /\ Index(t) \in 1 .. Size[Row(t)] /\ table[Row(t)] # <<>>
            /\ Value(t) \in Values
        BY <1>1, CellIsThere DEF AtCell
      <3>2. Index(t) \in DOMAIN table[Row(t)]
        BY <3>1, RowCells
      <3>3. Value(t) = call[t].value /\ table[Row(t)][Index(t)].value = Value(t)
        BY <1>2 DEF Value, Probed
      <3>. QED BY <3>1, <3>2, <3>3 DEF Contents
    <2>3. Contents' = Contents
      BY <1>1, SameContents
    <2>4. CASE Inserting(t)
      <3>1. Set!Answer(t, "insert", "found")
        BY <1>1, <2>1, <2>4, TheOperation, AnswerIsGiven
      <3>. QED BY <2>2, <2>3, <3>1 DEF Set!InsertOld, Set!Next
    <2>5. CASE ~Inserting(t)
      <3>1. Set!Answer(t, "find", "found")
        BY <1>1, <2>1, <2>5, TheOperation, AnswerIsGiven
      <3>. QED BY <2>2, <2>3, <3>1 DEF Set!Found, Set!Next
    <2>. QED BY <2>4, <2>5
  <1>3. CASE ~(Probed(t).value = Value(t) /\ ~force[t])
    <2>1. UNCHANGED call
      BY <1>3 DEF Wait
    <2>. QED BY <1>1, <2>1, SameContents, Unseen
  <1>. QED BY <1>2, <1>3

\* The value is in the set from here on.
LEMMA TryStoreRefines ==
  ASSUME HInv, HInv', SInv, NEW t \in Threads, TryStore(t) PROVE [Set!Next]_(Set!vars)
  <1>1. pc[t] = "store"
    BY DEF TryStore, Goto
  <1>2. CASE force[t]
    <2>1. UNCHANGED call
      BY <1>2 DEF TryStore
    <2>. QED BY <1>2, <2>1, TryStoreSees, Unseen
  <1>3. CASE ~force[t]
    <2>1. Answered(t, "new")
      BY <1>3 DEF TryStore
    <2>2. /\ Inserting(t) /\ call[t].value \notin Contents
          /\ Contents' = Contents \cup {call[t].value}
      BY <1>3, TryStoreSees
    <2>3. Set!Answer(t, "insert", "new")
      BY <1>1, <2>1, <2>2, TheOperation, AnswerIsGiven
    <2>. QED BY <2>2, <2>3 DEF Set!InsertNew, Set!Next
  <1>. QED BY <1>2, <1>3

LEMMA CallRefines ==
  ASSUME HInv, SInv, NEW t \in Threads, NEW op \in {"insert", "find"}, NEW v \in Values, Call(t, op, v)
  PROVE  [Set!Next]_(Set!vars)
  <1>1. /\ pc[t] = "idle" /\ UNCHANGED <<table, moved>>
        /\ call' = [call EXCEPT ![t] = [op |-> op, value |-> v, absent |-> v \notin Contents,
                                        answer |-> "none"]]
    BY DEF Call, Goto, cellVars, moveVars
  <1>2. call[t] = NoCall
    BY <1>1 DEF SInv, Answers
  <1>3. Contents' = Contents
    BY <1>1, SameContents
  <1>4. Set!Call(t, op, v)
    BY <1>1, <1>2, <1>3 DEF Set!Call, Set!Running
  <1>. QED BY <1>4 DEF Set!Next

LEMMA ReturnRefines ==
  ASSUME HInv, SInv, NEW t \in Threads, Return(t) PROVE [Set!Next]_(Set!vars)
  <1>1. pc[t] = "return" /\ UNCHANGED <<table, moved>> /\ call' = [call EXCEPT ![t] = NoCall]
    BY DEF Return, Goto, cellVars
  <1>2. call[t] # NoCall /\ call[t].answer # "none"
    <2>1. call[t] \in Calls /\ NoCall \notin Calls
      BY <1>1, ReadingTheState, NoCallAssumption DEF Calls
    <2>. QED BY <1>1, <2>1 DEF SInv, Answers
  <1>3. Contents' = Contents
    BY <1>1, SameContents
  <1>4. Set!Return(t)
    BY <1>1, <1>2, <1>3 DEF Set!Return
  <1>. QED BY <1>4 DEF Set!Next

LEMMA StepRefines ==
  ASSUME HInv, HInv', SInv, NEW t \in Threads, Step(t) PROVE [Set!Next]_(Set!vars)
  <1>1. CASE Inside(t)
    BY <1>1, InsideRefines
  <1>2. CASE Write(t) \/ Invalidate(t) \/ NewRow(t) \/ ReleaseOld(t) \/ ReleaseMine(t)
    BY <1>2, MovingRefines
  <1>3. CASE Return(t) \/ BeginProbing(t) \/ LookAtCell(t) \/ TryStore(t) \/ Wait(t) \/ NextCell(t)
    BY <1>3, ReturnRefines, BeginProbingRefines, LookAtCellRefines, TryStoreRefines, WaitRefines,
       NextCellRefines
  <1>. QED BY <1>1, <1>2, <1>3 DEF Step, Inside

LEMMA InitRefines == Init => Set!Init
  <1>. SUFFICES ASSUME Init PROVE Set!Init
    OBVIOUS
  <1>1. /\ \A r \in Rows : DOMAIN table[r] = {}
        /\ \A t \in Threads : moved[t] = NoValue
        /\ call = [t \in Threads |-> NoCall]
    BY NoRowIsEmpty DEF Init
  <1>2. Contents = {}
    BY <1>1, HashSetAssumption DEF Contents
  <1>. QED BY <1>1, <1>2 DEF Set!Init

LEMMA NextRefines == HInv /\ SInv /\ HInv' /\ [Next]_vars => [Set!Next]_(Set!vars)
  <1>. SUFFICES ASSUME HInv, SInv, HInv', [Next]_vars PROVE [Set!Next]_(Set!vars)
    OBVIOUS
  <1>1. CASE UNCHANGED vars
    <2>1. UNCHANGED <<table, moved, call>>
      BY <1>1 DEF vars, cellVars, callVars, moveVars
    <2>. QED BY <2>1, SameContents, Unseen
  <1>2. ASSUME NEW t \in Threads, Step(t) PROVE [Set!Next]_(Set!vars)
    BY <1>2, StepRefines
  <1>3. ASSUME NEW t \in Threads, NEW op \in {"insert", "find"}, NEW v \in Values, Call(t, op, v)
        PROVE  [Set!Next]_(Set!vars)
    BY <1>3, CallRefines
  <1>. QED BY <1>1, <1>2, <1>3 DEF Next, Done

\* The hash set is a set that its threads share, whatever the races for a cell,
\* the growing and the moving (insertCell, findCell, rehashSegment and grow,
\* bricks/brick-hashset.h:589-856): of all the insertions of a value one is told
\* that it is new, and no search misses a value that was there when it began.
THEOREM Refinement == Spec => ImplementsSet
  BY SetInvariance, InitRefines, NextRefines, PTL DEF Spec, ImplementsSet, Set!Spec
=============================================================================
