SPECIFICATION FairSpec
CONSTANTS
  t1 = t1
  t2 = t2
  a = a
  b = b
  NoCall = NoCall
  NoValue = NoValue
  Threads <- TwoThreads
  Values <- TwoValues
  Hash <- Meeting
  Size <- Doubling
  SegmentSize = 1
  MaxCollisions = 2
  SyncPoint = 1
  MaxCalls = 2
INVARIANTS
  TypeOK
  RowsAreKept
PROPERTIES
  ImplementsSet
  EveryCallReturns
