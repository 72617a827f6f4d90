SPECIFICATION FairSpec
CONSTANTS
  m1 = m1
  m2 = m2
  c = c
  b = b
  Null = Null
  Mutexes = {m1, m2}
  Conds = {c}
  Barriers = {b}
  Type <- MCType
  NThreads <- MCNThreads
  MaxSlots = 3
  MaxThreads = 4
  MaxLocks = 2
CHECK_DEADLOCK FALSE
INVARIANTS
  TypeOK
  DeadlocksAreReal
PROPERTIES
  MainLeavesLast
  DeadlocksAreReported
