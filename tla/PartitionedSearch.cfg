SPECIFICATION FairSpec
CONSTANTS
  n1 = n1
  n2 = n2
  n3 = n3
  n4 = n4
  NoNode = NoNode
  Nodes <- FourNodes
  Problems <- MCProblems
  N = 3
  MaxSpurious = 1
  Batch = 2
INVARIANTS
  TypeOK
  SleepersCounted
  EndIsQuiet
  WakeupIsSafe
  Verdict
PROPERTIES
  EveryoneReturns
