SPECIFICATION FairSpec
CONSTANTS
  w1 = w1
  w2 = w2
  w3 = w3
  n1 = n1
  n2 = n2
  n3 = n3
  n4 = n4
  NoNode = NoNode
  Nodes <- FourNodes
  Problems <- MCProblems
  Step = 2
  FirstChunk = 1
  MaxChunk = 2
INVARIANTS
  TypeOK
  CounterIsExact
  NoPrematureEnd
  Verdict
PROPERTIES
  EveryoneReturns
