CONSTANTS
  w1 = w1
  w2 = w2
  w3 = w3
  Workers = {w1, w2, w3}
  Nodes <- MCNodes
  TableSize = 4
  Cell <- MCCell
  Problems <- MCProblems
SPECIFICATION MapSpec
INVARIANTS
  NoneIsMissed
