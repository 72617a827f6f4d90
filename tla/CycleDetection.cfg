CONSTANTS
  w1 = w1
  w2 = w2
  Workers = {w1, w2}
  Nodes <- MCNodes
  TableSize = 8
  Cell <- MCCell
  Problems <- MCProblems
SPECIFICATION Spec
INVARIANTS
  TypeOK
  AssertionsHold
  CyclesSurvive
  MapIsPredecessor
PROPERTIES
  ImplementsCycleDetection
