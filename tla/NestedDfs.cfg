CONSTANTS
  Nodes <- MCNodes
  Problems <- MCProblems
  Nowhere = Nowhere
SPECIFICATION Spec
INVARIANTS
  TypeOK
  StopsOnlyOnCycles
  CounterexampleIsReal
PROPERTIES
  RightVerdict
  Ends
