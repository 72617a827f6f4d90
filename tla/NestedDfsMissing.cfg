CONSTANTS
  Nodes <- MCNodes
  Problems <- MCMissing
  Nowhere = Nowhere
SPECIFICATION Spec
INVARIANTS
  InnerFindsStates
