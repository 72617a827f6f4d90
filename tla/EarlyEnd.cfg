SPECIFICATION Spec
CONSTANTS
  N = 3
  MaxEdges = 1
INVARIANTS
  EndIsQuiet
