SPECIFICATION FairSpec
CONSTANTS
  N = 2
  MaxEdges = 3
INVARIANTS
  TypeOK
  EndIsQuiet
PROPERTIES
  EveryoneLeaves
