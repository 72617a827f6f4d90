SPECIFICATION FairSpec
CONSTANTS
  NodeSize = 2
  MaxPushes = 6
INVARIANTS
  TypeOK
  NoUseAfterDelete
PROPERTIES
  ImplementsQueue
  Drained
