SPECIFICATION FairSpec
CONSTANTS
  thread_count = 2
  ENTRY_SIZE = 1
  SHARED_ENTRY_SIZE = 2
  Classes = {"tls", "shared", "precomputed"}
  Draws <- MCDraws
  Remains <- MCRemains
  MaxVertices = 6
  MaxDraws = 2
INVARIANTS TypeOK VerticesExact SharedItemsExact
PROPERTY EveryDrawEnds
CHECK_DEADLOCK FALSE
