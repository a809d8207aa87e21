CONSTANTS
  Threads = {t1, t2, t3}
  Draws = 2
  Prims = 3
  tile_count = 2
  Covers <- MCCovers
  DISPATCH_PRIMITIVE_PACKAGE_SIZE = 2
  RASTERIZE_PRIMITIVE_PACKAGE_SIZE = 1
SPECIFICATION FairSpec
CHECK_DEADLOCK FALSE
INVARIANTS PaintersOrder DrawComplete
PROPERTIES AllDrawn
