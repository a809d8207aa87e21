CONSTANTS
  Far = 2
  SetupThreads = {t1, t2}
  prim_count = 2
  GEOMETRY_SETUP_PACKAGE_SIZE = 8
  Triangles <- MCLargeShapes
SPECIFICATION GeomSpec
CHECK_DEADLOCK FALSE
INVARIANTS InsideBuffer
