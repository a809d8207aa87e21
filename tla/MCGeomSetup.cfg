CONSTANTS
  Far = 2
  SetupThreads = {t1, t2}
  prim_count = 3
  GEOMETRY_SETUP_PACKAGE_SIZE = 2
  Triangles <- MCShapes
SPECIFICATION GeomSpec
CHECK_DEADLOCK FALSE
INVARIANTS PolygonExact AddressesExact CompactedExact OverrunConfined
