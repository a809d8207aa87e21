----------------------------- MODULE MCGeomSetup -----------------------------
EXTENDS GeomSetup

Shape(z1, z2, z3, front, culled) == [z |-> <<z1, z2, z3>>, front |-> front, culled |-> culled]

(* With Far = 2: the ways three vertices can lie to the two planes, each   *)
(* in one of its rotations, on the planes included; and a culled one.      *)
MCShapes ==
  {Shape(0, 1, 2, FALSE, FALSE), Shape(1, 1, -1, TRUE, FALSE), Shape(-1, 1, -1, FALSE, FALSE),
   Shape(-1, -1, -1, TRUE, FALSE), Shape(3, 1, 1, TRUE, FALSE), Shape(3, 3, 1, FALSE, FALSE),
   Shape(-1, 1, 3, TRUE, FALSE), Shape(1, -1, 3, FALSE, FALSE), Shape(-1, 3, -1, TRUE, FALSE),
   Shape(3, 3, -1, TRUE, FALSE), Shape(3, 3, 3, TRUE, FALSE), Shape(1, -1, 1, TRUE, TRUE)}

(* Polygons of three, of four and of five vertices.                        *)
MCLargeShapes == {Shape(0, 1, 2, TRUE, FALSE), Shape(1, 2, 3, TRUE, FALSE), Shape(-1, 1, 3, TRUE, FALSE)}
=============================================================================
