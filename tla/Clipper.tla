------------------------------- MODULE Clipper -------------------------------
(***************************************************************************)
(* clipper: a triangle is cut by the near plane and by the far plane, and  *)
(* the polygon that is left is cut into triangles.  Only the depth of a    *)
(* vertex matters to the two planes; with w = 1 the near plane keeps the   *)
(* depths from 0 on, the far plane those up to Far.  A vertex is its       *)
(* depth.                                                                  *)
(***************************************************************************)
EXTENDS Integers, Sequences, SequencesExt

CONSTANT Far

ASSUME ClipperAssumption == Far \in Nat \ {0}

(* A shape is what clip() sees of a triangle: the depths of its vertices,  *)
(* whether it faces front and whether the cull function drops it.          *)
Shapes == [z : [1 .. 3 -> Int], front : BOOLEAN, culled : BOOLEAN]

(* How far inside a plane a depth is, and the depth of the plane.          *)
Distance(plane, z) == IF plane = "near" THEN z ELSE Far - z
DepthOf(plane) == IF plane = "near" THEN 0 ELSE Far
Inside(plane, z) == Distance(plane, z) >= 0

(* One turn of the loop over the edges: the vertex zi of the polygon if it *)
(* is inside, and the point where the edge to zj crosses the plane.        *)
EdgeNoEntry(plane, zi, zj) ==     (* a slip: forgets edges that come back in *)
  (IF Inside(plane, zi) THEN <<zi>> ELSE <<>>)
    \o (IF Inside(plane, zi) /\ ~Inside(plane, zj) THEN <<DepthOf(plane)>> ELSE <<>>)
Edge(plane, zi, zj) ==
  (IF Inside(plane, zi) THEN <<zi>> ELSE <<>>)
    \o (IF Inside(plane, zi) # Inside(plane, zj) THEN <<DepthOf(plane)>> ELSE <<>>)

ClipPlane(plane, poly) ==
  FlattenSeq([i \in 1 .. Len(poly) |-> Edge(plane, poly[i], poly[(i % Len(poly)) + 1])])

InFrustum(shape) == \A i \in 1 .. 3 : Inside("near", shape.z[i]) /\ Inside("far", shape.z[i])

(* clip_triangle_to_poly_general: <<>> when culled.                        *)
ClipTriangle(shape) ==
  LET near == ClipPlane("near", shape.z) IN
    IF shape.culled /\ (InFrustum(shape) \/ Len(near) >= 3) THEN <<>>
    ELSE IF InFrustum(shape) THEN shape.z
    ELSE ClipPlane("far", near)

(* tri_clipped_verts has five places, of which the polygon fills the       *)
(* first; what a read beyond them finds is not a vertex, and -1 stands for *)
(* it, the depth of no vertex that is inside.                              *)
Junk == -1
At(poly, i) == IF i < Len(poly) THEN poly[i + 1] ELSE Junk

Triangle(poly, i, front) ==
  IF front THEN <<At(poly, 0), At(poly, i), At(poly, i + 1)>>
           ELSE <<At(poly, 0), At(poly, i + 1), At(poly, i)>>

Fan(poly, last, front) == FlattenSeq([i \in 1 .. last |-> Triangle(poly, i, front)])

(* The number of vertices clip_solid_triangle announces, and the vertices  *)
(* it writes: its loop runs to the number of vertices, not of triangles.   *)
Announced(shape) ==
  LET n == Len(ClipTriangle(shape)) IN IF n < 3 THEN 0 ELSE (n - 2) * 3

WrittenTooLong(shape) ==                  (* a slip: as many as are announced *)
  IF Announced(shape) = 0 THEN <<>>
  ELSE IF InFrustum(shape) THEN Fan(shape.z, 1, shape.front)
  ELSE Fan(ClipTriangle(shape), Announced(shape), shape.front)
Written(shape) ==
  IF Announced(shape) = 0 THEN <<>>
  ELSE IF InFrustum(shape) THEN Fan(shape.z, 1, shape.front)
  ELSE Fan(ClipTriangle(shape), Announced(shape) - 2, shape.front)

(* What the clipper is meant to produce: the triangles of the polygon.     *)
Meant(shape) ==
  IF Announced(shape) = 0 THEN <<>>
  ELSE Fan(ClipTriangle(shape), Len(ClipTriangle(shape)) - 2, shape.front)
=============================================================================
