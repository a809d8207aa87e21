----------------------------- MODULE IndexFetcher -----------------------------
(***************************************************************************)
(* index_fetcher: which vertices a triangle of a draw is made of.          *)
(*                                                                         *)
(* A draw is a record: topo, indexed (command draw_index), indexes (what   *)
(* the index buffer holds), start (start_index), base (base_vertex) and    *)
(* prim_count.  Lines are left out: geom_setup_engine asserts there are    *)
(* none.  The range of the indexes is left out: nothing reads it.          *)
(***************************************************************************)
EXTENDS Integers, Sequences

Prims(d) == 0 .. d.prim_count - 1

(* The local ids of triangle p.  Every second triangle of a strip is       *)
(* turned.                                                                 *)
Corners(topo, p) ==
  IF topo = "triangle_list" THEN <<3 * p, 3 * p + 1, 3 * p + 2>>
  ELSE IF p % 2 = 1 THEN <<p + 2, p + 1, p>>
  ELSE <<p, p + 1, p + 2>>

(* How many local ids a draw has.                                          *)
IdCount(d) == IF d.topo = "triangle_list" THEN 3 * d.prim_count ELSE d.prim_count + 2

(* The index an id stands for.  Only an index buffer is read from start.   *)
IndexAt(d, id) == (IF d.indexed THEN d.indexes[d.start + id + 1] ELSE id) + d.base

fetch_indexes(d, p) == [k \in 1 .. 3 |-> IndexAt(d, Corners(d.topo, p)[k])]
-----------------------------------------------------------------------------
(* The triangles a draw stands for.  A list takes the vertices by threes.  *)
(* In a strip each vertex after the second makes a triangle with the two   *)
(* before it, all of them wound like the first.                            *)
Stream(d) == [i \in 0 .. 3 * d.prim_count + 1 |->
                IF d.indexed
                THEN IF d.start + i < Len(d.indexes) THEN d.indexes[d.start + i + 1] + d.base ELSE 0
                ELSE i + d.base]
Meant(d, p) ==
  LET s == Stream(d) IN
    IF d.topo = "triangle_list" THEN <<s[3 * p], s[3 * p + 1], s[3 * p + 2]>>
    ELSE IF p % 2 = 0 THEN <<s[p], s[p + 1], s[p + 2]>>
    ELSE <<s[p + 1], s[p], s[p + 2]>>

(* The same triangle, seen from the same side.                             *)
Rotations(t) == {t, <<t[2], t[3], t[1]>>, <<t[3], t[1], t[2]>>}
=============================================================================
