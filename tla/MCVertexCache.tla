---------------------------- MODULE MCVertexCache ----------------------------
EXTENDS VertexCache

(* A strip, and an indexed list that starts at the second index, repeats   *)
(* indexes and has one that shares entries with another.                   *)
MCDraws ==
  {[topo |-> "triangle_strip", indexed |-> FALSE, indexes |-> <<>>, start |-> 0, base |-> 0, prim_count |-> 2],
   [topo |-> "triangle_list", indexed |-> TRUE, indexes |-> <<9, 0, 1, 2, 2, 1, 0>>, start |-> 1, base |-> 1,
    prim_count |-> 2]}

(* A triangle is culled, cut, or kept.                                     *)
MCRemains == {{}, {2, 3}, 1 .. 3}
=============================================================================
