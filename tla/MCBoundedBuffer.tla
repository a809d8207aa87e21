--------------------------- MODULE MCBoundedBuffer ---------------------------
(* Instances of BoundedBuffer for TLC: two threads on each side, whose     *)
(* names are interchangeable in the safety run.                            *)
EXTENDS BoundedBuffer, TLC

Symmetry == Permutations(Producers) \cup Permutations(Consumers)
=============================================================================
