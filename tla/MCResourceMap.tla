---------------------------- MODULE MCResourceMap ----------------------------
(* Instances of ResourceMap for TLC.                                       *)
EXTENDS ResourceMap
=============================================================================
