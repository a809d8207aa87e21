--------------------------- MODULE MCThreadContext ---------------------------
(* Instances of ThreadContext for TLC.                                     *)
EXTENDS ThreadContext
=============================================================================
