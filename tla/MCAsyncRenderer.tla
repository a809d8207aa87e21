--------------------------- MODULE MCAsyncRenderer ---------------------------
(* Instances of AsyncRenderer for TLC: the cfg files give the constants.   *)
EXTENDS AsyncRenderer
=============================================================================
