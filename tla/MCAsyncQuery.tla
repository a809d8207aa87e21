----------------------------- MODULE MCAsyncQuery -----------------------------
(* An instance of AsyncQuery for TLC: two queries that compete for a slot. *)
EXTENDS AsyncQuery, TLC

CONSTANTS p1, p2

MCIdOf == (p1 :> "pipeline_statistics") @@ (p2 :> "pipeline_statistics")
=============================================================================
