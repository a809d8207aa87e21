----------------------------- MODULE ParallelFor -----------------------------
(***************************************************************************)
(* What execute_threads promises its caller: every item is processed       *)
(* exactly once, in any order, before the call returns.                    *)
(***************************************************************************)
EXTENDS Naturals

CONSTANT Items

VARIABLES processed,    (* the items processed so far                      *)
          turns,        (* how often an item was processed                 *)
          returned      (* the call is over                                *)

ForInit == processed = {} /\ turns = 0 /\ returned = FALSE

Process(i) ==
  /\ ~returned
  /\ i \notin processed
  /\ processed' = processed \cup {i}
  /\ turns' = turns + 1
  /\ UNCHANGED returned

Finish ==
  /\ processed = Items
  /\ returned' = TRUE
  /\ UNCHANGED <<processed, turns>>

ForNext == Finish \/ \E i \in Items : Process(i)

ForSpec == ForInit /\ [][ForNext]_<<processed, turns, returned>>
=============================================================================
