---------------------------- MODULE CommandStream ----------------------------
(***************************************************************************)
(* What a renderer promises the application, whichever class implements    *)
(* it: the commands take effect one by one, in the order in which the      *)
(* application issued them and with the state they were issued under, and  *)
(* flush() returns only when none of them is outstanding.                  *)
(***************************************************************************)
EXTENDS Naturals, Sequences

CONSTANT Effects      (* what a command may do to its target               *)

VARIABLES issued,     (* the effects asked for, in the order of the calls  *)
          executed,   (* the effects that have taken place                 *)
          synced      (* how many of them the last flush() vouched for     *)

streamVars == <<issued, executed, synced>>

StreamInit ==
  /\ issued = <<>>
  /\ executed = <<>>
  /\ synced = 0

(* The application calls draw, clear, begin or end.                        *)
Issue(e) ==
  /\ issued' = Append(issued, e)
  /\ UNCHANGED <<executed, synced>>

(* The oldest outstanding command takes effect.                            *)
Complete ==
  /\ Len(executed) < Len(issued)
  /\ executed' = Append(executed, issued[Len(executed) + 1])
  /\ UNCHANGED <<issued, synced>>

(* A command takes effect before the call that issued it returns.          *)
IssueAndComplete(e) ==
  /\ executed = issued
  /\ issued' = Append(issued, e)
  /\ executed' = Append(executed, e)
  /\ UNCHANGED synced

(* flush() returns.                                                        *)
Flushed ==
  /\ executed = issued
  /\ synced' = Len(issued)
  /\ UNCHANGED <<issued, executed>>

StreamNext ==
  \/ \E e \in Effects : Issue(e) \/ IssueAndComplete(e)
  \/ Complete
  \/ Flushed

StreamSpec == StreamInit /\ [][StreamNext]_streamVars
=============================================================================
