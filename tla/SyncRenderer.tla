----------------------------- MODULE SyncRenderer -----------------------------
(***************************************************************************)
(* class sync_renderer: a command is executed before its call returns, on  *)
(* the application's own block.  render_core keeps a pointer to that block *)
(* and not a copy, so what it executes is the block as the call left it.   *)
(***************************************************************************)
EXTENDS Naturals, Sequences, RenderState

CONSTANTS Calls,        (* the kinds of command the application issues     *)
          MaxCommands   (* bound on the commands of a run                  *)

ASSUME SyncAssumption == MaxCommands \in Nat /\ Calls \subseteq Commands

VARIABLES
  state,                     (* state_, which core_.state_ points to       *)
  issued, executed, synced   (* history, the variables of CommandStream    *)

vars == <<state, issued, executed, synced>>

Init ==
  /\ state = NewState
  /\ issued = <<>>
  /\ executed = <<>>
  /\ synced = 0

Set(v) ==
  /\ state' = SetTo(state, v)
  /\ UNCHANGED <<issued, executed, synced>>

(* A slip: executing before the block is the command's.                    *)
CallTooEarly(c, v) ==
  /\ Len(issued) < MaxCommands
  /\ state' = Called(state, c, v)
  /\ issued' = Append(issued, Effect(state'))
  /\ executed' = Append(executed, Effect([state EXCEPT !.cmd = c]))
  /\ UNCHANGED synced

(* draw, clear, begin or end, and the update and execute of its commit.    *)
Call(c, v) ==
  /\ Len(issued) < MaxCommands
  /\ state' = Called(state, c, v)
  /\ issued' = Append(issued, Effect(state'))
  /\ executed' = Append(executed, Effect(state'))
  /\ UNCHANGED synced

(* flush() returns at once.                                                *)
Flush ==
  /\ synced' = Len(issued)
  /\ UNCHANGED <<state, issued, executed>>

Next ==
  \/ \E v \in Values : Set(v)
  \/ \E c \in Calls, v \in Values : Call(c, v)
  \/ Flush

Spec == Init /\ [][Next]_vars
-----------------------------------------------------------------------------
(* The synchronous renderer keeps the promise of CommandStream, the same   *)
(* the asynchronous one keeps: an application cannot tell them apart by    *)
(* the commands that took effect when flush() returns.                     *)
Stream == INSTANCE CommandStream WITH Effects <- Effects, issued <- issued, executed <- executed, synced <- synced
ImplementsStream == Stream!StreamSpec
=============================================================================
