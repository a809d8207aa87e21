------------------------------- MODULE Channel -------------------------------
(***************************************************************************)
(* What bounded_buffer promises: a first-in first-out channel of at most   *)
(* Capacity items that loses, duplicates and reorders nothing.             *)
(***************************************************************************)
EXTENDS Naturals, Sequences

CONSTANTS Items, Capacity

VARIABLES sent,      (* the items pushed, in order                         *)
          received   (* the items popped, in order                         *)

channelVars == <<sent, received>>

ChannelInit == sent = <<>> /\ received = <<>>

Send(item) ==
  /\ Len(sent) - Len(received) < Capacity
  /\ sent' = Append(sent, item)
  /\ UNCHANGED received

Receive ==
  /\ Len(received) < Len(sent)
  /\ received' = Append(received, sent[Len(received) + 1])
  /\ UNCHANGED sent

ChannelNext == Receive \/ \E item \in Items : Send(item)

ChannelSpec == ChannelInit /\ [][ChannelNext]_channelVars
=============================================================================
