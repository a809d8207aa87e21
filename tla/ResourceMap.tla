----------------------------- MODULE ResourceMap -----------------------------
(***************************************************************************)
(* Mapping of buffers and surfaces by resource_manager, on the thread of   *)
(* the application, while the renderer's thread executes queued draws that *)
(* read buffers and write surfaces.  renderer_sync_ is renderer::flush:    *)
(* it returns when nothing is outstanding.                                 *)
(*                                                                         *)
(* A content is a version number.  An address is the resource itself, or   *)
(* "temp", the memory of mapped_data_.                                     *)
(***************************************************************************)
EXTENDS Naturals, Sequences

CONSTANTS Buffers, Surfaces,
          QUEUE_SIZE,
          MaxCalls      (* bound on draws, maps and writes through a map   *)

ASSUME ResourceAssumption ==
  /\ Buffers \cap Surfaces = {}
  /\ "temp" \notin Buffers \cup Surfaces
  /\ QUEUE_SIZE \in Nat \ {0} /\ MaxCalls \in Nat

Resources == Buffers \cup Surfaces
Addresses == Resources \cup {"temp"}
Modes == {"map_read", "map_write", "map_read_write", "map_write_discard",
          "map_write_no_overwrite"}
NotMapped == [data |-> "none", mode |-> "map_mode_none", res |-> "none"]

VARIABLES
  content,           (* what each resource holds                           *)
  mapped_data_,      (* what the temporary memory holds                    *)
  mapped_resource_,  (* the address the resource's map wrote               *)
  map_mode_,
  mapped_,           (* mapped_buf_ and mapped_surf_                       *)
  queue,             (* the outstanding draws, oldest first                *)
  apc, call,         (* the thread inside map: where, and its arguments    *)
  held,              (* the mapping the application is using               *)
  calls

vars == <<content, mapped_data_, mapped_resource_, map_mode_, mapped_, queue, apc, call, held, calls>>

Init ==
  /\ content = [r \in Resources |-> 0]
  /\ mapped_data_ = 0
  /\ mapped_resource_ = "none"
  /\ map_mode_ = "map_mode_none"
  /\ mapped_ = {}
  /\ queue = <<>>
  /\ apc = "idle" /\ call = NotMapped /\ held = NotMapped
  /\ calls = 0

Counted == calls < MaxCalls /\ calls' = calls + 1
-----------------------------------------------------------------------------
(* A map that reads waits for the renderer; one that only writes does not  *)
(* "synchronize yet".  A call without a resource or with a mode that is    *)
(* none of these is refused and changes nothing: it is no step.  (The      *)
(* first form is a slip, as is AddressAlwaysReal below.)                   *)
NeedsSyncWriteOnly(mm) == mm = "map_read_write"
NeedsSync(mm) == mm \in {"map_read", "map_read_write"}

Map(r, mm) ==
  /\ apc = "idle"
  /\ Counted
  /\ map_mode_ = "map_mode_none"
  /\ call' = [data |-> "none", mode |-> mm, res |-> r]
  /\ apc' = IF NeedsSync(mm) THEN "sync" ELSE "map"
  /\ UNCHANGED <<content, mapped_data_, mapped_resource_, map_mode_, mapped_, queue, held>>

(* The first renderer_sync_ returns.                                       *)
Synced ==
  /\ apc = "sync"
  /\ queue = <<>>
  /\ apc' = "map"
  /\ UNCHANGED <<content, mapped_data_, mapped_resource_, map_mode_, mapped_, queue, call, held, calls>>

(* buffer::map and surface::map: a reader gets a copy, every writer the    *)
(* memory of the resource.                                                 *)
AddressAlwaysReal(r, mm) == r
Address(r, mm) == IF mm = "map_read" THEN "temp" ELSE r

MapResource ==
  /\ apc = "map"
  /\ mapped_resource_' = Address(call.res, call.mode)
  /\ mapped_data_' = IF mapped_resource_' = "temp" THEN content[call.res] ELSE mapped_data_
  /\ apc' = "check"
  /\ UNCHANGED <<content, map_mode_, mapped_, queue, call, held, calls>>

(* The second synchronisation of map_impl, meant for an address that is    *)
(* the actual buffer.                                                      *)
NeedsLateSync ==
  /\ mapped_resource_ = "temp"
  /\ call.mode \in {"map_write", "map_write_discard"}

CheckAddress ==
  /\ apc = "check"
  /\ NeedsLateSync => queue = <<>>
  /\ apc' = "return"
  /\ UNCHANGED <<content, mapped_data_, mapped_resource_, map_mode_, mapped_, queue, call, held, calls>>

Return ==
  /\ apc = "return"
  /\ held' = [call EXCEPT !.data = mapped_resource_]
  /\ mapped_' = {r \in mapped_ : (r \in Buffers) # (call.res \in Buffers)} \cup {call.res}
  /\ apc' = "idle"
  /\ UNCHANGED <<content, mapped_data_, mapped_resource_, map_mode_, queue, call, calls>>

(* map_mode_ is never assigned after the constructor, so unmap always      *)
(* returns here, and the rest of it does not run.                          *)
Unmap ==
  /\ apc = "idle"
  /\ map_mode_ = "map_mode_none"
  /\ held' = NotMapped
  /\ UNCHANGED <<content, mapped_data_, mapped_resource_, map_mode_, mapped_, queue, apc, call, calls>>

(* The application writes through the address.                             *)
Write ==
  /\ apc = "idle"
  /\ held.mode \notin {"map_mode_none", "map_read"}
  /\ Counted
  /\ content' = [content EXCEPT ![held.data] = @ + 1]
  /\ UNCHANGED <<mapped_data_, mapped_resource_, map_mode_, mapped_, queue, apc, call, held>>

Draw(b, s) ==
  /\ apc = "idle"
  /\ Len(queue) < QUEUE_SIZE
  /\ Counted
  /\ queue' = Append(queue, [reads |-> b, writes |-> s])
  /\ UNCHANGED <<content, mapped_data_, mapped_resource_, map_mode_, mapped_, apc, call, held>>

ExecuteDraw ==
  /\ queue # <<>>
  /\ content' = [content EXCEPT ![Head(queue).writes] = @ + 1]
  /\ queue' = Tail(queue)
  /\ UNCHANGED <<mapped_data_, mapped_resource_, map_mode_, mapped_, apc, call, held, calls>>

Next ==
  \/ \E r \in Resources, mm \in Modes : Map(r, mm)
  \/ MapResource \/ CheckAddress \/ Synced \/ Return \/ Unmap \/ Write
  \/ \E b \in Buffers, s \in Surfaces : Draw(b, s)
  \/ ExecuteDraw

Spec == Init /\ [][Next]_vars
-----------------------------------------------------------------------------
Draws == [reads : Buffers, writes : Surfaces]
Mappings == [data : Addresses \cup {"none"}, mode : Modes \cup {"map_mode_none"},
             res : Resources \cup {"none"}]

(* Every variable has its type.                                            *)
TypeOK ==
  /\ content \in [Resources -> Nat]
  /\ mapped_data_ \in Nat
  /\ mapped_resource_ \in Addresses \cup {"none"}
  /\ map_mode_ = "map_mode_none"
  /\ mapped_ \subseteq Resources
  /\ queue \in Seq(Draws) /\ Len(queue) <= QUEUE_SIZE
  /\ apc \in {"idle", "sync", "map", "check", "return"}
  /\ call \in Mappings /\ held \in Mappings
  /\ calls \in 0 .. MaxCalls

(* A map that reads returns after every draw issued before it: what the    *)
(* application sees is the resource with all of them applied.              *)
ReadMapsAreSettled ==
  apc = "return" /\ call.mode \in {"map_read", "map_read_write"} =>
    /\ queue = <<>>
    /\ mapped_resource_ = "temp" => mapped_data_ = content[call.res]

Seen == IF held.data = "temp" THEN mapped_data_ ELSE content[held.data]

(* What a reader sees does not change under it, whatever it draws and the  *)
(* renderer executes meanwhile, until it calls map again.                  *)
ReadersUndisturbed ==
  [][held.mode = "map_read" /\ held' = held /\ apc = "idle" => Seen' = Seen]_vars

(* "If return address is actual buffer, we need to sync renderer."         *)
WriteMapsAreSynced ==
  apc = "return" /\ call.mode \in {"map_write", "map_write_discard"}
    /\ mapped_resource_ \in Resources => queue = <<>>
-----------------------------------------------------------------------------
(* The inductive invariant: a map that reads has found the queue empty and *)
(* it stays so, since the only thread that could fill it is inside map;    *)
(* the address is what the mode asks for, during the call and afterwards.  *)
CallIsMapping ==
  apc # "idle" => call.res \in Resources /\ call.mode \in Modes
ReadIsSettled ==
  apc \in {"map", "check", "return"} /\ call.mode \in {"map_read", "map_read_write"} => queue = <<>>
AddressIsKept ==
  apc \in {"check", "return"} =>
    /\ mapped_resource_ = Address(call.res, call.mode)
    /\ call.mode = "map_read" => mapped_data_ = content[call.res]
HeldIsMapping ==
  held.mode # "map_mode_none" =>
    held.res \in Resources /\ held.mode \in Modes /\ held.data = Address(held.res, held.mode)
MapInv == CallIsMapping /\ ReadIsSettled /\ AddressIsKept /\ HeldIsMapping
IInv == TypeOK /\ MapInv
=============================================================================
