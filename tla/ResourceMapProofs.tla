--------------------------- MODULE ResourceMapProofs ---------------------------
(***************************************************************************)
(* Proofs about ResourceMap, for any resources and any number of calls.    *)
(***************************************************************************)
EXTENDS ResourceMap, TLAPS

LEMMA InitIInv == Init => IInv
  <1> SUFFICES ASSUME Init PROVE IInv
    OBVIOUS
  <1>1. TypeOK
    BY ResourceAssumption DEF Init, TypeOK, Mappings, NotMapped
  <1>2. MapInv
    BY DEF Init, NotMapped, MapInv, CallIsMapping, ReadIsSettled, AddressIsKept, HeldIsMapping
  <1> QED
    BY <1>1, <1>2 DEF IInv

LEMMA NextTypeOK == IInv /\ [Next]_vars => TypeOK'
  <1> SUFFICES ASSUME IInv, [Next]_vars PROVE TypeOK'
    OBVIOUS
  <1> USE ResourceAssumption DEF IInv, MapInv, TypeOK
  <1>1. ASSUME NEW r \in Resources, NEW mm \in Modes, Map(r, mm) PROVE TypeOK'
    <2>1. [data |-> "none", mode |-> mm, res |-> r] \in Mappings
      BY DEF Mappings
    <2> QED
      BY <1>1, <2>1 DEF Map, Counted
  <1>2. CASE Synced
    BY <1>2 DEF Synced
  <1>3. CASE MapResource
    BY <1>3 DEF MapResource, CallIsMapping, Address, Addresses
  <1>4. CASE CheckAddress
    BY <1>4 DEF CheckAddress
  <1>5. CASE Return
    <2>1. [call EXCEPT !.data = mapped_resource_] \in Mappings
      BY DEF Mappings
    <2> QED
      BY <1>5, <2>1 DEF Return, CallIsMapping
  <1>6. CASE Unmap
    BY <1>6 DEF Unmap, NotMapped, Mappings
  <1>7. CASE Write
    <2>1. held.data \in Resources
      BY <1>7 DEF Write, HeldIsMapping, Address, Mappings
    <2>2. content' \in [Resources -> Nat] /\ calls' \in 0 .. MaxCalls
      BY <1>7, <2>1 DEF Write, Counted
    <2> QED
      BY <1>7, <2>2 DEF Write
  <1>8. ASSUME NEW b \in Buffers, NEW s \in Surfaces, Draw(b, s) PROVE TypeOK'
    <2>1. [reads |-> b, writes |-> s] \in Draws
      BY DEF Draws
    <2>2. queue' \in Seq(Draws) /\ Len(queue') <= QUEUE_SIZE /\ calls' \in 0 .. MaxCalls
      BY <1>8, <2>1 DEF Draw, Counted
    <2> QED
      BY <1>8, <2>2 DEF Draw
  <1>9. CASE ExecuteDraw
    <2>1. Head(queue) \in Draws /\ Tail(queue) \in Seq(Draws) /\ Len(Tail(queue)) <= QUEUE_SIZE
      BY <1>9 DEF ExecuteDraw
    <2>2. Head(queue).writes \in Resources
      BY <2>1 DEF Draws, Resources
    <2>3. content' \in [Resources -> Nat]
      BY <1>9, <2>2 DEF ExecuteDraw
    <2> QED
      BY <1>9, <2>1, <2>3 DEF ExecuteDraw
  <1>10. CASE UNCHANGED vars
    BY <1>10 DEF vars
  <1> QED
    BY <1>1, <1>2, <1>3, <1>4, <1>5, <1>6, <1>7, <1>8, <1>9, <1>10 DEF Next

(* The rest of the invariant, action by action.  Draws and writes happen   *)
(* only outside map, so they leave the four implications alone.            *)
LEMMA NextMapInv == IInv /\ [Next]_vars => MapInv'
  <1> SUFFICES ASSUME IInv, [Next]_vars PROVE MapInv'
    OBVIOUS
  <1> USE DEF MapInv, CallIsMapping, ReadIsSettled, AddressIsKept, HeldIsMapping
  <1>1. ASSUME NEW r \in Resources, NEW mm \in Modes, Map(r, mm) PROVE MapInv'
    BY <1>1 DEF Map, NeedsSync, IInv
  <1>2. CASE Synced
    BY <1>2 DEF Synced, IInv
  <1>3. CASE MapResource
    BY <1>3 DEF MapResource, Address, IInv
  <1>4. CASE CheckAddress
    BY <1>4 DEF CheckAddress, IInv
  <1>5. CASE Return
    <2>1. held' = [call EXCEPT !.data = mapped_resource_] /\ call \in Mappings
      BY <1>5 DEF Return, IInv, TypeOK
    <2>2. held'.res = call.res /\ held'.mode = call.mode /\ held'.data = mapped_resource_
      BY <2>1 DEF Mappings
    <2> QED
      BY <1>5, <2>2 DEF Return, IInv
  <1>6. CASE Unmap
    BY <1>6 DEF Unmap, NotMapped, IInv
  <1>7. CASE Write
    BY <1>7 DEF Write, IInv
  <1>8. ASSUME NEW b \in Buffers, NEW s \in Surfaces, Draw(b, s) PROVE MapInv'
    BY <1>8 DEF Draw, IInv
  <1>9. CASE ExecuteDraw
    BY <1>9 DEF ExecuteDraw, IInv
  <1>10. CASE UNCHANGED vars
    BY <1>10 DEF vars, IInv
  <1> QED
    BY <1>1, <1>2, <1>3, <1>4, <1>5, <1>6, <1>7, <1>8, <1>9, <1>10 DEF Next

THEOREM ResourceInvariant == Spec => []IInv
  <1>1. IInv /\ [Next]_vars => IInv'
    BY NextTypeOK, NextMapInv DEF IInv
  <1> QED
    BY <1>1, InitIInv, PTL DEF Spec

(* Every variable has its type, whatever the application maps and draws.   *)
THEOREM ResourceTypeOK == Spec => []TypeOK
  <1>1. IInv => TypeOK
    BY DEF IInv
  <1> QED
    BY <1>1, ResourceInvariant, PTL

(* A map that reads returns after every draw issued before it.             *)
THEOREM ResourceReadMapsAreSettled == Spec => []ReadMapsAreSettled
  <1>1. IInv => ReadMapsAreSettled
    <2> SUFFICES ASSUME IInv, apc = "return", call.mode \in {"map_read", "map_read_write"}
                 PROVE  queue = <<>> /\ (mapped_resource_ = "temp" => mapped_data_ = content[call.res])
      BY DEF ReadMapsAreSettled
    <2>1. queue = <<>>
      BY DEF IInv, MapInv, ReadIsSettled
    <2>2. ASSUME mapped_resource_ = "temp" PROVE mapped_data_ = content[call.res]
      BY <2>2, ResourceAssumption DEF IInv, MapInv, AddressIsKept, CallIsMapping, Address, Resources
    <2> QED
      BY <2>1, <2>2
  <1> QED
    BY <1>1, ResourceInvariant, PTL

(* What a reader sees does not change under it: it is a copy, and only the *)
(* next map writes the memory the copy is in.                              *)
THEOREM ResourceReadersUndisturbed == Spec => ReadersUndisturbed
  <1>1. IInv /\ [Next]_vars =>
          [held.mode = "map_read" /\ held' = held /\ apc = "idle" => Seen' = Seen]_vars
    <2> SUFFICES ASSUME IInv, Next, held.mode = "map_read", held' = held, apc = "idle"
                 PROVE  Seen' = Seen
      OBVIOUS
    <2>1. held.data = "temp"
      BY DEF IInv, MapInv, HeldIsMapping, Address
    <2>2. mapped_data_' = mapped_data_
      BY DEF Next, Map, Synced, MapResource, CheckAddress, Return, Unmap, Write, Draw, ExecuteDraw
    <2> QED
      BY <2>1, <2>2 DEF Seen
  <1> QED
    BY <1>1, ResourceInvariant, PTL DEF Spec, ReadersUndisturbed
=============================================================================
