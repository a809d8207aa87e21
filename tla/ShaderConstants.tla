--------------------------- MODULE ShaderConstants ---------------------------
(***************************************************************************)
(* The constants of a compiled shader: the bytes the application sets by   *)
(* name (shader_cbuffer), and the block of bytes the shader reads, which   *)
(* each draw fills from them at the places the shader declares.            *)
(*                                                                         *)
(* Names are fixed_strings, and two fixed_strings with the same hash are   *)
(* equal, whatever their text: the table, and the reflection's table of    *)
(* what a shader declares, are indexed by the hash.                        *)
(*                                                                         *)
(* Vertex and pixel shaders have a table and a block each.  The two differ *)
(* in how the block is filled; kind says which of them this is.  Arrays    *)
(* and samplers, whose places hold a pointer, are left out.                *)
(***************************************************************************)
EXTENDS Integers

CONSTANTS Names, HashOf,
          Bytes,
          Data,           (* what a call of set_variable copies            *)
          Layouts,        (* by shader: the size of its block, and where   *)
                          (* in it each constant it declares is            *)
          MaxMemory       (* bound on the bytes of the table in a run      *)

unset == "unset"                                        (* no shader       *)

Cells(from, length) == from .. from + length - 1

Declared(sh) == DOMAIN Layouts[sh].at
PlaceOf(sh, n) == Layouts[sh].at[n]
PlaceCells(sh, n) == Cells(PlaceOf(sh, n).offset, PlaceOf(sh, n).size)

(* reflection_impl::input_sv_layout: of two declared names with one hash,  *)
(* always the same one is found.                                           *)
Named(sh, h) == {n \in Declared(sh) : HashOf[n] = h}
NameFor(sh, h) == CHOOSE n \in Named(sh, h) : TRUE

(* The constants of a shader are inside its block and do not overlap.      *)
ASSUME ConstantsAssumption ==
  /\ HashOf \in [Names -> Nat] /\ MaxMemory \in Nat /\ 0 \in Bytes /\ unset \notin DOMAIN Layouts
  /\ \A data \in Data : data.length \in Nat /\ data.byte \in [Cells(0, data.length) -> Bytes]
  /\ \A sh \in DOMAIN Layouts :
       /\ Layouts[sh].size \in Nat /\ Declared(sh) \subseteq Names
       /\ \A n \in Declared(sh) :
            /\ PlaceOf(sh, n) \in [offset : Nat, size : Nat \ {0}]
            /\ PlaceCells(sh, n) \subseteq Cells(0, Layouts[sh].size)
            /\ \A m \in Declared(sh) \ {n} : PlaceCells(sh, n) \cap PlaceCells(sh, m) = {}

NotGiven == [length |-> -1, byte |-> <<>>]

VARIABLES variables,      (* by hash: the place and length of its bytes    *)
          memory_size, data_memory,
          kind, shader,   (* "vertex" or "pixel", and the one in use       *)
          block,          (* vx_cbuffer_ of the host, or buffer_data of    *)
                          (* the unit                                      *)
          given,          (* history: what was last set under each name    *)
          applied         (* history: nothing was set since the last draw  *)

tableVars == <<variables, memory_size, data_memory, given>>
constantVars == <<tableVars, kind, shader, block, applied>>

ConstantsInit ==
  /\ variables = <<>>
  /\ memory_size = 0
  /\ data_memory = <<>>
  /\ kind \in {"vertex", "pixel"}
  /\ shader = unset
  /\ block = <<>>
  /\ given = [n \in Names |-> NotGiven]
  /\ applied = FALSE

(* A slip: the room a constant has is taken for the room it had.           *)
HasRoomAlways(h, length) == h \in DOMAIN variables

HasRoom(h, length) == h \in DOMAIN variables /\ variables[h].length >= length

(* The entry is moved to the end of the memory when its bytes are too few. *)
SetVariable(n, data) ==
  LET h == HashOf[n]
      offset == IF HasRoom(h, data.length) THEN variables[h].offset ELSE memory_size
      entry == [offset |-> offset, length |-> data.length] IN
    /\ memory_size' = IF HasRoom(h, data.length) THEN memory_size ELSE memory_size + data.length
    /\ memory_size' <= MaxMemory
    /\ variables' = [g \in DOMAIN variables \cup {h} |-> IF g = h THEN entry ELSE variables[g]]
    /\ data_memory' = [i \in Cells(0, memory_size') |->
                         IF i \in Cells(offset, data.length) THEN data.byte[i - offset] ELSE data_memory[i]]
    /\ given' = [given EXCEPT ![n] = data]
    /\ applied' = FALSE
    /\ UNCHANGED <<kind, shader, block>>

(* A new unit has a block of zeros; the host resizes the one it has when   *)
(* it next fills it.                                                       *)
SetShader(sh) ==
  /\ shader' = sh
  /\ block' = IF kind = "pixel" THEN [i \in Cells(0, Layouts[sh].size) |-> 0] ELSE block
  /\ applied' = FALSE
  /\ UNCHANGED <<tableVars, kind>>

Resized(sh) == [i \in Cells(0, Layouts[sh].size) |-> IF i \in DOMAIN block THEN block[i] ELSE 0]

(* host_impl::update copies what the shader declares with the very length, *)
(* the unit whatever the table has: without a look at the length, and from *)
(* a null pointer when there is none.                                      *)
Copies(h) ==
  kind = "vertex" => /\ Named(shader, h) # {}
                     /\ PlaceOf(shader, NameFor(shader, h)).size = variables[h].length
UnitCrashes ==
  kind = "pixel" /\ \E h \in DOMAIN variables : Named(shader, h) = {} \/ variables[h].length = 0

CopiedTo(i) == {h \in DOMAIN variables : Copies(h) /\ i \in PlaceCells(shader, NameFor(shader, h))}

(* A draw fills the block; junk is what lies behind the table's bytes.     *)
(* (Without an input layout host_impl::update does not come to it, and no  *)
(* vertex shader runs that would read the block: such a draw reads nothing *)
(* and is no step.)                                                        *)
Apply ==
  /\ IF shader = unset THEN UNCHANGED block ELSE
       /\ ~UnitCrashes
       /\ \E junk \in Bytes :
            block' = [i \in Cells(0, Layouts[shader].size) |->
                        IF CopiedTo(i) = {} THEN Resized(shader)[i]
                        ELSE LET h == CHOOSE h \in CopiedTo(i) : TRUE
                                 from == variables[h].offset + i - PlaceOf(shader, NameFor(shader, h)).offset
                             IN IF from < memory_size THEN data_memory[from] ELSE junk]
  /\ applied' = TRUE
  /\ UNCHANGED <<tableVars, kind, shader>>

ConstantsNext ==
  \/ \E n \in Names, data \in Data : SetVariable(n, data)
  \/ \E sh \in DOMAIN Layouts : SetShader(sh)
  \/ Apply

ConstantsSpec == ConstantsInit /\ [][ConstantsNext]_constantVars
-----------------------------------------------------------------------------
Alone(n) == \A m \in Names \ {n} : HashOf[m] # HashOf[n]

(* A constant that was set with the length the shader declares for it is   *)
(* what the shader reads at a draw, whatever was set before it, shrunk,    *)
(* moved or declared by another shader, unless its name's hash is that of  *)
(* another name.                                                           *)
ConstantsExact ==
  applied /\ shader # unset =>
    \A n \in Declared(shader) :
      Alone(n) /\ given[n].length = PlaceOf(shader, n).size =>
        \A i \in Cells(0, given[n].length) : block[PlaceOf(shader, n).offset + i] = given[n].byte[i]
=============================================================================
