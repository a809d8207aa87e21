---------------------------- MODULE StreamAssembly ----------------------------
(***************************************************************************)
(* Where a vertex's attributes come from: the buffers bound to the slots   *)
(* (stream_state), the elements of the input layout, and the registers of  *)
(* a C++ vertex shader, which stream_assembler ties together at each draw. *)
(*                                                                         *)
(* A binding is a buffer with its stride and offset.                       *)
(***************************************************************************)
EXTENDS Integers, SequencesExt

CONSTANTS Bindings,
          InputLayouts,     (* by name: the elements, each a semantic and  *)
                            (* the slot it is read from                    *)
          RegisterMaps,     (* by C++ vertex shader: from semantics to     *)
                            (* registers                                   *)
          MAX_INPUT_SLOTS

Slots == 0 .. MAX_INPUT_SLOTS - 1

(* A shader does not bind two semantics to one register.                   *)
ASSUME StreamAssumption ==
  /\ MAX_INPUT_SLOTS \in Nat
  /\ \A l \in DOMAIN InputLayouts :
       /\ InputLayouts[l] \in Seq(Range(InputLayouts[l]))
       /\ \A i \in DOMAIN InputLayouts[l] : InputLayouts[l][i].input_slot \in Slots
  /\ \A sh \in DOMAIN RegisterMaps : IsInjective(RegisterMaps[sh])

VARIABLES buffer_descs,
          layout, cpp_vs,
          register_to_input_element_desc,
          given_buffers,    (* history: what each slot was last given by a *)
                            (* call, and whether that call was taken       *)
          assembled         (* history: nothing was set since the last     *)
                            (* draw                                        *)

assemblyVars == <<buffer_descs, layout, cpp_vs, register_to_input_element_desc, given_buffers, assembled>>

StreamsInit ==
  /\ buffer_descs = [s \in Slots |-> "none"]
  /\ layout = "none" /\ cpp_vs = "none"
  /\ register_to_input_element_desc = {}
  /\ given_buffers = [s \in Slots |-> [binding |-> "none", taken |-> TRUE]]
  /\ assembled = FALSE

Reached(starts_slot, bindings) == starts_slot .. starts_slot + Len(bindings) - 1

(* The last slot cannot be reached: a call that would is ignored.          *)
Taken(starts_slot, bindings) == starts_slot + Len(bindings) < MAX_INPUT_SLOTS

(* A slip: the slots are filled from the last.                             *)
BindingBackwards(starts_slot, bindings, s) == bindings[Len(bindings) - (s - starts_slot)]

BindingFor(starts_slot, bindings, s) == bindings[s - starts_slot + 1]

(* It returns ok in either case, and also when an array is missing and it  *)
(* does nothing, which is no step here.                                    *)
set_vertex_buffers(starts_slot, bindings) ==
  /\ buffer_descs' = [s \in Slots |-> IF Taken(starts_slot, bindings) /\ s \in Reached(starts_slot, bindings)
                                      THEN BindingFor(starts_slot, bindings, s) ELSE buffer_descs[s]]
  /\ given_buffers' = [s \in Slots |->
       IF s \in Reached(starts_slot, bindings)
       THEN [binding |-> bindings[s - starts_slot + 1], taken |-> Taken(starts_slot, bindings)]
       ELSE given_buffers[s]]
  /\ assembled' = FALSE
  /\ UNCHANGED <<layout, cpp_vs, register_to_input_element_desc>>

(* A new layout or another C++ vertex shader.                              *)
set_input_layout(l) ==
  /\ layout' = l
  /\ assembled' = FALSE
  /\ UNCHANGED <<buffer_descs, cpp_vs, register_to_input_element_desc, given_buffers>>

set_vertex_shader(sh) ==
  /\ cpp_vs' = sh
  /\ assembled' = FALSE
  /\ UNCHANGED <<buffer_descs, layout, register_to_input_element_desc, given_buffers>>

(* input_layout::find_desc: the first element of the semantic, or 0.       *)
find_desc(elements, semantic) == SelectInSeq(elements, LAMBDA e : e.semantic = semantic)

(* update_register_map: one semantic the layout lacks, and no register is  *)
(* fed.  A layout has been set before a draw with a C++ vertex shader.     *)
RegisterMap(elements, map) ==
  IF \E semantic \in DOMAIN map : find_desc(elements, semantic) = 0 THEN {}
  ELSE {[register |-> map[semantic], desc |-> elements[find_desc(elements, semantic)]] : semantic \in DOMAIN map}

(* stream_assembler::update.                                               *)
Assemble ==
  /\ IF cpp_vs = "none" THEN UNCHANGED register_to_input_element_desc
     ELSE /\ layout # "none"
          /\ register_to_input_element_desc' = RegisterMap(InputLayouts[layout], RegisterMaps[cpp_vs])
  /\ assembled' = TRUE
  /\ UNCHANGED <<buffer_descs, layout, cpp_vs, given_buffers>>

(* fetch_vertex: where each register's value is read.                      *)
FetchedFrom(register) ==
  {buffer_descs[pair.desc.input_slot] : pair \in {q \in register_to_input_element_desc : q.register = register}}
-----------------------------------------------------------------------------
(* What a draw reads into a register of the vertex shader comes from the   *)
(* buffer the application last bound to the slot its layout names for the  *)
(* register's semantic, however the ranges of the calls overlapped; unless *)
(* the layout lacks a semantic, and then nothing is read, or that call     *)
(* reached the last slot.                                                  *)
FetchExact ==
  assembled /\ cpp_vs # "none" =>
    LET map == RegisterMaps[cpp_vs]
        elements == InputLayouts[layout]
        SlotOf(semantic) == elements[find_desc(elements, semantic)].input_slot
        complete == \A semantic \in DOMAIN map : \E i \in DOMAIN elements : elements[i].semantic = semantic
    IN \A semantic \in DOMAIN map :
         IF complete
         THEN given_buffers[SlotOf(semantic)].taken =>
                FetchedFrom(map[semantic]) = {given_buffers[SlotOf(semantic)].binding}
         ELSE FetchedFrom(map[semantic]) = {}
=============================================================================
