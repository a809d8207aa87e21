--------------------------- MODULE FramebufferDraws ---------------------------
(***************************************************************************)
(* The synchronous renderer with what is behind it: the setters of         *)
(* renderer_impl with their checks, the render targets, the constants of a *)
(* compiled shader, the streams, and the framebuffer.  What is set, drawn  *)
(* and cleared through the one decides what the others do.                 *)
(*                                                                         *)
(* It is the ground for taking a command's effect as a function of the     *)
(* fields it reads (RenderState!Effect): what the framebuffer keeps from   *)
(* one draw to the next must not show.  Of the pipeline, the field of that *)
(* name holds the depth-stencil state, its reference and the C++ pixel     *)
(* shader; targets, constants and streams are in their own variables.      *)
(***************************************************************************)
EXTENDS SyncRenderer, Framebuffer, RenderTargets, ShaderConstants, StreamAssembly

CONSTANTS
  Pipelines,    (* what values of the field pipeline are: the descriptor,  *)
                (* the reference and whether the shader outputs a depth    *)
  Fragments,    (* what the geometry of values of the field arguments      *)
                (* leaves at the pixel                                     *)
  ClearArgs,    (* the arguments of a clear                                *)
  Home,         (* the colour and the depth target the pixel belongs to    *)
  Programs      (* what applications do: the number of their commands, the *)
                (* arguments of their calls, the depth-stencil states they *)
                (* start with, by address, and those they let go of        *)

free == "free"                        (* an address no object is at        *)

ASSUME DrawsAssumption ==
  /\ DOMAIN Pipelines \cup DOMAIN Fragments \cup DOMAIN ClearArgs \subseteq Values
  /\ \A v \in DOMAIN Pipelines : /\ Pipelines[v].desc \in DOMAIN Descs
                                 /\ Pipelines[v].stencil_ref \in Int /\ Pipelines[v].output_depth \in BOOLEAN
  /\ \A v \in DOMAIN Fragments : Fragments[v] \in Seq(FragmentTypes)
  /\ \A v \in DOMAIN ClearArgs : ClearArgs[v].depth \in Int /\ ClearArgs[v].stencil \in 0 .. 255
  /\ Default \in DOMAIN Pipelines /\ free \notin DOMAIN Descs
  /\ \A name \in DOMAIN Programs :
       LET p == Programs[name] IN
         /\ p.pipelines \cup p.arguments \cup p.clears \cup p.others \subseteq Values
         /\ p.pipelines \subseteq DOMAIN Pipelines /\ p.arguments \subseteq DOMAIN Fragments
         /\ p.clears \subseteq DOMAIN ClearArgs
         /\ p.heap \in [DOMAIN p.heap -> DOMAIN Descs \cup {free}]
         /\ p.clears # {} => "clear_depth_stencil" \in Calls
         /\ \A t \in p.targets : /\ t.colors \in Seq(DOMAIN Surfaces \cup {null})
                                 /\ t.ds \in DOMAIN Surfaces \cup {null}
         /\ p.constants \subseteq Names /\ p.shaders \subseteq DOMAIN Layouts
         /\ p.layouts \subseteq DOMAIN InputLayouts /\ p.vertex_shaders \subseteq DOMAIN RegisterMaps
         /\ \E a \in DOMAIN p.heap : p.heap[a] = Pipelines[Default].desc

VARIABLES
  application,  (* the name of its program                                 *)
  heap,         (* the depth-stencil states that are alive, by address     *)
  ds_address,   (* the address of state_->ds_state                         *)
  recycled      (* history: the state the framebuffer remembers is gone    *)

objectVars == <<application, heap, ds_address, recycled>>
pipeVars == <<targetVars, constantVars, assemblyVars>>
frameVars == <<vars, fbVars, pipeVars, objectVars>>

program == Programs[application]

PipelineOf(s, address) ==
  LET v == Pipelines[s.val["pipeline"]] IN
    [ds_state |-> address, desc |-> Descs[v.desc], stencil_ref |-> v.stencil_ref, output_depth |-> v.output_depth]
Current == PipelineOf(state, ds_address)
FragmentsOf(s) == Fragments[s.val["arguments"]]

FrameInit ==
  /\ Init /\ FbInit /\ TargetsInit /\ ConstantsInit /\ StreamsInit
  /\ application \in DOMAIN Programs
  /\ kind \in program.kinds
  /\ heap = program.heap
  /\ ds_address = CHOOSE a \in DOMAIN heap : heap[a] = Pipelines[Default].desc
  /\ recycled = FALSE
-----------------------------------------------------------------------------
(* set_depth_stencil_state and set_pixel_shader: a state the application   *)
(* has, or a new one, which the allocator puts at any address it may.      *)
SetPipeline(v) ==
  /\ Set(v)
  /\ \E a \in DOMAIN heap :
       /\ heap[a] \in {free, Pipelines[v].desc}
       /\ heap' = [heap EXCEPT ![a] = Pipelines[v].desc]
       /\ ds_address' = a
  /\ UNCHANGED <<fbVars, pipeVars, application, recycled>>

(* The application lets go of a state the renderer does not refer to.      *)
LetGo(a) ==
  /\ a # ds_address /\ heap[a] # free
  /\ heap' = [heap EXCEPT ![a] = free]
  /\ recycled' = (recycled \/ a = ds_state)
  /\ UNCHANGED <<vars, fbVars, pipeVars, application, ds_address>>

Setters ==
  \/ \E v \in program.pipelines : SetPipeline(v)
  \/ \E a \in program.releases : LetGo(a)
  \/ /\ \/ \E t \in program.targets : set_render_targets(t.colors, t.ds) /\ UNCHANGED <<constantVars, assemblyVars>>
        \/ \E n \in program.constants, data \in Data :
             SetVariable(n, data) /\ UNCHANGED <<targetVars, assemblyVars>>
        \/ \E sh \in program.shaders : SetShader(sh) /\ UNCHANGED <<targetVars, assemblyVars>>
        \/ \E b \in program.buffers :
             set_vertex_buffers(b.starts_slot, b.bindings) /\ UNCHANGED <<targetVars, constantVars>>
        \/ \E l \in program.layouts : set_input_layout(l) /\ UNCHANGED <<targetVars, constantVars>>
        \/ \E sh \in program.vertex_shaders : set_vertex_shader(sh) /\ UNCHANGED <<targetVars, constantVars>>
     /\ UNCHANGED <<vars, fbVars, objectVars>>
-----------------------------------------------------------------------------
AtHome == color_targets = <<Home.color>> /\ depth_stencil_target = Home.ds

(* A draw to other targets leaves the pixel alone.  The two of the pixel   *)
(* are bound together, and a draw without a depth target, whose null       *)
(* address the pixel accessor would take, is not made.                     *)
Elsewhere == Home.color \notin Bound(color_targets) /\ depth_stencil_target \notin {null, Home.ds}

(* render_core::draw: without a target, nothing; else every stage takes    *)
(* over the state before the first fragment.                               *)
CoreDraw ==
  IF NothingBound THEN UNCHANGED <<fbVars, constantVars, assemblyVars, recycled>>
  ELSE /\ AtHome \/ Elsewhere
       /\ Assemble /\ Apply
       /\ FbDraw(Current, IF AtHome THEN FragmentsOf(state') ELSE <<>>, Len(issued'))
       /\ recycled' = (recycled /\ ~Changed(Current))

DrawCall(c, v) ==
  /\ Call(c, v)
  /\ CoreDraw
  /\ partial' = <<>>
  /\ UNCHANGED <<targetVars, application, heap, ds_address>>

(* A draw that enters the loop of early_z_test.                            *)
DrawCallEntered(c, v) ==
  /\ Len(issued) < MaxCommands
  /\ state' = Called(state, c, v)
  /\ issued' = Append(issued, Effect(state'))
  /\ CoreDraw
  /\ partial' # <<>>
  /\ UNCHANGED <<executed, synced, targetVars, application, heap, ds_address>>

ClearCall(v) ==
  /\ Call("clear_depth_stencil", v)
  /\ FbClear(ClearArgs[v])
  /\ UNCHANGED <<pipeVars, objectVars>>

OtherCall(c, v) ==
  /\ Call(c, v)
  /\ UNCHANGED <<fbVars, pipeVars, objectVars>>

(* The application's calls come one after the other has returned.          *)
Commanded ==
  /\ Len(issued) < program.commands
  /\ \/ \E c \in Calls \cap Draws, v \in program.arguments : DrawCall(c, v) \/ DrawCallEntered(c, v)
     \/ \E v \in program.clears : ClearCall(v)
     \/ \E c \in Calls \ (Draws \cup {"clear_depth_stencil"}), v \in program.others : OtherCall(c, v)

Application ==
  \/ Setters
  \/ Commanded
  \/ Flush /\ UNCHANGED <<fbVars, pipeVars, objectVars>>

Turn == EarlyZTurn(Current) /\ UNCHANGED <<vars, pipeVars, objectVars>>

FrameNext == (partial = <<>> /\ Application) \/ Turn

FrameSpec == FrameInit /\ [][FrameNext]_frameVars

(* A draw that was called goes on.                                         *)
FairFrameSpec == FrameSpec /\ WF_frameVars(Turn)
-----------------------------------------------------------------------------
(* Every variable has its type; a stencil is a byte, and the state that    *)
(* the renderer refers to is alive and is the one that was set.            *)
TypeOK ==
  /\ FbTypeOK /\ state \in States /\ synced \in 0 .. Len(issued)
  /\ heap \in [DOMAIN program.heap -> DOMAIN Descs \cup {free}]
  /\ ds_address \in DOMAIN heap /\ Descs[heap[ds_address]] = Current.desc

(* The descriptors of which the framebuffer does all that they say: no     *)
(* operation for a test that fails, whole masks, and not decr_sat.         *)
Plain(desc) ==
  /\ {desc.stencil_read_mask, desc.stencil_write_mask} = {255}
  /\ \A face \in {desc.front_face, desc.back_face} :
       /\ {face.stencil_fail_op, face.stencil_depth_fail_op} = {"keep"}
       /\ face.stencil_pass_op # "decr_sat"

(* A draw that returns leaves the pixel as a plain descriptor it was       *)
(* issued under says, whatever was drawn before it and whether the tests   *)
(* come early or late; unless the state of the last draw is gone and the   *)
(* one of this draw is at its address.                                     *)
Drawn == executed' # executed /\ state'.cmd \in Draws /\ AtHome
Mistaken == recycled /\ ds_address = ds_state
DrawnExact ==
  [][Drawn /\ Plain(Current.desc) /\ ~Mistaken =>
       pixel' = StandardPixel(Current, FragmentsOf(state'), Len(issued'))]_frameVars

(* A draw returns, with multisampling as well.                             *)
EveryDrawReturns == Len(issued) > Len(executed) ~> Len(issued) = Len(executed)
=============================================================================
