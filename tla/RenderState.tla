----------------------------- MODULE RenderState -----------------------------
(***************************************************************************)
(* The state block of the renderer (struct render_state), what the calls   *)
(* of renderer_impl write into it, what copy_using_state carries into a    *)
(* snapshot and what render_core::execute reads back.                      *)
(*                                                                         *)
(* The forty-odd fields are grouped by who reads them:                     *)
(*   pipeline       buffers, layout, shaders, constants, states, targets   *)
(*   arguments      start_index, prim_count, base_vertex                   *)
(*   asyncs         the queries collecting statistics                      *)
(*   clear_color    clear_color and clear_color_target                     *)
(*   clear_ds       clear_f, clear_z, clear_stencil, clear_ds_target       *)
(*   current_async  the query a begin or an end is about                   *)
(***************************************************************************)
CONSTANTS Values,     (* what a group of fields may hold                   *)
          Default     (* what it holds in a new render_state               *)

ASSUME DefaultAssumption == Default \in Values

Fields ==
  {"pipeline", "arguments", "asyncs", "clear_color", "clear_ds", "current_async"}

Draws   == {"draw", "draw_index"}
Clears  == {"clear_color", "clear_depth_stencil"}
Asyncs  == {"async_begin", "async_end"}
Commands == Draws \cup Clears \cup Asyncs

(* cmd has no initialiser: "none" stands for whatever a new block holds,   *)
(* which nothing reads before the first command is copied into it.         *)
States == [cmd : Commands \cup {"none"}, val : [Fields -> Values]]

NewState == [cmd |-> "none", val |-> [f \in Fields |-> Default]]

(* The fields a command call assigns before it commits.                    *)
Assigned(c) ==
  CASE c \in Draws                  -> {"arguments"}
    [] c = "clear_color"            -> {"clear_color"}
    [] c = "clear_depth_stencil"    -> {"clear_ds"}
    [] c \in Asyncs                 -> {"asyncs", "current_async"}

(* The block of the application after a call of command c with value v.    *)
Called(s, c, v) ==
  [cmd |-> c, val |-> [f \in Fields |-> IF f \in Assigned(c) THEN v ELSE s.val[f]]]

(* The block after one of the setters: any change of the pipeline.         *)
SetTo(s, v) == [s EXCEPT !.val["pipeline"] = v]

(* A slip: a field missing from the list of the clears.                    *)
CopiedNoClearColor(c) ==
  CASE c \in Draws  -> Fields
    [] c \in Clears -> {"clear_ds"}
    [] c \in Asyncs -> {"current_async"}

(* The fields copy_using_state carries over for a command.                 *)
Copied(c) ==
  CASE c \in Draws  -> Fields
    [] c \in Clears -> {"clear_color", "clear_ds"}
    [] c \in Asyncs -> {"current_async"}

(* copy_using_state: the snapshot keeps what the command does not need,    *)
(* left over from the command the block served before.                     *)
CopyUsingState(dest, src) ==
  [cmd |-> src.cmd,
   val |-> [f \in Fields |-> IF f \in Copied(src.cmd) THEN src.val[f] ELSE dest.val[f]]]

(* The fields execute reads for a command.                                 *)
Reads(c) ==
  CASE c \in Draws               -> {"pipeline", "arguments", "asyncs"}
    [] c = "clear_color"         -> {"clear_color"}
    [] c = "clear_depth_stencil" -> {"clear_ds"}
    [] c \in Asyncs              -> {"current_async"}

(* What executing a block does: a function of its command and of the       *)
(* fields that command reads.                                              *)
Effect(s) == [cmd |-> s.cmd, seen |-> [f \in Reads(s.cmd) |-> s.val[f]]]

Effects == {Effect(s) : s \in [cmd : Commands, val : [Fields -> Values]]}
=============================================================================
