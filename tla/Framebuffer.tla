----------------------------- MODULE Framebuffer -----------------------------
(***************************************************************************)
(* framebuffer: what a fragment does to the samples of its pixel.          *)
(*                                                                         *)
(* How depth and stencil are read and written, and whether they are tested *)
(* before the pixel shader, is worked out when the depth-stencil state or  *)
(* the target's format changes and kept for the draws after it.            *)
(*                                                                         *)
(* One pixel is modelled: pixels share nothing.  Its quad's mask is a set  *)
(* of samples.  The pixel shader is a C++ one that discards nothing, and   *)
(* such a shader does not write a depth (cpp_pixel_shader::execute).       *)
(* Depth targets have the one format set_render_targets accepts.           *)
(***************************************************************************)
EXTENDS Integers, FiniteSetsExt, SequencesExt

CONSTANTS sample_count,
          aa_z_offset,      (* the depth of each sample above its pixel's  *)
          far_depth,        (* what the depth target was cleared to        *)
          Descs             (* the descriptors of depth-stencil states,    *)
                            (* by name                                     *)

Samples == 0 .. sample_count - 1

MaskedNot(stencil, mask) == stencil                           (* a slip    *)

(* A mask keeps the low bits of a stencil.                                 *)
Masked(stencil, mask) == stencil % (mask + 1)
LowBitMasks == {0, 1, 3, 7, 15, 31, 63, 127, 255}

CompareFunctions == {"never", "less", "equal", "less_equal", "greater", "not_equal", "greater_equal", "always"}
StencilOps == {"keep", "zero", "replace", "incr_sat", "decr_sat", "invert", "incr_wrap", "decr_wrap"}
FaceDescs == [stencil_func : CompareFunctions,
              stencil_fail_op : StencilOps, stencil_depth_fail_op : StencilOps, stencil_pass_op : StencilOps]
DepthStencilDescs ==
  [depth_enable : BOOLEAN, depth_write_mask : BOOLEAN, depth_func : CompareFunctions,
   stencil_enable : BOOLEAN, stencil_read_mask : LowBitMasks, stencil_write_mask : LowBitMasks,
   front_face : FaceDescs, back_face : FaceDescs]

(* A fragment covers samples of the pixel; a sample holds what is written. *)
FragmentTypes == [mask : SUBSET Samples, depth : Int, front_face : BOOLEAN]
SampleTypes == [depth : Int, stencil : 0 .. 255, paint : Nat]

ASSUME FramebufferAssumption ==
  /\ sample_count \in Nat \ {0}
  /\ aa_z_offset \in [Samples -> Int] /\ far_depth \in Int
  /\ \A d \in DOMAIN Descs : Descs[d] \in DepthStencilDescs

Compare(func, lhs, rhs) ==
  CASE func = "never"         -> FALSE
    [] func = "less"          -> lhs < rhs
    [] func = "equal"         -> lhs = rhs
    [] func = "less_equal"    -> lhs <= rhs
    [] func = "greater"       -> lhs > rhs
    [] func = "not_equal"     -> lhs # rhs
    [] func = "greater_equal" -> lhs >= rhs
    [] func = "always"        -> TRUE

(* The sop functions compute with 32 bits: below zero all of them are set, *)
(* and a negative number stands for that.                                  *)
Operate(op, ref, cur) ==
  CASE op = "keep"      -> cur
    [] op = "zero"      -> 0
    [] op = "replace"   -> ref
    [] op = "incr_sat"  -> Min({255, cur + 1})
    [] op = "decr_sat"  -> cur - 1
    [] op = "invert"    -> -1 - cur
    [] op = "incr_wrap" -> (cur + 1) % 256
    [] op = "decr_wrap" -> (cur - 1 + 256) % 256

(* The six operations of a depth_stencil_state and the one it picks.       *)
Operations(desc) ==
  <<desc.front_face.stencil_fail_op, desc.front_face.stencil_pass_op, desc.front_face.stencil_depth_fail_op,
    desc.back_face.stencil_fail_op, desc.back_face.stencil_pass_op, desc.back_face.stencil_depth_fail_op>>
One(b) == IF b THEN 1 ELSE 0
stencil_operation(desc, front_face, depth_pass, stencil_pass, ref, cur) ==
  IF desc.stencil_enable
  THEN Operate(Operations(desc)[1 + One(~front_face) * 3 + One(~depth_pass) + One(stencil_pass)], ref, cur)
  ELSE cur

depth_test(desc, depth, old) == desc.depth_enable => Compare(desc.depth_func, depth, old)

Face(desc, front_face) == IF front_face THEN desc.front_face ELSE desc.back_face
stencil_test(desc, front_face, ref, old) ==
  desc.stencil_enable => Compare(Face(desc, front_face).stencil_func, ref, old)

VARIABLES
  ds_state,          (* the address of the state the functions are for     *)
  ds_target,         (* a depth target was bound                           *)
  access,            (* which of depth and stencil are read and written    *)
  early_z_enabled,
  pixel,             (* the samples of the pixel                           *)
  partial            (* the fragment in the loop over a partial mask       *)

fbVars == <<ds_state, ds_target, access, early_z_enabled, pixel, partial>>

FbInit ==
  /\ ds_state = "null"
  /\ ds_target = FALSE
  /\ access = {}
  /\ early_z_enabled \in BOOLEAN          (* the constructor leaves it out *)
  /\ pixel = [s \in Samples |-> [depth |-> far_depth, stencil |-> 0, paint |-> 0]]
  /\ partial = <<>>

(* update_ds_rw_functions.                                                 *)
AccessFor(desc) ==
  {f \in {"read_depth", "write_depth", "read_stencil", "write_stencil"} :
     CASE f = "read_depth"  -> desc.depth_enable /\ desc.depth_func \notin {"never", "always"}
       [] f = "write_depth" -> desc.depth_enable /\ desc.depth_write_mask /\ desc.depth_func # "never"
       [] OTHER             -> desc.stencil_enable}
EarlyZFor(desc, output_depth) == ~desc.stencil_enable /\ ~output_depth

ChangedTarget(p) == ~ds_target                                (* a slip    *)
Changed(p) == ds_state # p.ds_state \/ ~ds_target

DepthAt(f, s) == f.depth + aa_z_offset[s]
DepthPasses(desc, f, s, acc, sample) ==
  depth_test(desc, DepthAt(f, s), IF "read_depth" \in acc THEN sample.depth ELSE 0)
Written(f, s, acc, sample, stencil) ==
  [sample EXCEPT !.depth = IF "write_depth" \in acc THEN DepthAt(f, s) ELSE @,
                 !.stencil = IF "write_stencil" \in acc THEN stencil ELSE @]

(* A sample after a fragment: the early test and write, or the test in     *)
(* render_sample, and the colour of what passes.                           *)
Tested(p, f, s, acc, early, sample, paint) ==
  LET desc == p.desc
      ref == IF desc.stencil_enable THEN Masked(p.stencil_ref, desc.stencil_read_mask) ELSE 0
      old_stencil == IF "read_stencil" \in acc THEN Masked(sample.stencil, desc.stencil_read_mask) ELSE 0
      stencil == IF early THEN 0
                 ELSE Masked(stencil_operation(desc, f.front_face, TRUE, TRUE, ref, old_stencil),
                             desc.stencil_write_mask)
  IN IF DepthPasses(desc, f, s, acc, sample) /\ (early \/ stencil_test(desc, f.front_face, ref, old_stencil))
     THEN [Written(f, s, acc, sample, stencil) EXCEPT !.paint = paint]
     ELSE sample

(* The pixel after some fragments.                                         *)
Rendered(p, fragments, acc, early, paint) ==
  FoldLeft(LAMBDA px, f :
             [s \in Samples |-> IF s \in f.mask THEN Tested(p, f, s, acc, early, px[s], paint) ELSE px[s]],
           pixel, fragments)

(* framebuffer::update.                                                    *)
FbUpdate(p) ==
  /\ ds_state' = p.ds_state
  /\ ds_target' = TRUE
  /\ access' = IF Changed(p) THEN AccessFor(p.desc) ELSE access
  /\ early_z_enabled' = IF Changed(p) THEN EarlyZFor(p.desc, p.output_depth) ELSE early_z_enabled

(* A draw at this pixel, up to the first fragment, if there is one, that   *)
(* is tested early with some but not all of the samples.                   *)
FbDraw(p, fragments, paint) ==
  LET first == SelectInSeq(fragments, LAMBDA f : early_z_enabled' /\ f.mask \notin {{}, Samples})
      done == IF first = 0 THEN fragments ELSE SubSeq(fragments, 1, first - 1) IN
    /\ FbUpdate(p)
    /\ pixel' = Rendered(p, done, access', early_z_enabled', paint)
    /\ partial' = IF first = 0 THEN <<>> ELSE <<fragments[first]>>

(* One turn of the loop in early_z_test with a mask: the lowest sample in  *)
(* px_mask is tested and written, and px_mask is left as it is.            *)
EarlyZTurn(p) ==
  /\ partial # <<>>
  /\ LET f == Head(partial)
         s == Min(f.mask) IN
       pixel' = IF DepthPasses(p.desc, f, s, access, pixel[s])
                THEN [pixel EXCEPT ![s] = Written(f, s, access, @, 0)] ELSE pixel
  /\ UNCHANGED <<ds_state, ds_target, access, early_z_enabled, partial>>

(* clear_depth_stencil: both at once, or one of them.                      *)
FbClear(c) ==
  /\ pixel' = [s \in Samples |->
       [pixel[s] EXCEPT !.depth = IF "depth" \in c.flags THEN c.depth ELSE @,
                        !.stencil = IF "stencil" \in c.flags THEN c.stencil ELSE @]]
  /\ UNCHANGED <<ds_state, ds_target, access, early_z_enabled, partial>>
-----------------------------------------------------------------------------
(* What a fragment should do to a sample it covers, from the descriptor    *)
(* alone: the stencil test, then the depth test; one operation on the      *)
(* stencil for each way they end; depth and colour when both pass.         *)
Meant(op, ref, cur) ==
  CASE op = "incr_sat"  -> IF cur = 255 THEN 255 ELSE cur + 1
    [] op = "decr_sat"  -> IF cur = 0 THEN 0 ELSE cur - 1
    [] op = "incr_wrap" -> IF cur = 255 THEN 0 ELSE cur + 1
    [] op = "decr_wrap" -> IF cur = 0 THEN 255 ELSE cur - 1
    [] op = "invert"    -> 255 - cur
    [] OTHER            -> IF op = "keep" THEN cur ELSE IF op = "zero" THEN 0 ELSE ref

StencilPasses(p, f, sample) ==
  LET desc == p.desc
      Read(stencil) == Masked(stencil, desc.stencil_read_mask) IN
    desc.stencil_enable => Compare(Face(desc, f.front_face).stencil_func, Read(p.stencil_ref), Read(sample.stencil))

Standard(p, f, s, sample, paint) ==
  LET desc == p.desc
      face == Face(desc, f.front_face)
      depth == f.depth + aa_z_offset[s]
      stencil_pass == StencilPasses(p, f, sample)
      depth_pass == desc.depth_enable => Compare(desc.depth_func, depth, sample.depth)
      pass == stencil_pass /\ depth_pass
      op == IF ~stencil_pass THEN face.stencil_fail_op
            ELSE IF ~depth_pass THEN face.stencil_depth_fail_op ELSE face.stencil_pass_op
  IN [depth   |-> IF pass /\ desc.depth_enable /\ desc.depth_write_mask THEN depth ELSE sample.depth,
      stencil |-> IF desc.stencil_enable THEN Meant(op, Masked(p.stencil_ref, 255), sample.stencil) ELSE sample.stencil,
      paint   |-> IF pass THEN paint ELSE sample.paint]

StandardPixel(p, fragments, paint) ==
  FoldLeft(LAMBDA px, f : [s \in Samples |-> IF s \in f.mask THEN Standard(p, f, s, px[s], paint) ELSE px[s]],
           pixel, fragments)

FbTypeOK ==
  /\ {ds_target, early_z_enabled} \subseteq BOOLEAN
  /\ access \subseteq {"read_depth", "write_depth", "read_stencil", "write_stencil"}
  /\ pixel \in [Samples -> SampleTypes]
  /\ Len(partial) <= 1
=============================================================================
