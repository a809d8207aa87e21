---------------------------- MODULE RenderTargets ----------------------------
(***************************************************************************)
(* renderer_impl::set_render_targets: what a draw is bound to, the part of *)
(* the targets it may touch and the samples it writes to each pixel.       *)
(*                                                                         *)
(* The targets of the last call are forgotten before those of the new one  *)
(* are looked at.  A null colour target keeps its place in the array.  The *)
(* rasterizer and the framebuffer check nothing: a bound surface smaller   *)
(* than target_vp or with fewer samples is overrun.                        *)
(***************************************************************************)
EXTENDS Integers, Sequences

CONSTANTS Surfaces,             (* by name: their width, height, samples   *)
                                (* and format                              *)
          MAX_RENDER_TARGETS,
          FLOAT_MAX             (* numeric_limits<float>::max()            *)

null == "null"

ASSUME TargetsAssumption ==
  /\ null \notin DOMAIN Surfaces
  /\ FLOAT_MAX \in Nat /\ MAX_RENDER_TARGETS \in Nat
  /\ \A t \in DOMAIN Surfaces : /\ {Surfaces[t].width, Surfaces[t].height} \subseteq 0 .. FLOAT_MAX
                                /\ Surfaces[t].sample_count \in Nat \ {0}

VARIABLES target_vp,            (* its w and h; x and y are zero           *)
          target_sample_count,
          color_targets,
          depth_stencil_target

targetVars == <<target_vp, target_sample_count, color_targets, depth_stencil_target>>

NoTargets ==
  /\ target_vp' = [w |-> 0, h |-> 0]
  /\ target_sample_count' = 0
  /\ color_targets' = <<>>
  /\ depth_stencil_target' = null

Bound(colors) == {colors[i] : i \in DOMAIN colors} \ {null}

Smallest(S) == CHOOSE x \in S : \A y \in S : x <= y

(* What the call will assign: the depth target decides alone when there is *)
(* no colour target, and the colour targets when there is one.             *)
ViewportOf(colors, ds) ==
  IF colors = <<>>
  THEN [w |-> Surfaces[ds].width, h |-> Surfaces[ds].height]
  ELSE [w |-> Smallest({Surfaces[t].width : t \in Bound(colors)} \cup {FLOAT_MAX}),
        h |-> Smallest({Surfaces[t].height : t \in Bound(colors)} \cup {FLOAT_MAX})]

SamplesOf(colors, ds) ==
  IF colors = <<>> THEN Surfaces[ds].sample_count
  ELSE IF Bound(colors) = {} THEN 0
  ELSE Surfaces[CHOOSE t \in Bound(colors) : TRUE].sample_count

(* The depth target against the colour targets.                            *)
DepthRefused(colors, ds) ==
  \/ Surfaces[ds].format # "rg32f"
  \/ Surfaces[ds].width < ViewportOf(colors, ds).w
  \/ Surfaces[ds].height < ViewportOf(colors, ds).h
  \/ Surfaces[ds].sample_count # SamplesOf(colors, ds)

TargetsRefused(colors, ds) ==
  \/ Len(colors) >= MAX_RENDER_TARGETS
  \/ colors = <<>> /\ ds = null
  \/ \E s, t \in Bound(colors) : Surfaces[s].sample_count # Surfaces[t].sample_count
  \/ ds # null /\ DepthRefused(colors, ds)

TargetsAssigned(colors, ds) ==
  /\ target_vp' = ViewportOf(colors, ds)
  /\ target_sample_count' = SamplesOf(colors, ds)
  /\ color_targets' = colors
  /\ depth_stencil_target' = ds

(* A slip: a refused call lets go of the sizes but not of the surfaces.    *)
SetTargetsKept(colors, ds) ==
  IF TargetsRefused(colors, ds)
  THEN /\ target_vp' = [w |-> 0, h |-> 0] /\ target_sample_count' = 0
       /\ UNCHANGED <<color_targets, depth_stencil_target>>
  ELSE TargetsAssigned(colors, ds)

set_render_targets(colors, ds) ==
  IF TargetsRefused(colors, ds) THEN NoTargets ELSE TargetsAssigned(colors, ds)

(* A new block does not initialise the first two; no draw reads them       *)
(* before a call has bound something.                                      *)
TargetsInit ==
  /\ target_vp = [w |-> 0, h |-> 0]
  /\ target_sample_count = 0
  /\ color_targets = <<>>
  /\ depth_stencil_target = null

(* render_core::draw returns at once.                                      *)
NothingBound == color_targets = <<>> /\ depth_stencil_target = null
-----------------------------------------------------------------------------
(* Whatever was set, accepted or refused: every surface a draw would write *)
(* holds the pixels of target_vp and the samples of target_sample_count,   *)
(* and a depth target has the format the framebuffer reads.                *)
TargetsFit ==
  /\ \A t \in Bound(color_targets) \cup ({depth_stencil_target} \ {null}) :
       /\ Surfaces[t].width >= target_vp.w /\ Surfaces[t].height >= target_vp.h
       /\ Surfaces[t].sample_count = target_sample_count
  /\ depth_stencil_target # null => Surfaces[depth_stencil_target].format = "rg32f"
=============================================================================
