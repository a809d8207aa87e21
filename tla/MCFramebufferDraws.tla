------------------------- MODULE MCFramebufferDraws -------------------------
EXTENDS FramebufferDraws

CONSTANTS v0, v1, v2, v3

MCOffset == [s \in Samples |-> s]

Ops(func, fail, depth_fail, pass) ==
  [stencil_func |-> func, stencil_fail_op |-> fail, stencil_depth_fail_op |-> depth_fail, stencil_pass_op |-> pass]
Off == Ops("always", "keep", "keep", "keep")
Desc(depth, stencil, front, back) ==
  [depth_enable |-> depth # "off", depth_write_mask |-> depth # "less_equal",
   depth_func |-> IF depth = "off" THEN "always" ELSE depth,
   stencil_enable |-> stencil, stencil_read_mask |-> 255, stencil_write_mask |-> 255,
   front_face |-> front, back_face |-> back]

(* Depth alone; a stencil marked on one face and tested on the other, with *)
(* a depth that is only read; a stencil alone.                             *)
MCDescs == [depth   |-> Desc("less", FALSE, Off, Off),
            stencil |-> Desc("less_equal", TRUE, Ops("less_equal", "keep", "keep", "incr_wrap"),
                                                 Ops("not_equal", "keep", "keep", "replace")),
            mark    |-> Desc("off", TRUE, Ops("greater_equal", "keep", "keep", "invert"),
                                          Ops("always", "keep", "keep", "decr_wrap"))]

Pipeline(desc, ref, output_depth) == [desc |-> desc, stencil_ref |-> ref, output_depth |-> output_depth]
MCPipelines == v0 :> Pipeline("depth", 0, FALSE) @@ v1 :> Pipeline("stencil", 1, TRUE) @@ v2 :> Pipeline("mark", 1, FALSE)

Fragment(mask, depth, front) == [mask |-> mask, depth |-> depth, front_face |-> front]
MCFragments == v0 :> <<Fragment({0, 1}, 1, FALSE), Fragment({0, 1}, 0, TRUE)>> @@ v1 :> <<Fragment({0}, 0, TRUE)>>
               @@ v2 :> <<Fragment({1}, 1, TRUE), Fragment({0, 1}, 1, FALSE)>>
               @@ v3 :> <<Fragment({0, 1}, 2, TRUE)>>

ClearArg(flags, depth, stencil) == [flags |-> flags, depth |-> depth, stencil |-> stencil]
MCClears == v0 :> ClearArg({"depth"}, 2, 0) @@ v1 :> ClearArg({"stencil"}, 2, 1)
            @@ v2 :> ClearArg({"depth", "stencil"}, 1, 255)

(* The home of the pixel; a smaller and a larger target; one of another    *)
(* number of samples; a depth target that fits two of them, and one of     *)
(* another format.                                                         *)
Surface(width, height, samples, format) ==
  [width |-> width, height |-> height, sample_count |-> samples, format |-> format]
MCSurfaces == [color |-> Surface(2, 2, 2, "rgba8"), wide |-> Surface(3, 1, 2, "rgba8"), single |-> Surface(2, 2, 1, "rgba8"),
               depth |-> Surface(2, 2, 2, "rg32f"), low |-> Surface(3, 1, 2, "rg32f"), grey |-> Surface(4, 4, 2, "r32f")]
MCHome == [color |-> "color", ds |-> "depth"]
Target(colors, ds) == [colors |-> colors, ds |-> ds]
HomeTarget == Target(<<"color">>, "depth")
MCTargets ==
  {HomeTarget, Target(<<>>, null), Target(<<>>, "low"), Target(<<"wide">>, "low"), Target(<<"wide", null, "color">>, "depth"),
   Target(<<"color", "wide">>, "low"), Target(<<"color">>, "low"), Target(<<"color", "single">>, "depth"),
   Target(<<"single">>, "depth"), Target(<<"single", null>>, null), Target(<<null>>, null), Target(<<null>>, "depth"),
   Target(<<"wide">>, "grey"), Target(<<"wide", "wide", "wide", "wide">>, "low")}

(* Two names of three share their hash.                                    *)
MCHash == [color |-> 1, light |-> 2, clash |-> 2]
At(offset, size) == [offset |-> offset, size |-> size]
MCLayouts == [plain |-> [size |-> 3, at |-> [light |-> At(0, 1), color |-> At(1, 2)]],
              lit   |-> [size |-> 2, at |-> [color |-> At(1, 1), light |-> At(0, 1)]]]
MCData == {[length |-> 1, byte |-> 0 :> 1], [length |-> 2, byte |-> 0 :> 0 @@ 1 :> 1]}

Element(semantic, slot) == [semantic |-> semantic, input_slot |-> slot]
MCInputLayouts == [both |-> <<Element("position", 0), Element("normal", 1), Element("normal", 2)>>,
                   one  |-> <<Element("position", 1)>>]
MCRegisterMaps == [flat |-> [position |-> 0], full |-> [position |-> 1, normal |-> 0]]
Buffers(start, bindings) == [starts_slot |-> start, bindings |-> bindings]

Idle == [commands |-> 0, pipelines |-> {}, arguments |-> {}, clears |-> {}, others |-> {},
         heap |-> [a |-> "depth"], kinds |-> {"vertex"}, releases |-> {}, targets |-> {HomeTarget}, constants |-> {}, shaders |-> {},
         buffers |-> {}, layouts |-> {}, vertex_shaders |-> {}]

(* Three states that live as long as the renderer.                         *)
States3 == [Idle EXCEPT !.commands = 3, !.pipelines = {v0, v1, v2}, !.arguments = {v0, v2, v3},
                        !.clears = {v0, v1, v2}, !.others = {v0},
                        !.heap = [a |-> "depth", b |-> "stencil", c |-> "mark"]]
(* States made and dropped, at two addresses.                              *)
Dropped == [Idle EXCEPT !.commands = 2, !.pipelines = {v0, v1, v2}, !.arguments = {v1, v3}, !.clears = {v2},
                        !.heap = [a |-> "depth", b |-> free], !.releases = {"a", "b"}]
Retargeted == [Idle EXCEPT !.commands = 3, !.pipelines = {v0, v2}, !.arguments = {v0}, !.clears = {v2}, !.targets = MCTargets,
                           !.heap = [a |-> "depth", b |-> "stencil", c |-> "mark"]]
Shaded == [Idle EXCEPT !.commands = 2, !.kinds = {"vertex", "pixel"}, !.arguments = {v3}, !.constants = {"color", "light", "clash"}, !.shaders = {"plain", "lit"}]
Streamed == [Idle EXCEPT !.commands = 2, !.arguments = {v3}, !.layouts = {"both", "one"}, !.vertex_shaders = {"flat", "full"},
                         !.buffers = {Buffers(0, <<"p">>), Buffers(0, <<"q", "n">>), Buffers(1, <<"p", "n">>), Buffers(1, <<"n">>), Buffers(2, <<"p", "q">>)}]
MCPrograms == [states |-> States3, dropped |-> Dropped, retargeted |-> Retargeted, shaded |-> Shaded, streamed |-> Streamed]
MCOne == [states |-> [States3 EXCEPT !.commands = 2]]
=============================================================================
