# SALVIA: specifications of the software renderer

SALVIA is a software rasterizer with a Direct3D-like interface (`salviar`), a
shader compiler (`sasl`), a base library (`eflib`), and glue for windows,
meshes and samples (`salviax`, `salviau`, `samples`). Its own core logic is
`salviar`: an application records commands, a rendering thread executes them,
and each command is spread over a pool of worker threads. This directory
models that core in TLA+, checks it with TLC and proves part of it with TLAPS.

## Inventory

| Part | State it keeps | Operations | Touches | Hard behaviour |
|---|---|---|---|---|
| asynchronous renderer (`async_renderer.cpp`) | the application's `render_state`, a pool of blocks, a bounded queue, the exit flag | setters, draw/clear/begin/end (commit), `flush`, `release` | bounded buffer, render core | two threads sharing recycled blocks; shutdown with work queued |
| synchronous renderer (`sync_renderer.cpp`) | one `render_state` | the same calls, executed at once | render core | must be indistinguishable from the other |
| render state (`render_state.cpp`, `render_core.cpp`) | about forty fields | copy for a command, execute | all stages | a recycled block is only partly overwritten |
| queries (`async_object.h`, `renderer_impl.cpp`) | `started_`, a count of pending writes, counters, a slot for each kind | `begin`, `end`, `get_data`; start/stop counting | both threads | an increment outside the mutex; refused begins; waiting for ever |
| resource mapping (`resource_manager.cpp`, `buffer.cpp`, `surface.cpp`) | the mapped resource, one temporary memory, the mode | `map`, `unmap` | flush of the renderer | application and renderer sharing memory |
| bounded buffer (`bounded_buffer.h`) | circular buffer, unread count, mutex, two conditions | `push_front`, `pop_back` | — | lost wakeups, overwriting when full |
| packages of work (`thread_context.h`, `thread_pool.cpp`) | an atomic counter, contexts in the caller's frame | `execute_threads`, `next_package` | worker pool | each item once; no task alive after the return |
| geometry setup and clipper (`geom_setup_engine.cpp`, `clipper.cpp`) | sparse and compacted vertex arrays, counts, addresses | clip, prefix sum, compact | packages, vertex cache | several writers, places computed from others' counts |
| tile rasterizer (`rasterizer.cpp`) | per-thread lists of primitives for each tile | dispatch, rasterize | packages, framebuffer | painter's order whatever the schedule |
| vertex caches (`default_vertex_cache.cpp`) | pools and entries of each thread, shared entries | prepare, `fetch3`, projection | index fetcher, geometry setup | entries shared under spin locks, stale entries |
| index fetcher (`index_fetcher.cpp`) | topology, index buffer, start | `fetch_indexes` | vertex cache | winding of strips, where indexes start |
| render targets (`renderer_impl::set_render_targets`) | colour and depth targets, the part of them a draw may touch, the number of samples | set, with eight ways to be refused | rasterizer, framebuffer | what a refused call leaves behind; nothing checks the sizes later |
| stream assembler, stream slots, input layout | bound buffers, layouts, the register map | `fetch_vertex`, set buffers, update | vertex cache | overlapping ranges of slots, the last slot, semantics the layout lacks |
| framebuffer, depth-stencil (`framebuffer.cpp`) | targets, functions cached for a state, samples | update, early test, render sample, clear | rasterizer | what one draw leaves for the next; early and late tests must agree |
| shader constants (`shader_cbuffer.cpp`, `host_impl.cpp`, `shader_unit.cpp`) | bytes, a table of variables, the block a shader reads | set, fill at a draw | render state | reuse of bytes, shaders changed between set and draw, names with the same hash |
| shader units, samplers, textures, colours | registers, texels | execute, sample | vertex cache, rasterizer | arithmetic |
| `sasl`, `eflib`, `salviax`, `salviau`, driver, samples | — | — | — | batch programs and glue |

The application's thread and the rendering thread meet in the queue, in the
pool of render states, in the query objects and in mapped memory. The
rendering thread and its workers meet in the package counter, the vertex
arrays and the lists of the tiles, and are separated by the barrier at the end
of each `execute_threads`.

What makes the parts correct:

* renderers: commands take effect in call order with the state of their call;
  `flush` vouches for all of them; no block is lost or shared; nobody waits
  for ever but in the one case found at the destructor;
* buffer: first in, first out, no wakeup lost;
* queries: a bracket counts exactly its draws, `get_data` hands out the last
  bracket and returns;
* mapping: a reader sees the settled content, and nobody changes it under it;
* packages: every item once, by one thread, before the call returns;
* geometry and tiles: the result does not depend on the schedule;
* vertex caches: the pointers handed out lead to the right vertices of this
  draw, each that clipping leaves projected once;
* framebuffer: what a draw does is decided by its own descriptor, not by the
  draws before it, and every draw returns;
* targets: every surface bound holds the pixels and the samples a draw touches;
* constants and streams: a draw reads what was last set under the name, and the
  buffer last bound to the slot, whatever was set before.

## Modules

| Module | Models | Correspondence |
|---|---|---|
| `CommandStream` | the promise of a renderer | no code of its own: `renderer`'s virtual functions |
| `RenderState` | `render_state`, the setters, `copy_using_state`, what `render_core::execute` reads | one field for each group of fields a setter writes; the value of a field is a model value |
| `AsyncRenderer` | `async_renderer` | one action per critical section, or per stretch of work on a block only one thread holds; `apc` and `rpc` are the two program counters |
| `SyncRenderer` | `sync_renderer` | a call and its execution are one step |
| `RenderTargets` | `set_render_targets` | a surface is its size, samples and format; the refusals are conjuncts of one predicate, the assignment before them is part of the action |
| `ShaderConstants` | `shader_cbuffer`, and how host and pixel shader unit copy it | bytes are bytes; the table is indexed by hash, as the code's maps are |
| `StreamAssembly` | `stream_state`, `input_layout::find_desc`, `stream_assembler` for C++ shaders | a binding is a model value (buffer, stride and offset) |
| `Framebuffer` | `depth_stencil_state`, `framebuffer`, the early test of the rasterizer | the samples of one pixel; depths are integers, stencils bytes, colour the number of the draw |
| `FramebufferDraws` | `render_core` and `renderer_impl` with all of these behind them | `CoreDraw` updates every stage, as `render_core::draw` does; depth-stencil states have addresses, which the allocator uses again |
| `IndexFetcher` | `index_fetcher` for triangles | operators, and the reference they are checked against |
| `VertexCache` | the three vertex caches and the projection after them | one action for each access of the shared entry that others can see; a vertex is the draw and index it was shaded for and how often it was projected |
| `Channel`, `BoundedBuffer` | the promise, and `bounded_buffer` | one action per critical section, the notification a step of its own after the unlock; spurious wakeups |
| `AsyncQuery` | `async_object`, `begin`, `end`, `get_data`, counting | the unlocked increment and the decrement are a read and a write each; a counter is the set of draws it counted, so a wrong draw cannot hide in a right number |
| `ResourceMap` | `resource_manager`, `buffer::map`, `surface::map` | contents are version numbers, addresses a resource or the temporary memory |
| `ParallelFor`, `ThreadContext` | the promise, and `execute_threads` | one action per access of the counter, per item and per scheduling step |
| `Clipper` | `clipper` for filled triangles | a vertex is its depth, all that the near and the far plane see |
| `GeomSetup` | `geom_setup_engine` | packages are clipped a triangle at a time and copied a package at a time |
| `TileRaster` | the dispatch and rasterize loops of `rasterizer::draw` | a tile's part of the frame is the sequence of primitives blended into it |

Definitions commented as slips are variants of the definition they precede,
each with one plausible programming error; the runs are repeated with each of
them in place, and the property named beside it in `PROJECT.json` must fail.
No specification uses them.

`AsyncRenderer` takes the queue as atomic, which `ImplementsChannel` justifies:
`BoundedBuffer` behaves as a first-in-first-out channel that `Push` and `Pop`
change in one step. `AsyncQuery` and `ResourceMap` take the renderer as the
stream of commands `CommandStream` describes, which `ImplementsStream`
justifies. `GeomSetup`, `TileRaster` and `VertexCache` take the loops over
packages from `ThreadContext`. `RenderState` takes the effect of a command as a
function of the fields it reads, which `DrawnExact`, `ConstantsExact` and
`FetchExact` support: what the stages keep from one draw does not show in the
next. `FramebufferDraws` is the largest composition: the synchronous renderer,
the setters with their checks, targets, constants, streams and the framebuffer.
Its `Programs` say what the application does in a run, so that one run asks
about each part in turn and the theorems about all of them at once.

## Runs

| Run | Bounds | Shows |
|---|---|---|
| `async` | 2 blocks, 3 commands of 3 kinds, 2 values | `TypeOK`, one owner per block, a backlog in call order with the state of each call (`Backlog`), commit never waiting on the queue, deadlock only in `release`, refinement of `CommandStream`; commands executed, `flush` and the destructor return |
| `framebuffer` | 2 samples, 3 descriptors, five programs of 2 or 3 commands: three states that stay; states dropped and made again at two addresses; 14 calls of `set_render_targets` on six surfaces; two constants and a third of the same hash, for both kinds of shader; five calls of `set_vertex_buffers` on four slots | the synchronous renderer keeps the same promise (`ImplementsStream`); a pixel after a draw is what the draw's own descriptor says (`DrawnExact`); `TargetsFit`, `ConstantsExact`, `FetchExact` |
| `multisample` | the first of these programs, 2 commands | a finding, below |
| `buffer` | 2 producers, 2 consumers, capacity 2, 5 pushes | no lost wakeup, order by refinement of `Channel`, every item popped, every push returns |
| `query` | 2 queries of one kind, queue of 3, 6 calls | exact brackets (`BracketExact`); what is pending of any query (`PendingExact`) and of which queries that is exact (`SettledBeginsAlone`); the answers of `get_data` (`QueryExact`), and when it returns |
| `map_safety` | 1 buffer, 2 surfaces, queue of 2, 6 calls | maps that read are settled and undisturbed |
| `map_write` | the same | a finding, below |
| `threads` | 3 threads, 7 items, packages of 2 | all done at the return, each item once by refinement of `ParallelFor`, the call returns |
| `tiles` | 3 threads, 2 draws of 3 primitives, 2 tiles | painter's order, every tile completed with each primitive once at the end of a draw, all draws completed |
| `geometry` | 2 threads, 3 triangles of 12 shapes, packages of 2 | the clipped polygon, the addresses, the compacted array; how far a polygon written too long reaches (`OverrunConfined`) |
| `vertices` | 3 classes of cache, 2 threads, 2 draws of 2 triangles (pools of 6 places, `MaxVertices`), 1 own entry, 2 shared entries; each triangle kept, cut or culled (`Remains`) | right vertices, projected once whichever triangles share them; shared entries locked and published correctly; no pool overrun; every draw ends |
| `clip_overrun` | 2 triangles, packages of 8 as in the code | a finding, below |

The bounds let each interesting case happen: more commands than blocks, so
that every block is recycled and the pool and the queue run empty and full;
a circular buffer that wraps around more than once with sleepers on both
sides; a query restarted while its last bracket is queued and one that finds
its slot taken; a last package that is not full (7 items, packages of 2) and
threads that get no package; two draws, so that lists of the first are there
to be found by the second; triangles on, before, behind and across both
planes; vertices that compete for one entry of a thread's cache and for one of
the shared ones, in a second draw that finds what the first left; a draw with a
depth test after one with a stencil test and the reverse, with a clear between;
a new depth-stencil state at the address of the one the framebuffer remembers;
targets refused for each of the reasons, between draws to the pixel; a constant
that shrinks, grows and moves while another is set; a shader changed between
the setting of a constant and the draw; ranges of slots that overlap, one that
reaches the last slot, and a layout that lacks a semantic.
The type invariants of `AsyncQuery`, `BoundedBuffer`, `ResourceMap`,
`ThreadContext` and `TileRaster` are not part of the runs: they are proved.
`CHECK_DEADLOCK FALSE` is said where the modelled program ends or, in `async`,
where the destructor may really hang (`OnlyReleaseDeadlocks` says
exactly where). `MaxCommands`, `MaxPushes` and `MaxCalls` bound the runs only;
the theorems hold for every value of them.

Fairness is weak fairness of steps inside a call: a thread that is not blocked
runs on, which a preemptive scheduler gives; the spinning loops of
`alloc_render_state` and `flush` yield in each turn. A draw in
the framebuffer goes on, and so does a thread in `fetch3` that is not waiting for
a marked entry. Calls of the application are never fair: it may stop calling. A
sleeper of `BoundedBuffer` is woken fairly by notifications only, never by a spurious wakeup. No strong fairness
is used: consumers compete for a mutex, but one that loses finds the item
taken, and the properties are about items, and a producer's push needs a free
place, of which a finite number of pushes leaves enough.

## Findings

* `map_write`: `resource_manager::map_impl` (resource_manager.cpp:46-55) says
  that a map which hands out the actual buffer must synchronise. It compares
  with the temporary memory, which a writing map never gets, so the memory of
  a resource is handed out while queued draws still use it. `unmap` would
  synchronise, but `map_mode_` is never assigned another value than
  `map_mode_none` and `unmap` always refuses.
* `clip_overrun`: `clip_solid_triangle` takes the number of vertices for the
  number of triangles and writes up to seven triangles where the array has
  room for three. The extra ones are not counted and mostly overwritten;
  five-vertex polygons at the end of a package spill into the next package's
  places or behind the array. `CompactedExact` holds for the packages of which
  no polygon spills, and says so. `OverrunConfined` bounds the damage for all:
  at most twelve places behind the nine of each primitive up to the one at hand.
* `multisample`: the loop of `early_z_test` over a partial sample mask
  (framebuffer.cpp:699) never clears a bit of the mask. A draw with a depth test
  and no stencil test does not return once it covers some but not all samples
  of a pixel; `flush` and the destructor of the asynchronous renderer then wait
  for ever. `doc/contents/features/salvia_status.html` lists multisampling as
  supported. `DrawnExact` speaks of the draws that return.
* Not a run: `async_object::begin` increments the pending count without the
  mutex. A query that is restarted while the end of its last bracket is being
  executed can lose the increment or the decrement, and then `get_data` hands
  out early data or waits for ever. `overlaps` counts, for each query, the
  begins that ran into a `stop_counting` of it; `PendingExact` speaks of every
  query and says that each of them puts the count off by one at most, and nothing
  else does. `QueryExact` and `GetReturns` are about the queries without one;
  without that clause TLC finds them violated. `SettledBeginsAlone` says which
  these are at least: those that were read or flushed before each restart
  (`hurried` collects the others). The sample framework
  (`salviau/src/common/sample_app.cpp`) reads its queries before it restarts
  them.
* Also without a run: a begin refused because another query holds the slot
  leaves the object started and its count raised (`leaked`), so a later
  `get_data` hangs; the destructor deadlocks when all blocks are queued and the
  rendering thread has seen the exit flag.
* In the framebuffer, without a run: the stencil is written only when both
  tests pass, so the operations for a failing test never take effect
  (framebuffer.cpp:590); `sop_decr_sat` wraps below zero (175); a partial write
  mask clears the other bits instead of keeping them, and `replace` writes the
  reference masked for reading; two outcomes share an entry of the table (356);
  a null depth target is dereferenced. `DrawnExact` is stated for the
  descriptors that avoid these (`Plain`). The state of the last draw is
  recognised by its address (416): when it was freed and the new one is at the
  same address, the functions of the old one stay. `Mistaken` is exactly this,
  and the draws it is true of are left out of `DrawnExact`; without that TLC
  finds the pixel wrong in the program `Dropped`. A C++ pixel shader's verdicts on two
  of the four pixels are shifted out of their type (cpp_pixel_shader.cpp:75), so
  the model's shaders discard nothing.
* Around the setters, without a run: `set_vertex_buffers` ignores a call that
  would reach the last slot and returns `ok` (stream_state.cpp:17); a refused
  `set_render_targets` leaves no targets at all, and with nothing but null
  colour targets it accepts a target area of the largest float
  (renderer_impl.cpp:217); a pixel shader unit copies every constant of the
  table with the size the shader declares, through a null pointer if it declares
  none of that name (shader_unit.cpp:105), while the host skips a constant of
  another length silently (host_impl.cpp:204); names with equal hashes are equal
  (ustring.h:237). `ConstantsExact` speaks of names whose hash is their own and
  of the lengths the shader declares, `FetchExact` of calls that were taken.
* Without an index buffer the start position of `draw` has no effect
  (index_fetcher.cpp:138-143). An index of 0xFFFFFFFF or 0xFFFFFFFE collides
  with the markers of the vertex caches; the model assumes there is none.

## Proofs

Eight modules hold proofs, checked by TLAPS for every value of the constants
that satisfies the named assumptions.

* `AsyncRendererProofs`. `IInv` = `TypeOK`, `PlacesAgree` (which thread holds a
  block at which place of its code), `OneOwner`, `NoneLost` and `Backlog`.
  None is inductive alone: `Backlog` needs that the block copied into is not
  queued (`OneOwner`), `OneOwner` needs that what a thread holds agrees with
  its place, and that the queue never fills for a commit is a count
  (`NoneLost`) of distinct blocks. From `IInv` follow `CommitNeverWaitsOnQueue`,
  `OnlyReleaseDeadlocks`, `SnapshotsAreFrozen` and `ImplementsStream`: the
  oldest outstanding effect is that of the block being executed, so `Execute`
  is `Complete`, and a full pool leaves nothing outstanding, so the return of
  `flush` is `Flushed`. `SnapshotFaithful` is the data part: what the copy
  carries is what execution reads, for every command.
* `BoundedBufferProofs`. `InOrder` with the types is inductive: the unread
  part of the circular buffer is the sent sequence backwards. `Push` and `Pop`
  are the steps of `Channel`.
  `NoLostWakeup` needs a count (`WakeInv`): while a consumer sleeps, the unread
  items are no more than the producers about to notify and the consumers awake
  inside the call together, and likewise for the free places. A push adds an
  item and a notification, a pop takes an item with the consumer that was awake
  for it, and a notification turns into one consumer awake unless none sleeps.
* `ThreadContextProofs`. The invariant relates the counter, the packages the
  threads hold and the items processed: an item is processed exactly when its
  package was taken and its holder has passed it. `DoneAtReturn` follows when
  all are done, since each saw the counter beyond the last package.
* `ResourceMapProofs`. The invariant relates the mapping in hand to the queue
  and to the address it reads: nothing is queued while it is in use, or it
  reads a copy.
* `AsyncQueryProofs`. `BracketExact` looks ahead: what a query will have counted
  once the commands before a place in the queue have run is known when they are
  issued (`Seen`), the end of a bracket carries it (`Ends`), an open bracket
  collects it (`Opens`), and running the oldest command or issuing another does
  not change it.
  `PendingExact` is inductive only with the places of both threads (`CountInv`):
  what `begin` read outside the mutex and what `stop_counting` read within it are
  as near to what is due as the count itself (`BeginNear`, `StopNear`), with
  one less to spare while the two are at work on one query and the loss is
  still to come (`Slack`). Of a query outside `hurried` no end is outstanding when
  it begins (`SettledDone`, `BeginFresh`), so the two never meet:
  `SettledBeginsAlone`. Of a query they never met for, the count is exact; `get`
  therefore leaves its loop when the last end has run (`ValueSettled`), every
  command that would still count for the query has an end behind it
  (`Enclosed`), and what it will have counted is what it has: `QueryExact`.
* `RasterizerProofs`, in two parts. Of the tiles, `RInv` follows each primitive through the two loops. While
  the first runs, a primitive that was taken is still held by one thread
  (`Left`) or stands in one bucket of every tile it covers, and only once
  (`BucketsSound`, `BucketsOnce`, `BucketsComplete`), which needs that no two
  threads hold one package (`PackagesOk`) and that a thread which has not
  cleared its buckets has put nothing in them (`Cleared`). When the loop ends
  the counter is past the last package, nothing is held, and the buckets of a
  tile hold exactly what covers it. In the second loop a tile is complete up to
  the draw before, or is being drawn by the one thread that holds it, with all
  that is in it before all that is still to come, or is complete (`TilesOk`).
  `PaintersOrder` and `DrawComplete` are read off.
  Of the geometry setup, the clipper comes first, a function of the triangle.
  `FlattenSeq` and `FoldSet` are recursive functions under a `CHOOSE`: such a
  function is shown to exist, so its equations hold (`Flattening`,
  `SomeAdds`). An edge leaves one vertex, two or none, by the sides of its ends
  (`EdgeCases`); of what the near plane leaves, two neighbours always lie in the
  plane, so the far plane leaves no more than five vertices
  (`NearOfTriangle`, `FarOfNear`); the depths that remain are those between the
  planes and the planes that are crossed, hence `PolygonExact`, for any depths.
  `GInv` then speaks of the threads: one that is at primitive j of its package
  has counted the vertices of those before it and its cursor stands behind them
  (`TodoOk`), no two are at work on one package (`ApartOk`), a package nobody
  is at work on is counted (`CountsOk`), and the vertices of what was clipped
  are at their places and stay (`ClippedOk`), if no polygon is written beyond its
  package. That condition is `Spills`, which `CompactedExact` speaks of: within a package
  the vertices written too many are overwritten by the next primitive, since
  packages are clipped in order; in the next package they may come after
  its own (`NoOverlap`). When the loop ends all packages are
  counted, the prefix sum is the number of vertices before each package
  whatever order `FoldSet` adds in (`SumBelowIs`): `AddressesExact`. The places
  of the packages in the compacted array are disjoint and cover it
  (`OwnPlaces`, `CopiedOk`), hence `CompactedExact`. `OverrunConfined` is
  the other side of the finding `clip_overrun`, for any triangles: a polygon has at
  most five vertices, of which at most nine are counted and 21 written
  (`WrittenAtMost`), so a primitive starts within the nine places of each one
  before it in its package (`StartsWithinNines`).
* `VertexCacheProofs`. `VInv` says of everything that remembers a place of a
  pool that it leads to the vertex it was stored for: a thread's entry
  (`OwnOk`), a shared entry (`SharedOk`), a thread in the middle of `fetch3`,
  the entry whose old content it may put back included (`ThreadsOk`), the
  triangles (`HandedOk`). `VerticesExact` alone speaks of triangles only. These
  are kept because a place is written when it is taken and never
  again, so places must not run out: `RoomOk` counts what a thread has taken,
  what its triangle still needs and what is still to be fetched against the
  size the pool was given. `LocksOk` has a marked entry held by one thread, which alone
  writes it. In the last loop two vertices still to be projected are different
  places (`LoopOk`), because of equal pointers one was kept (`UniqueKeepsOne`), so a
  place that two triangles share is projected once (`Times`). For the precomputing cache `TransformedOk` says that each index, once transformed, is found under it.
* `FramebufferDrawsProofs`, in three parts.
  Every step of the composition is a step of the
  synchronous renderer or leaves it alone, and each of these is `Issue` and
  `Complete` of `CommandStream`, `Flushed`, or a stutter. `TargetsFit` is
  inductive, since a call assigns all or nothing; `FetchExact` rests on what each
  slot was last given and on the first element of a semantic.
  The ranges of the table's entries lie in the memory
  and never overlap (`EntriesOK`), however constants shrink and move; so a call
  writes over its own entry only, each entry holds what was given last
  (`GivenIsKept`), and a draw copies just that to the place of the constant:
  `ConstantsExact`.
  `DrawnExact` needs to know what the framebuffer kept from the last draw:
  `Remembered` says that, while the state it is for is alive, the functions are
  those of that state, so that a draw which finds the address unchanged uses
  the right ones. It is inductive with the address of the state that is set
  (`ObjectsOK`): setting a state cannot change what is alive at an address, and
  letting go of the remembered one sets `recycled`. Of one sample, `TestedIsMeant`
  goes through the operations and comparisons: testing early or late, through
  the cached functions, does what the descriptor says, if it is plain. The
  fragments of a draw are a fold, and two folds agree if their steps do
  (`FoldExists`, `FoldsAgree`).

The assumptions, each named in the module that declares the constants: sizes
are positive; sets of threads are finite and, for the buffer, disjoint; a
shader's constants lie inside its block and do not overlap; a shader binds no
two semantics to one register; the far plane lies beyond the near one.
`OneTileAPackage` is the constant of rasterizer.cpp: with packages of several
tiles the loop would lose some. `CacheAssumption` says that an index buffer
holds what a draw reads from it, that indices are not negative once the base is
added, and names the largest pool (`MaxVertices`, which only bounds the type of
a place). `std::sort` and `std::unique` are taken by their contracts.
`FramebufferAssumption` and `DrawsAssumption` say that descriptors are built of
the enumerations of the code, with masks that are whole low bits, that a
fragment's mask holds samples of the target, that the depth-stencil state a
pipeline speaks of exists, and that a clear sets a stencil that is a byte; the
reference of the stencil is any number.

Induction: no theorem of the library that takes a predicate can be used, but a
set can stand for one. `LeastNatural` takes from `WFMin` that a set of naturals
has a least element, `AllNaturals` that one closed under successor is all of
them, and the folds, the flattened sequences, the sums and the ascending
sequences are reasoned about through these. That a recursive function exists,
and so unfolds, is proved where it is used, by giving one.

Model-checked only: the nine liveness properties (`EveryCommandExecuted`,
`FlushReturns`, `ReleaseReturns`, `EveryItemReceived`, `PushReturns`,
`GetReturns`, `Returns`, `AllDrawn` and `EveryDrawEnds`), which are out of the
prover's reach. Every safety property of the passing runs is proved.

## Not modelled

Floating-point work on single vertices, texels and pixels (interpolation,
filtering, blending, coverage); wireframe clipping and lines; the setters that
only assign (viewport, rasterizer state, topology, samplers); constants that are
arrays or samplers, whose places hold a pointer; a draw without a depth target,
which dereferences null; the shader
compiler, a batch program whose trees do not fit a small model; `eflib`'s
strings and mathematics; the Direct3D driver, which translates calls; samples,
tools, the build and vendored code. `lockfree_queue.h` is not used.
`async_pipeline_statistics`, `async_internal_statistics` and
`async_pipeline_profiles` differ only in what they add up.

## Plan

In order, what comes next:

1. Lines and wireframe in `Clipper` and `IndexFetcher`.
2. A composition of `AsyncRenderer` with `BoundedBuffer`, the detailed queue in
   place of the atomic one.
