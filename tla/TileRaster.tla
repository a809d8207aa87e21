------------------------------ MODULE TileRaster ------------------------------
(***************************************************************************)
(* The two parallel loops of rasterizer::draw.  In the first every thread  *)
(* puts primitives into buckets of its own, one for each tile; in the      *)
(* second the threads share the tiles, and who gets a tile merges and      *)
(* sorts the buckets of all threads and rasterizes them.  Each loop is an  *)
(* execute_threads (ThreadContext): a shared counter of packages, and a    *)
(* return when every thread is done.                                       *)
(*                                                                         *)
(* The buckets outlive a draw; each thread clears its own at its start.    *)
(* A pixel is not modelled: what the tile's part of the frame buffer       *)
(* records is which primitive was blended into it, and in what order.      *)
(***************************************************************************)
EXTENDS Integers, Sequences, FiniteSets, Functions

CONSTANTS Threads,
          Draws,             (* how many draws follow each other           *)
          Prims,             (* how many primitives a draw has             *)
          tile_count,
          Covers,            (* the tiles of each primitive of each draw   *)
          DISPATCH_PRIMITIVE_PACKAGE_SIZE,
          RASTERIZE_PRIMITIVE_PACKAGE_SIZE

Tiles == 0 .. tile_count - 1

(* num_available_threads is at least one.                                  *)
ASSUME RasterAssumption ==
  /\ IsFiniteSet(Threads) /\ Threads # {}
  /\ Draws \in Nat \ {0} /\ Prims \in Nat /\ tile_count \in Nat \ {0}
  /\ Covers \in [1 .. Draws -> [0 .. Prims - 1 -> SUBSET Tiles]]
  /\ DISPATCH_PRIMITIVE_PACKAGE_SIZE \in Nat \ {0}
  /\ RASTERIZE_PRIMITIVE_PACKAGE_SIZE \in Nat \ {0}

(* The code's constant.  The loop over the tiles of a package already      *)
(* fetches the next one after its first tile: packages of several tiles    *)
(* would lose some.                                                        *)
ASSUME OneTileAPackage == RASTERIZE_PRIMITIVE_PACKAGE_SIZE = 1

VARIABLES
  draw,              (* the number of the draw                             *)
  phase,             (* the parallel loop running                          *)
  working_package,   (* its counter                                        *)
  pc,                (* where each thread is in its loop                   *)
  package,           (* the package it holds                               *)
  range,             (* the items of the package it still has to process   *)
  bucket,            (* threaded_tiled_prims_                              *)
  prims,             (* the sorted primitives of the tile it rasterizes    *)
  frame              (* what each tile received                            *)

vars == <<draw, phase, working_package, pc, package, range, bucket, prims, frame>>

PackageSize ==
  IF phase = "dispatch" THEN DISPATCH_PRIMITIVE_PACKAGE_SIZE ELSE RASTERIZE_PRIMITIVE_PACKAGE_SIZE
ItemCount == IF phase = "dispatch" THEN Prims ELSE tile_count
PackageCountDown == ItemCount \div PackageSize                (* a slip   *)
PackageCount == (ItemCount + PackageSize - 1) \div PackageSize
Items(p) == {i \in 0 .. ItemCount - 1 : i \div PackageSize = p}
Least(S) == CHOOSE i \in S : \A j \in S : i <= j

Init ==
  /\ draw = 1 /\ phase = "dispatch" /\ working_package = 0
  /\ pc = [t \in Threads |-> "start"]
  /\ package = [t \in Threads |-> 0]
  /\ range = [t \in Threads |-> {}]
  /\ bucket = [t \in Threads |-> [i \in Tiles |-> <<>>]]
  /\ prims = [t \in Threads |-> <<>>]
  /\ frame = [i \in Tiles |-> <<>>]

(* The task of a thread begins; a dispatching one clears its buckets.      *)
StartKeeping(t) ==
  /\ pc[t] = "start"
  /\ pc' = [pc EXCEPT ![t] = "fetch"]
  /\ UNCHANGED <<draw, phase, working_package, package, range, bucket, prims, frame>>

Start(t) ==
  /\ pc[t] = "start"
  /\ bucket' = IF phase = "dispatch" THEN [bucket EXCEPT ![t] = [i \in Tiles |-> <<>>]] ELSE bucket
  /\ pc' = [pc EXCEPT ![t] = "fetch"]
  /\ UNCHANGED <<draw, phase, working_package, package, range, prims, frame>>

(* next_package.                                                           *)
Fetch(t) ==
  /\ package' = [package EXCEPT ![t] = working_package]
  /\ working_package' = working_package + 1

(* The head of the while loop.                                             *)
TakePackage(t) ==
  /\ pc[t] = "fetch"
  /\ Fetch(t)
  /\ pc' = [pc EXCEPT ![t] = "test"]
  /\ UNCHANGED <<draw, phase, range, bucket, prims, frame>>

TestPackage(t) ==
  /\ pc[t] = "test"
  /\ range' = [range EXCEPT ![t] = Items(package[t])]
  /\ pc' = [pc EXCEPT ![t] = IF package[t] < PackageCount THEN "item" ELSE "done"]
  /\ UNCHANGED <<draw, phase, working_package, package, bucket, prims, frame>>

DispatchPrimitive(t) ==
  /\ phase = "dispatch" /\ pc[t] = "item"
  /\ LET i == Least(range[t]) IN
       /\ bucket' = [bucket EXCEPT ![t] =
            [tile \in Tiles |-> IF tile \in Covers[draw][i] THEN Append(@[tile], i) ELSE @[tile]]]
       /\ range' = [range EXCEPT ![t] = @ \ {i}]
       /\ pc' = [pc EXCEPT ![t] = IF range[t] = {i} THEN "fetch" ELSE "item"]
  /\ UNCHANGED <<draw, phase, working_package, package, prims, frame>>

(* The places of the buckets of one tile, of all threads; std::sort puts   *)
(* their contents in an order, and all it promises is that it ascends.     *)
Places(tile) == UNION {{t} \X (1 .. Len(bucket[t][tile])) : t \in Threads}
Arranged(tile, order) == [k \in DOMAIN order |-> bucket[order[k][1]][tile][order[k][2]]]
SortedNot(s) == TRUE                                  (* a slip            *)
Sorted(s) == \A j, k \in DOMAIN s : j < k => s[j] <= s[k]

GatherTile(t) ==
  /\ phase = "rasterize" /\ pc[t] = "item"
  /\ LET tile == Least(range[t]) IN
       \E order \in Bijection(1 .. Cardinality(Places(tile)), Places(tile)) :
         /\ Sorted(Arranged(tile, order))
         /\ prims' = [prims EXCEPT ![t] = Arranged(tile, order)]
  /\ pc' = [pc EXCEPT ![t] = "draw"]
  /\ UNCHANGED <<draw, phase, working_package, package, range, bucket, frame>>

RasterizePrimitive(t) ==
  /\ pc[t] = "draw"
  /\ prims[t] # <<>>
  /\ frame' = [frame EXCEPT ![Least(range[t])] = Append(@, <<draw, Head(prims[t])>>)]
  /\ prims' = [prims EXCEPT ![t] = Tail(@)]
  /\ UNCHANGED <<draw, phase, working_package, package, pc, range, bucket>>

(* After a tile, inside the loop over the tiles of the package, the thread *)
(* already fetches its next package.                                       *)
FinishTile(t) ==
  /\ pc[t] = "draw"
  /\ prims[t] = <<>>
  /\ Fetch(t)
  /\ LET i == Least(range[t]) IN
       /\ range' = [range EXCEPT ![t] = @ \ {i}]
       /\ pc' = [pc EXCEPT ![t] = IF range[t] = {i} THEN "test" ELSE "item"]
  /\ UNCHANGED <<draw, phase, bucket, prims, frame>>

(* The wait at the end of execute_threads, and the start of the next loop. *)
Barrier ==
  /\ \A t \in Threads : pc[t] = "done"
  /\ draw < Draws \/ phase = "dispatch"
  /\ phase' = IF phase = "dispatch" THEN "rasterize" ELSE "dispatch"
  /\ draw' = IF phase = "dispatch" THEN draw ELSE draw + 1
  /\ working_package' = 0
  /\ pc' = [t \in Threads |-> "start"]
  /\ UNCHANGED <<package, range, bucket, prims, frame>>

Run(t) ==
  \/ Start(t) \/ TakePackage(t) \/ TestPackage(t) \/ DispatchPrimitive(t)
  \/ GatherTile(t) \/ RasterizePrimitive(t) \/ FinishTile(t)

Next == Barrier \/ \E t \in Threads : Run(t)

Spec == Init /\ [][Next]_vars
FairSpec == Spec /\ WF_vars(Barrier) /\ \A t \in Threads : WF_vars(Run(t))
-----------------------------------------------------------------------------
(* Every variable has its type.                                            *)
TypeOK ==
  /\ draw \in 1 .. Draws /\ phase \in {"dispatch", "rasterize"}
  /\ working_package \in Nat
  /\ pc \in [Threads -> {"start", "fetch", "test", "item", "draw", "done"}]
  /\ package \in [Threads -> Nat]
  /\ range \in [Threads -> SUBSET (0 .. ItemCount - 1)]
  /\ bucket \in [Threads -> [Tiles -> Seq(0 .. Prims - 1)]]
  /\ prims \in [Threads -> Seq(0 .. Prims - 1)]
  /\ frame \in [Tiles -> Seq((1 .. Draws) \X (0 .. Prims - 1))]

(* What the application asked for up to a draw, and the order in which it  *)
(* did: draw by draw, primitive by primitive.                              *)
Asked(tile, draws) == {x \in (1 .. draws) \X (0 .. Prims - 1) : tile \in Covers[x[1]][x[2]]}
Earlier(x, y) == x[1] < y[1] \/ (x[1] = y[1] /\ x[2] < y[2])
InOrder(s) == \A j, k \in DOMAIN s : j < k => Earlier(s[j], s[k])

(* Whichever thread gets which package and whenever it runs, a tile        *)
(* receives the primitives that cover it in that order, none twice, none   *)
(* left out before a later one and none left over from the draw before.    *)
PaintersOrder ==
  \A tile \in Tiles :
    /\ InOrder(frame[tile])
    /\ Range(frame[tile]) \subseteq Asked(tile, draw)
    /\ \A x \in Asked(tile, draw), y \in Range(frame[tile]) :
         Earlier(x, y) => x \in Range(frame[tile])

(* A tile received all that was asked for up to a draw, each once.         *)
Whole(tile, draws) ==
  /\ InOrder(frame[tile])
  /\ Range(frame[tile]) = Asked(tile, draws)

(* When the draw returns every tile has received all of them.              *)
DrawComplete ==
  phase = "rasterize" /\ (\A t \in Threads : pc[t] = "done") =>
    \A tile \in Tiles : Whole(tile, draw)

(* Every draw is done.                                                     *)
AllDrawn == <>(\A tile \in Tiles : Whole(tile, Draws))
=============================================================================
