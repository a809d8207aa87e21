---------------------------- MODULE MCTileRaster ----------------------------
(* Instances of TileRaster for TLC: in the first draw every primitive      *)
(* covers the first tile; in the second the middle one is in the last tile *)
(* alone, so that something left over from the first would show.           *)
EXTENDS TileRaster, TLC

MCCovers == <<(0 :> {0, 1}) @@ (1 :> {0}) @@ (2 :> {0, 1}),
              (0 :> {0}) @@ (1 :> {1}) @@ (2 :> {0, 1})>>
=============================================================================
