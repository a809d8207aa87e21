--------------------------- MODULE RasterizerProofs ---------------------------
(***************************************************************************)
(* Two stages of the rasterizer, for any number of threads and primitives, *)
(* any package size, any triangles and any far plane.                      *)
(*                                                                         *)
(* The tiles (TileRaster).  A package is held by one thread, so a          *)
(* primitive that was taken is either still to be dispatched by one thread *)
(* or stands, once, in one bucket of each tile it covers; and the threads  *)
(* that have not cleared their buckets yet have dispatched nothing.  When  *)
(* the loop ends all packages were taken, so the buckets of a tile hold    *)
(* exactly what covers it.  In the second loop a tile is untouched, or     *)
(* drawn by the one thread that holds it, or complete.                     *)
(*                                                                         *)
(* The geometry setup (GeomSetup).  The clipper is a function of the       *)
(* triangle: what it leaves follows from the cases of three vertices and   *)
(* two planes.  Of the steps, a thread at primitive j of its package has   *)
(* counted the vertices of those before it and stands behind them; no two  *)
(* threads are in one package; and what is clipped is never overwritten,   *)
(* as long as no primitive is written beyond its package.  When the loop   *)
(* is over every package is counted, so the prefix sum gives each one the  *)
(* number of vertices before it, and the copies fill the array in order.   *)
(***************************************************************************)
EXTENDS TileRaster, GeomSetup, FiniteSetTheorems, WellFoundedInduction, TLAPS

Holding(t) == pc[t] \in {"test", "item", "draw"}

(* What a thread holds and has not processed.                              *)
Left(t) ==
  CASE pc[t] = "test" -> Items(package[t])
    [] pc[t] \in {"item", "draw"} -> range[t]
    [] OTHER -> {}

(* A package is taken once.                                                *)
PackagesOk ==
  /\ \A t \in Threads : Holding(t) => package[t] < working_package
  /\ \A t, u \in Threads : t # u /\ Holding(t) /\ Holding(u) => package[t] # package[u]
  /\ \A t \in Threads :
       pc[t] = "done" => PackageCount <= package[t] /\ package[t] < working_package

(* What is left of a package is left while it is processed.                *)
RangesOk ==
  \A t \in Threads :
    IF pc[t] \in {"item", "draw"}
      THEN range[t] # {} /\ range[t] \subseteq Items(package[t]) /\ package[t] < PackageCount
      ELSE range[t] = {}

Stands(t, tile, i) == \E k \in DOMAIN bucket[t][tile] : bucket[t][tile][k] = i

(* The buckets of the threads that run the loop.                           *)
Cleared == {t \in Threads : phase = "dispatch" => pc[t] # "start"}

(* What stands in a bucket covers its tile, was taken and is not left.     *)
BucketsSound ==
  \A t \in Cleared, tile \in Tiles : \A i \in Range(bucket[t][tile]) :
    /\ tile \in Covers[draw][i]
    /\ phase = "dispatch" =>
         i \div PackageSize < working_package /\ \A u \in Threads : i \notin Left(u)

(* It stands there once.                                                   *)
BucketsOnce ==
  \A t, u \in Cleared, tile \in Tiles :
    \A j \in DOMAIN bucket[t][tile], k \in DOMAIN bucket[u][tile] :
      bucket[t][tile][j] = bucket[u][tile][k] => t = u /\ j = k

(* What was taken and is not left stands in the buckets it belongs to.     *)
BucketsComplete ==
  \A i \in 0 .. Prims - 1 : \A tile \in Covers[draw][i] :
    \/ \E t \in Cleared : i \in Range(bucket[t][tile])
    \/ /\ phase = "dispatch"
       /\ i \div PackageSize >= working_package \/ \E u \in Threads : i \in Left(u)

(* A tile holds, in order, all that was asked for.                         *)
Complete(tile, draws) == InOrder(frame[tile]) /\ Range(frame[tile]) = Asked(tile, draws)

Remaining(t) == {<<draw, i>> : i \in Range(prims[t])}

(* A tile that is being drawn: what is in it, then what is still to come.  *)
Drawn(t, tile) ==
  /\ InOrder(frame[tile])
  /\ \A j, k \in DOMAIN prims[t] : j < k => prims[t][j] < prims[t][k]
  /\ \A x \in Range(frame[tile]), y \in Remaining(t) : Earlier(x, y)
  /\ Range(frame[tile]) \cup Remaining(t) = Asked(tile, draw)

TilesOk ==
  \A tile \in Tiles :
    /\ phase = "dispatch" => Complete(tile, draw - 1)
    /\ phase = "rasterize" =>
         /\ tile >= working_package => Complete(tile, draw - 1)
         /\ \A t \in Threads : Holding(t) /\ package[t] = tile =>
              IF pc[t] = "draw" THEN Drawn(t, tile) ELSE Complete(tile, draw - 1)
         /\ tile < working_package /\ (\A t \in Threads : Holding(t) => package[t] # tile) =>
              Complete(tile, draw)

PhaseOk == phase = "dispatch" => \A t \in Threads : pc[t] # "draw"

RInv ==
  /\ TypeOK /\ PhaseOk /\ PackagesOk /\ RangesOk
  /\ BucketsSound /\ BucketsOnce /\ BucketsComplete /\ TilesOk
-----------------------------------------------------------------------------
(* Packages of items.                                                      *)
LEMMA Quotient ==
  ASSUME NEW i \in Nat, NEW P \in Nat \ {0}
  PROVE  i \div P \in Nat /\ (i \div P) * P <= i /\ i < (i \div P) * P + P
  OBVIOUS

LEMMA QuotientOf ==
  ASSUME NEW p \in Nat, NEW P \in Nat \ {0}
  PROVE  p * P \in Nat /\ (p * P) \div P = p
  OBVIOUS

LEMMA ProductMonotone ==
  ASSUME NEW p \in Nat, NEW q \in Nat, NEW P \in Nat, p <= q
  PROVE  p * P <= q * P
  <1>1. q = p + (q - p) /\ q - p \in Nat
    OBVIOUS
  <1> DEFINE d == q - p
  <1>2. (p + d) * P = p * P + d * P /\ d * P \in Nat /\ p * P \in Nat
    BY <1>1
  <1> QED
    BY <1>1, <1>2

LEMMA QuotientBelow ==
  ASSUME NEW n \in Nat, NEW i \in Nat, NEW P \in Nat \ {0}, i < n
  PROVE  i \div P < (n + P - 1) \div P
  <1> DEFINE p == i \div P
             c == (n + P - 1) \div P
  <1>1. p \in Nat /\ p * P <= i /\ n + P - 1 \in Nat
    BY Quotient
  <1>2. c \in Nat /\ n + P - 1 < c * P + P
    BY <1>1, Quotient
  <1> HIDE DEF p, c
  <1>3. ~(c <= p)
    <2> SUFFICES ASSUME c <= p PROVE FALSE
      OBVIOUS
    <2>1. c * P <= p * P
      BY <1>1, <1>2, ProductMonotone
    <2>2. c * P \in Nat /\ p * P \in Nat
      BY <1>1, <1>2
    <2> QED
      BY <1>1, <1>2, <2>1, <2>2
  <1> QED
    BY <1>1, <1>2, <1>3 DEF p, c

LEMMA QuotientInside ==
  ASSUME NEW n \in Nat, NEW p \in Nat, NEW P \in Nat \ {0}, p < (n + P - 1) \div P
  PROVE  p * P < n
  <1> DEFINE c == (n + P - 1) \div P
  <1>1. n + P - 1 \in Nat
    OBVIOUS
  <1>2. c \in Nat /\ c * P <= n + P - 1
    BY <1>1, Quotient
  <1> HIDE DEF c
  <1>3. p + 1 <= c
    BY <1>2 DEF c
  <1>4. (p + 1) * P <= c * P
    BY <1>2, <1>3, ProductMonotone
  <1>5. (p + 1) * P = p * P + P /\ p * P \in Nat /\ c * P \in Nat
    BY <1>2
  <1> QED
    BY <1>2, <1>4, <1>5

LEMMA PackageFacts ==
  /\ PackageSize \in Nat \ {0} /\ ItemCount \in Nat /\ PackageCount \in Nat
  /\ \A i \in 0 .. ItemCount - 1 : i \div PackageSize \in Nat /\ i \div PackageSize < PackageCount
  /\ \A p \in Nat : p < PackageCount <=> Items(p) # {}
  <1>1. PackageSize \in Nat \ {0} /\ ItemCount \in Nat
    BY RasterAssumption DEF PackageSize, ItemCount
  <1>2. PackageCount \in Nat
    BY <1>1, Quotient DEF PackageCount
  <1>3. ASSUME NEW i \in 0 .. ItemCount - 1
        PROVE  i \div PackageSize \in Nat /\ i \div PackageSize < PackageCount
    BY <1>1, Quotient, QuotientBelow DEF PackageCount
  <1>4. ASSUME NEW p \in Nat, p < PackageCount PROVE Items(p) # {}
    <2>1. p * PackageSize \in Nat /\ p * PackageSize < ItemCount /\ (p * PackageSize) \div PackageSize = p
      BY <1>1, <1>4, QuotientInside, QuotientOf DEF PackageCount
    <2> DEFINE i == p * PackageSize
    <2>2. i \in 0 .. ItemCount - 1 /\ i \div PackageSize = p
      BY <1>1, <2>1
    <2> HIDE DEF i
    <2> QED
      BY <2>2 DEF Items
  <1>5. ASSUME NEW p \in Nat, Items(p) # {} PROVE p < PackageCount
    BY <1>3, <1>5 DEF Items
  <1> QED
    BY <1>1, <1>2, <1>3, <1>4, <1>5

(* In the second loop a package is a tile.                                 *)
LEMMA TilePackages ==
  ASSUME phase = "rasterize"
  PROVE  /\ PackageCount = tile_count
         /\ \A p \in Nat : Items(p) = IF p < tile_count THEN {p} ELSE {}
  <1>1. PackageSize = 1 /\ ItemCount = tile_count /\ tile_count \in Nat
    BY RasterAssumption, OneTileAPackage DEF PackageSize, ItemCount
  <1>2. \A i \in Nat : i \div 1 = i
    OBVIOUS
  <1>3. PackageCount = tile_count
    BY <1>1, <1>2 DEF PackageCount
  <1> QED
    BY <1>1, <1>2, <1>3 DEF Items

LEMMA LeastIs ==
  ASSUME NEW S \in SUBSET Nat, S # {}
  PROVE  Least(S) \in S /\ \A i \in S : Least(S) <= i
  <1> DEFINE R == OpToRel(<, Nat)
  <1>1. \A x, y \in Nat : <<y, x>> \in R <=> y < x
    BY DEF OpToRel
  <1>2. IsWellFoundedOn(R, Nat)
    BY NatLessThanWellFounded
  <1> HIDE DEF R
  <1>3. PICK m \in S : \A y \in S : ~(<<y, m>> \in R)
    BY <1>2, WFMin
  <1>4. ASSUME NEW y \in S PROVE m <= y
    <2>1. m \in Nat /\ y \in Nat /\ ~(<<y, m>> \in R)
      BY <1>3
    <2>2. ~(y < m)
      BY <1>1, <2>1
    <2> QED
      BY <2>1, <2>2
  <1> QED
    BY <1>4 DEF Least
LEMMA RangeIn ==
  ASSUME NEW S, NEW s \in Seq(S)
  PROVE  Range(s) \subseteq S
  <1>1. \A k \in DOMAIN s : s[k] \in S
    OBVIOUS
  <1> QED
    BY <1>1 DEF Range

LEMMA AppendRange ==
  ASSUME NEW S, NEW s \in Seq(S), NEW x \in S
  PROVE  /\ Append(s, x) \in Seq(S) /\ DOMAIN Append(s, x) = DOMAIN s \cup {Len(s) + 1}
         /\ Len(s) + 1 \notin DOMAIN s
         /\ \A k \in DOMAIN s : k \in Nat /\ k < Len(s) + 1 /\ Append(s, x)[k] = s[k]
         /\ Append(s, x)[Len(s) + 1] = x
         /\ Range(Append(s, x)) = Range(s) \cup {x}
  <1>1. /\ Append(s, x) \in Seq(S) /\ DOMAIN Append(s, x) = DOMAIN s \cup {Len(s) + 1}
        /\ Len(s) + 1 \notin DOMAIN s
        /\ \A k \in DOMAIN s : k \in Nat /\ k < Len(s) + 1 /\ Append(s, x)[k] = s[k]
        /\ Append(s, x)[Len(s) + 1] = x
    OBVIOUS
  <1>2. Range(Append(s, x)) = Range(s) \cup {x}
    BY <1>1 DEF Range
  <1> QED
    BY <1>1, <1>2

LEMMA AppendAdds ==
  ASSUME NEW S, NEW s \in Seq(S), NEW x \in S
  PROVE  Range(Append(s, x)) = Range(s) \cup {x}
  BY AppendRange

LEMMA SamePhase ==
  ASSUME phase' = phase
  PROVE  /\ PackageSize' = PackageSize /\ ItemCount' = ItemCount /\ PackageCount' = PackageCount
         /\ \A p : Items(p)' = Items(p)
  BY DEF PackageSize, ItemCount, PackageCount, Items

(* Nothing was asked for before the first draw.                            *)
LEMMA NothingAsked == ASSUME NEW tile \in Tiles PROVE Asked(tile, 0) = {}
  BY DEF Asked

-----------------------------------------------------------------------------
LEMMA InitRInv == Init => RInv
  <1> SUFFICES ASSUME Init PROVE RInv
    OBVIOUS
  <1>1. \A t \in Threads : pc[t] = "start" /\ range[t] = {} /\ package[t] = 0
    BY DEF Init
  <1>2. TypeOK
    <2>1. draw \in 1 .. Draws /\ phase \in {"dispatch", "rasterize"} /\ working_package \in Nat
      BY RasterAssumption DEF Init
    <2>2. /\ pc \in [Threads -> {"start", "fetch", "test", "item", "draw", "done"}]
          /\ package \in [Threads -> Nat]
          /\ range \in [Threads -> SUBSET (0 .. ItemCount - 1)]
      BY DEF Init
    <2>3. /\ bucket \in [Threads -> [Tiles -> Seq(0 .. Prims - 1)]]
          /\ prims \in [Threads -> Seq(0 .. Prims - 1)]
      BY DEF Init
    <2>4. frame \in [Tiles -> Seq((1 .. Draws) \X (0 .. Prims - 1))]
      BY DEF Init
    <2> QED
      BY <2>1, <2>2, <2>3, <2>4 DEF TypeOK
  <1>3. PhaseOk /\ PackagesOk /\ RangesOk
    BY <1>1 DEF PhaseOk, PackagesOk, RangesOk, Holding
  <1>4. Cleared = {}
    BY <1>1 DEF Cleared, Init
  <1>5. BucketsSound /\ BucketsOnce
    BY <1>4 DEF BucketsSound, BucketsOnce
  <1>6. BucketsComplete
    <2> SUFFICES ASSUME NEW i \in 0 .. Prims - 1
                 PROVE  phase = "dispatch" /\ i \div PackageSize >= working_package
      BY DEF BucketsComplete
    <2>1. i \in 0 .. ItemCount - 1
      BY DEF Init, ItemCount
    <2> QED
      BY <2>1, PackageFacts DEF Init
  <1>7. TilesOk
    <2>1. ASSUME NEW tile \in Tiles PROVE Complete(tile, draw - 1)
      <3>1. frame[tile] = <<>> /\ draw - 1 = 0
        BY DEF Init
      <3> QED
        BY <3>1, NothingAsked DEF Complete, InOrder, Range
    <2> QED
      BY <2>1 DEF TilesOk, Init
  <1> QED
    BY <1>2, <1>3, <1>5, <1>6, <1>7 DEF RInv

(* A dispatching thread clears its buckets before it counts.               *)
LEMMA StartStep ==
  ASSUME RInv, NEW t \in Threads, Start(t)
  PROVE  RInv'
  <1>1. /\ pc[t] = "start" /\ pc' = [pc EXCEPT ![t] = "fetch"]
        /\ bucket' = IF phase = "dispatch" THEN [bucket EXCEPT ![t] = [i \in Tiles |-> <<>>]] ELSE bucket
        /\ UNCHANGED <<draw, phase, working_package, package, range, prims, frame>>
        /\ TypeOK /\ PhaseOk /\ PackagesOk /\ RangesOk
        /\ BucketsSound /\ BucketsOnce /\ BucketsComplete /\ TilesOk
    BY DEF Start, RInv
  <1>2. /\ PackageSize' = PackageSize /\ ItemCount' = ItemCount /\ PackageCount' = PackageCount
        /\ \A p : Items(p)' = Items(p)
    BY <1>1, SamePhase
  <1>3. TypeOK'
    BY <1>1, <1>2 DEF TypeOK
  <1>4. /\ pc'[t] = "fetch" /\ \A u \in Threads : u # t => pc'[u] = pc[u]
        /\ \A u \in Threads : Holding(u)' = Holding(u)
    BY <1>1 DEF Holding, TypeOK
  <1>5. \A u \in Threads : Left(u)' = Left(u)
    BY <1>1, <1>2, <1>4 DEF Left
  <1>6. PhaseOk' /\ PackagesOk' /\ RangesOk'
    BY <1>1, <1>2, <1>4 DEF PhaseOk, PackagesOk, RangesOk
  <1>7. Cleared' = Cleared \cup {t} /\ (phase = "dispatch" => t \notin Cleared)
    BY <1>1, <1>4 DEF Cleared
  <1>8. /\ \A u \in Cleared, tile \in Tiles : bucket'[u][tile] = bucket[u][tile]
        /\ phase = "dispatch" => \A tile \in Tiles : bucket'[t][tile] = <<>>
        /\ phase # "dispatch" => t \in Cleared
    BY <1>1, <1>7 DEF TypeOK, Cleared
  <1>9. BucketsSound'
    <2> SUFFICES ASSUME NEW u \in Cleared', NEW tile \in Tiles, NEW i \in Range(bucket'[u][tile])
                 PROVE  /\ tile \in Covers[draw][i]
                        /\ phase = "dispatch" =>
                             i \div PackageSize < working_package /\ \A v \in Threads : i \notin Left(v)
      BY <1>1, <1>2, <1>5 DEF BucketsSound
    <2>1. u \in Cleared /\ i \in Range(bucket[u][tile])
      BY <1>7, <1>8 DEF Range
    <2> QED
      BY <1>1, <2>1 DEF BucketsSound
  <1>10. BucketsOnce'
    <2> SUFFICES ASSUME NEW u \in Cleared', NEW v \in Cleared', NEW tile \in Tiles,
                        NEW j \in DOMAIN bucket'[u][tile], NEW k \in DOMAIN bucket'[v][tile],
                        bucket'[u][tile][j] = bucket'[v][tile][k]
                 PROVE  u = v /\ j = k
      BY DEF BucketsOnce
    <2>1. u \in Cleared /\ v \in Cleared
      BY <1>7, <1>8
    <2> QED
      BY <1>1, <1>8, <2>1 DEF BucketsOnce
  <1>11. BucketsComplete'
    <2> SUFFICES ASSUME NEW i \in 0 .. Prims - 1, NEW tile \in Covers[draw][i]
                 PROVE  \/ \E u \in Cleared' : i \in Range(bucket'[u][tile])
                        \/ /\ phase = "dispatch"
                           /\ i \div PackageSize >= working_package \/ \E u \in Threads : i \in Left(u)
      BY <1>1, <1>2, <1>5 DEF BucketsComplete
    <2>1. tile \in Tiles
      <3>1. draw \in 1 .. Draws
        BY <1>1 DEF TypeOK
      <3>2. Covers[draw] \in [0 .. Prims - 1 -> SUBSET Tiles]
        BY ONLY <3>1, RasterAssumption
      <3> QED
        BY ONLY <3>2, i \in 0 .. Prims - 1, tile \in Covers[draw][i]
    <2> QED
      BY <1>1, <1>7, <1>8, <2>1 DEF BucketsComplete
  <1>12. TilesOk'
    BY <1>1, <1>4 DEF TilesOk, Complete, Drawn, Remaining
  <1> QED
    BY <1>3, <1>6, <1>9, <1>10, <1>11, <1>12 DEF RInv
(* A step that leaves the buckets, their owners and what is left of the    *)
(* packages alone keeps what is known of the buckets.                      *)
LEMMA BucketsUntouched ==
  ASSUME BucketsSound, BucketsOnce, BucketsComplete,
         UNCHANGED <<draw, phase, working_package, bucket>>,
         Cleared' = Cleared, \A u \in Threads : Left(u)' = Left(u)
  PROVE  BucketsSound' /\ BucketsOnce' /\ BucketsComplete'
  <1>1. PackageSize' = PackageSize
    BY SamePhase
  <1>2. BucketsSound'
    BY <1>1 DEF BucketsSound
  <1>3. BucketsOnce'
    BY DEF BucketsOnce
  <1>4. BucketsComplete'
    BY <1>1 DEF BucketsComplete
  <1> QED
    BY <1>2, <1>3, <1>4

(* A package is taken: what is in it is left now.                          *)
LEMMA TakePackageStep ==
  ASSUME RInv, NEW t \in Threads, TakePackage(t)
  PROVE  RInv'
  <1> DEFINE w == working_package
  <1>1. /\ pc[t] = "fetch" /\ pc' = [pc EXCEPT ![t] = "test"]
        /\ package' = [package EXCEPT ![t] = w] /\ w \in Nat /\ working_package' = w + 1
        /\ UNCHANGED <<draw, phase, range, bucket, prims, frame>>
        /\ TypeOK /\ PhaseOk /\ PackagesOk /\ RangesOk
        /\ BucketsSound /\ BucketsOnce /\ BucketsComplete /\ TilesOk
    BY DEF TakePackage, Fetch, RInv, TypeOK
  <1>2. /\ PackageSize' = PackageSize /\ ItemCount' = ItemCount /\ PackageCount' = PackageCount
        /\ \A p : Items(p)' = Items(p)
    BY <1>1, SamePhase
  <1>3. TypeOK'
    BY <1>1, <1>2 DEF TypeOK
  <1>4. /\ pc'[t] = "test" /\ package'[t] = w /\ ~Holding(t) /\ Holding(t)'
        /\ \A u \in Threads : u # t =>
             pc'[u] = pc[u] /\ package'[u] = package[u] /\ (Holding(u)' <=> Holding(u))
    BY <1>1 DEF Holding, TypeOK
  <1>5. /\ Left(t) = {} /\ Left(t)' = Items(w)
        /\ \A u \in Threads : u # t => Left(u)' = Left(u)
    BY <1>1, <1>2, <1>4 DEF Left
  <1>6. PhaseOk' /\ RangesOk'
    BY <1>1, <1>2, <1>4 DEF PhaseOk, RangesOk
  <1>7. PackagesOk'
    <2>1. \A u \in Threads : package[u] \in Nat
      BY <1>1 DEF TypeOK
    <2> QED
      BY <1>1, <1>2, <1>4, <2>1, PackageFacts DEF PackagesOk
  <1>8. Cleared' = Cleared
    BY <1>1, <1>4 DEF Cleared
  <1>9. BucketsSound'
    <2> SUFFICES ASSUME NEW u \in Cleared, NEW tile \in Tiles, NEW i \in Range(bucket[u][tile])
                 PROVE  /\ tile \in Covers[draw][i]
                        /\ phase = "dispatch" =>
                             i \div PackageSize < w + 1 /\ \A v \in Threads : i \notin Left(v)'
      BY <1>1, <1>2, <1>8 DEF BucketsSound
    <2>1. /\ tile \in Covers[draw][i]
          /\ phase = "dispatch" =>
               i \div PackageSize < w /\ \A v \in Threads : i \notin Left(v)
      BY <1>1 DEF BucketsSound
    <2>2. CASE phase = "dispatch"
      <3>1. i \in 0 .. ItemCount - 1
        <4>1. bucket[u][tile] \in Seq(0 .. Prims - 1)
          BY <1>1 DEF TypeOK, Cleared
        <4>2. Range(bucket[u][tile]) \subseteq 0 .. Prims - 1
          BY <4>1, RangeIn
        <4> QED
          BY <2>2, <4>2 DEF ItemCount
      <3>2. i \div PackageSize \in Nat
        BY <3>1, PackageFacts
      <3>3. i \notin Items(w)
        BY <1>1, <2>1, <2>2, <3>2 DEF Items
      <3> QED
        BY <1>1, <1>5, <2>1, <2>2, <3>2, <3>3
    <2> QED
      BY <2>1, <2>2
  <1>10. BucketsOnce'
    BY <1>1, <1>8 DEF BucketsOnce
  <1>11. BucketsComplete'
    <2> SUFFICES ASSUME NEW i \in 0 .. Prims - 1, NEW tile \in Covers[draw][i],
                        \A u \in Cleared : i \notin Range(bucket[u][tile])
                 PROVE  /\ phase = "dispatch"
                        /\ i \div PackageSize >= w + 1 \/ \E u \in Threads : i \in Left(u)'
      BY <1>1, <1>2, <1>8 DEF BucketsComplete
    <2>1. phase = "dispatch" /\ (i \div PackageSize >= w \/ \E u \in Threads : i \in Left(u))
      BY <1>1 DEF BucketsComplete
    <2>2. i \in 0 .. ItemCount - 1 /\ i \div PackageSize \in Nat
      BY <2>1, PackageFacts DEF ItemCount
    <2>3. CASE i \div PackageSize = w
      BY <1>5, <2>1, <2>2, <2>3 DEF Items
    <2>4. CASE i \div PackageSize > w
      BY <1>1, <2>1, <2>2, <2>4
    <2>5. CASE \E u \in Threads : i \in Left(u)
      BY <1>5, <2>1, <2>5
    <2> QED
      BY <1>1, <2>1, <2>2, <2>3, <2>4, <2>5
  <1>12. TilesOk'
    <2> SUFFICES ASSUME NEW tile \in Tiles, phase = "rasterize"
                 PROVE  /\ tile >= w + 1 => Complete(tile, draw - 1)
                        /\ \A u \in Threads : Holding(u)' /\ package'[u] = tile =>
                             IF pc'[u] = "draw" THEN Drawn(u, tile) ELSE Complete(tile, draw - 1)
                        /\ tile < w + 1 /\ (\A u \in Threads : Holding(u)' => package'[u] # tile) =>
                             Complete(tile, draw)
      BY <1>1 DEF TilesOk, Complete, Drawn, Remaining
    <2>1. tile \in Nat
      BY RasterAssumption DEF Tiles
    <2>2. CASE tile = w
      <3>1. Complete(tile, draw - 1)
        BY <1>1, <2>2 DEF TilesOk
      <3>2. \A u \in Threads : u # t => ~(Holding(u)' /\ package'[u] = tile)
        BY <1>1, <1>4, <2>2 DEF PackagesOk, TypeOK
      <3> QED
        BY <1>1, <1>4, <2>2, <3>1, <3>2
    <2>3. CASE tile # w
      BY <1>1, <1>4, <2>1, <2>3 DEF TilesOk
    <2> QED
      BY <2>2, <2>3
  <1> QED
    BY <1>3, <1>6, <1>7, <1>9, <1>10, <1>11, <1>12 DEF RInv

(* A package that exists is begun; one that does not ends the loop.        *)
LEMMA TestPackageStep ==
  ASSUME RInv, NEW t \in Threads, TestPackage(t)
  PROVE  RInv'
  <1> DEFINE p == package[t]
  <1>1. /\ pc[t] = "test" /\ pc' = [pc EXCEPT ![t] = IF p < PackageCount THEN "item" ELSE "done"]
        /\ range' = [range EXCEPT ![t] = Items(p)] /\ p \in Nat
        /\ UNCHANGED <<draw, phase, working_package, package, bucket, prims, frame>>
        /\ TypeOK /\ PhaseOk /\ PackagesOk /\ RangesOk
        /\ BucketsSound /\ BucketsOnce /\ BucketsComplete /\ TilesOk
    BY DEF TestPackage, RInv, TypeOK
  <1>2. /\ PackageSize' = PackageSize /\ ItemCount' = ItemCount /\ PackageCount' = PackageCount
        /\ \A q : Items(q)' = Items(q)
    BY <1>1, SamePhase
  <1>3. Items(p) \in SUBSET (0 .. ItemCount - 1) /\ (p < PackageCount <=> Items(p) # {})
        /\ PackageCount \in Nat
    BY <1>1, PackageFacts DEF Items
  <1>4. /\ pc'[t] = (IF p < PackageCount THEN "item" ELSE "done") /\ range'[t] = Items(p)
        /\ \A u \in Threads : u # t => pc'[u] = pc[u] /\ range'[u] = range[u]
    BY <1>1 DEF TypeOK
  <1>5. TypeOK'
    <2>1. pc' \in [Threads -> {"start", "fetch", "test", "item", "draw", "done"}]
      BY <1>1 DEF TypeOK
    <2>2. range' \in [Threads -> SUBSET (0 .. ItemCount - 1)]
      BY <1>1, <1>3 DEF TypeOK
    <2> QED
      BY <1>1, <1>2, <2>1, <2>2 DEF TypeOK
  <1>6. \A u \in Threads : u # t => (Holding(u)' <=> Holding(u))
    BY <1>4 DEF Holding
  <1>7. Holding(t) /\ (Holding(t)' <=> p < PackageCount)
    BY <1>1, <1>4 DEF Holding
  <1>8. \A u \in Threads : Left(u)' = Left(u)
    <2>1. Left(t) = Items(p)
      BY <1>1 DEF Left
    <2>2. Left(t)' = Items(p)
      BY <1>1, <1>2, <1>3, <1>4 DEF Left
    <2>3. \A u \in Threads : u # t => Left(u)' = Left(u)
      BY <1>1, <1>2, <1>4 DEF Left
    <2> QED
      BY <2>1, <2>2, <2>3
  <1>9. PhaseOk' /\ RangesOk'
    BY <1>1, <1>2, <1>3, <1>4 DEF PhaseOk, RangesOk
  <1>10. PackagesOk'
    BY <1>1, <1>2, <1>3, <1>4, <1>6, <1>7 DEF PackagesOk
  <1>11. Cleared' = Cleared
    BY <1>1, <1>4 DEF Cleared
  <1>12. BucketsSound' /\ BucketsOnce' /\ BucketsComplete'
    BY <1>1, <1>8, <1>11, BucketsUntouched
  <1>13. TilesOk'
    <2> SUFFICES ASSUME NEW tile \in Tiles, phase = "rasterize"
                 PROVE  /\ tile >= working_package => Complete(tile, draw - 1)
                        /\ \A u \in Threads : Holding(u)' /\ package[u] = tile =>
                             IF pc'[u] = "draw" THEN Drawn(u, tile) ELSE Complete(tile, draw - 1)
                        /\ tile < working_package /\ (\A u \in Threads : Holding(u)' => package[u] # tile) =>
                             Complete(tile, draw)
      BY <1>1 DEF TilesOk, Complete, Drawn, Remaining
    <2>1. tile < PackageCount
      BY TilePackages, RasterAssumption DEF Tiles
    <2>2. package[t] = tile => Holding(t)' /\ pc'[t] = "item"
      BY <1>4, <1>7, <2>1
    <2> QED
      BY <1>1, <1>4, <1>6, <1>7, <2>2 DEF TilesOk
  <1> QED
    BY <1>5, <1>9, <1>10, <1>12, <1>13 DEF RInv
(* What a thread holds belongs to its package, so two threads hold nothing *)
(* in common.                                                              *)
LEMMA LeftApart ==
  ASSUME TypeOK, PackagesOk, RangesOk, NEW t \in Threads
  PROVE  /\ Left(t) \subseteq Items(package[t])
         /\ \A u \in Threads : u # t => Left(t) \cap Left(u) = {}
  <1>1. \A u \in Threads : Left(u) \subseteq Items(package[u])
    BY DEF Left, RangesOk
  <1>2. \A u \in Threads : Left(u) # {} => Holding(u)
    BY DEF Left, Holding
  <1>3. ASSUME NEW u \in Threads, u # t PROVE Left(t) \cap Left(u) = {}
    <2> SUFFICES ASSUME NEW i \in Left(t), i \in Left(u) PROVE FALSE
      OBVIOUS
    <2>1. i \in Items(package[t]) /\ i \in Items(package[u])
      BY <1>1
    <2>2. package[t] = package[u]
      BY <2>1 DEF Items
    <2> QED
      BY <1>2, <1>3, <2>2 DEF PackagesOk
  <1> QED
    BY <1>1, <1>3

(* A primitive goes from what is left of the package into the buckets of   *)
(* the tiles it covers.                                                    *)
LEMMA DispatchPrimitiveStep ==
  ASSUME RInv, NEW t \in Threads, DispatchPrimitive(t)
  PROVE  RInv'
  <1> DEFINE i == Least(range[t])
             grown(u, tile) == u = t /\ tile \in Covers[draw][i]
  <1>1. /\ phase = "dispatch" /\ pc[t] = "item"
        /\ bucket' = [bucket EXCEPT ![t] =
             [tile \in Tiles |-> IF tile \in Covers[draw][i] THEN Append(@[tile], i) ELSE @[tile]]]
        /\ range' = [range EXCEPT ![t] = range[t] \ {i}]
        /\ pc' = [pc EXCEPT ![t] = IF range[t] = {i} THEN "fetch" ELSE "item"]
        /\ UNCHANGED <<draw, phase, working_package, package, prims, frame>>
        /\ TypeOK /\ PhaseOk /\ PackagesOk /\ RangesOk
        /\ BucketsSound /\ BucketsOnce /\ BucketsComplete /\ TilesOk
    BY DEF DispatchPrimitive, RInv
  <1>2. /\ PackageSize' = PackageSize /\ ItemCount' = ItemCount /\ PackageCount' = PackageCount
        /\ \A p : Items(p)' = Items(p)
    BY <1>1, SamePhase
  <1>3. /\ range[t] # {} /\ range[t] \subseteq Items(package[t]) /\ range[t] \subseteq 0 .. Prims - 1
        /\ i \in range[t] /\ i \in 0 .. Prims - 1 /\ i \div PackageSize = package[t]
    <2>1. range[t] # {} /\ range[t] \subseteq Items(package[t])
      BY <1>1 DEF RangesOk
    <2>2. range[t] \subseteq 0 .. Prims - 1
      BY <1>1, <2>1 DEF Items, ItemCount
    <2>3. i \in range[t]
      BY <2>1, <2>2, LeastIs, RasterAssumption
    <2> QED
      BY <2>1, <2>2, <2>3 DEF Items
  <1> HIDE DEF i
  <1>4. /\ t \in Cleared /\ Cleared' = Cleared
        /\ \A u \in Threads : u # t => pc'[u] = pc[u] /\ range'[u] = range[u]
        /\ pc'[t] = (IF range[t] = {i} THEN "fetch" ELSE "item") /\ range'[t] = range[t] \ {i}
    BY <1>1 DEF Cleared, TypeOK
  <1>5. /\ \A u \in Threads, tile \in Tiles :
             /\ bucket[u][tile] \in Seq(0 .. Prims - 1)
             /\ bucket'[u][tile] =
                  IF grown(u, tile) THEN Append(bucket[u][tile], i) ELSE bucket[u][tile]
    BY <1>1 DEF TypeOK
  <1>6. /\ Left(t) = range[t] /\ Left(t)' = range[t] \ {i}
        /\ \A u \in Threads : u # t => Left(u)' = Left(u) /\ i \notin Left(u)
    <2>1. Left(t) = range[t]
      BY <1>1 DEF Left
    <2>2. Left(t)' = range[t] \ {i}
      BY <1>1, <1>4 DEF Left
    <2>3. \A u \in Threads : u # t => Left(u)' = Left(u)
      BY <1>1, <1>2, <1>4 DEF Left
    <2> QED
      BY <1>1, <1>3, <2>1, <2>2, <2>3, LeftApart
  <1>7. TypeOK'
    <2>1. bucket' \in [Threads -> [Tiles -> Seq(0 .. Prims - 1)]]
      <3>1. [tile \in Tiles |-> IF tile \in Covers[draw][i] THEN Append(bucket[t][tile], i) ELSE bucket[t][tile]]
              \in [Tiles -> Seq(0 .. Prims - 1)]
        BY <1>3, <1>5, AppendRange
      <3> QED
        BY <1>1, <3>1 DEF TypeOK
    <2>2. range' \in [Threads -> SUBSET (0 .. ItemCount - 1)]
      BY <1>1 DEF TypeOK
    <2>3. pc' \in [Threads -> {"start", "fetch", "test", "item", "draw", "done"}]
      BY <1>1 DEF TypeOK
    <2> QED
      BY <1>1, <1>2, <2>1, <2>2, <2>3 DEF TypeOK
  <1>8. /\ Holding(t) /\ (Holding(t)' => pc'[t] = "item")
        /\ \A u \in Threads : u # t => (Holding(u)' <=> Holding(u))
    BY <1>1, <1>4 DEF Holding
  <1>9. PhaseOk' /\ RangesOk'
    BY <1>1, <1>2, <1>3, <1>4 DEF PhaseOk, RangesOk
  <1>10. PackagesOk'
    BY <1>1, <1>2, <1>4, <1>8 DEF PackagesOk
  <1>11. \A u \in Threads, tile \in Tiles :
           /\ Range(bucket'[u][tile]) = Range(bucket[u][tile]) \cup (IF grown(u, tile) THEN {i} ELSE {})
           /\ u \in Cleared => i \notin Range(bucket[u][tile])
    <2>1. ASSUME NEW u \in Threads, NEW tile \in Tiles
          PROVE  Range(bucket'[u][tile]) = Range(bucket[u][tile]) \cup (IF grown(u, tile) THEN {i} ELSE {})
      <3> DEFINE s == bucket[u][tile]
      <3>1. s \in Seq(0 .. Prims - 1) /\ bucket'[u][tile] = IF grown(u, tile) THEN Append(s, i) ELSE s
        BY <1>5
      <3> HIDE DEF s, grown
      <3>2. Range(Append(s, i)) = Range(s) \cup {i}
        <4> DEFINE S == 0 .. Prims - 1
        <4>1. s \in Seq(S) /\ i \in S
          BY <1>3, <3>1
        <4> HIDE DEF S
        <4> QED
          BY ONLY <4>1, AppendAdds
      <3>3. Range(bucket'[u][tile]) = Range(s) \cup (IF grown(u, tile) THEN {i} ELSE {})
        BY <3>1, <3>2
      <3> QED
        BY <3>3 DEF s
    <2>2. ASSUME NEW u \in Cleared, NEW tile \in Tiles PROVE i \notin Range(bucket[u][tile])
      BY <1>1, <1>3, <1>6 DEF BucketsSound
    <2> QED
      BY <2>1, <2>2
  <1>12. BucketsSound'
    <2> SUFFICES ASSUME NEW u \in Cleared, NEW tile \in Tiles, NEW j \in Range(bucket'[u][tile])
                 PROVE  /\ tile \in Covers[draw][j]
                        /\ j \div PackageSize < working_package /\ \A v \in Threads : j \notin Left(v)'
      BY <1>1, <1>2, <1>4 DEF BucketsSound
    <2>1. u \in Threads
      BY DEF Cleared
    <2>2. CASE j \in Range(bucket[u][tile])
      BY <1>1, <1>6, <2>2 DEF BucketsSound
    <2>3. CASE grown(u, tile) /\ j = i
      BY <1>1, <1>3, <1>6, <1>8, <2>3 DEF PackagesOk
    <2> QED
      BY <1>11, <2>1, <2>2, <2>3
  <1>13. BucketsOnce'
    <2> SUFFICES ASSUME NEW u \in Cleared, NEW v \in Cleared, NEW tile \in Tiles,
                        NEW j \in DOMAIN bucket'[u][tile], NEW k \in DOMAIN bucket'[v][tile],
                        bucket'[u][tile][j] = bucket'[v][tile][k]
                 PROVE  u = v /\ j = k
      BY <1>4 DEF BucketsOnce
    <2>1. u \in Threads /\ v \in Threads
      BY DEF Cleared
    <2>2. \A w \in Cleared : \A m \in DOMAIN bucket'[w][tile] :
            \/ m \in DOMAIN bucket[w][tile] /\ bucket'[w][tile][m] = bucket[w][tile][m]
               /\ bucket[w][tile][m] # i
            \/ grown(w, tile) /\ m = Len(bucket[w][tile]) + 1 /\ bucket'[w][tile][m] = i
      <3> SUFFICES ASSUME NEW w \in Cleared, NEW m \in DOMAIN bucket'[w][tile]
                   PROVE  \/ m \in DOMAIN bucket[w][tile] /\ bucket'[w][tile][m] = bucket[w][tile][m]
                             /\ bucket[w][tile][m] # i
                          \/ grown(w, tile) /\ m = Len(bucket[w][tile]) + 1 /\ bucket'[w][tile][m] = i
        OBVIOUS
      <3>1. w \in Threads /\ i \notin Range(bucket[w][tile])
        BY <1>11 DEF Cleared
      <3> DEFINE s == bucket[w][tile]
      <3>2. s \in Seq(0 .. Prims - 1) /\ bucket'[w][tile] = IF grown(w, tile) THEN Append(s, i) ELSE s
        BY <1>5, <3>1
      <3>3. \A n \in DOMAIN s : s[n] # i
        BY <3>1 DEF Range
      <3> HIDE DEF s, grown
      <3>4. /\ DOMAIN Append(s, i) = DOMAIN s \cup {Len(s) + 1}
            /\ \A n \in DOMAIN s : n < Len(s) + 1 /\ Append(s, i)[n] = s[n]
            /\ Append(s, i)[Len(s) + 1] = i
        BY <1>3, <3>2, AppendRange
      <3>5. \/ m \in DOMAIN s /\ bucket'[w][tile][m] = s[m] /\ s[m] # i
            \/ grown(w, tile) /\ m = Len(s) + 1 /\ bucket'[w][tile][m] = i
        BY <3>2, <3>3, <3>4
      <3> QED
        BY <3>5 DEF s
    <2> QED
      BY <1>1, <2>2 DEF BucketsOnce
  <1>14. BucketsComplete'
    <2> SUFFICES ASSUME NEW j \in 0 .. Prims - 1, NEW tile \in Covers[draw][j]
                 PROVE  \/ \E u \in Cleared : j \in Range(bucket'[u][tile])
                        \/ j \div PackageSize >= working_package \/ \E u \in Threads : j \in Left(u)'
      BY <1>1, <1>2, <1>4 DEF BucketsComplete
    <2>1. tile \in Tiles /\ \A u \in Cleared : u \in Threads
      BY <1>1, RasterAssumption DEF TypeOK, Cleared
    <2>2. CASE j = i
      BY <1>4, <1>11, <2>1, <2>2
    <2>3. CASE j # i
      <3>1. \/ \E u \in Cleared : j \in Range(bucket[u][tile])
            \/ j \div PackageSize >= working_package
            \/ \E u \in Threads : j \in Left(u)
        BY <1>1 DEF BucketsComplete
      <3>2. \A u \in Cleared : j \in Range(bucket[u][tile]) => j \in Range(bucket'[u][tile])
        BY <1>11, <2>1
      <3>3. \A u \in Threads : j \in Left(u) => j \in Left(u)'
        BY <1>6, <2>3
      <3> QED
        BY <3>1, <3>2, <3>3
    <2> QED
      BY <2>2, <2>3
  <1>15. TilesOk'
    BY <1>1 DEF TilesOk, Complete
  <1> QED
    BY <1>7, <1>9, <1>10, <1>12, <1>13, <1>14, <1>15 DEF RInv
(* The places of a tile's buckets are finitely many.                       *)
LEMMA PlacesFinite ==
  ASSUME TypeOK, NEW tile \in Tiles
  PROVE  IsFiniteSet(Places(tile)) /\ Cardinality(Places(tile)) \in Nat
  <1> DEFINE Of(t) == {t} \X (1 .. Len(bucket[t][tile]))
             f == [t \in Threads |-> Of(t)]
             all == {Of(t) : t \in Threads}
  <1>1. f \in Surjection(Threads, all)
    BY DEF Surjection
  <1>2. IsFiniteSet(all)
    BY ONLY <1>1, RasterAssumption, FS_Surjection
  <1>3. ASSUME NEW t \in Threads PROVE IsFiniteSet(Of(t))
    <2>1. Len(bucket[t][tile]) \in Nat
      BY DEF TypeOK
    <2>2. IsFiniteSet({t}) /\ IsFiniteSet(1 .. Len(bucket[t][tile]))
      <3>1. 1 \in Int /\ Len(bucket[t][tile]) \in Int
        BY <2>1
      <3>2. IsFiniteSet(1 .. Len(bucket[t][tile]))
        BY ONLY <3>1, FS_Interval
      <3> QED
        BY <3>2, FS_Singleton
    <2> QED
      BY <2>2, FS_Product
  <1>4. IsFiniteSet(UNION all)
    BY <1>2, <1>3, FS_UNION
  <1>5. Places(tile) = UNION all
    BY DEF Places
  <1> QED
    BY <1>4, <1>5, FS_CardinalityType

(* What a tile's buckets hold when the second loop runs, in ascending      *)
(* order: what covers it, each once.                                       *)
LEMMA Gathered ==
  ASSUME TypeOK, BucketsSound, BucketsOnce, BucketsComplete, phase = "rasterize",
         NEW tile \in Tiles,
         NEW order \in Bijection(1 .. Cardinality(Places(tile)), Places(tile)),
         Sorted(Arranged(tile, order))
  PROVE  /\ Arranged(tile, order) \in Seq(0 .. Prims - 1)
         /\ \A j, k \in DOMAIN Arranged(tile, order) :
              j < k => Arranged(tile, order)[j] < Arranged(tile, order)[k]
         /\ Range(Arranged(tile, order)) = {i \in 0 .. Prims - 1 : tile \in Covers[draw][i]}
  <1> DEFINE n == Cardinality(Places(tile))
             s == Arranged(tile, order)
  <1>1. n \in Nat
    BY PlacesFinite
  <1>2. Cleared = Threads
    BY DEF Cleared
  <1>3. /\ \A e \in Places(tile) : e[1] \in Threads /\ e[2] \in DOMAIN bucket[e[1]][tile] /\ e = <<e[1], e[2]>>
        /\ \A t \in Threads : \A k \in DOMAIN bucket[t][tile] : <<t, k>> \in Places(tile)
        /\ \A t \in Threads : bucket[t][tile] \in Seq(0 .. Prims - 1)
    BY DEF Places, TypeOK
  <1>4. /\ \A k \in 1 .. n : order[k] \in Places(tile)
        /\ \A j, k \in 1 .. n : order[j] = order[k] => j = k
        /\ \A e \in Places(tile) : \E k \in 1 .. n : order[k] = e
        /\ DOMAIN order = 1 .. n
    BY DEF Bijection, Injection, Surjection, IsInjective
  <1> HIDE DEF n
  <1>5. /\ s = [k \in 1 .. n |-> bucket[order[k][1]][tile][order[k][2]]]
        /\ DOMAIN s = 1 .. n
        /\ \A k \in 1 .. n : s[k] = bucket[order[k][1]][tile][order[k][2]]
    BY <1>4 DEF Arranged
  <1> HIDE DEF s
  <1>6. \A k \in 1 .. n : s[k] \in 0 .. Prims - 1 /\ tile \in Covers[draw][s[k]]
    <2> SUFFICES ASSUME NEW k \in 1 .. n
                 PROVE  s[k] \in 0 .. Prims - 1 /\ tile \in Covers[draw][s[k]]
      OBVIOUS
    <2> DEFINE t == order[k][1]
               m == order[k][2]
    <2>1. t \in Threads /\ m \in DOMAIN bucket[t][tile] /\ s[k] = bucket[t][tile][m]
      BY <1>3, <1>4, <1>5
    <2> HIDE DEF t, m
    <2>2. s[k] \in Range(bucket[t][tile]) /\ s[k] \in 0 .. Prims - 1
      BY <1>3, <2>1, RangeIn DEF Range
    <2> QED
      BY <1>2, <2>1, <2>2 DEF BucketsSound
  <1>7. s \in Seq(0 .. Prims - 1)
    BY <1>1, <1>5, <1>6
  <1>8. ASSUME NEW j \in 1 .. n, NEW k \in 1 .. n, j < k PROVE s[j] < s[k]
    <2>1. s[j] <= s[k]
      BY <1>5, <1>8 DEF Sorted, s
    <2>2. s[j] # s[k]
      <3> SUFFICES ASSUME s[j] = s[k] PROVE FALSE
        OBVIOUS
      <3>1. order[j] \in Places(tile) /\ order[k] \in Places(tile) /\ order[j] # order[k]
        BY <1>4, <1>8
      <3>2. bucket[order[j][1]][tile][order[j][2]] = bucket[order[k][1]][tile][order[k][2]]
        BY <1>5
      <3> DEFINE a == order[j]
                 b == order[k]
      <3>3. a[1] \in Cleared /\ b[1] \in Cleared
            /\ a[2] \in DOMAIN bucket[a[1]][tile] /\ b[2] \in DOMAIN bucket[b[1]][tile]
        BY <1>2, <1>3, <3>1
      <3>4. bucket[a[1]][tile][a[2]] = bucket[b[1]][tile][b[2]]
        BY <3>2
      <3> HIDE DEF a, b
      <3>5. a[1] = b[1] /\ a[2] = b[2]
        BY <3>3, <3>4 DEF BucketsOnce
      <3> QED
        BY <1>3, <3>1, <3>5 DEF a, b
    <2> QED
      BY <1>6, <2>1, <2>2
  <1>9. ASSUME NEW i \in 0 .. Prims - 1, tile \in Covers[draw][i] PROVE i \in Range(s)
    <2>1. PICK t \in Threads : i \in Range(bucket[t][tile])
      BY <1>2, <1>9 DEF BucketsComplete
    <2>2. PICK m \in DOMAIN bucket[t][tile] : bucket[t][tile][m] = i
      BY <2>1 DEF Range
    <2>3. PICK k \in 1 .. n : order[k] = <<t, m>>
      BY <1>3, <1>4, <2>2
    <2> QED
      BY <1>5, <2>2, <2>3 DEF Range
  <1>10. Range(s) = {i \in 0 .. Prims - 1 : tile \in Covers[draw][i]}
    BY <1>5, <1>6, <1>9 DEF Range
  <1> QED
    BY <1>5, <1>7, <1>8, <1>10 DEF s
(* A draw adds what of it covers the tile, and all of it is later.         *)
LEMMA AskedStep ==
  ASSUME NEW tile \in Tiles, NEW d \in 1 .. Draws
  PROVE  /\ Asked(tile, d) = Asked(tile, d - 1) \cup
              {<<d, i>> : i \in {j \in 0 .. Prims - 1 : tile \in Covers[d][j]}}
         /\ \A x \in Asked(tile, d - 1) : x[1] \in Int /\ x[1] < d
  <1>1. d \in Nat /\ d >= 1
    BY RasterAssumption
  <1>2. (1 .. d) = (1 .. d - 1) \cup {d} /\ d \notin 1 .. d - 1
    BY <1>1
  <1> DEFINE new == {<<d, i>> : i \in {j \in 0 .. Prims - 1 : tile \in Covers[d][j]}}
  <1>3. ASSUME NEW x \in Asked(tile, d) PROVE x \in Asked(tile, d - 1) \cup new
    BY <1>2, <1>3 DEF Asked
  <1>4. ASSUME NEW x \in Asked(tile, d - 1) PROVE x \in Asked(tile, d) /\ x[1] \in Int /\ x[1] < d
    BY <1>1, <1>2, <1>4 DEF Asked
  <1>5. ASSUME NEW x \in new PROVE x \in Asked(tile, d)
    BY <1>2, <1>5 DEF Asked
  <1> QED
    BY <1>3, <1>4, <1>5

LEMMA HeldTile ==
  ASSUME RInv, NEW t \in Threads, phase = "rasterize", pc[t] \in {"item", "draw"}
  PROVE  /\ range[t] = {package[t]} /\ package[t] \in Tiles /\ Least(range[t]) = package[t]
         /\ package[t] < working_package
         /\ \A u \in Threads : u # t /\ Holding(u) => package[u] # package[t]
  <1>1. range[t] # {} /\ range[t] \subseteq Items(package[t]) /\ package[t] \in Nat
        /\ Holding(t) /\ PackagesOk
    BY DEF RInv, RangesOk, TypeOK, Holding
  <1>2. Items(package[t]) = {package[t]} /\ package[t] < tile_count
    BY <1>1, TilePackages
  <1>3. range[t] = {package[t]} /\ package[t] \in Tiles
    BY <1>1, <1>2, RasterAssumption DEF Tiles
  <1>4. Least(range[t]) = package[t]
    BY <1>1, <1>3, LeastIs
  <1> QED
    BY <1>1, <1>3, <1>4 DEF PackagesOk

(* Who holds a tile has its primitives in order before it draws them.      *)
LEMMA GatherTileStep ==
  ASSUME RInv, NEW t \in Threads, GatherTile(t)
  PROVE  RInv'
  <1> DEFINE tile == package[t]
  <1>1. /\ phase = "rasterize" /\ pc[t] = "item" /\ pc' = [pc EXCEPT ![t] = "draw"]
        /\ UNCHANGED <<draw, phase, working_package, package, range, bucket, frame>>
        /\ TypeOK /\ PhaseOk /\ PackagesOk /\ RangesOk
        /\ BucketsSound /\ BucketsOnce /\ BucketsComplete /\ TilesOk
    BY DEF GatherTile, RInv
  <1>2. /\ PackageSize' = PackageSize /\ ItemCount' = ItemCount /\ PackageCount' = PackageCount
        /\ \A p : Items(p)' = Items(p)
    BY <1>1, SamePhase
  <1>3. /\ tile \in Tiles /\ Least(range[t]) = tile /\ tile < working_package
        /\ \A u \in Threads : u # t /\ Holding(u) => package[u] # tile
    BY <1>1, HeldTile
  <1>4. PICK order \in Bijection(1 .. Cardinality(Places(tile)), Places(tile)) :
          Sorted(Arranged(tile, order)) /\ prims' = [prims EXCEPT ![t] = Arranged(tile, order)]
    BY <1>3 DEF GatherTile
  <1> DEFINE s == Arranged(tile, order)
  <1>5. /\ s \in Seq(0 .. Prims - 1)
        /\ \A j, k \in DOMAIN s : j < k => s[j] < s[k]
        /\ Range(s) = {i \in 0 .. Prims - 1 : tile \in Covers[draw][i]}
    BY <1>1, <1>3, <1>4, Gathered
  <1> HIDE DEF s
  <1>6. /\ prims'[t] = s /\ pc'[t] = "draw"
        /\ \A u \in Threads : u # t => prims'[u] = prims[u] /\ pc'[u] = pc[u]
    BY <1>1, <1>4 DEF TypeOK, s
  <1>7. TypeOK'
    <2>1. prims' \in [Threads -> Seq(0 .. Prims - 1)]
      BY <1>1, <1>4, <1>5 DEF TypeOK, s
    <2> QED
      BY <1>1, <1>2, <2>1 DEF TypeOK
  <1>8. \A u \in Threads : (Holding(u)' <=> Holding(u)) /\ Left(u)' = Left(u)
    BY <1>1, <1>2, <1>6 DEF Holding, Left
  <1>9. PhaseOk' /\ PackagesOk' /\ RangesOk'
    BY <1>1, <1>2, <1>6, <1>8 DEF PhaseOk, PackagesOk, RangesOk
  <1>10. BucketsSound' /\ BucketsOnce' /\ BucketsComplete'
    <2>1. Cleared' = Cleared
      BY <1>1 DEF Cleared
    <2> QED
      BY <1>1, <1>8, <2>1, BucketsUntouched
  <1>11. Drawn(t, tile)'
    <2>1. InOrder(frame[tile]) /\ Range(frame[tile]) = Asked(tile, draw - 1)
      BY <1>1, <1>3 DEF TilesOk, Complete, Holding
    <2>2. Remaining(t)' = {<<draw, i>> : i \in {j \in 0 .. Prims - 1 : tile \in Covers[draw][j]}}
      BY <1>1, <1>5, <1>6 DEF Remaining
    <2>3. /\ Asked(tile, draw) = Asked(tile, draw - 1) \cup Remaining(t)'
          /\ \A x \in Asked(tile, draw - 1) : x[1] \in Int /\ x[1] < draw
      BY <1>1, <1>3, <2>2, AskedStep DEF TypeOK
    <2>4. \A y \in Remaining(t)' : y[1] = draw
      BY <2>2
    <2>5. \A x \in Range(frame[tile]), y \in Remaining(t)' : Earlier(x, y)
      BY <2>1, <2>3, <2>4 DEF Earlier
    <2>6. Range(frame[tile]) \cup Remaining(t)' = Asked(tile, draw)
      BY <2>1, <2>3
    <2> QED
      BY <1>1, <1>5, <1>6, <2>1, <2>5, <2>6 DEF Drawn
  <1>12. TilesOk'
    <2> SUFFICES ASSUME NEW other \in Tiles
                 PROVE  /\ other >= working_package => Complete(other, draw - 1)
                        /\ \A u \in Threads : Holding(u) /\ package[u] = other =>
                             IF pc'[u] = "draw" THEN Drawn(u, other)' ELSE Complete(other, draw - 1)
                        /\ other < working_package /\ (\A u \in Threads : Holding(u) => package[u] # other) =>
                             Complete(other, draw)
      BY <1>1, <1>8 DEF TilesOk, Complete
    <2>1. \A u \in Threads : u # t => Drawn(u, other)' = Drawn(u, other)
      BY <1>1, <1>6 DEF Drawn, Remaining
    <2>2. CASE other = tile
      BY <1>1, <1>3, <1>11, <2>2 DEF TilesOk, Holding
    <2>3. CASE other # tile
      BY <1>1, <1>6, <2>1, <2>3 DEF TilesOk
    <2> QED
      BY <2>2, <2>3
  <1> QED
    BY <1>7, <1>9, <1>10, <1>12 DEF RInv
LEMMA TailRange ==
  ASSUME NEW S, NEW s \in Seq(S), s # <<>>
  PROVE  /\ Tail(s) \in Seq(S) /\ 1 \in DOMAIN s /\ Head(s) = s[1] /\ Head(s) \in S
         /\ \A k \in DOMAIN Tail(s) :
              k \in Nat /\ k >= 1 /\ k + 1 \in DOMAIN s /\ Tail(s)[k] = s[k + 1]
         /\ Range(s) = {Head(s)} \cup Range(Tail(s))
  <1>1. /\ Tail(s) \in Seq(S) /\ 1 \in DOMAIN s /\ Head(s) = s[1] /\ Head(s) \in S
        /\ \A k \in DOMAIN Tail(s) :
             k \in Nat /\ k >= 1 /\ k + 1 \in DOMAIN s /\ Tail(s)[k] = s[k + 1]
    OBVIOUS
  <1>0. ASSUME NEW k \in DOMAIN s, k # 1 PROVE k - 1 \in DOMAIN Tail(s) /\ s[k] = Tail(s)[k - 1]
    <2>1. k \in 1 .. Len(s) /\ k - 1 \in 1 .. Len(s) - 1 /\ Len(s) \in Nat
      BY <1>0
    <2>2. Tail(s)[k - 1] = s[(k - 1) + 1] /\ (k - 1) + 1 = k
      BY <1>1, <2>1
    <2> QED
      BY <2>1, <2>2
  <1>2. ASSUME NEW k \in DOMAIN s PROVE s[k] \in {Head(s)} \cup Range(Tail(s))
    <2> DEFINE rest == Tail(s)
    <2>1. k = 1 \/ (k - 1 \in DOMAIN rest /\ s[k] = rest[k - 1])
      BY <1>0
    <2>2. s[1] = Head(s)
      BY <1>1
    <2> HIDE DEF rest
    <2>3. k # 1 => s[k] \in Range(rest)
      BY <2>1 DEF Range
    <2> QED
      BY <2>2, <2>3 DEF rest
  <1>3. \A x \in {Head(s)} \cup Range(Tail(s)) : x \in Range(s)
    BY <1>1 DEF Range
  <1>4. \A x \in Range(s) : x \in {Head(s)} \cup Range(Tail(s))
    BY <1>2 DEF Range
  <1> QED
    BY <1>1, <1>3, <1>4

(* The next primitive of a tile goes where it belongs.                     *)
LEMMA RasterizePrimitiveStep ==
  ASSUME RInv, NEW t \in Threads, RasterizePrimitive(t)
  PROVE  RInv'
  <1> DEFINE tile == package[t]
             s == prims[t]
             x0 == <<draw, Head(s)>>
  <1>1. /\ phase = "rasterize" /\ pc[t] = "draw" /\ s # <<>>
        /\ frame' = [frame EXCEPT ![Least(range[t])] = Append(@, x0)]
        /\ prims' = [prims EXCEPT ![t] = Tail(s)]
        /\ UNCHANGED <<draw, phase, working_package, package, pc, range, bucket>>
        /\ TypeOK /\ PhaseOk /\ PackagesOk /\ RangesOk
        /\ BucketsSound /\ BucketsOnce /\ BucketsComplete /\ TilesOk
    BY DEF RasterizePrimitive, RInv, PhaseOk, TypeOK
  <1>2. /\ PackageSize' = PackageSize /\ ItemCount' = ItemCount /\ PackageCount' = PackageCount
        /\ \A p : Items(p)' = Items(p)
    BY <1>1, SamePhase
  <1>3. /\ tile \in Tiles /\ Least(range[t]) = tile /\ tile < working_package
        /\ \A u \in Threads : u # t /\ Holding(u) => package[u] # tile
    BY <1>1, HeldTile
  <1>4. /\ s \in Seq(0 .. Prims - 1) /\ Tail(s) \in Seq(0 .. Prims - 1)
        /\ 1 \in DOMAIN s /\ Head(s) = s[1] /\ Head(s) \in 0 .. Prims - 1
        /\ \A k \in DOMAIN Tail(s) :
             k \in Nat /\ k >= 1 /\ k + 1 \in DOMAIN s /\ Tail(s)[k] = s[k + 1]
        /\ Range(s) = {Head(s)} \cup Range(Tail(s))
    <2>1. s \in Seq(0 .. Prims - 1)
      BY <1>1 DEF TypeOK
    <2> QED
      BY <1>1, <2>1, TailRange
  <1> DEFINE Received == (1 .. Draws) \X (0 .. Prims - 1)
  <1>5. /\ frame[tile] \in Seq(Received) /\ x0 \in Received
        /\ frame'[tile] = Append(frame[tile], x0)
        /\ \A other \in Tiles : other # tile => frame'[other] = frame[other]
    BY <1>1, <1>3, <1>4 DEF TypeOK
  <1>6. /\ prims'[t] = Tail(s) /\ \A u \in Threads : u # t => prims'[u] = prims[u]
    BY <1>1 DEF TypeOK
  <1> HIDE DEF s, x0, Received
  <1>7. /\ frame'[tile] \in Seq(Received)
        /\ DOMAIN frame'[tile] = DOMAIN frame[tile] \cup {Len(frame[tile]) + 1}
        /\ Len(frame[tile]) + 1 \notin DOMAIN frame[tile]
        /\ \A k \in DOMAIN frame[tile] :
             k \in Nat /\ k < Len(frame[tile]) + 1 /\ frame'[tile][k] = frame[tile][k]
        /\ frame'[tile][Len(frame[tile]) + 1] = x0
        /\ Range(frame'[tile]) = Range(frame[tile]) \cup {x0}
    BY ONLY <1>5, AppendRange
  <1>8. TypeOK'
    <2>1. frame' \in [Tiles -> Seq((1 .. Draws) \X (0 .. Prims - 1))]
      BY <1>1, <1>3, <1>5, <1>7 DEF TypeOK, Received
    <2>2. prims' \in [Threads -> Seq(0 .. Prims - 1)]
      BY <1>1, <1>4 DEF TypeOK
    <2> QED
      BY <1>1, <1>2, <2>1, <2>2 DEF TypeOK
  <1>9. \A u \in Threads : (Holding(u)' <=> Holding(u)) /\ Left(u)' = Left(u)
    BY <1>1, <1>2 DEF Holding, Left
  <1>10. PhaseOk' /\ PackagesOk' /\ RangesOk'
    BY <1>1, <1>2, <1>9 DEF PhaseOk, PackagesOk, RangesOk
  <1>11. BucketsSound' /\ BucketsOnce' /\ BucketsComplete'
    <2>1. Cleared' = Cleared
      BY <1>1 DEF Cleared
    <2> QED
      BY <1>1, <1>9, <2>1, BucketsUntouched
  <1>12. Drawn(t, tile)'
    <2>1. /\ InOrder(frame[tile])
          /\ \A j, k \in DOMAIN s : j < k => s[j] < s[k]
          /\ \A x \in Range(frame[tile]), y \in Remaining(t) : Earlier(x, y)
          /\ Range(frame[tile]) \cup Remaining(t) = Asked(tile, draw)
      BY <1>1, <1>3 DEF TilesOk, Holding, Drawn, s
    <2>2. Remaining(t) = {x0} \cup Remaining(t)' /\ x0[1] = draw /\ x0[2] = Head(s)
      BY <1>1, <1>4, <1>6 DEF Remaining, s, x0
    <2>3. InOrder(frame'[tile])
      <3> SUFFICES ASSUME NEW j \in DOMAIN frame'[tile], NEW k \in DOMAIN frame'[tile], j < k
                   PROVE  Earlier(frame'[tile][j], frame'[tile][k])
        BY DEF InOrder
      <3>1. j \in DOMAIN frame[tile]
        BY <1>5, <1>7
      <3>2. CASE k \in DOMAIN frame[tile]
        BY <1>7, <2>1, <3>1, <3>2 DEF InOrder
      <3>3. CASE k = Len(frame[tile]) + 1
        <4>1. frame[tile][j] \in Range(frame[tile]) /\ x0 \in Remaining(t)
          BY <2>2, <3>1 DEF Range
        <4> QED
          BY <1>7, <2>1, <3>1, <3>3, <4>1
      <3> QED
        BY <1>7, <3>2, <3>3
    <2>4. \A j, k \in DOMAIN Tail(s) : j < k => Tail(s)[j] < Tail(s)[k]
      <3> SUFFICES ASSUME NEW j \in DOMAIN Tail(s), NEW k \in DOMAIN Tail(s), j < k
                   PROVE  Tail(s)[j] < Tail(s)[k]
        OBVIOUS
      <3>1. j + 1 \in DOMAIN s /\ k + 1 \in DOMAIN s /\ j + 1 < k + 1
        BY <1>4
      <3> QED
        BY <1>4, <2>1, <3>1
    <2>5. ASSUME NEW y \in Remaining(t)' PROVE Earlier(x0, y)
      <3>1. PICK i \in Range(Tail(s)) : y = <<draw, i>>
        BY <1>1, <1>6 DEF Remaining
      <3>2. PICK k \in DOMAIN Tail(s) : i = Tail(s)[k]
        BY <3>1 DEF Range
      <3>3. k + 1 \in DOMAIN s /\ 1 < k + 1 /\ i = s[k + 1]
        BY <1>4, <3>2
      <3>4. Head(s) < i
        BY <1>4, <2>1, <3>3
      <3> QED
        BY <2>2, <3>1, <3>4 DEF Earlier
    <2>6. \A x \in Range(frame'[tile]), y \in Remaining(t)' : Earlier(x, y)
      BY <1>7, <2>1, <2>2, <2>5
    <2>7. Range(frame'[tile]) \cup Remaining(t)' = Asked(tile, draw)
      BY <1>7, <2>1, <2>2
    <2> QED
      BY <1>1, <1>6, <2>3, <2>4, <2>6, <2>7 DEF Drawn
  <1>13. TilesOk'
    <2> SUFFICES ASSUME NEW other \in Tiles
                 PROVE  /\ other >= working_package => Complete(other, draw - 1)'
                        /\ \A u \in Threads : Holding(u) /\ package[u] = other =>
                             IF pc[u] = "draw" THEN Drawn(u, other)' ELSE Complete(other, draw - 1)'
                        /\ other < working_package /\ (\A u \in Threads : Holding(u) => package[u] # other) =>
                             Complete(other, draw)'
      BY <1>1, <1>9 DEF TilesOk, Complete
    <2>1. CASE other = tile
      <3>1. Holding(t) /\ ~(other >= working_package)
        BY <1>1, <1>3, <2>1, RasterAssumption DEF Holding, Tiles, TypeOK
      <3> QED
        BY <1>1, <1>3, <1>12, <2>1, <3>1
    <2>2. CASE other # tile
      <3>1. frame'[other] = frame[other]
        BY <1>5, <2>2
      <3>2. \A u \in Threads : u # t => Drawn(u, other)' = Drawn(u, other)
        BY <1>1, <1>6, <3>1 DEF Drawn, Remaining
      <3>3. Complete(other, draw - 1)' = Complete(other, draw - 1) /\ Complete(other, draw)' = Complete(other, draw)
        BY <1>1, <3>1 DEF Complete
      <3> QED
        BY <1>1, <2>2, <3>2, <3>3 DEF TilesOk
    <2> QED
      BY <2>1, <2>2
  <1> QED
    BY <1>8, <1>10, <1>11, <1>13 DEF RInv
(* A tile whose primitives are drawn is complete; the thread takes its     *)
(* next package.                                                           *)
LEMMA FinishTileStep ==
  ASSUME RInv, NEW t \in Threads, FinishTile(t)
  PROVE  RInv'
  <1> DEFINE tile == package[t]
             w == working_package
  <1>1. /\ phase = "rasterize" /\ pc[t] = "draw" /\ prims[t] = <<>>
        /\ package' = [package EXCEPT ![t] = w] /\ w \in Nat /\ working_package' = w + 1
        /\ UNCHANGED <<draw, phase, bucket, prims, frame>>
        /\ TypeOK /\ PhaseOk /\ PackagesOk /\ RangesOk
        /\ BucketsSound /\ BucketsOnce /\ BucketsComplete /\ TilesOk
    BY DEF FinishTile, Fetch, RInv, PhaseOk, TypeOK
  <1>2. /\ PackageSize' = PackageSize /\ ItemCount' = ItemCount /\ PackageCount' = PackageCount
        /\ \A p : Items(p)' = Items(p)
    BY <1>1, SamePhase
  <1>3. /\ tile \in Tiles /\ Least(range[t]) = tile /\ range[t] = {tile} /\ tile < w
        /\ \A u \in Threads : u # t /\ Holding(u) => package[u] # tile
    BY <1>1, HeldTile
  <1>4. pc' = [pc EXCEPT ![t] = "test"] /\ range' = [range EXCEPT ![t] = {}]
    BY <1>3 DEF FinishTile
  <1>5. TypeOK'
    BY <1>1, <1>2, <1>4 DEF TypeOK
  <1>6. /\ pc'[t] = "test" /\ package'[t] = w /\ range'[t] = {} /\ Holding(t) /\ Holding(t)'
        /\ \A u \in Threads : u # t =>
             /\ pc'[u] = pc[u] /\ package'[u] = package[u] /\ range'[u] = range[u]
             /\ (Holding(u)' <=> Holding(u))
    BY <1>1, <1>4 DEF Holding, TypeOK
  <1>7. PhaseOk' /\ RangesOk'
    BY <1>1, <1>2, <1>6 DEF PhaseOk, RangesOk
  <1>8. PackagesOk'
    <2>1. \A u \in Threads : package[u] \in Nat
      BY <1>1 DEF TypeOK
    <2>2. /\ \A u \in Threads : Holding(u) => package[u] < w
          /\ \A u, v \in Threads : u # v /\ Holding(u) /\ Holding(v) => package[u] # package[v]
          /\ \A u \in Threads : pc[u] = "done" => PackageCount <= package[u] /\ package[u] < w
      BY ONLY <1>1, Zenon DEF PackagesOk
    <2>3. w \in Nat /\ working_package' = w + 1 /\ PackageCount' = PackageCount
      BY ONLY <1>1, <1>2, Zenon
    <2>4. \A u \in Threads : Holding(u)' => package'[u] < working_package'
      BY ONLY <1>6, <2>1, <2>2, <2>3
    <2>5. \A u, v \in Threads : u # v /\ Holding(u)' /\ Holding(v)' => package'[u] # package'[v]
      BY ONLY <1>6, <2>1, <2>2, <2>3
    <2>6. \A u \in Threads :
            pc'[u] = "done" => PackageCount' <= package'[u] /\ package'[u] < working_package'
      BY ONLY <1>6, <2>1, <2>2, <2>3
    <2> QED
      BY ONLY <2>4, <2>5, <2>6, Zenon DEF PackagesOk
  <1>9. BucketsSound' /\ BucketsOnce' /\ BucketsComplete'
    <2>1. Cleared' = Threads /\ Cleared = Threads
      BY <1>1 DEF Cleared
    <2>2. BucketsSound'
      BY <1>1, <2>1 DEF BucketsSound
    <2>3. BucketsOnce'
      BY <1>1, <2>1 DEF BucketsOnce
    <2>4. BucketsComplete'
      BY <1>1, <2>1 DEF BucketsComplete
    <2> QED
      BY <2>2, <2>3, <2>4
  <1>10. Complete(tile, draw)
    <2>1. Drawn(t, tile)
      BY <1>1, <1>3, <1>6 DEF TilesOk
    <2>2. Remaining(t) = {}
      BY <1>1 DEF Remaining, Range
    <2> QED
      BY <2>1, <2>2 DEF Drawn, Complete
  <1>11. TilesOk'
    <2> SUFFICES ASSUME NEW other \in Tiles
                 PROVE  /\ other >= w + 1 => Complete(other, draw - 1)
                        /\ \A u \in Threads : Holding(u)' /\ package'[u] = other =>
                             IF pc'[u] = "draw" THEN Drawn(u, other) ELSE Complete(other, draw - 1)
                        /\ other < w + 1 /\ (\A u \in Threads : Holding(u)' => package'[u] # other) =>
                             Complete(other, draw)
      BY <1>1 DEF TilesOk, Complete, Drawn, Remaining
    <2>1. other \in Nat
      BY RasterAssumption DEF Tiles
    <2>2. CASE other = w
      <3>1. Complete(other, draw - 1)
        BY <1>1, <2>2 DEF TilesOk
      <3>2. \A u \in Threads : u # t => ~(Holding(u)' /\ package'[u] = other)
        BY <1>1, <1>6, <2>2 DEF PackagesOk, TypeOK
      <3> QED
        BY <1>1, <1>6, <2>2, <3>1, <3>2
    <2>3. CASE other = tile
      <3>1. \A u \in Threads : ~(Holding(u)' /\ package'[u] = other)
        BY <1>1, <1>3, <1>6, <2>1, <2>3
      <3> QED
        BY <1>1, <1>3, <1>10, <2>1, <2>3, <3>1
    <2>4. CASE other # w /\ other # tile
      <3>1. other < w + 1 => other < w
        BY <1>1, <2>1, <2>4
      <3>2. other >= w + 1 => other >= w
        BY <1>1, <2>1
      <3> QED
        BY <1>1, <1>6, <2>4, <3>1, <3>2 DEF TilesOk
    <2> QED
      BY <2>2, <2>3, <2>4
  <1> QED
    BY <1>5, <1>7, <1>8, <1>9, <1>11 DEF RInv

(* When all threads are done all packages were taken.                      *)
LEMMA AllDone ==
  ASSUME RInv, \A t \in Threads : pc[t] = "done"
  PROVE  /\ \A t \in Threads : ~Holding(t) /\ Left(t) = {} /\ range[t] = {}
         /\ Cleared = Threads
         /\ PackageCount < working_package
         /\ phase = "dispatch" =>
              \A i \in 0 .. Prims - 1 : \A tile \in Covers[draw][i] :
                \E t \in Threads : i \in Range(bucket[t][tile])
         /\ phase = "rasterize" => \A tile \in Tiles : Complete(tile, draw)
  <1>1. \A t \in Threads : ~Holding(t) /\ Left(t) = {} /\ range[t] = {}
    BY DEF Holding, Left, RInv, RangesOk
  <1>2. Cleared = Threads
    BY DEF Cleared
  <1>3. PackageCount < working_package /\ working_package \in Nat
    <2>1. PICK t \in Threads : pc[t] = "done"
      BY RasterAssumption
    <2>2. PackageCount <= package[t] /\ package[t] < working_package
      BY <2>1 DEF RInv, PackagesOk
    <2>3. package[t] \in Nat /\ working_package \in Nat
      BY DEF RInv, TypeOK
    <2>4. PackageCount \in Nat
      BY PackageFacts
    <2> QED
      BY ONLY <2>2, <2>3, <2>4
  <1>4. ASSUME phase = "dispatch", NEW i \in 0 .. Prims - 1, NEW tile \in Covers[draw][i]
        PROVE  \E t \in Threads : i \in Range(bucket[t][tile])
    <2>1. i \div PackageSize \in Nat /\ i \div PackageSize < PackageCount /\ PackageCount \in Nat
      BY <1>4, PackageFacts DEF ItemCount
    <2>2. ~(i \div PackageSize >= working_package)
      BY <1>3, <2>1
    <2> QED
      BY <1>1, <1>2, <2>2 DEF RInv, BucketsComplete
  <1>5. ASSUME phase = "rasterize", NEW tile \in Tiles PROVE Complete(tile, draw)
    <2>1. tile < working_package
      BY <1>3, <1>5, TilePackages, RasterAssumption DEF Tiles
    <2> QED
      BY <1>1, <1>5, <2>1 DEF RInv, TilesOk
  <1> QED
    BY <1>1, <1>2, <1>3, <1>4, <1>5

LEMMA BarrierStep ==
  ASSUME RInv, Barrier
  PROVE  RInv'
  <1>1. /\ \A t \in Threads : pc[t] = "done"
        /\ draw < Draws \/ phase = "dispatch"
        /\ phase' = IF phase = "dispatch" THEN "rasterize" ELSE "dispatch"
        /\ draw' = IF phase = "dispatch" THEN draw ELSE draw + 1
        /\ working_package' = 0
        /\ pc' = [t \in Threads |-> "start"]
        /\ UNCHANGED <<package, range, bucket, prims, frame>>
        /\ TypeOK /\ BucketsSound /\ BucketsOnce /\ TilesOk
    BY DEF Barrier, RInv
  <1>2. /\ \A t \in Threads : range[t] = {} /\ pc'[t] = "start"
        /\ Cleared = Threads
        /\ phase = "dispatch" =>
             \A i \in 0 .. Prims - 1 : \A tile \in Covers[draw][i] :
               \E t \in Threads : i \in Range(bucket[t][tile])
        /\ phase = "rasterize" => \A tile \in Tiles : Complete(tile, draw)
    BY <1>1, AllDone
  <1>3. TypeOK'
    <2>1. draw' \in 1 .. Draws /\ phase' \in {"dispatch", "rasterize"} /\ working_package' \in Nat
      BY <1>1, RasterAssumption DEF TypeOK
    <2>2. range' \in [Threads -> SUBSET (0 .. ItemCount' - 1)]
      BY <1>1, <1>2 DEF TypeOK
    <2>3. pc' \in [Threads -> {"start", "fetch", "test", "item", "draw", "done"}]
      BY <1>1
    <2> QED
      BY <1>1, <2>1, <2>2, <2>3 DEF TypeOK
  <1>4. PhaseOk' /\ PackagesOk' /\ RangesOk'
    BY <1>1, <1>2 DEF PhaseOk, PackagesOk, RangesOk, Holding
  <1>5. \A t \in Threads : Holding(t)' = FALSE
    BY <1>2 DEF Holding
  <1>6. CASE phase = "dispatch"
    <2>1. Cleared' = Threads /\ phase' = "rasterize" /\ draw' = draw
      BY <1>1, <1>6 DEF Cleared
    <2>2. BucketsSound'
      BY <1>1, <1>2, <2>1 DEF BucketsSound
    <2>3. BucketsOnce'
      BY <1>1, <1>2, <2>1 DEF BucketsOnce
    <2>4. BucketsComplete'
      BY <1>1, <1>2, <1>6, <2>1 DEF BucketsComplete
    <2>5. TilesOk'
      <3>1. \A tile \in Tiles : Complete(tile, draw - 1)' /\ ~(tile < working_package')
        <4>1. \A tile \in Tiles : Complete(tile, draw - 1)
          BY <1>1, <1>6 DEF TilesOk
        <4>2. \A tile \in Tiles : Complete(tile, draw - 1)'
          BY <1>1, <2>1, <4>1 DEF Complete
        <4>3. \A tile \in Tiles : ~(tile < working_package')
          BY <1>1, RasterAssumption DEF Tiles
        <4> QED
          BY <4>2, <4>3
      <3> QED
        BY <1>5, <2>1, <3>1 DEF TilesOk
    <2> QED
      BY <1>3, <1>4, <2>2, <2>3, <2>4, <2>5 DEF RInv
  <1>7. CASE phase = "rasterize"
    <2>1. Cleared' = {} /\ phase' = "dispatch" /\ draw' = draw + 1 /\ draw \in Int
      BY <1>1, <1>2, <1>7 DEF Cleared, TypeOK
    <2>2. BucketsSound' /\ BucketsOnce'
      BY <2>1 DEF BucketsSound, BucketsOnce
    <2>3. BucketsComplete'
      <3> SUFFICES ASSUME NEW i \in 0 .. Prims - 1 PROVE (i \div PackageSize >= working_package)'
        BY <2>1 DEF BucketsComplete
      <3>1. PackageSize' \in Nat \ {0} /\ i \in Nat
        BY <2>1, RasterAssumption DEF PackageSize
      <3>2. i \div PackageSize' \in Nat
        BY <3>1, Quotient
      <3> QED
        BY <1>1, <3>2
    <2>4. TilesOk'
      <3>1. \A tile \in Tiles : Complete(tile, draw)
        BY <1>2, <1>7
      <3>2. draw' - 1 = draw
        BY <2>1
      <3>3. \A tile \in Tiles : Complete(tile, draw - 1)'
        BY <1>1, <3>1, <3>2 DEF Complete
      <3> QED
        BY <2>1, <3>3 DEF TilesOk
    <2> QED
      BY <1>3, <1>4, <2>2, <2>3, <2>4 DEF RInv
  <1> QED
    BY <1>1, <1>6, <1>7 DEF TypeOK

LEMMA IdleStep ==
  ASSUME RInv, UNCHANGED vars
  PROVE  RInv'
  <1>1. UNCHANGED <<draw, phase, working_package, pc, package, range, bucket, prims, frame>>
    BY DEF vars
  <1>2. /\ PackageSize' = PackageSize /\ ItemCount' = ItemCount /\ PackageCount' = PackageCount
        /\ \A p : Items(p)' = Items(p)
    BY <1>1, SamePhase
  <1>3. Cleared' = Cleared /\ \A u \in Threads : Left(u)' = Left(u) /\ (Holding(u)' <=> Holding(u))
    BY <1>1, <1>2 DEF Cleared, Left, Holding
  <1>4. BucketsSound' /\ BucketsOnce' /\ BucketsComplete'
    BY <1>1, <1>3, BucketsUntouched DEF RInv
  <1>5. TypeOK' /\ PhaseOk' /\ PackagesOk' /\ RangesOk'
    BY <1>1, <1>2, <1>3 DEF RInv, TypeOK, PhaseOk, PackagesOk, RangesOk
  <1>6. TilesOk'
    BY <1>1, <1>3 DEF RInv, TilesOk, Complete, Drawn, Remaining
  <1> QED
    BY <1>4, <1>5, <1>6 DEF RInv

(* The inductive invariant.                                                *)
THEOREM RasterInvariant == Spec => []RInv
  <1>1. RInv /\ [Next]_vars => RInv'
    BY StartStep, TakePackageStep, TestPackageStep, DispatchPrimitiveStep, GatherTileStep,
       RasterizePrimitiveStep, FinishTileStep, BarrierStep, IdleStep DEF Next, Run
  <1> QED
    BY <1>1, InitRInv, PTL DEF Spec

(* Every variable keeps its type.                                          *)
THEOREM RasterTypeOK == Spec => []TypeOK
  <1>1. RInv => TypeOK
    BY DEF RInv
  <1> QED
    BY <1>1, RasterInvariant, PTL

LEMMA OrderOfCompleteTiles ==
  ASSUME TypeOK, NEW tile \in Tiles, Complete(tile, draw) \/ Complete(tile, draw - 1)
  PROVE  /\ InOrder(frame[tile]) /\ Range(frame[tile]) \subseteq Asked(tile, draw)
         /\ \A x \in Asked(tile, draw), y \in Range(frame[tile]) :
              Earlier(x, y) => x \in Range(frame[tile])
  <1>1. CASE Complete(tile, draw)
    BY <1>1 DEF Complete
  <1>2. CASE Complete(tile, draw - 1)
    <2> DEFINE new == {<<draw, i>> : i \in {j \in 0 .. Prims - 1 : tile \in Covers[draw][j]}}
    <2>1. /\ Asked(tile, draw) = Asked(tile, draw - 1) \cup new
          /\ \A x \in Asked(tile, draw - 1) : x[1] \in Int /\ x[1] < draw
      BY AskedStep DEF TypeOK
    <2>2. \A x \in new : x[1] = draw
      OBVIOUS
    <2> HIDE DEF new
    <2>3. \A x \in new, y \in Asked(tile, draw - 1) : ~Earlier(x, y)
      BY <2>1, <2>2 DEF Earlier, TypeOK
    <2> QED
      BY <1>2, <2>1, <2>3 DEF Complete
  <1> QED
    BY <1>1, <1>2

(* Whichever thread gets which package and whenever it runs: a tile        *)
(* receives what was asked for, in the order it was asked for.             *)
THEOREM PrimitivesInOrder == Spec => []PaintersOrder
  <1>1. RInv => PaintersOrder
    <2> SUFFICES ASSUME RInv, NEW tile \in Tiles
                 PROVE  /\ InOrder(frame[tile]) /\ Range(frame[tile]) \subseteq Asked(tile, draw)
                        /\ \A x \in Asked(tile, draw), y \in Range(frame[tile]) :
                             Earlier(x, y) => x \in Range(frame[tile])
      BY DEF PaintersOrder
    <2>1. TypeOK /\ tile \in Nat /\ working_package \in Nat
      BY RasterAssumption DEF RInv, TypeOK, Tiles
    <2>2. \/ Complete(tile, draw) \/ Complete(tile, draw - 1)
          \/ \E t \in Threads : Drawn(t, tile)
      BY <2>1 DEF RInv, TilesOk, TypeOK
    <2>3. ASSUME NEW t \in Threads, Drawn(t, tile)
          PROVE  /\ InOrder(frame[tile]) /\ Range(frame[tile]) \subseteq Asked(tile, draw)
                 /\ \A x \in Asked(tile, draw), y \in Range(frame[tile]) :
                      Earlier(x, y) => x \in Range(frame[tile])
      <3>1. /\ \A x \in Range(frame[tile]), y \in Remaining(t) : Earlier(x, y)
            /\ Range(frame[tile]) \cup Remaining(t) = Asked(tile, draw)
            /\ InOrder(frame[tile])
        BY <2>3 DEF Drawn
      <3>2. \A x \in Asked(tile, draw) : x[1] \in Int /\ x[2] \in Int
        BY DEF Asked
      <3>3. \A x, y \in Asked(tile, draw) : ~(Earlier(x, y) /\ Earlier(y, x))
        BY <3>2 DEF Earlier
      <3> QED
        BY <3>1, <3>3
    <2> QED
      BY <2>1, <2>2, <2>3, OrderOfCompleteTiles
  <1> QED
    BY <1>1, RasterInvariant, PTL

(* When a draw returns every tile has received all that covers it.         *)
THEOREM DrawsComplete == Spec => []DrawComplete
  <1>1. RInv /\ PaintersOrder => DrawComplete
    BY AllDone DEF DrawComplete, Complete, PaintersOrder, Whole
  <1> QED
    BY <1>1, RasterInvariant, PrimitivesInOrder, PTL
-----------------------------------------------------------------------------
(***************************************************************************)
(* FlattenSeq, step by step: the library's operator is a CHOOSE of a       *)
(* function; the function is shown to exist, so its equations hold.        *)
(***************************************************************************)

(* A set with zero and every successor is all of Nat: induction without an *)
(* operator for a parameter.                                               *)
LEMMA AllNaturals ==
  ASSUME NEW T \in SUBSET Nat, 0 \in T, \A n \in T : n + 1 \in T
  PROVE  T = Nat
  <1> SUFFICES ASSUME Nat \ T # {} PROVE FALSE
    OBVIOUS
  <1>1. PICK m \in Nat \ T : \A y \in Nat \ T : m <= y
    BY LeastIs
  <1>2. m - 1 \in Nat /\ ~(m <= m - 1) /\ m = (m - 1) + 1
    BY <1>1
  <1>3. m - 1 \in T
    BY <1>1, <1>2
  <1> QED
    BY <1>1, <1>2, <1>3

(* The same up to a bound.                                                 *)
LEMMA UpTo ==
  ASSUME NEW n \in Nat, NEW T \in SUBSET Nat, 0 \in T,
         \A k \in 0 .. n - 1 : k \in T => k + 1 \in T
  PROVE  \A k \in 0 .. n : k \in T
  <1> DEFINE R == {k \in Nat : k <= n => k \in T}
  <1>1. R \in SUBSET Nat /\ 0 \in R
    OBVIOUS
  <1>2. \A k \in R : k + 1 \in R
    OBVIOUS
  <1> HIDE DEF R
  <1>3. R = Nat
    BY <1>1, <1>2, AllNaturals
  <1> QED
    <2> SUFFICES ASSUME NEW k \in 0 .. n PROVE k \in T
      OBVIOUS
    <2>1. k \in Nat /\ k <= n
      OBVIOUS
    <2> QED
      BY <1>3, <2>1 DEF R

(* g grows by the parts, one after the other.                              *)
Grows(g, n, parts) == g[0] = <<>> /\ \A k \in 1 .. n : g[k] = g[k - 1] \o parts[k]

(* There is such a function, whatever the parts.                           *)
LEMMA GrowsExists ==
  ASSUME NEW S, NEW n \in Nat, NEW parts \in [1 .. n -> Seq(S)]
  PROVE  \E g \in [0 .. n -> Seq(S)] : Grows(g, n, parts)
  <1> DEFINE P(m) == \E g \in [0 .. m -> Seq(S)] : Grows(g, m, parts)
             T == {m \in Nat : P(m)}
  <1>1. P(0)
    <2> DEFINE g == [k \in 0 .. 0 |-> <<>>]
    <2>1. g \in [0 .. 0 -> Seq(S)] /\ g[0] = <<>>
      OBVIOUS
    <2> HIDE DEF g
    <2>2. Grows(g, 0, parts)
      BY <2>1 DEF Grows
    <2> QED
      BY <2>1, <2>2
  <1>2. ASSUME NEW m \in 0 .. n - 1, P(m) PROVE P(m + 1)
    <2>1. PICK f \in [0 .. m -> Seq(S)] : Grows(f, m, parts)
      BY <1>2
    <2>2. m + 1 \in 1 .. n /\ m \in 0 .. m /\ m \in Nat /\ 0 \in 0 .. m
      OBVIOUS
    <2>3. PICK next \in Seq(S) : next = f[m] \o parts[m + 1]
      <3>1. f[m] \in Seq(S) /\ parts[m + 1] \in Seq(S)
        BY <2>2
      <3>2. f[m] \o parts[m + 1] \in Seq(S)
        BY <3>1
      <3> QED
        BY <3>2
    <2> DEFINE g == [k \in 0 .. m + 1 |-> IF k = m + 1 THEN next ELSE f[k]]
    <2>4. /\ g \in [0 .. m + 1 -> Seq(S)] /\ g[m + 1] = next
          /\ \A k \in 0 .. m : g[k] = f[k]
      <3>1. \A k \in 0 .. m + 1 : k # m + 1 => k \in 0 .. m
        OBVIOUS
      <3>2. \A k \in 0 .. m : k \in 0 .. m + 1 /\ k # m + 1
        OBVIOUS
      <3>3. m + 1 \in 0 .. m + 1
        OBVIOUS
      <3>4. next \in Seq(S) /\ \A k \in 0 .. m : f[k] \in Seq(S)
        OBVIOUS
      <3> QED
        BY ONLY <3>1, <3>2, <3>3, <3>4, Zenon
    <2> HIDE DEF g
    <2>5. g[0] = <<>>
      BY <2>1, <2>2, <2>4 DEF Grows
    <2>6. ASSUME NEW k \in 1 .. m + 1 PROVE g[k] = g[k - 1] \o parts[k]
      <3>1. CASE k = m + 1
        <4>1. k - 1 = m
          BY <3>1, <2>2
        <4> QED
          BY <2>2, <2>3, <2>4, <3>1, <4>1
      <3>2. CASE k # m + 1
        <4>1. k \in 1 .. m /\ k \in 0 .. m /\ k - 1 \in 0 .. m
          BY <3>2
        <4>2. f[k] = f[k - 1] \o parts[k]
          BY <2>1, <4>1 DEF Grows
        <4> QED
          BY <2>4, <4>1, <4>2
      <3> QED
        BY <3>1, <3>2
    <2>7. Grows(g, m + 1, parts)
      BY <2>5, <2>6 DEF Grows
    <2> QED
      BY <2>4, <2>7
  <1> HIDE DEF P
  <1>3. T \in SUBSET Nat /\ 0 \in T /\ \A k \in 0 .. n - 1 : k \in T => k + 1 \in T
    BY <1>1, <1>2
  <1> HIDE DEF T
  <1>4. \A k \in 0 .. n : k \in T
    BY <1>3, UpTo
  <1>5. P(n)
    BY <1>4 DEF T
  <1> QED
    BY <1>5 DEF P

(* So the equations of the library's CHOOSE hold, and it is this function. *)
LEMMA FlattenIs ==
  ASSUME NEW S, NEW n \in Nat, NEW parts \in [1 .. n -> Seq(S)],
         NEW g \in [0 .. n -> Seq(S)], Grows(g, n, parts)
  PROVE  FlattenSeq(parts) = g[n]
  <1>1. Len(parts) = n
    OBVIOUS
  <1>2. CASE n = 0
    <2>1. parts = <<>>
      BY <1>2
    <2> QED
      BY <1>1, <1>2, <2>1 DEF FlattenSeq, Grows
  <1>3. CASE n # 0
    <2> DEFINE flatten == CHOOSE f : f = [i \in 1 .. n |-> IF i = 1 THEN parts[i] ELSE f[i - 1] \o parts[i]]
    <2>1. FlattenSeq(parts) = flatten[n]
      BY <1>1, <1>3 DEF FlattenSeq
    <2> DEFINE h == [i \in 1 .. n |-> g[i]]
    <2>2. h = [i \in 1 .. n |-> IF i = 1 THEN parts[i] ELSE h[i - 1] \o parts[i]]
      <3>1. ASSUME NEW i \in 1 .. n PROVE h[i] = IF i = 1 THEN parts[i] ELSE h[i - 1] \o parts[i]
        <4>1. h[i] = g[i - 1] \o parts[i] /\ parts[i] \in Seq(S)
          BY DEF Grows
        <4>2. CASE i = 1
          <5>1. g[i - 1] = <<>>
            BY <4>2 DEF Grows
          <5> QED
            BY <4>1, <4>2, <5>1
        <4>3. CASE i # 1
          <5>1. i - 1 \in 1 .. n
            BY <4>3
          <5> QED
            BY <4>1, <4>3, <5>1
        <4> QED
          BY <4>2, <4>3
      <3>2. \A i \in 1 .. n : h[i] = IF i = 1 THEN parts[i] ELSE h[i - 1] \o parts[i]
        BY <3>1
      <3> QED
        BY <3>2
    <2> HIDE DEF h
    <2>3. flatten = [i \in 1 .. n |-> IF i = 1 THEN parts[i] ELSE flatten[i - 1] \o parts[i]]
      BY <2>2
    <2> HIDE DEF flatten
    <2>4. \A i \in 1 .. n : flatten[i] = IF i = 1 THEN parts[i] ELSE flatten[i - 1] \o parts[i]
      BY <2>3
    <2> DEFINE T == {k \in Nat : k = 0 \/ flatten[k] = g[k]}
    <2>5. T \in SUBSET Nat /\ \A k \in Nat : k \in T <=> (k = 0 \/ flatten[k] = g[k])
      OBVIOUS
    <2> HIDE DEF T
    <2>6. ASSUME NEW k \in 0 .. n - 1, k \in T PROVE k + 1 \in T
      <3>1. k + 1 \in 1 .. n /\ (k + 1) - 1 = k /\ k + 1 \in Nat
        OBVIOUS
      <3>2. g[k + 1] = g[k] \o parts[k + 1] /\ parts[k + 1] \in Seq(S) /\ g[0] = <<>>
        BY <3>1 DEF Grows
      <3>3. flatten[k + 1] = IF k + 1 = 1 THEN parts[k + 1] ELSE flatten[k] \o parts[k + 1]
        BY <2>4, <3>1
      <3>4. CASE k = 0
        <4>1. <<>> \o parts[k + 1] = parts[k + 1]
          BY <3>2
        <4>2. flatten[k + 1] = parts[k + 1]
          BY <3>3, <3>4
        <4>3. g[k] = <<>>
          BY <3>2, <3>4
        <4>4. g[k + 1] = <<>> \o parts[k + 1]
          BY ONLY <3>2, <4>3, Zenon
        <4>5. flatten[k + 1] = g[k + 1]
          BY ONLY <4>1, <4>2, <4>4, Zenon
        <4> QED
          BY <2>5, <3>1, <4>5
      <3>5. CASE k # 0
        <4>1. flatten[k] = g[k]
          BY <2>5, <2>6, <3>5
        <4>2. k + 1 # 1
          BY <3>5
        <4>3. flatten[k + 1] = g[k] \o parts[k + 1]
          BY ONLY <3>3, <4>1, <4>2, Zenon
        <4>4. flatten[k + 1] = g[k + 1]
          BY ONLY <3>2, <4>3, Zenon
        <4> QED
          BY <2>5, <3>1, <4>4
      <3> QED
        BY <3>4, <3>5
    <2>7. \A k \in 0 .. n : k \in T
      BY <2>5, <2>6, UpTo
    <2> QED
      BY <1>3, <2>1, <2>5, <2>7
  <1> QED
    BY <1>2, <1>3

(* g builds the sequence of the parts.                                     *)
Builds(S, n, parts, g) ==
  /\ n \in Nat /\ parts \in [1 .. n -> Seq(S)] /\ g \in [0 .. n -> Seq(S)]
  /\ Grows(g, n, parts)

(* What the proofs below use of FlattenSeq.                                *)
LEMMA Flattening ==
  ASSUME NEW S, NEW n \in Nat, NEW parts \in [1 .. n -> Seq(S)]
  PROVE  \E g : Builds(S, n, parts, g) /\ FlattenSeq(parts) = g[n]
  <1>1. PICK g \in [0 .. n -> Seq(S)] : Grows(g, n, parts)
    BY GrowsExists
  <1>2. FlattenSeq(parts) = g[n]
    BY <1>1, FlattenIs
  <1> QED
    BY <1>1, <1>2 DEF Builds

(* The beginning of the parts gives the beginning of the sequence.         *)
LEMMA FlattenPrefix ==
  ASSUME NEW S, NEW n, NEW parts, NEW g, Builds(S, n, parts, g),
         NEW m \in 0 .. n, NEW some \in [1 .. m -> Seq(S)], \A k \in 1 .. m : some[k] = parts[k]
  PROVE  FlattenSeq(some) = g[m]
  <1>a. /\ n \in Nat /\ parts \in [1 .. n -> Seq(S)] /\ g \in [0 .. n -> Seq(S)]
        /\ Grows(g, n, parts)
    BY DEF Builds
  <1> USE <1>a
  <1> DEFINE h == [k \in 0 .. m |-> g[k]]
  <1>1. m \in Nat /\ \A k \in 0 .. m : k \in 0 .. n
    OBVIOUS
  <1>2. h \in [0 .. m -> Seq(S)]
    BY <1>1
  <1>3. 0 \in 0 .. m /\ m \in 0 .. m /\ \A k \in 1 .. m : k \in 0 .. m /\ k - 1 \in 0 .. m /\ k \in 1 .. n
    OBVIOUS
  <1>4. \A k \in 0 .. m : h[k] = g[k]
    OBVIOUS
  <1> HIDE DEF h
  <1>5. h[0] = <<>>
    BY <1>3, <1>4 DEF Grows
  <1>6. ASSUME NEW k \in 1 .. m PROVE h[k] = h[k - 1] \o some[k]
    <2>1. k \in 1 .. n /\ h[k] = g[k] /\ h[k - 1] = g[k - 1] /\ some[k] = parts[k]
      BY <1>3, <1>4
    <2>2. g[k] = g[k - 1] \o parts[k]
      BY <2>1 DEF Grows
    <2> QED
      BY ONLY <2>1, <2>2, Zenon
  <1>7. Grows(h, m, some)
    BY <1>5, <1>6 DEF Grows
  <1>8. FlattenSeq(some) = h[m]
    BY <1>1, <1>2, <1>7, FlattenIs
  <1> QED
    BY <1>3, <1>4, <1>8

(* The parts follow one another.                                           *)
FollowsParts(S, n, parts, g) ==
  \A k \in 0 .. n - 1 :
    /\ g[k] \in Seq(S) /\ parts[k + 1] \in Seq(S) /\ g[k + 1] = g[k] \o parts[k + 1]
    /\ Len(g[k + 1]) = Len(g[k]) + Len(parts[k + 1])
    /\ \A x \in 1 .. Len(g[k]) : g[k + 1][x] = g[k][x]
    /\ \A x \in 1 .. Len(parts[k + 1]) : g[k + 1][Len(g[k]) + x] = parts[k + 1][x]

(* Each step appends one part.                                             *)
LEMMA GrowsStep ==
  ASSUME NEW S, NEW n, NEW parts, NEW g, Builds(S, n, parts, g)
  PROVE  FollowsParts(S, n, parts, g)
  <1>a. /\ n \in Nat /\ parts \in [1 .. n -> Seq(S)] /\ g \in [0 .. n -> Seq(S)]
        /\ Grows(g, n, parts)
    BY DEF Builds
  <1> SUFFICES ASSUME NEW k \in 0 .. n - 1
               PROVE  /\ g[k] \in Seq(S) /\ parts[k + 1] \in Seq(S) /\ g[k + 1] = g[k] \o parts[k + 1]
                      /\ Len(g[k + 1]) = Len(g[k]) + Len(parts[k + 1])
                      /\ \A x \in 1 .. Len(g[k]) : g[k + 1][x] = g[k][x]
                      /\ \A x \in 1 .. Len(parts[k + 1]) : g[k + 1][Len(g[k]) + x] = parts[k + 1][x]
    BY Zenon DEF FollowsParts
  <1> USE <1>a
  <1>1. k \in 0 .. n /\ k + 1 \in 1 .. n /\ (k + 1) - 1 = k
    OBVIOUS
  <1>2. PICK s \in Seq(S) : s = g[k]
    BY <1>1
  <1>3. PICK t \in Seq(S) : t = parts[k + 1]
    BY <1>1
  <1>4. g[k + 1] = s \o t
    BY <1>1, <1>2, <1>3 DEF Grows
  <1>5. /\ Len(s \o t) = Len(s) + Len(t)
        /\ \A x \in 1 .. Len(s) : (s \o t)[x] = s[x]
        /\ \A x \in 1 .. Len(t) : (s \o t)[Len(s) + x] = t[x]
    OBVIOUS
  <1> QED
    BY ONLY <1>2, <1>3, <1>4, <1>5, Zenon

(* What stands at a place stays there.                                     *)
LEMMA GrowsStays ==
  ASSUME NEW S, NEW n, NEW parts, NEW g, Builds(S, n, parts, g), NEW j \in 0 .. n
  PROVE  \A k \in 0 .. n : j <= k =>
           Len(g[j]) <= Len(g[k]) /\ \A x \in 1 .. Len(g[j]) : g[k][x] = g[j][x]
  <1>a. /\ n \in Nat /\ parts \in [1 .. n -> Seq(S)] /\ g \in [0 .. n -> Seq(S)]
        /\ Grows(g, n, parts)
    BY DEF Builds
  <1> USE <1>a
  <1> DEFINE Q(k) == j <= k => Len(g[j]) <= Len(g[k]) /\ \A x \in 1 .. Len(g[j]) : g[k][x] = g[j][x]
             T == {k \in Nat : Q(k)}
  <1>0. ASSUME NEW k \in 0 .. n - 1
        PROVE  /\ g[k] \in Seq(S) /\ parts[k + 1] \in Seq(S)
               /\ Len(g[k + 1]) = Len(g[k]) + Len(parts[k + 1])
               /\ \A x \in 1 .. Len(g[k]) : g[k + 1][x] = g[k][x]
    <2>1. FollowsParts(S, n, parts, g)
      BY GrowsStep
    <2> QED
      BY ONLY <2>1, Zenon DEF FollowsParts
  <1>1. ASSUME NEW k \in 0 .. n, j = k PROVE Q(k)
    <2>1. g[j] = g[k] /\ Len(g[j]) \in Nat
      BY <1>1
    <2>2. Len(g[j]) <= Len(g[j])
      BY <2>1
    <2> QED
      BY ONLY <2>1, <2>2, Zenon
  <1>2. ASSUME NEW k \in 0 .. n - 1, Q(k) PROVE Q(k + 1)
    <2>1. k + 1 \in 1 .. n /\ k + 1 \in 0 .. n /\ (k + 1) - 1 = k
      OBVIOUS
    <2>2. CASE j = k + 1
      BY <1>1, <2>1, <2>2
    <2>3. CASE j # k + 1
      <3> SUFFICES ASSUME j <= k + 1
                   PROVE  Len(g[j]) <= Len(g[k + 1]) /\ \A x \in 1 .. Len(g[j]) : g[k + 1][x] = g[j][x]
        OBVIOUS
      <3>1. j <= k
        BY <2>3
      <3>2. Len(g[j]) <= Len(g[k]) /\ \A x \in 1 .. Len(g[j]) : g[k][x] = g[j][x]
        BY <1>2, <3>1
      <3>3. /\ g[k] \in Seq(S) /\ parts[k + 1] \in Seq(S)
            /\ Len(g[k + 1]) = Len(g[k]) + Len(parts[k + 1])
            /\ \A x \in 1 .. Len(g[k]) : g[k + 1][x] = g[k][x]
        BY <1>0
      <3>4. Len(g[j]) \in Nat /\ Len(g[k]) \in Nat /\ Len(parts[k + 1]) \in Nat
        <4>1. g[j] \in Seq(S) /\ g[k] \in Seq(S) /\ parts[k + 1] \in Seq(S)
          BY <3>3
        <4> QED
          BY <4>1
      <3>5. \A x \in 1 .. Len(g[j]) : x \in 1 .. Len(g[k])
        BY <3>2, <3>4
      <3>6. Len(g[j]) <= Len(g[k + 1])
        <4>1. Len(g[k + 1]) = Len(g[k]) + Len(parts[k + 1]) /\ Len(g[j]) <= Len(g[k])
          BY ONLY <3>2, <3>3, Zenon
        <4>2. PICK a \in Nat : a = Len(g[j])
          BY <3>4
        <4>3. PICK b \in Nat : b = Len(g[k])
          BY <3>4
        <4>4. PICK c \in Nat : c = Len(parts[k + 1])
          BY <3>4
        <4>5. a <= b + c
          BY <4>1, <4>2, <4>3
        <4> QED
          BY ONLY <4>1, <4>2, <4>3, <4>4, <4>5, Zenon
      <3>7. ASSUME NEW x \in 1 .. Len(g[j]) PROVE g[k + 1][x] = g[j][x]
        <4>1. g[k + 1][x] = g[k][x]
          BY ONLY <3>3, <3>5, Zenon
        <4>2. g[k][x] = g[j][x]
          BY ONLY <3>2, Zenon
        <4> QED
          BY ONLY <4>1, <4>2, Zenon
      <3> QED
        BY ONLY <3>6, <3>7, Zenon
    <2> QED
      BY <2>2, <2>3
  <1>3. ASSUME j = 0 PROVE Q(0)
    BY <1>1, <1>3
  <1>4. ASSUME j # 0 PROVE Q(0)
    BY <1>4
  <1>5. Q(0)
    BY <1>3, <1>4
  <1>6. T \in SUBSET Nat /\ \A k \in Nat : k \in T <=> Q(k)
    OBVIOUS
  <1> HIDE DEF T, Q
  <1>7. 0 \in T /\ \A k \in 0 .. n - 1 : k \in T => k + 1 \in T
    BY <1>2, <1>5, <1>6
  <1>8. \A k \in 0 .. n : k \in T
    BY <1>6, <1>7, UpTo
  <1>9. \A k \in 0 .. n : Q(k)
    BY <1>6, <1>8
  <1> QED
    BY <1>9 DEF Q

(* Every place belongs to a part.                                          *)
LEMMA GrowsCovers ==
  ASSUME NEW S, NEW n, NEW parts, NEW g, Builds(S, n, parts, g), NEW a \in 1 .. Len(g[n])
  PROVE  \E k \in 0 .. n - 1 : Len(g[k]) < a /\ a <= Len(g[k + 1])
  <1>a. /\ n \in Nat /\ parts \in [1 .. n -> Seq(S)] /\ g \in [0 .. n -> Seq(S)]
        /\ Grows(g, n, parts)
    BY DEF Builds
  <1> USE <1>a
  <1> DEFINE T == {k \in Nat : k \in 0 .. n /\ a <= Len(g[k])}
  <1>1. T \subseteq Nat /\ n \in T
    <2>1. n \in 0 .. n /\ g[n] \in Seq(S)
      OBVIOUS
    <2>2. Len(g[n]) \in Nat
      BY <2>1
    <2>3. a <= Len(g[n])
      BY <2>2
    <2> QED
      BY <2>1, <2>3
  <1>2. PICK k \in T : \A m \in T : k <= m
    BY <1>1, LeastIs
  <1>3. k \in 0 .. n /\ a <= Len(g[k])
    BY <1>2
  <1>4. k # 0
    <2>1. Len(g[0]) = 0
      BY DEF Grows
    <2> QED
      BY <1>3, <2>1
  <1>5. k \in 1 .. n /\ k - 1 \in 0 .. n /\ k - 1 \in Nat /\ ~(k <= k - 1)
    BY <1>3, <1>4
  <1>6. k - 1 \notin T
    BY <1>2, <1>5
  <1>7. ~(a <= Len(g[k - 1]))
    BY <1>5, <1>6
  <1>8. Len(g[k - 1]) \in Nat
    BY <1>5
  <1>9. Len(g[k - 1]) < a
    BY <1>7, <1>8
  <1>10. k - 1 \in 0 .. n - 1 /\ (k - 1) + 1 = k
    BY <1>5
  <1> QED
    BY <1>3, <1>9, <1>10
-----------------------------------------------------------------------------
(***************************************************************************)
(* The clipper, one plane at a time: the sequences an edge leaves.         *)
(***************************************************************************)

(* Two sequences, one after the other.                                     *)
LEMMA Concatenation ==
  ASSUME NEW S, NEW s \in Seq(S), NEW t \in Seq(S)
  PROVE  s \o t \in Seq(S) /\ Len(s \o t) = Len(s) + Len(t) /\ ToSet(s \o t) = ToSet(s) \cup ToSet(t)
  <1>1. /\ s \o t \in Seq(S) /\ Len(s \o t) = Len(s) + Len(t) /\ Len(s) \in Nat /\ Len(t) \in Nat
        /\ \A x \in 1 .. Len(s) : (s \o t)[x] = s[x]
        /\ \A x \in 1 .. Len(t) : (s \o t)[Len(s) + x] = t[x]
    OBVIOUS
  <1>2. DOMAIN s = 1 .. Len(s) /\ DOMAIN t = 1 .. Len(t) /\ DOMAIN (s \o t) = 1 .. Len(s \o t)
    BY <1>1
  <1>3. ASSUME NEW x \in 1 .. Len(s) PROVE s[x] \in ToSet(s \o t)
    <2>1. x \in 1 .. Len(s \o t) /\ s[x] = (s \o t)[x]
      BY <1>1
    <2> QED
      BY ONLY <1>2, <2>1, Zenon DEF ToSet
  <1>4. ASSUME NEW x \in 1 .. Len(t) PROVE t[x] \in ToSet(s \o t)
    <2>1. Len(s) + x \in 1 .. Len(s \o t) /\ t[x] = (s \o t)[Len(s) + x]
      BY <1>1
    <2> QED
      BY ONLY <1>2, <2>1, Zenon DEF ToSet
  <1>5. ASSUME NEW y \in 1 .. Len(s \o t) PROVE (s \o t)[y] \in ToSet(s) \cup ToSet(t)
    <2>1. CASE y <= Len(s)
      <3>1. y \in 1 .. Len(s)
        BY <1>1, <2>1
      <3>2. (s \o t)[y] = s[y]
        BY ONLY <1>1, <3>1, Zenon
      <3> QED
        BY ONLY <1>2, <3>1, <3>2, Zenon DEF ToSet
    <2>2. CASE ~(y <= Len(s))
      <3>1. PICK x \in 1 .. Len(t) : y = Len(s) + x
        <4>1. y - Len(s) \in 1 .. Len(t) /\ y = Len(s) + (y - Len(s))
          BY <1>1, <2>2
        <4> QED
          BY <4>1
      <3>2. (s \o t)[y] = t[x]
        BY ONLY <1>1, <3>1, Zenon
      <3> QED
        BY ONLY <1>2, <3>1, <3>2, Zenon DEF ToSet
    <2> QED
      BY <2>1, <2>2
  <1>6. ToSet(s) \cup ToSet(t) \subseteq ToSet(s \o t)
    BY ONLY <1>2, <1>3, <1>4, Zenon DEF ToSet
  <1>7. ToSet(s \o t) \subseteq ToSet(s) \cup ToSet(t)
    <2>1. ASSUME NEW v \in ToSet(s \o t) PROVE v \in ToSet(s) \cup ToSet(t)
      <3>1. PICK y \in 1 .. Len(s \o t) : v = (s \o t)[y]
        BY ONLY <1>2, Zenon DEF ToSet
      <3> QED
        BY ONLY <1>5, <3>1, Zenon
    <2> QED
      BY ONLY <2>1, Zenon
  <1> QED
    BY ONLY <1>1, <1>6, <1>7, Zenon

(* The sequence of three, of four, parts.                                  *)
LEMMA FlattenThree ==
  ASSUME NEW S, NEW p \in [1 .. 3 -> Seq(S)]
  PROVE  FlattenSeq(p) = (p[1] \o p[2]) \o p[3]
  <1>1. PICK g : Builds(S, 3, p, g) /\ FlattenSeq(p) = g[3]
    BY Flattening
  <1>2. g[0] = <<>> /\ \A k \in 1 .. 3 : g[k] = g[k - 1] \o p[k]
    BY <1>1 DEF Builds, Grows
  <1>3. g[1] = <<>> \o p[1] /\ g[2] = g[1] \o p[2] /\ g[3] = g[2] \o p[3]
    <2>1. \A k, j : k \in 1 .. 3 /\ j = k - 1 => g[k] = g[j] \o p[k]
      BY ONLY <1>2, Zenon
    <2>2. 1 \in 1 .. 3 /\ 0 = 1 - 1
      OBVIOUS
    <2>3. 2 \in 1 .. 3 /\ 1 = 2 - 1
      OBVIOUS
    <2>4. 3 \in 1 .. 3 /\ 2 = 3 - 1
      OBVIOUS
    <2> QED
      BY ONLY <1>2, <2>1, <2>2, <2>3, <2>4, Zenon
  <1>4. <<>> \o p[1] = p[1]
    OBVIOUS
  <1> QED
    BY ONLY <1>1, <1>3, <1>4, Zenon

(* Four parts, for the planes that see a polygon of four vertices.         *)
LEMMA FlattenFour ==
  ASSUME NEW S, NEW p \in [1 .. 4 -> Seq(S)]
  PROVE  FlattenSeq(p) = ((p[1] \o p[2]) \o p[3]) \o p[4]
  <1>1. PICK g : Builds(S, 4, p, g) /\ FlattenSeq(p) = g[4]
    BY Flattening
  <1>2. g[0] = <<>> /\ \A k \in 1 .. 4 : g[k] = g[k - 1] \o p[k]
    BY <1>1 DEF Builds, Grows
  <1>3. g[1] = <<>> \o p[1] /\ g[2] = g[1] \o p[2] /\ g[3] = g[2] \o p[3] /\ g[4] = g[3] \o p[4]
    <2>1. \A k, j : k \in 1 .. 4 /\ j = k - 1 => g[k] = g[j] \o p[k]
      BY ONLY <1>2, Zenon
    <2>2. 1 \in 1 .. 4 /\ 0 = 1 - 1
      OBVIOUS
    <2>3. 2 \in 1 .. 4 /\ 1 = 2 - 1
      OBVIOUS
    <2>4. 3 \in 1 .. 4 /\ 2 = 3 - 1
      OBVIOUS
    <2>5. 4 \in 1 .. 4 /\ 3 = 4 - 1
      OBVIOUS
    <2> QED
      BY ONLY <1>2, <2>1, <2>2, <2>3, <2>4, <2>5, Zenon
  <1>4. <<>> \o p[1] = p[1]
    OBVIOUS
  <1> QED
    BY ONLY <1>1, <1>3, <1>4, Zenon

(* What the clipper makes of one edge.                                     *)
Crosses(plane, a, b) == ~(Inside(plane, a) <=> Inside(plane, b))
EdgeSet(plane, a, b) == {x \in {a} : Inside(plane, a)} \cup {x \in {DepthOf(plane)} : Crosses(plane, a, b)}
EdgeLen(plane, a, b) ==
  (IF Inside(plane, a) THEN 1 ELSE 0) + (IF Crosses(plane, a, b) THEN 1 ELSE 0)

(* How many vertices an edge leaves, and which depths.                     *)
LEMMA EdgeFacts ==
  ASSUME NEW plane, NEW a \in Int, NEW b \in Int
  PROVE  /\ Edge(plane, a, b) \in Seq(Int)
         /\ Len(Edge(plane, a, b)) = EdgeLen(plane, a, b)
         /\ ToSet(Edge(plane, a, b)) = EdgeSet(plane, a, b)
  <1>1. PICK d \in Int : d = DepthOf(plane)
    <2>1. DepthOf(plane) \in Int
      BY ClipperAssumption DEF DepthOf
    <2> QED
      BY <2>1
  <1>2. PICK s : s = IF Inside(plane, a) THEN <<a>> ELSE <<>>
    OBVIOUS
  <1>3. PICK t : t = IF Crosses(plane, a, b) THEN <<d>> ELSE <<>>
    OBVIOUS
  <1>4. Edge(plane, a, b) = s \o t
    <2>1. (Inside(plane, a) # Inside(plane, b)) <=> Crosses(plane, a, b)
      BY DEF Inside, Crosses
    <2> QED
      BY <1>1, <1>2, <1>3, <2>1 DEF Edge
  <1>5. /\ s \in Seq(Int) /\ Len(s) = (IF Inside(plane, a) THEN 1 ELSE 0)
        /\ ToSet(s) = {x \in {a} : Inside(plane, a)}
    <2>1. CASE Inside(plane, a)
      BY <1>2, <2>1 DEF ToSet
    <2>2. CASE ~Inside(plane, a)
      BY <1>2, <2>2 DEF ToSet
    <2> QED
      BY <2>1, <2>2
  <1>6. /\ t \in Seq(Int) /\ Len(t) = (IF Crosses(plane, a, b) THEN 1 ELSE 0)
        /\ ToSet(t) = {x \in {d} : Crosses(plane, a, b)}
    <2>1. CASE Crosses(plane, a, b)
      BY <1>3, <2>1 DEF ToSet
    <2>2. CASE ~Crosses(plane, a, b)
      BY <1>3, <2>2 DEF ToSet
    <2> QED
      BY <2>1, <2>2
  <1>7. s \o t \in Seq(Int) /\ Len(s \o t) = Len(s) + Len(t) /\ ToSet(s \o t) = ToSet(s) \cup ToSet(t)
    <2>1. s \in Seq(Int) /\ t \in Seq(Int)
      BY <1>5, <1>6
    <2> QED
      BY ONLY <2>1, Concatenation
  <1> QED
    BY ONLY <1>1, <1>4, <1>5, <1>6, <1>7, Zenon DEF EdgeLen, EdgeSet

(* A plane that clips a triangle takes its edges in order.                 *)
LEMMA ClipThree ==
  ASSUME NEW plane, NEW q \in [1 .. 3 -> Int]
  PROVE  ClipPlane(plane, q) =
           (Edge(plane, q[1], q[2]) \o Edge(plane, q[2], q[3])) \o Edge(plane, q[3], q[1])
  <1> DEFINE p == [i \in 1 .. 3 |-> Edge(plane, q[i], q[(i % 3) + 1])]
  <1>1. Len(q) = 3
    OBVIOUS
  <1>2. p[1] = Edge(plane, q[1], q[2]) /\ p[2] = Edge(plane, q[2], q[3]) /\ p[3] = Edge(plane, q[3], q[1])
    OBVIOUS
  <1>3. p \in [1 .. 3 -> Seq(Int)]
    <2>1. \A i \in 1 .. 3 : Edge(plane, q[i], q[(i % 3) + 1]) \in Seq(Int)
      BY EdgeFacts
    <2> QED
      BY <2>1
  <1>4. ClipPlane(plane, q) = FlattenSeq(p)
    BY <1>1 DEF ClipPlane
  <1> HIDE DEF p
  <1> QED
    BY <1>2, <1>3, <1>4, FlattenThree

(* A plane that clips a polygon of four vertices, the same.                *)
LEMMA ClipFour ==
  ASSUME NEW plane, NEW q \in [1 .. 4 -> Int]
  PROVE  ClipPlane(plane, q) =
           ((Edge(plane, q[1], q[2]) \o Edge(plane, q[2], q[3])) \o Edge(plane, q[3], q[4])) \o Edge(plane, q[4], q[1])
  <1> DEFINE p == [i \in 1 .. 4 |-> Edge(plane, q[i], q[(i % 4) + 1])]
  <1>1. Len(q) = 4
    OBVIOUS
  <1>2. /\ p[1] = Edge(plane, q[1], q[2]) /\ p[2] = Edge(plane, q[2], q[3])
        /\ p[3] = Edge(plane, q[3], q[4]) /\ p[4] = Edge(plane, q[4], q[1])
    OBVIOUS
  <1>3. p \in [1 .. 4 -> Seq(Int)]
    <2>1. \A i \in 1 .. 4 : Edge(plane, q[i], q[(i % 4) + 1]) \in Seq(Int)
      BY EdgeFacts
    <2> QED
      BY <2>1
  <1>4. ClipPlane(plane, q) = FlattenSeq(p)
    BY <1>1 DEF ClipPlane
  <1> HIDE DEF p
  <1> QED
    BY <1>2, <1>3, <1>4, FlattenFour

(* What the clipper leaves of a polygon: the vertices inside, and the depth *)
(* of the plane if some are inside and some are not.                        *)
InsideAndPlane(plane, zs) ==
  {z \in zs : Inside(plane, z)}
    \cup {d \in {DepthOf(plane)} : (\E a \in zs : Inside(plane, a)) /\ (\E b \in zs : ~Inside(plane, b))}

(* What it leaves: the vertices inside, and the plane if an edge crosses   *)
(* it.                                                                     *)
LEMMA ClipThreeFacts ==
  ASSUME NEW plane, NEW q \in [1 .. 3 -> Int]
  PROVE  /\ ClipPlane(plane, q) \in Seq(Int)
         /\ Len(ClipPlane(plane, q)) =
              EdgeLen(plane, q[1], q[2]) + EdgeLen(plane, q[2], q[3]) + EdgeLen(plane, q[3], q[1])
         /\ ToSet(ClipPlane(plane, q)) = InsideAndPlane(plane, {q[1], q[2], q[3]})
  <1>1. PICK a \in Int, b \in Int, c \in Int : a = q[1] /\ b = q[2] /\ c = q[3]
    <2>1. q[1] \in Int /\ q[2] \in Int /\ q[3] \in Int
      OBVIOUS
    <2> QED
      BY <2>1
  <1>2. PICK e : e = Edge(plane, a, b)
    OBVIOUS
  <1>3. PICK f : f = Edge(plane, b, c)
    OBVIOUS
  <1>4. PICK h : h = Edge(plane, c, a)
    OBVIOUS
  <1>5. ClipPlane(plane, q) = (e \o f) \o h
    BY <1>1, <1>2, <1>3, <1>4, ClipThree
  <1>6. e \in Seq(Int) /\ Len(e) = EdgeLen(plane, a, b) /\ ToSet(e) = EdgeSet(plane, a, b)
    BY <1>2, EdgeFacts
  <1>7. f \in Seq(Int) /\ Len(f) = EdgeLen(plane, b, c) /\ ToSet(f) = EdgeSet(plane, b, c)
    BY <1>3, EdgeFacts
  <1>8. h \in Seq(Int) /\ Len(h) = EdgeLen(plane, c, a) /\ ToSet(h) = EdgeSet(plane, c, a)
    BY <1>4, EdgeFacts
  <1>9. PICK ef : ef = e \o f
    OBVIOUS
  <1>10. PICK all : all = ef \o h
    OBVIOUS
  <1>11. ef \in Seq(Int) /\ Len(ef) = Len(e) + Len(f) /\ ToSet(ef) = ToSet(e) \cup ToSet(f)
    <2>1. e \in Seq(Int) /\ f \in Seq(Int)
      BY <1>6, <1>7
    <2> QED
      BY ONLY <1>9, <2>1, Concatenation
  <1>12. all \in Seq(Int) /\ Len(all) = Len(ef) + Len(h) /\ ToSet(all) = ToSet(ef) \cup ToSet(h)
    <2>1. ef \in Seq(Int) /\ h \in Seq(Int)
      BY <1>8, <1>11
    <2> QED
      BY ONLY <1>10, <2>1, Concatenation
  <1>13. EdgeSet(plane, a, b) \cup EdgeSet(plane, b, c) \cup EdgeSet(plane, c, a) = InsideAndPlane(plane, {a, b, c})
    <2> DEFINE in(z) == Inside(plane, z)
    <2> HIDE DEF in
    <2> QED
      BY DEF EdgeSet, Crosses, InsideAndPlane
  <1>14. ClipPlane(plane, q) = all
    BY ONLY <1>5, <1>9, <1>10, Zenon
  <1>15. Len(all) = EdgeLen(plane, a, b) + EdgeLen(plane, b, c) + EdgeLen(plane, c, a)
    BY ONLY <1>6, <1>7, <1>8, <1>11, <1>12, Zenon
  <1>16. ToSet(all) = InsideAndPlane(plane, {a, b, c})
    BY ONLY <1>6, <1>7, <1>8, <1>11, <1>12, <1>13, Zenon
  <1> QED
    BY ONLY <1>1, <1>12, <1>14, <1>15, <1>16, Zenon

(* The same of four vertices.                                              *)
LEMMA ClipFourFacts ==
  ASSUME NEW plane, NEW q \in [1 .. 4 -> Int]
  PROVE  /\ ClipPlane(plane, q) \in Seq(Int)
         /\ Len(ClipPlane(plane, q)) =
              EdgeLen(plane, q[1], q[2]) + EdgeLen(plane, q[2], q[3])
                + EdgeLen(plane, q[3], q[4]) + EdgeLen(plane, q[4], q[1])
         /\ ToSet(ClipPlane(plane, q)) = InsideAndPlane(plane, {q[1], q[2], q[3], q[4]})
  <1>1. PICK a \in Int, b \in Int, c \in Int, d \in Int : a = q[1] /\ b = q[2] /\ c = q[3] /\ d = q[4]
    <2>1. q[1] \in Int /\ q[2] \in Int /\ q[3] \in Int /\ q[4] \in Int
      OBVIOUS
    <2> QED
      BY <2>1
  <1>2. PICK e : e = Edge(plane, a, b)
    OBVIOUS
  <1>3. PICK f : f = Edge(plane, b, c)
    OBVIOUS
  <1>4. PICK h : h = Edge(plane, c, d)
    OBVIOUS
  <1>5. PICK k : k = Edge(plane, d, a)
    OBVIOUS
  <1>6. ClipPlane(plane, q) = ((e \o f) \o h) \o k
    BY <1>1, <1>2, <1>3, <1>4, <1>5, ClipFour
  <1>7. e \in Seq(Int) /\ Len(e) = EdgeLen(plane, a, b) /\ ToSet(e) = EdgeSet(plane, a, b)
    BY <1>2, EdgeFacts
  <1>8. f \in Seq(Int) /\ Len(f) = EdgeLen(plane, b, c) /\ ToSet(f) = EdgeSet(plane, b, c)
    BY <1>3, EdgeFacts
  <1>9. h \in Seq(Int) /\ Len(h) = EdgeLen(plane, c, d) /\ ToSet(h) = EdgeSet(plane, c, d)
    BY <1>4, EdgeFacts
  <1>10. k \in Seq(Int) /\ Len(k) = EdgeLen(plane, d, a) /\ ToSet(k) = EdgeSet(plane, d, a)
    BY <1>5, EdgeFacts
  <1>11. PICK ef : ef = e \o f
    OBVIOUS
  <1>12. PICK efh : efh = ef \o h
    OBVIOUS
  <1>13. PICK all : all = efh \o k
    OBVIOUS
  <1>14. ef \in Seq(Int) /\ Len(ef) = Len(e) + Len(f) /\ ToSet(ef) = ToSet(e) \cup ToSet(f)
    <2>1. e \in Seq(Int) /\ f \in Seq(Int)
      BY <1>7, <1>8
    <2> QED
      BY ONLY <1>11, <2>1, Concatenation
  <1>15. efh \in Seq(Int) /\ Len(efh) = Len(ef) + Len(h) /\ ToSet(efh) = ToSet(ef) \cup ToSet(h)
    <2>1. ef \in Seq(Int) /\ h \in Seq(Int)
      BY <1>9, <1>14
    <2> QED
      BY ONLY <1>12, <2>1, Concatenation
  <1>16. all \in Seq(Int) /\ Len(all) = Len(efh) + Len(k) /\ ToSet(all) = ToSet(efh) \cup ToSet(k)
    <2>1. efh \in Seq(Int) /\ k \in Seq(Int)
      BY <1>10, <1>15
    <2> QED
      BY ONLY <1>13, <2>1, Concatenation
  <1>17. EdgeSet(plane, a, b) \cup EdgeSet(plane, b, c) \cup EdgeSet(plane, c, d) \cup EdgeSet(plane, d, a)
           = InsideAndPlane(plane, {a, b, c, d})
    <2> DEFINE in(z) == Inside(plane, z)
    <2> HIDE DEF in
    <2> QED
      BY DEF EdgeSet, Crosses, InsideAndPlane
  <1>18. ClipPlane(plane, q) = all
    BY ONLY <1>6, <1>11, <1>12, <1>13, Zenon
  <1>19. Len(all) =
           EdgeLen(plane, a, b) + EdgeLen(plane, b, c) + EdgeLen(plane, c, d) + EdgeLen(plane, d, a)
    BY ONLY <1>7, <1>8, <1>9, <1>10, <1>14, <1>15, <1>16, Zenon
  <1>20. ToSet(all) = InsideAndPlane(plane, {a, b, c, d})
    BY ONLY <1>7, <1>8, <1>9, <1>10, <1>14, <1>15, <1>16, <1>17, Zenon
  <1> QED
    BY ONLY <1>1, <1>16, <1>18, <1>19, <1>20, Zenon
-----------------------------------------------------------------------------
(***************************************************************************)
(* The polygon between two planes, by the cases of the three vertices.     *)
(***************************************************************************)

(* An edge that crosses the plane ends on it.                              *)
LEMMA EdgeEnds ==
  ASSUME NEW plane, NEW a \in Int, NEW b \in Int, Crosses(plane, a, b)
  PROVE  Edge(plane, a, b)[EdgeLen(plane, a, b)] = DepthOf(plane)
  <1>1. PICK d \in Int : d = DepthOf(plane)
    <2>1. DepthOf(plane) \in Int
      BY ClipperAssumption DEF DepthOf
    <2> QED
      BY <2>1
  <1>2. Inside(plane, a) # Inside(plane, b)
    BY DEF Inside, Crosses
  <1>3. CASE Inside(plane, a)
    <2>1. Edge(plane, a, b) = <<a>> \o <<d>>
      BY <1>1, <1>2, <1>3 DEF Edge
    <2>2. EdgeLen(plane, a, b) = 2
      BY <1>3 DEF EdgeLen
    <2>3. (<<a>> \o <<d>>)[2] = d
      OBVIOUS
    <2> QED
      BY ONLY <1>1, <2>1, <2>2, <2>3, Zenon
  <1>4. CASE ~Inside(plane, a)
    <2>1. Edge(plane, a, b) = <<>> \o <<d>>
      BY <1>1, <1>2, <1>4 DEF Edge
    <2>2. EdgeLen(plane, a, b) = 1
      BY <1>4 DEF EdgeLen
    <2>3. (<<>> \o <<d>>)[1] = d
      OBVIOUS
    <2> QED
      BY ONLY <1>1, <2>1, <2>2, <2>3, Zenon
  <1> QED
    BY <1>3, <1>4

(* An edge leaves one vertex, two or none, by the sides of its ends.       *)
EdgeCase(plane, a, b, n) ==
  \/ Inside(plane, a) /\ Inside(plane, b) /\ n = 1 /\ ~Crosses(plane, a, b)
  \/ Inside(plane, a) /\ ~Inside(plane, b) /\ n = 2 /\ Crosses(plane, a, b)
  \/ ~Inside(plane, a) /\ Inside(plane, b) /\ n = 1 /\ Crosses(plane, a, b)
  \/ ~Inside(plane, a) /\ ~Inside(plane, b) /\ n = 0 /\ ~Crosses(plane, a, b)

LEMMA EdgeCases ==
  ASSUME NEW plane, NEW a, NEW b
  PROVE  EdgeCase(plane, a, b, EdgeLen(plane, a, b))
  BY DEF EdgeLen, Crosses, EdgeCase

(* A plane leaves a triangle nothing, three vertices or four.              *)
LEMMA ThreeEdges ==
  ASSUME NEW plane, NEW a, NEW b, NEW c
  PROVE  EdgeLen(plane, a, b) + EdgeLen(plane, b, c) + EdgeLen(plane, c, a) \in {0, 3, 4}
  BY EdgeCases DEF EdgeCase

(* Of the four, two are where edges cross the plane.                       *)
LEMMA TwoCrossings ==
  ASSUME NEW plane, NEW a, NEW b, NEW c, NEW l, NEW m, NEW n, l + m + n = 4,
         EdgeCase(plane, a, b, l), EdgeCase(plane, b, c, m), EdgeCase(plane, c, a, n)
  PROVE  \/ l = 1 /\ m = 2 /\ n = 1 /\ Crosses(plane, b, c) /\ Crosses(plane, c, a)
         \/ l = 2 /\ m = 1 /\ n = 1 /\ Crosses(plane, a, b) /\ Crosses(plane, b, c)
         \/ l = 1 /\ m = 1 /\ n = 2 /\ Crosses(plane, a, b) /\ Crosses(plane, c, a)
  BY DEF EdgeCase

(* With two neighbours inside, a plane leaves four vertices four or five.  *)
LEMMA FourEdges ==
  ASSUME NEW plane, NEW a, NEW b, NEW c, NEW d,
         \/ Inside(plane, c) /\ Inside(plane, d)
         \/ Inside(plane, b) /\ Inside(plane, c)
         \/ Inside(plane, a) /\ Inside(plane, d)
  PROVE  EdgeLen(plane, a, b) + EdgeLen(plane, b, c) + EdgeLen(plane, c, d) + EdgeLen(plane, d, a) \in {4, 5}
  BY EdgeCases DEF EdgeCase

(* A sequence of known length is a function on its places.                 *)
LEMMA SequenceOf ==
  ASSUME NEW S, NEW n, NEW s \in Seq(S), Len(s) = n
  PROVE  s \in [1 .. n -> S]
  OBVIOUS

(* The elements of two sequences, one after the other.                     *)
LEMMA Elements ==
  ASSUME NEW S, NEW s \in Seq(S), NEW t \in Seq(S)
  PROVE  /\ \A x \in 1 .. Len(s) : (s \o t)[x] = s[x]
         /\ \A x \in 1 .. Len(t) : (s \o t)[Len(s) + x] = t[x]
  OBVIOUS

(* The near plane leaves at most four vertices of a triangle, and of four  *)
(* two that follow one another lie in the plane.                           *)
LEMMA NearOfTriangle ==
  ASSUME NEW z \in [1 .. 3 -> Int], NEW near, near = ClipPlane("near", z)
  PROVE  /\ near \in Seq(Int) /\ Len(near) \in {0, 3, 4}
         /\ ToSet(near) = InsideAndPlane("near", {z[1], z[2], z[3]})
         /\ Len(near) = 4 => \/ near[3] = 0 /\ near[4] = 0
                             \/ near[2] = 0 /\ near[3] = 0
                             \/ near[1] = 0 /\ near[4] = 0
  <1>1. PICK a \in Int, b \in Int, c \in Int : a = z[1] /\ b = z[2] /\ c = z[3]
    <2>1. z[1] \in Int /\ z[2] \in Int /\ z[3] \in Int
      OBVIOUS
    <2> QED
      BY <2>1
  <1>2. /\ near \in Seq(Int)
        /\ Len(near) = EdgeLen("near", a, b) + EdgeLen("near", b, c) + EdgeLen("near", c, a)
        /\ ToSet(near) = InsideAndPlane("near", {a, b, c})
    BY <1>1, ClipThreeFacts
  <1>3. Len(near) \in {0, 3, 4}
    BY ONLY <1>2, ThreeEdges, Zenon
  <1>4. ASSUME Len(near) = 4
        PROVE  \/ near[3] = 0 /\ near[4] = 0
               \/ near[2] = 0 /\ near[3] = 0
               \/ near[1] = 0 /\ near[4] = 0
    <2>1. PICK e : e = Edge("near", a, b)
      OBVIOUS
    <2>2. PICK f : f = Edge("near", b, c)
      OBVIOUS
    <2>3. PICK h : h = Edge("near", c, a)
      OBVIOUS
    <2>4. near = (e \o f) \o h
      BY <1>1, <2>1, <2>2, <2>3, ClipThree
    <2>5. /\ e \in Seq(Int) /\ Len(e) = EdgeLen("near", a, b)
          /\ f \in Seq(Int) /\ Len(f) = EdgeLen("near", b, c)
          /\ h \in Seq(Int) /\ Len(h) = EdgeLen("near", c, a)
      BY <2>1, <2>2, <2>3, EdgeFacts
    <2>6. DepthOf("near") = 0
      BY DEF DepthOf
    <2>7. /\ Crosses("near", a, b) => e[Len(e)] = 0
          /\ Crosses("near", b, c) => f[Len(f)] = 0
          /\ Crosses("near", c, a) => h[Len(h)] = 0
      BY <2>1, <2>2, <2>3, <2>5, <2>6, EdgeEnds
    <2>12. PICK ef : ef = e \o f
      OBVIOUS
    <2>13. /\ ef \in Seq(Int) /\ Len(ef) = Len(e) + Len(f)
           /\ \A x \in 1 .. Len(e) : ef[x] = e[x]
           /\ \A x \in 1 .. Len(f) : ef[Len(e) + x] = f[x]
      <3>1. e \in Seq(Int) /\ f \in Seq(Int)
        BY <2>5
      <3>2. e \o f \in Seq(Int) /\ Len(e \o f) = Len(e) + Len(f)
        BY ONLY <3>1, Concatenation
      <3>3. /\ \A x \in 1 .. Len(e) : (e \o f)[x] = e[x]
            /\ \A x \in 1 .. Len(f) : (e \o f)[Len(e) + x] = f[x]
        BY ONLY <3>1, Elements
      <3> QED
        BY ONLY <2>12, <3>2, <3>3, Zenon
    <2>14. /\ \A x \in 1 .. Len(ef) : near[x] = ef[x]
           /\ \A x \in 1 .. Len(h) : near[Len(ef) + x] = h[x]
      <3>1. ef \in Seq(Int) /\ h \in Seq(Int)
        BY <2>5, <2>13
      <3>2. /\ \A x \in 1 .. Len(ef) : (ef \o h)[x] = ef[x]
            /\ \A x \in 1 .. Len(h) : (ef \o h)[Len(ef) + x] = h[x]
        BY ONLY <3>1, Elements
      <3> QED
        BY ONLY <2>4, <2>12, <3>2, Zenon
    <2>8. \/ Len(e) = 1 /\ Len(f) = 2 /\ Len(h) = 1 /\ Crosses("near", b, c) /\ Crosses("near", c, a)
          \/ Len(e) = 2 /\ Len(f) = 1 /\ Len(h) = 1 /\ Crosses("near", a, b) /\ Crosses("near", b, c)
          \/ Len(e) = 1 /\ Len(f) = 1 /\ Len(h) = 2 /\ Crosses("near", a, b) /\ Crosses("near", c, a)
      <3>1. Len(e) + Len(f) + Len(h) = 4
        BY ONLY <1>2, <1>4, <2>5, Zenon
      <3>2. /\ Len(e) = EdgeLen("near", a, b) /\ Len(f) = EdgeLen("near", b, c)
            /\ Len(h) = EdgeLen("near", c, a)
        BY <2>5
      <3> QED
        <4>1. EdgeCase("near", a, b, Len(e)) /\ EdgeCase("near", b, c, Len(f)) /\ EdgeCase("near", c, a, Len(h))
          BY ONLY <3>2, EdgeCases, Zenon
        <4> QED
          BY ONLY <3>1, <4>1, TwoCrossings
    <2>9. CASE Len(e) = 1 /\ Len(f) = 2 /\ Len(h) = 1 /\ Crosses("near", b, c) /\ Crosses("near", c, a)
      <3>1. f[2] = 0 /\ h[1] = 0
        BY <2>7, <2>9
      <3>2. near[3] = f[2] /\ near[4] = h[1]
        <4>1. Len(e) = 1 /\ Len(f) = 2 /\ Len(h) = 1
          BY <2>9
        <4>2. Len(ef) = Len(e) + Len(f)
          BY <2>13
        <4>3. Len(ef) = 3 /\ 3 \in 1 .. Len(ef) /\ 3 = Len(e) + 2 /\ 2 \in 1 .. Len(f) /\ 4 = Len(ef) + 1 /\ 1 \in 1 .. Len(h)
          BY ONLY <4>1, <4>2
        <4>4. near[3] = ef[3] /\ ef[Len(e) + 2] = f[2] /\ near[Len(ef) + 1] = h[1]
          BY ONLY <2>13, <2>14, <4>3, Zenon
        <4> QED
          BY ONLY <4>3, <4>4, Zenon
      <3> QED
        BY ONLY <3>1, <3>2, Zenon
    <2>10. CASE Len(e) = 2 /\ Len(f) = 1 /\ Len(h) = 1 /\ Crosses("near", a, b) /\ Crosses("near", b, c)
      <3>1. e[2] = 0 /\ f[1] = 0
        BY <2>7, <2>10
      <3>2. near[2] = e[2] /\ near[3] = f[1]
        <4>1. Len(e) = 2 /\ Len(f) = 1 /\ Len(h) = 1
          BY <2>10
        <4>2. Len(ef) = Len(e) + Len(f)
          BY <2>13
        <4>3. 2 \in 1 .. Len(ef) /\ 3 \in 1 .. Len(ef) /\ 2 \in 1 .. Len(e) /\ 3 = Len(e) + 1 /\ 1 \in 1 .. Len(f)
          BY ONLY <4>1, <4>2
        <4>4. near[2] = ef[2] /\ near[3] = ef[3] /\ ef[2] = e[2] /\ ef[Len(e) + 1] = f[1]
          BY ONLY <2>13, <2>14, <4>3, Zenon
        <4> QED
          BY ONLY <4>3, <4>4, Zenon
      <3> QED
        BY ONLY <3>1, <3>2, Zenon
    <2>11. CASE Len(e) = 1 /\ Len(f) = 1 /\ Len(h) = 2 /\ Crosses("near", a, b) /\ Crosses("near", c, a)
      <3>1. e[1] = 0 /\ h[2] = 0
        BY <2>7, <2>11
      <3>2. near[1] = e[1] /\ near[4] = h[2]
        <4>1. Len(e) = 1 /\ Len(f) = 1 /\ Len(h) = 2
          BY <2>11
        <4>2. Len(ef) = Len(e) + Len(f)
          BY <2>13
        <4>3. 1 \in 1 .. Len(ef) /\ 1 \in 1 .. Len(e) /\ 4 = Len(ef) + 2 /\ 2 \in 1 .. Len(h)
          BY ONLY <4>1, <4>2
        <4>4. near[1] = ef[1] /\ ef[1] = e[1] /\ near[Len(ef) + 2] = h[2]
          BY ONLY <2>13, <2>14, <4>3, Zenon
        <4> QED
          BY ONLY <4>3, <4>4, Zenon
      <3> QED
        BY ONLY <3>1, <3>2, Zenon
    <2> QED
      BY <2>8, <2>9, <2>10, <2>11
  <1> QED
    BY ONLY <1>1, <1>2, <1>3, <1>4, Zenon

(* Both planes: what is left of a triangle that is not culled.             *)
LEMMA FarOfNear ==
  ASSUME NEW z \in [1 .. 3 -> Int], NEW near, near = ClipPlane("near", z),
         NEW far, far = ClipPlane("far", near)
  PROVE  /\ far \in Seq(Int) /\ Len(far) \in {0, 3, 4, 5}
         /\ ToSet(far) = InsideAndPlane("far", InsideAndPlane("near", {z[1], z[2], z[3]}))
  <1>1. /\ near \in Seq(Int) /\ Len(near) \in {0, 3, 4}
        /\ ToSet(near) = InsideAndPlane("near", {z[1], z[2], z[3]})
        /\ Len(near) = 4 => \/ near[3] = 0 /\ near[4] = 0
                            \/ near[2] = 0 /\ near[3] = 0
                            \/ near[1] = 0 /\ near[4] = 0
    BY NearOfTriangle
  <1>2. CASE Len(near) = 0
    <2>1. near = <<>>
      BY <1>1, <1>2
    <2>2. far = <<>>
      <3>1. [i \in 1 .. Len(near) |-> Edge("far", near[i], near[(i % Len(near)) + 1])] = <<>>
        BY <1>2
      <3>2. FlattenSeq(<<>>) = <<>>
        BY DEF FlattenSeq
      <3> QED
        BY <3>1, <3>2 DEF ClipPlane
    <2>3. ToSet(near) = {} /\ ToSet(far) = {}
      BY <2>1, <2>2 DEF ToSet
    <2>4. InsideAndPlane("far", {}) = {}
      BY DEF InsideAndPlane
    <2>5. far \in Seq(Int) /\ Len(far) = 0
      <3>1. <<>> \in Seq(Int) /\ Len(<<>>) = 0
        OBVIOUS
      <3> QED
        BY ONLY <2>2, <3>1, Zenon
    <2> QED
      BY ONLY <1>1, <2>3, <2>4, <2>5, Zenon
  <1>3. CASE Len(near) = 3
    <2>1. near \in [1 .. 3 -> Int]
      <3>1. near \in Seq(Int)
        BY <1>1
      <3> QED
        BY ONLY <3>1, <1>3, SequenceOf, Zenon
    <2>2. ToSet(near) = {near[1], near[2], near[3]}
      BY <2>1 DEF ToSet
    <2>3. PICK a \in Int, b \in Int, c \in Int : a = near[1] /\ b = near[2] /\ c = near[3]
      <3>1. near[1] \in Int /\ near[2] \in Int /\ near[3] \in Int
        BY <2>1
      <3> QED
        BY <3>1
    <2>4. /\ far \in Seq(Int)
          /\ Len(far) = EdgeLen("far", a, b) + EdgeLen("far", b, c) + EdgeLen("far", c, a)
          /\ ToSet(far) = InsideAndPlane("far", {near[1], near[2], near[3]})
      BY <2>1, <2>3, ClipThreeFacts
    <2>5. Len(far) \in {0, 3, 4}
      BY ONLY <2>4, ThreeEdges, Zenon
    <2>6. Len(far) \in {0, 3, 4, 5}
      BY <2>5
    <2> QED
      BY ONLY <1>1, <2>2, <2>4, <2>6, Zenon
  <1>4. CASE Len(near) = 4
    <2>1. near \in [1 .. 4 -> Int]
      <3>1. near \in Seq(Int)
        BY <1>1
      <3> QED
        BY ONLY <3>1, <1>4, SequenceOf, Zenon
    <2>2. ToSet(near) = {near[1], near[2], near[3], near[4]}
      BY <2>1 DEF ToSet
    <2>3. PICK a \in Int, b \in Int, c \in Int, d \in Int :
             a = near[1] /\ b = near[2] /\ c = near[3] /\ d = near[4]
      <3>1. near[1] \in Int /\ near[2] \in Int /\ near[3] \in Int /\ near[4] \in Int
        BY <2>1
      <3> QED
        BY <3>1
    <2>4. /\ far \in Seq(Int)
          /\ Len(far) = EdgeLen("far", a, b) + EdgeLen("far", b, c) + EdgeLen("far", c, d) + EdgeLen("far", d, a)
          /\ ToSet(far) = InsideAndPlane("far", {near[1], near[2], near[3], near[4]})
      BY <2>1, <2>3, ClipFourFacts
    <2>5. (c = 0 /\ d = 0) \/ (b = 0 /\ c = 0) \/ (a = 0 /\ d = 0)
      BY <1>1, <1>4, <2>3
    <2>6. Inside("far", 0)
      BY ClipperAssumption DEF Inside, Distance
    <2>7. Len(far) \in {0, 3, 4, 5}
      <3>1. \/ Inside("far", c) /\ Inside("far", d)
            \/ Inside("far", b) /\ Inside("far", c)
            \/ Inside("far", a) /\ Inside("far", d)
        BY <2>5, <2>6
      <3>2. Len(far) \in {4, 5}
        BY ONLY <2>4, <3>1, FourEdges, Zenon
      <3> QED
        BY <3>2
    <2> QED
      BY ONLY <1>1, <2>2, <2>4, <2>7, Zenon
  <1> QED
    BY <1>1, <1>2, <1>3, <1>4
-----------------------------------------------------------------------------
(***************************************************************************)
(* The polygon of a triangle: what PolygonExact says of it.                *)
(***************************************************************************)

(* A function on the places is a sequence.                                 *)
LEMMA SequenceFrom ==
  ASSUME NEW S, NEW n \in Nat, NEW s \in [1 .. n -> S]
  PROVE  s \in Seq(S) /\ Len(s) = n
  OBVIOUS

(* Both planes, one after the other: at most five vertices, and the depths *)
(* that remain.                                                            *)
LEMMA ClippedFacts ==
  ASSUME NEW s \in Triangles
  PROVE  /\ s.z \in [1 .. 3 -> Int] /\ s.front \in BOOLEAN
         /\ ClipTriangle(s) \in Seq(Int) /\ Len(ClipTriangle(s)) \in {0, 3, 4, 5}
         /\ InFrustum(s) /\ ~s.culled => ClipTriangle(s) = s.z
         /\ ~s.culled => ToSet(ClipTriangle(s)) =
              InsideAndPlane("far", InsideAndPlane("near", {s.z[1], s.z[2], s.z[3]}))
  <1>1. s \in Shapes
    BY GeomAssumption
  <1>2. PICK z \in [1 .. 3 -> Int] : z = s.z
    BY <1>1 DEF Shapes
  <1>3. s.front \in BOOLEAN /\ s.culled \in BOOLEAN
    BY <1>1 DEF Shapes
  <1>4. PICK near : near = ClipPlane("near", z)
    OBVIOUS
  <1>5. PICK far : far = ClipPlane("far", near)
    OBVIOUS
  <1>6. near \in Seq(Int) /\ Len(near) \in {0, 3, 4}
    BY <1>4, NearOfTriangle
  <1>7. /\ far \in Seq(Int) /\ Len(far) \in {0, 3, 4, 5}
        /\ ToSet(far) = InsideAndPlane("far", InsideAndPlane("near", {z[1], z[2], z[3]}))
    BY <1>4, <1>5, FarOfNear
  <1>8. ClipTriangle(s) = IF s.culled /\ (InFrustum(s) \/ Len(near) >= 3) THEN <<>>
                          ELSE IF InFrustum(s) THEN z ELSE far
    BY <1>2, <1>4, <1>5 DEF ClipTriangle
  <1>9. z \in Seq(Int) /\ Len(z) = 3
    <2>1. 3 \in Nat /\ z \in [1 .. 3 -> Int]
      OBVIOUS
    <2> QED
      BY ONLY <2>1, SequenceFrom, Zenon
  <1>10. <<>> \in Seq(Int) /\ Len(<<>>) = 0
    OBVIOUS
  <1>11. ClipTriangle(s) \in Seq(Int) /\ Len(ClipTriangle(s)) \in {0, 3, 4, 5}
    <2>1. ClipTriangle(s) = <<>> \/ ClipTriangle(s) = z \/ ClipTriangle(s) = far
      BY ONLY <1>8, Zenon
    <2>2. Len(z) \in {0, 3, 4, 5} /\ Len(<<>>) \in {0, 3, 4, 5}
      BY ONLY <1>9, <1>10
    <2> QED
      BY ONLY <1>7, <1>9, <1>10, <2>1, <2>2, Zenon
  <1>12. CASE InFrustum(s) /\ ~s.culled
    <2>1. ClipTriangle(s) = z
      BY <1>8, <1>12
    <2>2. ToSet(z) = {z[1], z[2], z[3]}
      BY DEF ToSet
    <2>3. \A x \in {z[1], z[2], z[3]} : Inside("near", x) /\ Inside("far", x)
      <3>1. \A i \in 1 .. 3 : Inside("near", z[i]) /\ Inside("far", z[i])
        BY <1>2, <1>12 DEF InFrustum
      <3> QED
        BY <3>1
    <2>4. InsideAndPlane("near", {z[1], z[2], z[3]}) = {z[1], z[2], z[3]}
      BY ONLY <2>3 DEF InsideAndPlane
    <2>5. InsideAndPlane("far", {z[1], z[2], z[3]}) = {z[1], z[2], z[3]}
      BY ONLY <2>3 DEF InsideAndPlane
    <2> QED
      BY ONLY <1>2, <1>3, <1>11, <2>1, <2>2, <2>4, <2>5, Zenon
  <1>13. CASE ~(InFrustum(s) /\ ~s.culled)
    <2>1. ASSUME ~s.culled PROVE ClipTriangle(s) = far
      BY ONLY <1>8, <1>13, <2>1, Zenon
    <2> QED
      BY ONLY <1>2, <1>3, <1>7, <1>11, <1>13, <2>1, Zenon
  <1> QED
    BY <1>12, <1>13

(* The least and the greatest of a set of integers.                        *)
LEMMA MinIs ==
  ASSUME NEW T \in SUBSET Int, NEW m \in T, \A x \in T : m <= x
  PROVE  Min(T) = m
  <1>1. \E x \in T : \A y \in T : x <= y
    OBVIOUS
  <1>2. Min(T) \in T /\ \A y \in T : Min(T) <= y
    BY <1>1 DEF Min
  <1>3. Min(T) <= m /\ m <= Min(T) /\ Min(T) \in Int /\ m \in Int
    BY <1>2
  <1> QED
    BY ONLY <1>3

(* The greatest element, known by its property.                            *)
LEMMA MaxIs ==
  ASSUME NEW T \in SUBSET Int, NEW m \in T, \A x \in T : x <= m
  PROVE  Max(T) = m
  <1>1. \E x \in T : \A y \in T : x >= y
    OBVIOUS
  <1>2. Max(T) \in T /\ \A y \in T : Max(T) >= y
    BY <1>1 DEF Max
  <1>3. Max(T) >= m /\ m >= Max(T) /\ Max(T) \in Int /\ m \in Int
    BY <1>2
  <1> QED
    BY ONLY <1>3

(* What PolygonExact says of three depths.                                 *)
Between(poly, lowest, highest) ==
  /\ poly = {} <=> highest < 0 \/ lowest > Far
  /\ poly # {} => Min(poly) = Max({0, lowest}) /\ Max(poly) = Min({Far, highest})

(* The depths that remain reach as near and as far as the planes allow.    *)
LEMMA BetweenThePlanes ==
  ASSUME NEW a \in Int, NEW b \in Int, NEW c \in Int
  PROVE  Between(InsideAndPlane("far", InsideAndPlane("near", {a, b, c})), Min({a, b, c}), Max({a, b, c}))
  <1>a. PICK poly : poly = InsideAndPlane("far", InsideAndPlane("near", {a, b, c}))
    OBVIOUS
  <1>b. PICK lowest : lowest = Min({a, b, c})
    OBVIOUS
  <1>c. PICK highest : highest = Max({a, b, c})
    OBVIOUS
  <1> USE <1>a, <1>b, <1>c
  <1> SUFFICES /\ poly = {} <=> highest < 0 \/ lowest > Far
               /\ poly # {} => Min(poly) = Max({0, lowest}) /\ Max(poly) = Min({Far, highest})
    BY Zenon DEF Between
  <1>1. Far \in Int /\ Far > 0
    BY ClipperAssumption
  <1>2. lowest \in {a, b, c} /\ lowest <= a /\ lowest <= b /\ lowest <= c
    <2>1. PICK m \in {a, b, c} : m <= a /\ m <= b /\ m <= c
      OBVIOUS
    <2>2. Min({a, b, c}) = m
      BY <2>1, MinIs
    <2> QED
      BY <2>1, <2>2
  <1>3. highest \in {a, b, c} /\ highest >= a /\ highest >= b /\ highest >= c
    <2>1. PICK m \in {a, b, c} : m >= a /\ m >= b /\ m >= c
      OBVIOUS
    <2>2. Max({a, b, c}) = m
      BY <2>1, MaxIs
    <2> QED
      BY <2>1, <2>2
  <1>4. \A x \in Int : (Inside("near", x) <=> x >= 0) /\ (Inside("far", x) <=> x <= Far)
    BY <1>1 DEF Inside, Distance
  <1>5. DepthOf("near") = 0 /\ DepthOf("far") = Far
    BY DEF DepthOf
  <1> DEFINE near == InsideAndPlane("near", {a, b, c})
  <1>6. /\ near \in SUBSET Int
        /\ \A x \in Int : x \in near <=> \/ x \in {a, b, c} /\ x >= 0
                                         \/ x = 0 /\ highest >= 0 /\ lowest < 0
    <2>1. near = {x \in {a, b, c} : Inside("near", x)}
            \cup {d \in {0} : (\E y \in {a, b, c} : Inside("near", y)) /\ (\E y \in {a, b, c} : ~Inside("near", y))}
      BY <1>5 DEF InsideAndPlane
    <2>2. (\E y \in {a, b, c} : Inside("near", y)) <=> highest >= 0
      BY <1>3, <1>4
    <2>3. (\E y \in {a, b, c} : ~Inside("near", y)) <=> lowest < 0
      BY <1>2, <1>4
    <2> HIDE DEF near
    <2> QED
      BY <1>4, <2>1, <2>2, <2>3
  <1> HIDE DEF near
  <1>7. /\ poly \in SUBSET Int
        /\ \A x \in Int : x \in poly <=>
             \/ x \in near /\ x <= Far
             \/ x = Far /\ (\E y \in near : y <= Far) /\ (\E y \in near : y > Far)
    <2>1. poly = {x \in near : Inside("far", x)}
            \cup {d \in {Far} : (\E y \in near : Inside("far", y)) /\ (\E y \in near : ~Inside("far", y))}
      BY <1>5 DEF InsideAndPlane, near
    <2>2. \A x \in near : Inside("far", x) <=> x <= Far
      BY <1>4, <1>6
    <2>3. \A x \in near : ~Inside("far", x) <=> x > Far
      BY <1>1, <1>6, <2>2
    <2> QED
      BY <1>1, <1>6, <2>1, <2>2, <2>3
  <1>8. lowest \in Int /\ highest \in Int /\ lowest <= highest
    BY <1>2, <1>3
  <1>9. CASE highest < 0 \/ lowest > Far
    <2>1. \A x \in Int : x \notin poly
      BY <1>1, <1>2, <1>3, <1>6, <1>7, <1>8, <1>9
    <2>2. poly = {}
      BY <1>7, <2>1
    <2> QED
      BY <1>9, <2>2
  <1>10. CASE ~(highest < 0 \/ lowest > Far)
    <2>1. highest >= 0 /\ lowest <= Far
      BY <1>1, <1>8, <1>10
    <2>2. PICK m \in Int : m = IF lowest < 0 THEN 0 ELSE lowest
      BY <1>8
    <2>3. PICK n \in Int : n = IF highest > Far THEN Far ELSE highest
      BY <1>1, <1>8
    <2>4. m \in near /\ m <= Far /\ \A x \in near : m <= x
      BY <1>1, <1>2, <1>3, <1>6, <1>8, <2>1, <2>2
    <2>5. highest \in near /\ \A x \in near : x <= highest
      BY <1>1, <1>2, <1>3, <1>6, <1>8, <2>1
    <2>6. m \in poly /\ \A x \in poly : m <= x
      BY <1>1, <1>7, <2>4
    <2>7. n \in poly /\ \A x \in poly : x <= n
      <3>1. CASE highest > Far
        BY <1>1, <1>7, <1>8, <2>3, <2>4, <2>5, <3>1
      <3>2. CASE ~(highest > Far)
        BY <1>1, <1>7, <1>8, <2>3, <2>4, <2>5, <3>2
      <3> QED
        BY <3>1, <3>2
    <2>8. Min(poly) = m /\ Max(poly) = n
      BY <1>7, <2>6, <2>7, MinIs, MaxIs
    <2>9. Max({0, lowest}) = m
      <3>1. m \in {0, lowest} /\ {0, lowest} \in SUBSET Int /\ \A x \in {0, lowest} : x <= m
        BY <1>8, <2>2
      <3> QED
        BY <3>1, MaxIs
    <2>10. Min({Far, highest}) = n
      <3>1. n \in {Far, highest} /\ {Far, highest} \in SUBSET Int /\ \A x \in {Far, highest} : n <= x
        BY <1>1, <1>8, <2>3
      <3> QED
        BY <3>1, MinIs
    <2> QED
      BY <1>10, <2>6, <2>8, <2>9, <2>10
  <1> QED
    BY <1>9, <1>10

(* What the polygons are, whatever the triangles.                          *)
LEMMA PolygonsExact ==
  ASSUME tri \in [PrimIds -> Triangles]
  PROVE  PolygonExact
  <1> SUFFICES ASSUME NEW i \in PrimIds, ~tri[i].culled
               PROVE  LET poly == ToSet(ClippedTo[tri[i]])
                          lowest == Min({tri[i].z[k] : k \in 1 .. 3})
                          highest == Max({tri[i].z[k] : k \in 1 .. 3}) IN
                        /\ Len(ClippedTo[tri[i]]) \in {0, 3, 4, 5}
                        /\ poly = {} <=> highest < 0 \/ lowest > Far
                        /\ poly # {} => Min(poly) = Max({0, lowest}) /\ Max(poly) = Min({Far, highest})
    BY DEF PolygonExact
  <1>1. PICK s \in Triangles : s = tri[i]
    OBVIOUS
  <1>2. ClippedTo[s] = ClipTriangle(s) /\ ~s.culled
    BY <1>1 DEF ClippedTo
  <1>3. /\ s.z \in [1 .. 3 -> Int] /\ Len(ClipTriangle(s)) \in {0, 3, 4, 5}
        /\ ToSet(ClipTriangle(s)) = InsideAndPlane("far", InsideAndPlane("near", {s.z[1], s.z[2], s.z[3]}))
    BY <1>2, ClippedFacts
  <1>4. {s.z[k] : k \in 1 .. 3} = {s.z[1], s.z[2], s.z[3]}
    OBVIOUS
  <1>5. s.z[1] \in Int /\ s.z[2] \in Int /\ s.z[3] \in Int
    BY <1>3
  <1>6. PICK a \in Int, b \in Int, c \in Int : a = s.z[1] /\ b = s.z[2] /\ c = s.z[3]
    BY <1>5
  <1>7. PICK poly : poly = ToSet(ClipTriangle(s))
    OBVIOUS
  <1>8. PICK lowest : lowest = Min({a, b, c})
    OBVIOUS
  <1>9. PICK highest : highest = Max({a, b, c})
    OBVIOUS
  <1>10. poly = InsideAndPlane("far", InsideAndPlane("near", {a, b, c}))
    BY ONLY <1>3, <1>6, <1>7, Zenon
  <1>11. Between(poly, Min({a, b, c}), Max({a, b, c}))
    BY <1>10, BetweenThePlanes
  <1>12. poly = ToSet(ClippedTo[tri[i]]) /\ Len(ClippedTo[tri[i]]) \in {0, 3, 4, 5}
    BY ONLY <1>1, <1>2, <1>3, <1>7, Zenon
  <1>13. {tri[i].z[k] : k \in 1 .. 3} = {a, b, c}
    BY ONLY <1>1, <1>4, <1>6, Zenon
  <1> QED
    BY ONLY <1>8, <1>9, <1>11, <1>12, <1>13, Zenon DEF Between
-----------------------------------------------------------------------------
(***************************************************************************)
(* The triangles of a polygon: what is written and what is announced.      *)
(***************************************************************************)

(* A triangle of the fan has three vertices.                               *)
LEMMA TriangleFacts ==
  ASSUME NEW poly \in Seq(Int), NEW i \in Nat, NEW front
  PROVE  Triangle(poly, i, front) \in Seq(Int) /\ Len(Triangle(poly, i, front)) = 3
  <1>1. \A j \in Nat : At(poly, j) \in Int
    BY DEF At, Junk
  <1>2. PICK a \in Int, b \in Int, c \in Int : a = At(poly, 0) /\ b = At(poly, i) /\ c = At(poly, i + 1)
    <2>1. At(poly, 0) \in Int /\ At(poly, i) \in Int /\ At(poly, i + 1) \in Int
      BY <1>1
    <2> QED
      BY <2>1
  <1>3. Triangle(poly, i, front) = IF front THEN <<a, b, c>> ELSE <<a, c, b>>
    BY <1>2 DEF Triangle
  <1>4. <<a, b, c>> \in Seq(Int) /\ Len(<<a, b, c>>) = 3 /\ <<a, c, b>> \in Seq(Int) /\ Len(<<a, c, b>>) = 3
    OBVIOUS
  <1> QED
    BY ONLY <1>3, <1>4, Zenon

(* A fan of triangles begins with the fan of fewer triangles.              *)
BeginsWith(fan, m, some) == \A x \in 1 .. 3 * m : fan[x] = some[x]

(* A longer fan begins with a shorter one.                                 *)
LEMMA FanFacts ==
  ASSUME NEW poly \in Seq(Int), NEW front, NEW n \in Nat, NEW m \in 0 .. n
  PROVE  /\ Fan(poly, n, front) \in Seq(Int) /\ Len(Fan(poly, n, front)) = 3 * n
         /\ Fan(poly, m, front) \in Seq(Int) /\ Len(Fan(poly, m, front)) = 3 * m
         /\ BeginsWith(Fan(poly, n, front), m, Fan(poly, m, front))
  <1> DEFINE parts == [i \in 1 .. n |-> Triangle(poly, i, front)]
             some == [i \in 1 .. m |-> Triangle(poly, i, front)]
  <1>1. parts \in [1 .. n -> Seq(Int)] /\ \A i \in 1 .. n : Len(parts[i]) = 3
    BY TriangleFacts
  <1>2. some \in [1 .. m -> Seq(Int)] /\ \A i \in 1 .. m : some[i] = parts[i]
    BY TriangleFacts
  <1>3. Fan(poly, n, front) = FlattenSeq(parts) /\ Fan(poly, m, front) = FlattenSeq(some)
    BY DEF Fan
  <1> HIDE DEF parts, some
  <1>4. PICK g : Builds(Int, n, parts, g) /\ FlattenSeq(parts) = g[n]
    BY <1>1, Flattening
  <1>5. FlattenSeq(some) = g[m]
    BY <1>2, <1>4, FlattenPrefix
  <1>6. FollowsParts(Int, n, parts, g)
    BY <1>4, GrowsStep
  <1>7. g \in [0 .. n -> Seq(Int)] /\ g[0] = <<>>
    BY <1>4 DEF Builds, Grows
  <1>8. \A k \in 0 .. n : Len(g[k]) = 3 * k
    <2> DEFINE T == {k \in Nat : Len(g[k]) = 3 * k}
    <2>1. \A k \in Nat : k \in T <=> Len(g[k]) = 3 * k
      OBVIOUS
    <2>2. T \in SUBSET Nat /\ 0 \in T
      BY <1>7
    <2> HIDE DEF T
    <2>3. ASSUME NEW k \in 0 .. n - 1, k \in T PROVE k + 1 \in T
      <3>1. k + 1 \in 1 .. n /\ k + 1 \in Nat /\ k \in Nat
        OBVIOUS
      <3>2. Len(g[k + 1]) = Len(g[k]) + Len(parts[k + 1])
        BY ONLY <1>6, Zenon DEF FollowsParts
      <3>3. Len(g[k]) = 3 * k /\ Len(parts[k + 1]) = 3
        BY <1>1, <2>1, <2>3, <3>1
      <3>4. Len(g[k + 1]) = 3 * k + 3
        BY ONLY <3>2, <3>3, Zenon
      <3>5. 3 * k + 3 = 3 * (k + 1)
        OBVIOUS
      <3> QED
        BY ONLY <2>1, <3>1, <3>4, <3>5, Zenon
    <2>4. \A k \in 0 .. n : k \in T
      BY <2>2, <2>3, UpTo
    <2> QED
      BY <2>1, <2>4
  <1>9. m \in 0 .. n /\ n \in 0 .. n /\ m <= n
    OBVIOUS
  <1>10. \A k \in 0 .. n : m <= k =>
           Len(g[m]) <= Len(g[k]) /\ \A x \in 1 .. Len(g[m]) : g[k][x] = g[m][x]
    BY <1>4, GrowsStays
  <1>11. g[n] \in Seq(Int) /\ g[m] \in Seq(Int)
    BY <1>7
  <1> QED
    BY ONLY <1>3, <1>4, <1>5, <1>8, <1>9, <1>10, <1>11, Zenon DEF BeginsWith

(* What the setup is told of a triangle.                                   *)
ShapeFacts(s) ==
  /\ Announced(s) \in 0 .. 9
  /\ Meant(s) \in Seq(Int) /\ Len(Meant(s)) = Announced(s)
  /\ Written(s) \in Seq(Int) /\ Announced(s) <= Len(Written(s))
  /\ \A x \in 1 .. Announced(s) : Written(s)[x] = Meant(s)[x]

(* The vertices written begin with those meant, as many as are announced.  *)
LEMMA ShapesAnnounce == ASSUME NEW s \in Triangles PROVE ShapeFacts(s)
  <1>1. PICK c \in Seq(Int) : c = ClipTriangle(s) /\ Len(c) \in {0, 3, 4, 5}
    BY ClippedFacts
  <1>2. PICK n : n = Len(c)
    OBVIOUS
  <1>3. Announced(s) = IF n < 3 THEN 0 ELSE (n - 2) * 3
    BY <1>1, <1>2 DEF Announced
  <1>4. CASE n = 0
    <2>1. Announced(s) = 0
      BY <1>3, <1>4
    <2>2. Meant(s) = <<>> /\ Written(s) = <<>>
      BY <2>1 DEF Meant, Written
    <2>3. <<>> \in Seq(Int) /\ Len(<<>>) = 0
      OBVIOUS
    <2>4. Meant(s) \in Seq(Int) /\ Len(Meant(s)) = 0 /\ Written(s) \in Seq(Int) /\ Len(Written(s)) = 0
      BY ONLY <2>2, <2>3, Zenon
    <2> QED
      BY <2>1, <2>4 DEF ShapeFacts
  <1>5. CASE n \in {3, 4, 5}
    <2>1. n - 2 \in Nat /\ n - 2 \in 0 .. n - 2 /\ Announced(s) = 3 * (n - 2) /\ Announced(s) # 0
      BY <1>3, <1>5
    <2>2. Announced(s) \in 0 .. 9 /\ Announced(s) - 2 \in Nat /\ n - 2 \in 0 .. Announced(s) - 2
      BY <1>5, <2>1
    <2>3. Meant(s) = Fan(c, n - 2, s.front)
      BY <1>1, <1>2, <2>1 DEF Meant
    <2>4. Fan(c, n - 2, s.front) \in Seq(Int) /\ Len(Fan(c, n - 2, s.front)) = 3 * (n - 2)
      BY <2>1, FanFacts
    <2>5. CASE ~InFrustum(s)
      <3>1. Written(s) = Fan(c, Announced(s) - 2, s.front)
        BY <1>1, <2>1, <2>5 DEF Written
      <3>2. PICK k \in Nat : k = Announced(s) - 2
        BY <2>2
      <3>3. n - 2 \in 0 .. k
        BY <2>2, <3>2
      <3>4. /\ Fan(c, k, s.front) \in Seq(Int) /\ Len(Fan(c, k, s.front)) = 3 * k
            /\ BeginsWith(Fan(c, k, s.front), n - 2, Fan(c, n - 2, s.front))
        BY <3>3, FanFacts
      <3>5. Announced(s) <= 3 * k
        BY <1>5, <2>1, <3>2
      <3>6. Written(s) = Fan(c, k, s.front)
        BY <3>1, <3>2
      <3> QED
        BY ONLY <2>1, <2>2, <2>3, <2>4, <3>4, <3>5, <3>6, Zenon DEF ShapeFacts, BeginsWith
    <2>6. CASE InFrustum(s)
      <3>1. ~s.culled
        <4>1. ASSUME s.culled PROVE FALSE
          <5>1. c = <<>>
            BY <1>1, <2>6, <4>1 DEF ClipTriangle
          <5> QED
            BY <1>2, <1>5, <5>1
        <4> QED
          BY <4>1
      <3>2. c = s.z /\ s.z \in [1 .. 3 -> Int]
        BY <1>1, <2>6, <3>1, ClippedFacts
      <3>3. n = 3
        BY <1>2, <3>2, SequenceFrom
      <3>4. Written(s) = Fan(c, 1, s.front) /\ n - 2 = 1
        BY <2>1, <2>6, <3>2, <3>3 DEF Written
      <3>5. Written(s) = Meant(s)
        BY <2>3, <3>4
      <3>6. Announced(s) <= Announced(s)
        BY <2>2
      <3> QED
        BY ONLY <2>1, <2>2, <2>3, <2>4, <3>5, <3>6, Zenon DEF ShapeFacts
    <2> QED
      BY <2>5, <2>6
  <1> QED
    BY <1>1, <1>2, <1>4, <1>5
-----------------------------------------------------------------------------
(***************************************************************************)
(* FoldSet as a sum, whatever order it takes the elements in.              *)
(***************************************************************************)

(* The sum of a set of weights, whichever order they are added in: the     *)
(* weights are counted from below.                                         *)
Accumulates(B, n, c, s) ==
  /\ B \in [0 .. n -> Nat] /\ B[0] = 0
  /\ \A k \in 0 .. n - 1 : B[k + 1] = B[k] + (IF k \in s THEN c[k] ELSE 0)

Units(n, c, s) == [k \in 1 .. n |-> IF k - 1 \in s THEN [j \in 1 .. c[k - 1] |-> 0] ELSE <<>>]
Weight(n, c, s) == Len(FlattenSeq(Units(n, c, s)))

(* Counted from below, one element at a time.                              *)
LEMMA WeightAccumulates ==
  ASSUME NEW n \in Nat, NEW c \in [0 .. n - 1 -> Nat], NEW s
  PROVE  \E B : Accumulates(B, n, c, s) /\ Weight(n, c, s) = B[n]
  <1> DEFINE parts == Units(n, c, s)
  <1>1. ASSUME NEW k \in 0 .. n - 1
        PROVE  parts[k + 1] \in Seq({0}) /\ Len(parts[k + 1]) = IF k \in s THEN c[k] ELSE 0
    <2>1. k + 1 \in 1 .. n /\ (k + 1) - 1 = k /\ c[k] \in Nat
      OBVIOUS
    <2>2. parts[k + 1] = IF k \in s THEN [j \in 1 .. c[k] |-> 0] ELSE <<>>
      BY <2>1 DEF Units
    <2>3. [j \in 1 .. c[k] |-> 0] \in [1 .. c[k] -> {0}]
      OBVIOUS
    <2>4. [j \in 1 .. c[k] |-> 0] \in Seq({0}) /\ Len([j \in 1 .. c[k] |-> 0]) = c[k]
      BY ONLY <2>1, <2>3, SequenceFrom, Zenon
    <2>5. <<>> \in Seq({0}) /\ Len(<<>>) = 0
      OBVIOUS
    <2>6. PICK part : part = parts[k + 1]
      OBVIOUS
    <2>7. CASE k \in s
      <3>1. part = [j \in 1 .. c[k] |-> 0]
        BY ONLY <2>2, <2>6, <2>7, Zenon
      <3> QED
        BY ONLY <2>4, <2>6, <2>7, <3>1, Zenon
    <2>8. CASE k \notin s
      <3>1. part = <<>>
        BY ONLY <2>2, <2>6, <2>8
      <3> QED
        BY ONLY <2>5, <2>6, <2>8, <3>1
    <2> QED
      BY ONLY <2>7, <2>8, Zenon
  <1>2. parts \in [1 .. n -> Seq({0})]
    <2>1. \A k \in 1 .. n : parts[k] \in Seq({0})
      <3>1. ASSUME NEW k \in 1 .. n PROVE parts[k] \in Seq({0})
        <4>1. k - 1 \in 0 .. n - 1 /\ (k - 1) + 1 = k
          OBVIOUS
        <4>2. parts[(k - 1) + 1] \in Seq({0})
          BY ONLY <1>1, <4>1, Zenon
        <4> QED
          BY ONLY <4>1, <4>2, Zenon
      <3> QED
        BY <3>1
    <2>2. parts = [k \in 1 .. n |-> parts[k]]
      <3> DEFINE e(k) == IF k - 1 \in s THEN [j \in 1 .. c[k - 1] |-> 0] ELSE <<>>
      <3>1. parts = [k \in 1 .. n |-> e(k)]
        BY Zenon DEF Units
      <3> HIDE DEF e, parts
      <3> QED
        BY ONLY <3>1, Zenon
    <2> HIDE DEF parts
    <2> QED
      BY ONLY <2>1, <2>2, Zenon
  <1>3. Weight(n, c, s) = Len(FlattenSeq(parts))
    BY DEF Weight
  <1> HIDE DEF parts
  <1>4. PICK g : Builds({0}, n, parts, g) /\ FlattenSeq(parts) = g[n]
    BY <1>2, Flattening
  <1>5. FollowsParts({0}, n, parts, g)
    BY <1>4, GrowsStep
  <1>6. g \in [0 .. n -> Seq({0})] /\ g[0] = <<>>
    BY <1>4 DEF Builds, Grows
  <1> DEFINE B == [k \in 0 .. n |-> Len(g[k])]
  <1>7. B \in [0 .. n -> Nat] /\ B[0] = 0 /\ B[n] = Len(g[n]) /\ \A k \in 0 .. n : B[k] = Len(g[k])
    <2>1. \A k \in 0 .. n : Len(g[k]) \in Nat
      BY <1>6
    <2>2. 0 \in 0 .. n /\ n \in 0 .. n /\ Len(<<>>) = 0
      OBVIOUS
    <2> QED
      BY ONLY <1>6, <2>1, <2>2, Zenon
  <1> HIDE DEF B
  <1>8. ASSUME NEW k \in 0 .. n - 1 PROVE B[k + 1] = B[k] + (IF k \in s THEN c[k] ELSE 0)
    <2>1. k \in 0 .. n /\ k + 1 \in 0 .. n
      OBVIOUS
    <2>2. Len(g[k + 1]) = Len(g[k]) + Len(parts[k + 1])
      BY ONLY <1>5, Zenon DEF FollowsParts
    <2> QED
      BY ONLY <1>1, <1>7, <2>1, <2>2, Zenon
  <1>9. Accumulates(B, n, c, s)
    BY <1>7, <1>8 DEF Accumulates
  <1> QED
    BY ONLY <1>3, <1>4, <1>7, <1>9, Zenon

(* The empty set weighs nothing.                                           *)
LEMMA WeightOfNothing ==
  ASSUME NEW n \in Nat, NEW c \in [0 .. n - 1 -> Nat]
  PROVE  Weight(n, c, {}) = 0
  <1>1. PICK B : Accumulates(B, n, c, {}) /\ Weight(n, c, {}) = B[n]
    BY WeightAccumulates
  <1> DEFINE T == {k \in Nat : B[k] = 0}
  <1>2. T \in SUBSET Nat /\ 0 \in T
    BY <1>1 DEF Accumulates
  <1>3. ASSUME NEW k \in 0 .. n - 1, k \in T PROVE k + 1 \in T
    <2>1. B[k + 1] = B[k] + 0
      BY <1>1 DEF Accumulates
    <2> QED
      BY <1>3, <2>1
  <1> HIDE DEF T
  <1>4. \A k \in 0 .. n : k \in T
    BY <1>2, <1>3, UpTo
  <1>5. n \in 0 .. n
    OBVIOUS
  <1> QED
    BY <1>1, <1>4, <1>5 DEF T

(* An element adds its own weight.                                         *)
LEMMA WeightOfOneMore ==
  ASSUME NEW n \in Nat, NEW c \in [0 .. n - 1 -> Nat], NEW s \in SUBSET (0 .. n - 1), NEW x \in s
  PROVE  Weight(n, c, s) = Weight(n, c, s \ {x}) + c[x]
  <1>1. PICK B : Accumulates(B, n, c, s) /\ Weight(n, c, s) = B[n]
    BY WeightAccumulates
  <1>2. PICK D : Accumulates(D, n, c, s \ {x}) /\ Weight(n, c, s \ {x}) = D[n]
    BY WeightAccumulates
  <1>3. x \in 0 .. n - 1 /\ c[x] \in Nat
    OBVIOUS
  <1> DEFINE Q(k) == B[k] = D[k] + (IF k > x THEN c[x] ELSE 0)
             T == {k \in Nat : Q(k)}
  <1>4. \A k \in Nat : k \in T <=> Q(k)
    OBVIOUS
  <1>5. T \in SUBSET Nat /\ 0 \in T
    <2>1. B[0] = 0 /\ D[0] = 0
      BY ONLY <1>1, <1>2, Zenon DEF Accumulates
    <2>2. ~(0 > x)
      BY ONLY <1>3, n \in Nat
    <2>3. Q(0)
      BY ONLY <2>1, <2>2
    <2> QED
      BY <1>4, <2>3
  <1> HIDE DEF T
  <1>6. ASSUME NEW k \in 0 .. n - 1, k \in T PROVE k + 1 \in T
    <2>1. B[k + 1] = B[k] + (IF k \in s THEN c[k] ELSE 0)
      BY <1>1 DEF Accumulates
    <2>2. D[k + 1] = D[k] + (IF k \in s \ {x} THEN c[k] ELSE 0)
      BY <1>2 DEF Accumulates
    <2>3. B[k] = D[k] + (IF k > x THEN c[x] ELSE 0) /\ k + 1 \in Nat
      BY <1>4, <1>6
    <2>4. B[k] \in Nat /\ D[k] \in Nat /\ c[k] \in Nat
      <3>1. B \in [0 .. n -> Nat] /\ D \in [0 .. n -> Nat]
        BY ONLY <1>1, <1>2, Zenon DEF Accumulates
      <3>2. k \in 0 .. n
        BY ONLY n \in Nat, k \in 0 .. n - 1
      <3> QED
        BY ONLY <3>1, <3>2, c \in [0 .. n - 1 -> Nat], k \in 0 .. n - 1
    <2>5. Q(k + 1)
      <3>1. CASE k = x
        BY <1>3, <2>1, <2>2, <2>3, <2>4, <3>1
      <3>2. CASE k # x
        BY <1>3, <2>1, <2>2, <2>3, <2>4, <3>2
      <3> QED
        BY <3>1, <3>2
    <2> HIDE DEF Q
    <2> QED
      BY <1>4, <2>3, <2>5
  <1>7. \A k \in 0 .. n : k \in T
    BY <1>5, <1>6, UpTo
  <1>8. n \in 0 .. n /\ n > x
    BY <1>3
  <1>9. Q(n)
    BY <1>4, <1>7, <1>8
  <1> QED
    BY <1>1, <1>2, <1>8, <1>9

(* The weights of an interval, when D counts them.                         *)
LEMMA WeightOfInterval ==
  ASSUME NEW n \in Nat, NEW c \in [0 .. n - 1 -> Nat], NEW a \in 0 .. n, NEW b \in a .. n,
         NEW D \in [a .. b -> Nat], \A k \in a .. b - 1 : D[k + 1] = D[k] + c[k]
  PROVE  Weight(n, c, a .. b - 1) = D[b] - D[a]
  <1>1. PICK B : Accumulates(B, n, c, a .. b - 1) /\ Weight(n, c, a .. b - 1) = B[n]
    BY WeightAccumulates
  <1> DEFINE Q(k) == B[k] = IF k <= a THEN 0 ELSE IF k <= b THEN D[k] - D[a] ELSE D[b] - D[a]
             T == {k \in Nat : Q(k)}
  <1>2. \A k \in Nat : k \in T <=> Q(k)
    OBVIOUS
  <1>3. T \in SUBSET Nat /\ 0 \in T
    BY <1>1 DEF Accumulates
  <1>a. D[a] \in Nat /\ D[b] \in Nat /\ a \in Nat /\ b \in Nat /\ a <= b
    OBVIOUS
  <1> HIDE DEF T
  <1>4. ASSUME NEW k \in 0 .. n - 1, k \in T PROVE k + 1 \in T
    <2>1. B[k + 1] = B[k] + (IF k \in a .. b - 1 THEN c[k] ELSE 0)
      BY <1>1 DEF Accumulates
    <2>2. /\ B[k] = IF k <= a THEN 0 ELSE IF k <= b THEN D[k] - D[a] ELSE D[b] - D[a]
          /\ k + 1 \in Nat
      BY <1>2, <1>4
    <2>3. c[k] \in Nat
      OBVIOUS
    <2>4. Q(k + 1)
      <3>1. CASE k < a
        <4>1. k \notin a .. b - 1 /\ k <= a /\ k + 1 <= a
          BY <1>a, <3>1
        <4> QED
          BY <2>1, <2>2, <4>1
      <3>2. CASE k \in a .. b - 1
        <4>1. k + 1 \in a .. b /\ k \in a .. b /\ ~(k + 1 <= a) /\ k <= b /\ k + 1 <= b
          BY <1>a, <3>2
        <4>2. D[k + 1] = D[k] + c[k] /\ D[k] \in Nat
          BY <3>2, <4>1
        <4>3. B[k] = D[k] - D[a]
          BY <1>a, <2>2, <3>2, <4>1, <4>2
        <4> QED
          BY <1>a, <2>1, <2>3, <3>2, <4>1, <4>2, <4>3
      <3>3. CASE k >= b
        <4>1. k \notin a .. b - 1 /\ ~(k + 1 <= b) /\ ~(k + 1 <= a)
          BY <1>a, <3>3
        <4>2. B[k] = D[b] - D[a]
          <5>1. CASE k = b
            BY <1>a, <2>2, <5>1
          <5>2. CASE k # b
            BY <1>a, <2>2, <3>3, <5>2
          <5> QED
            BY <5>1, <5>2
        <4> QED
          BY <1>a, <2>1, <4>1, <4>2
      <3> QED
        BY <1>a, <3>1, <3>2, <3>3
    <2> HIDE DEF Q
    <2> QED
      BY <1>2, <2>2, <2>4
  <1>5. \A k \in 0 .. n : k \in T
    BY <1>3, <1>4, UpTo
  <1>6. n \in 0 .. n /\ n \in Nat /\ b <= n
    OBVIOUS
  <1>7. Q(n)
    BY <1>2, <1>5, <1>6
  <1>8. CASE n = a
    <2>1. a = b
      BY <1>a, <1>6, <1>8
    <2> QED
      BY <1>1, <1>a, <1>7, <1>8, <2>1
  <1>9. CASE n # a
    <2>1. ~(n <= a)
      BY <1>a, <1>6, <1>9
    <2>2. CASE n = b
      BY <1>1, <1>a, <1>7, <2>1, <2>2
    <2>3. CASE n # b
      <3>1. ~(n <= b)
        BY <1>a, <1>6, <2>3
      <3> QED
        BY <1>1, <1>a, <1>7, <2>1, <3>1
    <2> QED
      BY <2>2, <2>3
  <1> QED
    BY <1>8, <1>9

(* f adds the weights of the elements of each subset of S.                 *)
Adds(f, c, S) ==
  f = [s \in SUBSET S |-> IF s = {} THEN 0 ELSE f[s \ {CHOOSE x \in s : TRUE}] + c[CHOOSE x \in s : TRUE]]

(* There is such a function: the weight itself.                            *)
LEMMA SomeAdds ==
  ASSUME NEW n \in Nat, NEW c \in [0 .. n - 1 -> Nat], NEW S \in SUBSET (0 .. n - 1)
  PROVE  \E f : Adds(f, c, S)
  <1> DEFINE f == [s \in SUBSET S |-> Weight(n, c, s)]
  <1>1. ASSUME NEW s \in SUBSET S
        PROVE  f[s] = IF s = {} THEN 0 ELSE f[s \ {CHOOSE x \in s : TRUE}] + c[CHOOSE x \in s : TRUE]
    <2>1. CASE s = {}
      BY <2>1, WeightOfNothing
    <2>2. CASE s # {}
      <3>1. PICK x \in s : x = CHOOSE y \in s : TRUE
        BY <2>2
      <3>2. s \ {x} \in SUBSET S /\ s \in SUBSET (0 .. n - 1)
        OBVIOUS
      <3>3. Weight(n, c, s) = Weight(n, c, s \ {x}) + c[x]
        BY <3>2, WeightOfOneMore
      <3>4. f[s] = Weight(n, c, s) /\ f[s \ {x}] = Weight(n, c, s \ {x})
        BY <3>2
      <3> HIDE DEF f
      <3> QED
        BY ONLY <2>2, <3>1, <3>3, <3>4, Zenon
    <2> QED
      BY <2>1, <2>2
  <1>2. f = [s \in SUBSET S |-> f[s]]
    OBVIOUS
  <1> HIDE DEF f
  <1>3. f = [s \in SUBSET S |-> IF s = {} THEN 0
                                ELSE f[s \ {CHOOSE x \in s : TRUE}] + c[CHOOSE x \in s : TRUE]]
    BY ONLY <1>1, <1>2, Zenon
  <1> QED
    BY ONLY <1>3, Zenon DEF Adds

(* And every such function is the weight, by the number of elements.       *)
LEMMA AddsIsWeight ==
  ASSUME NEW n \in Nat, NEW c \in [0 .. n - 1 -> Nat], NEW S \in SUBSET (0 .. n - 1),
         NEW f, Adds(f, c, S)
  PROVE  f[S] = Weight(n, c, S)
  <1>1. ASSUME NEW s \in SUBSET S
        PROVE  f[s] = IF s = {} THEN 0 ELSE f[s \ {CHOOSE x \in s : TRUE}] + c[CHOOSE x \in s : TRUE]
    BY Zenon DEF Adds
  <1>2. \A s \in SUBSET S : IsFiniteSet(s)
    <2>1. IsFiniteSet(0 .. n - 1)
      BY FS_Interval
    <2> QED
      BY <2>1, FS_Subset
  <1> DEFINE Q(k) == \A s \in SUBSET S : Cardinality(s) = k => f[s] = Weight(n, c, s)
             T == {k \in Nat : Q(k)}
  <1>3. \A k \in Nat : k \in T <=> Q(k)
    OBVIOUS
  <1>4. T \in SUBSET Nat
    OBVIOUS
  <1>5. Q(0)
    <2> SUFFICES ASSUME NEW s \in SUBSET S, Cardinality(s) = 0 PROVE f[s] = Weight(n, c, s)
      OBVIOUS
    <2>1. s = {}
      BY <1>2, FS_EmptySet
    <2> QED
      BY <1>1, <2>1, WeightOfNothing
  <1>6. ASSUME NEW k \in Nat, Q(k) PROVE Q(k + 1)
    <2> SUFFICES ASSUME NEW s \in SUBSET S, Cardinality(s) = k + 1 PROVE f[s] = Weight(n, c, s)
      OBVIOUS
    <2>1. s # {}
      <3>1. Cardinality({}) = 0 /\ k + 1 # 0
        BY FS_EmptySet
      <3> QED
        BY <3>1, Zenon
    <2>2. PICK x \in s : x = CHOOSE y \in s : TRUE
      BY <2>1
    <2>3. s \ {x} \in SUBSET S /\ s \in SUBSET (0 .. n - 1)
      OBVIOUS
    <2>4. Cardinality(s \ {x}) = k
      <3>1. Cardinality(s \ {x}) = Cardinality(s) - 1
        <4>1. IsFiniteSet(s) /\ x \in s
          BY <1>2
        <4> QED
          BY ONLY <4>1, FS_RemoveElement
      <3> QED
        BY <3>1
    <2>5. f[s \ {x}] = Weight(n, c, s \ {x})
      BY <1>6, <2>3, <2>4
    <2>6. Weight(n, c, s) = Weight(n, c, s \ {x}) + c[x]
      BY <2>3, WeightOfOneMore
    <2> QED
      BY ONLY <1>1, <2>1, <2>2, <2>5, <2>6, Zenon
  <1> HIDE DEF T, Q
  <1>7. 0 \in T /\ \A k \in T : k + 1 \in T
    BY <1>3, <1>4, <1>5, <1>6
  <1>8. T = Nat
    BY <1>4, <1>7, AllNaturals
  <1>9. Cardinality(S) \in Nat
    BY <1>2, FS_CardinalityType
  <1>10. Q(Cardinality(S))
    BY <1>3, <1>8, <1>9
  <1> QED
    BY <1>10 DEF Q

(* So the sum FoldSet takes is the weight, whichever element it chooses.   *)
LEMMA SumOfCounts ==
  ASSUME NEW n \in Nat, NEW c \in [0 .. n - 1 -> Nat], NEW S \in SUBSET (0 .. n - 1)
  PROVE  FoldSet(LAMBDA q, s : s + c[q], 0, S) = Weight(n, c, S)
  <1> DEFINE iter == CHOOSE f : f = [s \in SUBSET S |->
                       IF s = {} THEN 0 ELSE f[s \ {CHOOSE x \in s : TRUE}] + c[CHOOSE x \in s : TRUE]]
  <1>1. FoldSet(LAMBDA q, s : s + c[q], 0, S) = iter[S]
    BY DEF FoldSet, MapThenFoldSet
  <1>2. Adds(iter, c, S)
    <2>1. \E f : f = [s \in SUBSET S |->
                     IF s = {} THEN 0 ELSE f[s \ {CHOOSE x \in s : TRUE}] + c[CHOOSE x \in s : TRUE]]
      <3>1. PICK f : Adds(f, c, S)
        BY SomeAdds
      <3>2. f = [s \in SUBSET S |->
                   IF s = {} THEN 0 ELSE f[s \ {CHOOSE x \in s : TRUE}] + c[CHOOSE x \in s : TRUE]]
        BY ONLY <3>1, Zenon DEF Adds
      <3> QED
        BY ONLY <3>2, Zenon
    <2>2. iter = [s \in SUBSET S |->
                    IF s = {} THEN 0 ELSE iter[s \ {CHOOSE x \in s : TRUE}] + c[CHOOSE x \in s : TRUE]]
      BY ONLY <2>1, Zenon
    <2> HIDE DEF iter
    <2> QED
      BY ONLY <2>2, Zenon DEF Adds
  <1> HIDE DEF iter
  <1> QED
    BY <1>1, <1>2, AddsIsWeight, Zenon

(* The same sum, of the numbers announced for the primitives.              *)
LEMMA SumOfAnnounced ==
  ASSUME NEW n \in Nat, NEW c \in [0 .. n - 1 -> Nat],
         \A k \in 0 .. n - 1 : c[k] = AnnouncedFor[tri[k]], NEW S \in SUBSET (0 .. n - 1)
  PROVE  FoldSet(LAMBDA k, s : s + AnnouncedFor[tri[k]], 0, S) = Weight(n, c, S)
  <1> DEFINE iter == CHOOSE f : f = [s \in SUBSET S |->
                       IF s = {} THEN 0 ELSE f[s \ {CHOOSE x \in s : TRUE}] + AnnouncedFor[tri[CHOOSE x \in s : TRUE]]]
  <1>1. FoldSet(LAMBDA k, s : s + AnnouncedFor[tri[k]], 0, S) = iter[S]
    BY DEF FoldSet, MapThenFoldSet
  <1>2. ASSUME NEW f
        PROVE  [s \in SUBSET S |-> IF s = {} THEN 0
                                   ELSE f[s \ {CHOOSE x \in s : TRUE}] + AnnouncedFor[tri[CHOOSE x \in s : TRUE]]]
                 = [s \in SUBSET S |-> IF s = {} THEN 0
                                       ELSE f[s \ {CHOOSE x \in s : TRUE}] + c[CHOOSE x \in s : TRUE]]
    <2>1. ASSUME NEW s \in SUBSET S, s # {}
          PROVE  AnnouncedFor[tri[CHOOSE x \in s : TRUE]] = c[CHOOSE x \in s : TRUE]
      <3>1. PICK x \in s : x = CHOOSE y \in s : TRUE
        BY <2>1
      <3>2. x \in 0 .. n - 1
        OBVIOUS
      <3> QED
        BY <3>1, <3>2
    <2> DEFINE one(s) == IF s = {} THEN 0
                         ELSE f[s \ {CHOOSE x \in s : TRUE}] + AnnouncedFor[tri[CHOOSE x \in s : TRUE]]
               other(s) == IF s = {} THEN 0
                           ELSE f[s \ {CHOOSE x \in s : TRUE}] + c[CHOOSE x \in s : TRUE]
    <2>2. ASSUME NEW s \in SUBSET S PROVE one(s) = other(s)
      <3>1. CASE s = {}
        BY <3>1
      <3>2. CASE s # {}
        <4>1. AnnouncedFor[tri[CHOOSE x \in s : TRUE]] = c[CHOOSE x \in s : TRUE]
          BY ONLY <2>1, <3>2, Zenon
        <4> QED
          BY ONLY <3>2, <4>1, Zenon
      <3> QED
        BY ONLY <3>1, <3>2, Zenon
    <2>3. [s \in SUBSET S |-> one(s)] = [s \in SUBSET S |-> other(s)]
      <3> HIDE DEF one, other
      <3> QED
        BY ONLY <2>2, Zenon
    <2> QED
      BY ONLY <2>3, Zenon
  <1>3. Adds(iter, c, S)
    <2>1. \E f : f = [s \in SUBSET S |-> IF s = {} THEN 0
                        ELSE f[s \ {CHOOSE x \in s : TRUE}] + AnnouncedFor[tri[CHOOSE x \in s : TRUE]]]
      <3>1. PICK f : Adds(f, c, S)
        BY SomeAdds
      <3>2. f = [s \in SUBSET S |-> IF s = {} THEN 0
                   ELSE f[s \ {CHOOSE x \in s : TRUE}] + AnnouncedFor[tri[CHOOSE x \in s : TRUE]]]
        <4>1. f = [s \in SUBSET S |-> IF s = {} THEN 0
                     ELSE f[s \ {CHOOSE x \in s : TRUE}] + c[CHOOSE x \in s : TRUE]]
          BY ONLY <3>1, Zenon DEF Adds
        <4>2. [s \in SUBSET S |-> IF s = {} THEN 0
                                  ELSE f[s \ {CHOOSE x \in s : TRUE}] + AnnouncedFor[tri[CHOOSE x \in s : TRUE]]]
                = [s \in SUBSET S |-> IF s = {} THEN 0
                                      ELSE f[s \ {CHOOSE x \in s : TRUE}] + c[CHOOSE x \in s : TRUE]]
          BY ONLY <1>2
        <4> QED
          BY ONLY <4>1, <4>2
      <3> QED
        BY ONLY <3>2, Zenon
    <2>2. iter = [s \in SUBSET S |-> IF s = {} THEN 0
                    ELSE iter[s \ {CHOOSE x \in s : TRUE}] + AnnouncedFor[tri[CHOOSE x \in s : TRUE]]]
      BY ONLY <2>1, Zenon
    <2> HIDE DEF iter
    <2>3. [s \in SUBSET S |-> IF s = {} THEN 0
                              ELSE iter[s \ {CHOOSE x \in s : TRUE}] + AnnouncedFor[tri[CHOOSE x \in s : TRUE]]]
            = [s \in SUBSET S |-> IF s = {} THEN 0
                                  ELSE iter[s \ {CHOOSE x \in s : TRUE}] + c[CHOOSE x \in s : TRUE]]
      BY ONLY <1>2
    <2>4. iter = [s \in SUBSET S |-> IF s = {} THEN 0
                    ELSE iter[s \ {CHOOSE x \in s : TRUE}] + c[CHOOSE x \in s : TRUE]]
      BY ONLY <2>2, <2>3
    <2> QED
      BY ONLY <2>4, Zenon DEF Adds
  <1> HIDE DEF iter
  <1> QED
    BY <1>1, <1>3, AddsIsWeight
-----------------------------------------------------------------------------
(***************************************************************************)
(* The vertices of a draw, one primitive after another.                    *)
(***************************************************************************)

(* The vertices meant for a primitive of the draw tr, the number of those  *)
(* of the first k primitives, and all of them.                             *)
Verts(tr, i) == Tagged(i, MeantFor[tr[i]])
Before(tr, k) == Len(FlattenSeq([j \in 1 .. k |-> Verts(tr, j - 1)]))
InDraw(tr) == FlattenSeq([k \in 1 .. prim_count |-> Verts(tr, k - 1)])

TaggedFacts(i, s) ==
  /\ AnnouncedFor[s] = Announced(s) /\ Announced(s) \in 0 .. 9
  /\ Tagged(i, MeantFor[s]) \in Seq(Int \X Int) /\ Len(Tagged(i, MeantFor[s])) = AnnouncedFor[s]
  /\ Len(Tagged(i, WrittenFor[s])) = Len(WrittenFor[s]) /\ Len(WrittenFor[s]) \in Nat
  /\ AnnouncedFor[s] <= Len(WrittenFor[s])
  /\ \A x \in 1 .. AnnouncedFor[s] : Tagged(i, WrittenFor[s])[x] = Tagged(i, MeantFor[s])[x]

(* Naming the primitive changes no length and no order.                    *)
LEMMA Tagging ==
  ASSUME NEW i \in Int, NEW s \in Triangles
  PROVE  TaggedFacts(i, s)
  <1>1. /\ AnnouncedFor[s] = Announced(s) /\ MeantFor[s] = Meant(s) /\ WrittenFor[s] = Written(s)
    BY DEF AnnouncedFor, MeantFor, WrittenFor
  <1>2. /\ Announced(s) \in 0 .. 9
        /\ Meant(s) \in Seq(Int) /\ Len(Meant(s)) = Announced(s)
        /\ Written(s) \in Seq(Int) /\ Announced(s) <= Len(Written(s))
        /\ \A x \in 1 .. Announced(s) : Written(s)[x] = Meant(s)[x]
    BY ShapesAnnounce DEF ShapeFacts
  <1>3. PICK m \in Seq(Int) : m = Meant(s)
    BY <1>2
  <1>4. PICK w \in Seq(Int) : w = Written(s)
    BY <1>2
  <1>5. Len(m) \in Nat /\ Len(w) \in Nat /\ Len(m) <= Len(w)
    BY <1>2, <1>3, <1>4
  <1>6. Tagged(i, m) \in Seq(Int \X Int) /\ Len(Tagged(i, m)) = Len(m)
    <2>1. Tagged(i, m) \in [1 .. Len(m) -> Int \X Int]
      BY DEF Tagged
    <2> QED
      BY ONLY <1>5, <2>1, SequenceFrom, Zenon
  <1>7. Len(Tagged(i, w)) = Len(w)
    <2>1. Tagged(i, w) \in [1 .. Len(w) -> Int \X Int]
      BY DEF Tagged
    <2> QED
      BY ONLY <1>5, <2>1, SequenceFrom, Zenon
  <1>8. ASSUME NEW x \in 1 .. Announced(s) PROVE Tagged(i, w)[x] = Tagged(i, m)[x]
    <2>1. x \in 1 .. Len(m) /\ x \in 1 .. Len(w) /\ w[x] = m[x]
      BY <1>2, <1>3, <1>4, <1>5
    <2> QED
      BY ONLY <2>1, Zenon DEF Tagged
  <1> QED
    BY ONLY <1>1, <1>2, <1>3, <1>4, <1>5, <1>6, <1>7, <1>8, Zenon DEF TaggedFacts

(* How the vertices of a draw follow one another.                          *)
DrawFacts(tr) ==
  /\ \A k \in 0 .. prim_count : Before(tr, k) \in Nat
  /\ Before(tr, 0) = 0
  /\ \A i \in PrimIds : Before(tr, i + 1) = Before(tr, i) + AnnouncedFor[tr[i]]
  /\ \A j, k \in 0 .. prim_count : j <= k => Before(tr, j) <= Before(tr, k)
  /\ Before(tr, prim_count) = Len(InDraw(tr))
  /\ \A i \in PrimIds : \A x \in 1 .. AnnouncedFor[tr[i]] : InDraw(tr)[Before(tr, i) + x] = Verts(tr, i)[x]
  /\ \A a \in 1 .. Before(tr, prim_count) : \E i \in PrimIds : Before(tr, i) < a /\ a <= Before(tr, i + 1)

(* Each primitive's vertices follow those of the primitives before it.     *)
LEMMA DrawOrder ==
  ASSUME NEW tr \in [PrimIds -> Triangles]
  PROVE  DrawFacts(tr)
  <1> DEFINE n == prim_count
             V == Int \X Int
             parts == [k \in 1 .. n |-> Verts(tr, k - 1)]
  <1>1. n \in Nat
    BY GeomAssumption
  <1>2. ASSUME NEW i \in 0 .. n - 1
        PROVE  /\ i \in PrimIds /\ tr[i] \in Triangles /\ parts[i + 1] = Verts(tr, i)
               /\ Verts(tr, i) \in Seq(V) /\ Len(Verts(tr, i)) = AnnouncedFor[tr[i]]
    <2>1. i \in PrimIds /\ i \in Int /\ i + 1 \in 1 .. n /\ (i + 1) - 1 = i
      BY <1>1 DEF PrimIds
    <2>2. tr[i] \in Triangles
      BY <2>1
    <2>3. TaggedFacts(i, tr[i])
      BY <2>1, <2>2, Tagging
    <2> QED
      BY ONLY <2>1, <2>2, <2>3, Zenon DEF TaggedFacts, Verts
  <1>3. \A k \in 1 .. n : Verts(tr, k - 1) \in Seq(V)
    <2>1. ASSUME NEW k \in 1 .. n PROVE Verts(tr, k - 1) \in Seq(V)
      <3>1. k - 1 \in 0 .. n - 1
        BY <1>1
      <3> QED
        BY ONLY <1>2, <3>1, Zenon
    <2> QED
      BY <2>1
  <1>4. parts \in [1 .. n -> Seq(V)] /\ \A k \in 1 .. n : parts[k] = Verts(tr, k - 1)
    BY ONLY <1>3, Zenon
  <1>5. InDraw(tr) = FlattenSeq(parts)
    BY DEF InDraw
  <1> HIDE DEF parts
  <1>6. PICK g : Builds(V, n, parts, g) /\ FlattenSeq(parts) = g[n]
    BY <1>1, <1>4, Flattening
  <1>7. FollowsParts(V, n, parts, g)
    BY <1>6, GrowsStep
  <1>8. g \in [0 .. n -> Seq(V)] /\ g[0] = <<>>
    BY <1>6 DEF Builds, Grows
  <1>9. ASSUME NEW k \in 0 .. n PROVE Before(tr, k) = Len(g[k])
    <2> DEFINE some == [j \in 1 .. k |-> Verts(tr, j - 1)]
    <2>1. \A j \in 1 .. k : j \in 1 .. n
      BY <1>1
    <2>2. some \in [1 .. k -> Seq(V)] /\ \A j \in 1 .. k : some[j] = parts[j]
      BY ONLY <1>3, <1>4, <2>1, Zenon
    <2>3. Before(tr, k) = Len(FlattenSeq(some))
      BY DEF Before
    <2> HIDE DEF some
    <2>4. FlattenSeq(some) = g[k]
      BY <1>6, <2>2, FlattenPrefix
    <2> QED
      BY <2>3, <2>4
  <1>10. ASSUME NEW k \in 0 .. n PROVE Before(tr, k) \in Nat
    <2>1. g[k] \in Seq(V)
      BY <1>8
    <2>2. Len(g[k]) \in Nat
      BY <2>1
    <2> QED
      BY <1>9, <2>2
  <1>11. 0 \in 0 .. n /\ n \in 0 .. n /\ Len(<<>>) = 0
    BY <1>1
  <1>12. ASSUME NEW i \in PrimIds
         PROVE  /\ i \in 0 .. n - 1 /\ i \in 0 .. n /\ i + 1 \in 0 .. n /\ i + 1 <= n
                /\ Before(tr, i + 1) = Before(tr, i) + AnnouncedFor[tr[i]]
    <2>1. i \in 0 .. n - 1 /\ i \in 0 .. n /\ i + 1 \in 0 .. n /\ i + 1 <= n
      BY <1>1 DEF PrimIds
    <2>2. Len(g[i + 1]) = Len(g[i]) + Len(parts[i + 1])
      BY ONLY <1>7, <2>1, Zenon DEF FollowsParts
    <2> QED
      BY ONLY <1>2, <1>9, <2>1, <2>2, Zenon
  <1>13. ASSUME NEW j \in 0 .. n, NEW k \in 0 .. n, j <= k
         PROVE  /\ Before(tr, j) <= Before(tr, k)
                /\ \A x \in 1 .. Before(tr, j) : g[k][x] = g[j][x]
    <2>1. \A m \in 0 .. n : j <= m =>
            Len(g[j]) <= Len(g[m]) /\ \A x \in 1 .. Len(g[j]) : g[m][x] = g[j][x]
      BY <1>6, GrowsStays
    <2> QED
      BY ONLY <1>9, <1>13, <2>1, Zenon
  <1>14. ASSUME NEW i \in PrimIds, NEW x \in 1 .. AnnouncedFor[tr[i]]
         PROVE  InDraw(tr)[Before(tr, i) + x] = Verts(tr, i)[x]
    <2>1. i \in 0 .. n - 1 /\ i \in 0 .. n /\ i + 1 \in 0 .. n /\ i + 1 <= n
      BY <1>12
    <2>2. parts[i + 1] = Verts(tr, i) /\ Len(Verts(tr, i)) = AnnouncedFor[tr[i]]
      BY <1>2, <2>1
    <2>3. g[i + 1][Len(g[i]) + x] = parts[i + 1][x]
      <3>1. x \in 1 .. Len(parts[i + 1])
        BY ONLY <2>2, Zenon
      <3>2. \A y \in 1 .. Len(parts[i + 1]) : g[i + 1][Len(g[i]) + y] = parts[i + 1][y]
        BY ONLY <1>7, <2>1, Zenon DEF FollowsParts
      <3> QED
        BY ONLY <3>1, <3>2, Zenon
    <2>4. PICK b \in Nat : b = Before(tr, i)
      BY <1>10, <2>1
    <2>5. PICK e \in Nat : e = AnnouncedFor[tr[i]]
      <3>1. Len(Verts(tr, i)) \in Nat
        BY <1>2, <2>1
      <3> QED
        BY <2>2, <3>1
    <2>6. b + x \in 1 .. b + e
      BY <2>5
    <2>7. Before(tr, i + 1) = b + e
      BY <1>12, <2>4, <2>5
    <2>8. g[n][b + x] = g[i + 1][b + x]
      <3>1. \A y \in 1 .. Before(tr, i + 1) : g[n][y] = g[i + 1][y]
        BY ONLY <1>11, <1>13, <2>1, Zenon
      <3>2. b + x \in 1 .. Before(tr, i + 1)
        BY ONLY <2>6, <2>7, Zenon
      <3> QED
        BY ONLY <3>1, <3>2, Zenon
    <2> QED
      BY ONLY <1>5, <1>6, <1>9, <2>1, <2>2, <2>3, <2>4, <2>8, Zenon
  <1>15. ASSUME NEW a \in 1 .. Before(tr, n)
         PROVE  \E i \in PrimIds : Before(tr, i) < a /\ a <= Before(tr, i + 1)
    <2>1. a \in 1 .. Len(g[n])
      BY <1>9, <1>11
    <2>2. PICK k \in 0 .. n - 1 : Len(g[k]) < a /\ a <= Len(g[k + 1])
      BY <1>6, <2>1, GrowsCovers
    <2>3. k \in PrimIds /\ k \in 0 .. n /\ k + 1 \in 0 .. n
      BY <1>2, <1>12
    <2> QED
      BY ONLY <1>9, <2>2, <2>3, Zenon
  <1>16. Before(tr, 0) = 0
    BY ONLY <1>8, <1>9, <1>11, Zenon
  <1>17. Before(tr, n) = Len(InDraw(tr))
    BY ONLY <1>5, <1>6, <1>9, <1>11, Zenon
  <1> QED
    BY ONLY <1>10, <1>12, <1>13, <1>14, <1>15, <1>16, <1>17, Zenon DEF DrawFacts
-----------------------------------------------------------------------------
(***************************************************************************)
(* Packages, and the arithmetic of the division by their size.             *)
(***************************************************************************)

PS == GEOMETRY_SETUP_PACKAGE_SIZE

(* The first primitive that belongs to package p or a later one.           *)
FirstOf(p) == IF p * PS <= prim_count THEN p * PS ELSE prim_count

SetupFacts ==
  /\ PS \in Nat \ {0} /\ prim_count \in Nat \ {0} /\ package_count \in Nat
  /\ \A i \in PrimIds : i \in Nat /\ i < prim_count /\ i \div PS \in Packages
  /\ \A p \in Packages : p \in Nat /\ p + 1 \in 0 .. package_count /\ p \in 0 .. package_count
  /\ \A p \in Packages : FirstOf(p) = p * PS /\ p * PS < prim_count /\ p * PS \in Nat
  /\ \A p \in Packages : FirstOf(p + 1) <= prim_count /\ p * PS < FirstOf(p + 1) /\ FirstOf(p + 1) <= p * PS + PS
  /\ \A p \in Packages : PrimsOf(p) = p * PS .. FirstOf(p + 1) - 1
  /\ \A p \in 0 .. package_count : FirstOf(p) \in 0 .. prim_count
  /\ \A p \in 0 .. package_count : \A i \in PrimIds : i \div PS < p <=> i < FirstOf(p)
  /\ FirstOf(0) = 0 /\ FirstOf(package_count) = prim_count

(* The quotient, known by its bounds.                                      *)
LEMMA QuotientIs ==
  ASSUME NEW i \in Nat, NEW p \in Nat, NEW P \in Nat \ {0}, p * P <= i, i < p * P + P
  PROVE  i \div P = p
  <1> DEFINE q == i \div P
  <1>1. q \in Nat /\ q * P <= i /\ i < q * P + P
    BY Quotient
  <1> HIDE DEF q
  <1>2. p * P \in Nat /\ q * P \in Nat
    BY <1>1
  <1>3. CASE q < p
    <2>1. (q + 1) * P <= p * P
      BY <1>1, <1>3, ProductMonotone
    <2>2. (q + 1) * P = q * P + P
      BY <1>1
    <2> QED
      BY <1>1, <1>2, <2>1, <2>2
  <1>4. CASE p < q
    <2>1. (p + 1) * P <= q * P
      BY <1>1, <1>4, ProductMonotone
    <2>2. (p + 1) * P = p * P + P
      OBVIOUS
    <2> QED
      BY <1>1, <1>2, <2>1, <2>2
  <1> QED
    BY <1>1, <1>3, <1>4 DEF q

(* The packages are intervals of primitives, the last one perhaps shorter. *)
LEMMA SetupArithmetic == SetupFacts
  <1>1. PS \in Nat \ {0} /\ prim_count \in Nat \ {0}
    BY GeomAssumption DEF PS
  <1>2. package_count = (prim_count + PS - 1) \div PS /\ prim_count + PS - 1 \in Nat
    BY <1>1 DEF package_count, PS
  <1>3. package_count \in Nat /\ prim_count + PS - 1 < package_count * PS + PS
    BY <1>1, <1>2, Quotient
  <1>4. ASSUME NEW i \in PrimIds
        PROVE  /\ i \in Nat /\ i < prim_count /\ i \div PS \in Packages
               /\ (i \div PS) * PS <= i /\ i < (i \div PS) * PS + PS
    <2>1. i \in Nat /\ i < prim_count
      BY <1>1 DEF PrimIds
    <2>2. i \div PS \in Nat /\ (i \div PS) * PS <= i /\ i < (i \div PS) * PS + PS
      BY <1>1, <2>1, Quotient
    <2>3. i \div PS < package_count
      BY <1>1, <1>2, <2>1, QuotientBelow
    <2>4. i \div PS \in Packages
      <3>1. PICK q \in Nat : q = i \div PS
        BY <2>2
      <3>2. q \in 0 .. package_count - 1
        BY <1>3, <2>3, <3>1
      <3> QED
        BY <3>1, <3>2 DEF Packages
    <2> QED
      BY <2>1, <2>2, <2>4
  <1>5. ASSUME NEW p \in Packages
        PROVE  /\ p \in Nat /\ p + 1 \in 0 .. package_count /\ p \in 0 .. package_count
               /\ FirstOf(p) = p * PS /\ p * PS < prim_count /\ p * PS \in Nat
               /\ FirstOf(p + 1) <= prim_count /\ p * PS < FirstOf(p + 1) /\ FirstOf(p + 1) <= p * PS + PS
    <2>1. p \in Nat /\ p < package_count /\ p + 1 \in 0 .. package_count /\ p \in 0 .. package_count
      BY <1>3 DEF Packages
    <2>2. p * PS < prim_count
      BY <1>1, <1>2, <2>1, QuotientInside
    <2>3. p * PS \in Nat /\ (p + 1) * PS = p * PS + PS
      BY <1>1, <2>1
    <2>4. PICK b \in Nat : b = p * PS
      BY <2>3
    <2>5. FirstOf(p) = b
      BY <1>1, <2>2, <2>4 DEF FirstOf
    <2>6. FirstOf(p + 1) = IF b + PS <= prim_count THEN b + PS ELSE prim_count
      BY <2>3, <2>4 DEF FirstOf
    <2>7. FirstOf(p + 1) <= prim_count /\ b < FirstOf(p + 1) /\ FirstOf(p + 1) <= b + PS
      BY <1>1, <2>2, <2>4, <2>6
    <2> QED
      BY ONLY <2>1, <2>2, <2>4, <2>5, <2>7, Zenon
  <1>6. ASSUME NEW p \in 0 .. package_count PROVE FirstOf(p) \in 0 .. prim_count
    <2>1. p \in Nat /\ p * PS \in Nat
      BY <1>1
    <2>2. PICK b \in Nat : b = p * PS
      BY <2>1
    <2> QED
      BY <1>1, <2>2 DEF FirstOf
  <1>7. ASSUME NEW p \in 0 .. package_count, NEW i \in PrimIds
        PROVE  i \div PS < p <=> i < FirstOf(p)
    <2>1. PICK q \in Nat : q = i \div PS
      BY <1>3, <1>4 DEF Packages
    <2>2. i \in Nat /\ i < prim_count /\ q * PS <= i /\ i < q * PS + PS
      BY <1>4, <2>1
    <2>3. p \in Nat /\ p * PS \in Nat /\ q * PS \in Nat /\ (q + 1) * PS = q * PS + PS
      BY <1>1
    <2>4. CASE q < p
      <3>1. (q + 1) * PS <= p * PS
        BY <1>1, <2>3, <2>4, ProductMonotone
      <3>2. i < p * PS
        BY <1>1, <2>2, <2>3, <3>1
      <3>3. i < FirstOf(p)
        BY <2>2, <3>2 DEF FirstOf
      <3> QED
        BY <2>1, <2>4, <3>3
    <2>5. CASE ~(q < p)
      <3>1. p * PS <= q * PS
        BY <1>1, <2>3, <2>5, ProductMonotone
      <3>2. p * PS <= i
        BY <2>2, <2>3, <3>1
      <3>3. FirstOf(p) = p * PS
        BY <1>1, <2>2, <2>3, <3>2 DEF FirstOf
      <3>4. ~(i < FirstOf(p))
        BY <2>2, <2>3, <3>2, <3>3
      <3> QED
        BY <2>1, <2>5, <3>4
    <2> QED
      BY <2>4, <2>5
  <1>8. ASSUME NEW p \in Packages PROVE PrimsOf(p) = p * PS .. FirstOf(p + 1) - 1
    <2>1. /\ p \in Nat /\ p * PS \in Nat /\ FirstOf(p + 1) <= prim_count
          /\ FirstOf(p + 1) <= p * PS + PS /\ FirstOf(p + 1) \in Nat
      BY <1>1, <1>5, <1>6
    <2>2. ASSUME NEW i \in PrimsOf(p) PROVE i \in p * PS .. FirstOf(p + 1) - 1
      <3>1. i \in PrimIds /\ i \div PS = p
        BY DEF PrimsOf, PS
      <3>2. i \in Nat /\ p * PS <= i
        BY <1>4, <3>1
      <3>3. i < FirstOf(p + 1)
        <4>1. p < p + 1 /\ p + 1 \in 0 .. package_count
          BY <1>5
        <4> QED
          BY <1>7, <3>1, <4>1
      <3> QED
        BY <2>1, <3>2, <3>3
    <2>3. ASSUME NEW i \in p * PS .. FirstOf(p + 1) - 1 PROVE i \in PrimsOf(p)
      <3>1. i \in Nat /\ p * PS <= i /\ i < p * PS + PS /\ i < prim_count
        BY <1>1, <2>1
      <3>2. i \div PS = p
        BY <1>1, <2>1, <3>1, QuotientIs
      <3>3. i \in PrimIds
        BY <1>1, <3>1 DEF PrimIds
      <3> QED
        BY <3>2, <3>3 DEF PrimsOf, PS
    <2> QED
      BY ONLY <2>2, <2>3, Zenon
  <1>9. FirstOf(0) = 0
    BY <1>1 DEF FirstOf
  <1>10. FirstOf(package_count) = prim_count
    <2>1. package_count * PS \in Nat
      BY <1>1, <1>3
    <2>2. PICK b \in Nat : b = package_count * PS
      BY <2>1
    <2>3. prim_count <= b
      BY <1>1, <1>3, <2>2
    <2> QED
      BY <1>1, <2>2, <2>3 DEF FirstOf
  <1> QED
    BY ONLY <1>1, <1>3, <1>4, <1>5, <1>6, <1>7, <1>8, <1>9, <1>10, Zenon DEF SetupFacts
-----------------------------------------------------------------------------
(***************************************************************************)
(* Places in the sparse array and the prefix sum.                          *)
(***************************************************************************)

(* Where the vertices of primitive i of the draw tr are to be clipped to.  *)
Place(tr, i) == Sparse(i \div PS) + (Before(tr, i) - Before(tr, FirstOf(i \div PS)))

(* The place the code computes for a primitive is this one.                *)
LEMMA SparseStartIs ==
  ASSUME tri \in [PrimIds -> Triangles], NEW i \in PrimIds
  PROVE  SparseStart(i) = Place(tri, i)
  <1> DEFINE n == prim_count
             p == i \div PS
             c == [k \in 0 .. n - 1 |-> AnnouncedFor[tri[k]]]
  <1>1. DrawFacts(tri)
    BY DrawOrder
  <1>2. /\ n \in Nat /\ i \in Nat /\ i < n /\ p \in Packages
        /\ p * PS \in Nat /\ PrimsOf(p) = p * PS .. FirstOf(p + 1) - 1 /\ FirstOf(p + 1) <= n
        /\ p \in Nat /\ FirstOf(p + 1) \in Nat /\ FirstOf(p) = p * PS
    BY SetupArithmetic DEF SetupFacts
  <1>3. i \in PrimsOf(p)
    BY DEF PrimsOf, PS
  <1> HIDE DEF p
  <1>4. PICK a \in Nat : a = p * PS
    BY <1>2
  <1>5. i \in a .. n /\ a \in 0 .. n /\ a <= i /\ i < FirstOf(p + 1)
    BY <1>2, <1>3, <1>4
  <1>6. {k \in PrimsOf(p) : k < i} = a .. i - 1
    <2>1. PrimsOf(p) = a .. FirstOf(p + 1) - 1
      BY <1>2, <1>4
    <2> QED
      BY <1>2, <1>5, <2>1
  <1>7. PrimIds = 0 .. n - 1
    BY DEF PrimIds
  <1>8. c \in [0 .. n - 1 -> Nat] /\ \A k \in 0 .. n - 1 : c[k] = AnnouncedFor[tri[k]]
    <2>1. ASSUME NEW k \in 0 .. n - 1 PROVE AnnouncedFor[tri[k]] \in Nat
      <3>1. k \in Int /\ tri[k] \in Triangles
        BY <1>2, <1>7
      <3>2. TaggedFacts(k, tri[k])
        BY <3>1, Tagging
      <3> QED
        BY <3>2 DEF TaggedFacts
    <2> QED
      BY <2>1
  <1> HIDE DEF c
  <1>9. a .. i - 1 \in SUBSET (0 .. n - 1)
    BY <1>2, <1>4
  <1>10. FoldSet(LAMBDA k, s : s + AnnouncedFor[tri[k]], 0, a .. i - 1) = Weight(n, c, a .. i - 1)
    <2>1. n \in Nat
      BY <1>2
    <2> QED
      BY ONLY <1>8, <1>9, <2>1, SumOfAnnounced
  <1> DEFINE D == [k \in a .. i |-> Before(tri, k)]
  <1>11. \A k \in a .. i : k \in 0 .. n
    BY <1>2, <1>5
  <1>12. D \in [a .. i -> Nat] /\ \A k \in a .. i : D[k] = Before(tri, k)
    <2>1. \A k \in 0 .. n : Before(tri, k) \in Nat
      BY <1>1 DEF DrawFacts
    <2> QED
      BY ONLY <1>11, <2>1, Zenon
  <1> HIDE DEF D
  <1>13. \A k \in a .. i - 1 : D[k + 1] = D[k] + c[k]
    <2>1. ASSUME NEW k \in a .. i - 1 PROVE D[k + 1] = D[k] + c[k]
      <3>1. k \in 0 .. n - 1 /\ k \in a .. i /\ k + 1 \in a .. i
        BY <1>2, <1>5
      <3>2. Before(tri, k + 1) = Before(tri, k) + AnnouncedFor[tri[k]]
        BY ONLY <1>1, <1>7, <3>1, Zenon DEF DrawFacts
      <3> QED
        BY ONLY <1>8, <1>12, <3>1, <3>2, Zenon
    <2> QED
      BY <2>1
  <1>14. Weight(n, c, a .. i - 1) = D[i] - D[a]
    BY <1>2, <1>5, <1>8, <1>12, <1>13, WeightOfInterval
  <1>15. D[i] = Before(tri, i) /\ D[a] = Before(tri, a)
    <2>1. i \in a .. i /\ a \in a .. i
      BY <1>2, <1>5
    <2> QED
      BY <1>12, <2>1
  <1>16. SparseStart(i) = Sparse(p) + FoldSet(LAMBDA k, s : s + AnnouncedFor[tri[k]], 0, {k \in PrimsOf(p) : k < i})
    BY DEF SparseStart, p, PS
  <1>17. Place(tri, i) = Sparse(p) + (Before(tri, i) - Before(tri, a))
    BY <1>2, <1>4 DEF Place, p
  <1> QED
    BY <1>6, <1>10, <1>14, <1>15, <1>16, <1>17

(* The number of vertices of the packages below p.                         *)
LEMMA SumBelowIs ==
  ASSUME NEW tr \in [PrimIds -> Triangles], count \in [Packages -> Nat],
         \A p \in Packages : count[p] = Before(tr, FirstOf(p + 1)) - Before(tr, FirstOf(p)),
         NEW p \in 0 .. package_count
  PROVE  SumBelow(p) = Before(tr, FirstOf(p))
  <1> DEFINE n == package_count
  <1>1. DrawFacts(tr)
    BY DrawOrder
  <1>2. /\ n \in Nat /\ FirstOf(0) = 0
        /\ \A q \in 0 .. n : FirstOf(q) \in 0 .. prim_count
    BY SetupArithmetic DEF SetupFacts
  <1>3. Packages = 0 .. n - 1 /\ count \in [0 .. n - 1 -> Nat]
    BY DEF Packages
  <1>4. p \in Nat /\ 0 \in 0 .. n /\ p \in 0 .. n /\ 0 .. p - 1 \in SUBSET (0 .. n - 1)
    BY <1>2
  <1>5. SumBelow(p) = FoldSet(LAMBDA q, s : s + count[q], 0, 0 .. p - 1)
    BY DEF SumBelow
  <1>6. FoldSet(LAMBDA q, s : s + count[q], 0, 0 .. p - 1) = Weight(n, count, 0 .. p - 1)
    BY <1>2, <1>3, <1>4, SumOfCounts
  <1> DEFINE D == [k \in 0 .. p |-> Before(tr, FirstOf(k))]
  <1>7. ASSUME NEW k \in 0 .. n PROVE Before(tr, FirstOf(k)) \in Nat
    BY <1>1, <1>2 DEF DrawFacts
  <1>8. \A k \in 0 .. p : k \in 0 .. n
    BY <1>2, <1>4
  <1>9. D \in [0 .. p -> Nat] /\ \A k \in 0 .. p : D[k] = Before(tr, FirstOf(k))
    BY ONLY <1>7, <1>8, Zenon
  <1> HIDE DEF D
  <1>10. \A k \in 0 .. p - 1 : D[k + 1] = D[k] + count[k]
    <2>1. ASSUME NEW k \in 0 .. p - 1 PROVE D[k + 1] = D[k] + count[k]
      <3>1. k \in Packages /\ k \in 0 .. p /\ k + 1 \in 0 .. p
        BY <1>2, <1>3, <1>4
      <3>2. PICK d \in Nat, e \in Nat : d = D[k] /\ e = D[k + 1]
        BY <1>9, <3>1
      <3>3. count[k] = Before(tr, FirstOf(k + 1)) - Before(tr, FirstOf(k))
        BY <3>1
      <3>4. Before(tr, FirstOf(k + 1)) = e /\ Before(tr, FirstOf(k)) = d
        BY <1>9, <3>1, <3>2
      <3>5. count[k] = e - d
        BY <3>3, <3>4
      <3> QED
        BY ONLY <3>2, <3>5
    <2> QED
      BY <2>1
  <1>11. Weight(n, count, 0 .. p - 1) = D[p] - D[0]
    <2>1. p \in 0 .. n /\ 0 \in 0 .. n
      BY <1>4
    <2> QED
      BY <1>2, <1>3, <1>9, <1>10, <2>1, WeightOfInterval
  <1>12. D[p] = Before(tr, FirstOf(p)) /\ D[0] = 0 /\ D[p] \in Nat
    <2>1. 0 \in 0 .. p /\ p \in 0 .. p
      BY <1>4
    <2>2. D[0] = Before(tr, FirstOf(0)) /\ D[p] = Before(tr, FirstOf(p)) /\ D[p] \in Nat
      BY <1>9, <2>1
    <2>3. Before(tr, FirstOf(0)) = 0
      BY <1>1, <1>2 DEF DrawFacts
    <2> QED
      BY <2>2, <2>3
  <1>13. SumBelow(p) = D[p] - D[0]
    BY <1>5, <1>6, <1>11
  <1> QED
    BY ONLY <1>12, <1>13

(* The vertices of the primitives of the packages below p.                 *)
LEMMA FlattenBelow ==
  ASSUME NEW tr \in [PrimIds -> Triangles], NEW p \in 0 .. package_count
  PROVE  Len(FlattenSeq([k \in 1 .. prim_count |-> IF (k - 1) \div PS < p THEN Verts(tr, k - 1) ELSE <<>>]))
           = Before(tr, FirstOf(p))
  <1> DEFINE n == prim_count
             V == Int \X Int
             part(k) == IF (k - 1) \div PS < p THEN Verts(tr, k - 1) ELSE <<>>
             parts == [k \in 1 .. n |-> part(k)]
  <1>1. n \in Nat /\ FirstOf(p) \in 0 .. n
    BY SetupArithmetic DEF SetupFacts
  <1>2. PICK m \in 0 .. n : m = FirstOf(p)
    BY <1>1
  <1>3. ASSUME NEW k \in 1 .. n
        PROVE  /\ Verts(tr, k - 1) \in Seq(V)
               /\ IF k <= m THEN part(k) = Verts(tr, k - 1) ELSE part(k) = <<>>
    <2>1. k - 1 \in PrimIds /\ k - 1 \in Int /\ (k - 1 < m <=> k <= m)
      BY <1>1 DEF PrimIds
    <2>2. (k - 1) \div PS < p <=> k - 1 < m
      BY <1>2, <2>1, SetupArithmetic DEF SetupFacts
    <2>3. tr[k - 1] \in Triangles
      BY <2>1
    <2>4. TaggedFacts(k - 1, tr[k - 1])
      BY <2>1, <2>3, Tagging
    <2>5. Verts(tr, k - 1) \in Seq(V)
      BY ONLY <2>4, Zenon DEF TaggedFacts, Verts
    <2> QED
      BY <2>1, <2>2, <2>5
  <1> HIDE DEF part
  <1>4. \A k \in 1 .. n : part(k) \in Seq(V)
    <2>1. <<>> \in Seq(V)
      OBVIOUS
    <2> QED
      BY ONLY <1>3, <2>1, Zenon
  <1>5. parts \in [1 .. n -> Seq(V)] /\ \A k \in 1 .. n : parts[k] = part(k)
    BY ONLY <1>4, Zenon
  <1> HIDE DEF parts
  <1>6. PICK g : Builds(V, n, parts, g) /\ FlattenSeq(parts) = g[n]
    BY <1>1, <1>5, Flattening
  <1>7. FollowsParts(V, n, parts, g)
    BY <1>6, GrowsStep
  <1>8. g \in [0 .. n -> Seq(V)]
    BY <1>6 DEF Builds
  <1> DEFINE some == [j \in 1 .. m |-> Verts(tr, j - 1)]
  <1>9. \A j \in 1 .. m : j \in 1 .. n /\ j <= m
    BY <1>1
  <1>10. some \in [1 .. m -> Seq(V)] /\ \A j \in 1 .. m : some[j] = parts[j]
    BY ONLY <1>3, <1>5, <1>9, Zenon
  <1>11. Before(tr, m) = Len(FlattenSeq(some))
    BY DEF Before
  <1> HIDE DEF some
  <1>12. FlattenSeq(some) = g[m]
    BY <1>6, <1>10, FlattenPrefix
  <1> DEFINE T == {k \in Nat : k >= m => Len(g[k]) = Len(g[m])}
  <1>13. T \in SUBSET Nat /\ 0 \in T
    <2>1. 0 >= m => m = 0
      BY <1>1
    <2>2. 0 >= m => Len(g[0]) = Len(g[m])
      BY ONLY <2>1, Zenon
    <2> QED
      BY <2>2
  <1>14. \A k \in Nat : k \in T <=> (k >= m => Len(g[k]) = Len(g[m]))
    OBVIOUS
  <1> HIDE DEF T
  <1>15. ASSUME NEW k \in 0 .. n - 1, k \in T PROVE k + 1 \in T
    <2>1. k \in Nat /\ k + 1 \in Nat /\ k + 1 \in 1 .. n /\ k \in 0 .. n
      BY <1>1
    <2> SUFFICES ASSUME k + 1 >= m PROVE Len(g[k + 1]) = Len(g[m])
      BY <1>14, <2>1
    <2>2. CASE k + 1 = m
      BY <2>2
    <2>3. CASE k + 1 # m
      <3>1. k >= m /\ ~(k + 1 <= m)
        BY <1>1, <2>1, <2>3
      <3>2. Len(g[k]) = Len(g[m])
        BY <1>14, <1>15, <2>1, <3>1
      <3>3. parts[k + 1] = <<>>
        BY ONLY <1>3, <1>5, <2>1, <3>1, Zenon
      <3>4. Len(g[k + 1]) = Len(g[k]) + Len(parts[k + 1])
        BY ONLY <1>7, <1>15, Zenon DEF FollowsParts
      <3>5. Len(<<>>) = 0
        OBVIOUS
      <3>6. Len(g[k + 1]) = Len(g[m]) + 0
        BY ONLY <3>2, <3>3, <3>4, <3>5, Zenon
      <3>7. g[m] \in Seq(V)
        BY <1>8
      <3>8. Len(g[m]) \in Nat
        BY <3>7
      <3>9. Len(g[m]) + 0 = Len(g[m])
        BY ONLY <3>8
      <3> QED
        BY ONLY <3>6, <3>9, Zenon
    <2> QED
      BY <2>2, <2>3
  <1>16. \A k \in 0 .. n : k \in T
    BY <1>1, <1>13, <1>15, UpTo
  <1>17. n \in 0 .. n /\ n \in Nat /\ n >= m
    BY <1>1
  <1>18. Len(g[n]) = Len(g[m])
    BY <1>14, <1>16, <1>17
  <1>19. FlattenSeq([k \in 1 .. prim_count |-> IF (k - 1) \div PS < p THEN Verts(tr, k - 1) ELSE <<>>]) = g[n]
    BY <1>6 DEF parts, part
  <1> QED
    BY ONLY <1>2, <1>11, <1>12, <1>18, <1>19, Zenon
-----------------------------------------------------------------------------
(***************************************************************************)
(* How far apart the places of the primitives are.                         *)
(***************************************************************************)

(* A primitive announces at most nine vertices.                            *)
LEMMA AtMostNine ==
  ASSUME NEW tr \in [PrimIds -> Triangles], NEW a \in 0 .. prim_count, NEW b \in a .. prim_count
  PROVE  Before(tr, b) <= Before(tr, a) + 9 * (b - a)
  <1> DEFINE n == prim_count
             T == {k \in Nat : k >= a /\ k <= n => Before(tr, k) <= Before(tr, a) + 9 * (k - a)}
  <1>1. n \in Nat /\ PrimIds = 0 .. n - 1
    BY GeomAssumption DEF PrimIds
  <1>2. DrawFacts(tr)
    BY DrawOrder
  <1>3. \A k \in 0 .. n : Before(tr, k) \in Nat
    BY ONLY <1>2, Zenon DEF DrawFacts
  <1>4. \A k \in Nat : k \in T <=> (k >= a /\ k <= n => Before(tr, k) <= Before(tr, a) + 9 * (k - a))
    OBVIOUS
  <1>5. T \in SUBSET Nat /\ 0 \in T
    <2>1. 0 >= a => a = 0
      BY <1>1
    <2> QED
      BY <1>1, <1>3, <2>1
  <1> HIDE DEF T
  <1>6. ASSUME NEW k \in 0 .. n - 1, k \in T PROVE k + 1 \in T
    <2>1. k \in PrimIds /\ k \in 0 .. n /\ k + 1 \in 0 .. n /\ k \in Nat /\ k + 1 \in Nat /\ k \in Int
      BY <1>1
    <2>2. AnnouncedFor[tr[k]] \in 0 .. 9
      <3>1. tr[k] \in Triangles
        BY <2>1
      <3>2. TaggedFacts(k, tr[k])
        BY <2>1, <3>1, Tagging
      <3> QED
        BY ONLY <3>2, Zenon DEF TaggedFacts
    <2>3. Before(tr, k + 1) = Before(tr, k) + AnnouncedFor[tr[k]]
      BY ONLY <1>2, <2>1, Zenon DEF DrawFacts
    <2>4. PICK u \in Nat, v \in Nat, w \in 0 .. 9, x \in Nat :
            u = Before(tr, k) /\ v = Before(tr, k + 1) /\ w = AnnouncedFor[tr[k]] /\ x = Before(tr, a)
      BY <1>3, <2>1, <2>2
    <2>5. v = u + w
      BY ONLY <2>3, <2>4
    <2>6. k >= a /\ k <= n => u <= x + 9 * (k - a)
      BY <1>4, <1>6, <2>1, <2>4
    <2>7. k + 1 >= a => v <= x + 9 * (k + 1 - a)
      <3>1. CASE k + 1 = a
        BY ONLY <2>4, <3>1
      <3>2. CASE k + 1 > a
        BY <1>1, <2>5, <2>6, <3>2
      <3> QED
        BY <1>1, <3>1, <3>2
    <2> QED
      BY <1>4, <2>1, <2>4, <2>7
  <1>7. \A k \in 0 .. n : k \in T
    BY <1>1, <1>5, <1>6, UpTo
  <1>8. b \in 0 .. n /\ b \in Nat /\ b >= a /\ b <= n
    BY <1>1
  <1> QED
    BY <1>4, <1>7, <1>8

(* Where the vertices of the primitives lie in the sparse array.           *)
PlacesFit(tr) ==
  /\ \A i \in PrimIds : /\ AnnouncedFor[tr[i]] \in Nat /\ Len(WrittenFor[tr[i]]) \in Nat
                        /\ AnnouncedFor[tr[i]] <= Len(WrittenFor[tr[i]])
  /\ \A p, q \in Nat : p < q => Sparse(p + 1) <= Sparse(q)
  /\ \A p \in Nat : Sparse(p) \in Nat
  /\ \A i \in PrimIds : /\ Place(tr, i) \in Nat /\ Sparse(i \div PS) <= Place(tr, i)
                        /\ Place(tr, i) + AnnouncedFor[tr[i]] <= Capacity
                        /\ Place(tr, i) + AnnouncedFor[tr[i]] <= Sparse(i \div PS + 1)
  /\ \A i, j \in PrimIds : i < j /\ i \div PS = j \div PS =>
                             Place(tr, i) + AnnouncedFor[tr[i]] <= Place(tr, j)

(* So the places of the primitives follow one another inside the array.    *)
LEMMA PlacesOfDraw ==
  ASSUME NEW tr \in [PrimIds -> Triangles]
  PROVE  PlacesFit(tr)
  <1> DEFINE n == prim_count
  <1>1. PS \in Nat \ {0} /\ n \in Nat
    BY SetupArithmetic DEF SetupFacts
  <1>2. DrawFacts(tr)
    BY DrawOrder
  <1>3. \A k \in 0 .. n : Before(tr, k) \in Nat
    BY ONLY <1>2, Zenon DEF DrawFacts
  <1>4. ASSUME NEW p \in Nat PROVE Sparse(p) = 9 * (p * PS) /\ Sparse(p) \in Nat /\ p * PS \in Nat
    <2>1. p * PS \in Nat
      BY <1>1
    <2> QED
      BY <1>1, <2>1 DEF Sparse, PS
  <1>5. ASSUME NEW p \in Nat, NEW q \in Nat, p < q PROVE Sparse(p + 1) <= Sparse(q)
    <2>1. (p + 1) * PS <= q * PS
      BY <1>1, <1>5, ProductMonotone
    <2>2. PICK a \in Nat, b \in Nat : a = (p + 1) * PS /\ b = q * PS
      BY <1>4
    <2>3. Sparse(p + 1) = 9 * a /\ Sparse(q) = 9 * b
      BY <1>4, <2>2
    <2> QED
      BY ONLY <2>1, <2>2, <2>3
  <1>6. ASSUME NEW i \in PrimIds
        PROVE  /\ AnnouncedFor[tr[i]] \in Nat /\ Len(WrittenFor[tr[i]]) \in Nat
               /\ AnnouncedFor[tr[i]] <= Len(WrittenFor[tr[i]])
               /\ Before(tr, i + 1) = Before(tr, i) + AnnouncedFor[tr[i]]
    <2>1. i \in Int /\ tr[i] \in Triangles
      BY DEF PrimIds
    <2>2. TaggedFacts(i, tr[i])
      BY <2>1, Tagging
    <2>3. /\ AnnouncedFor[tr[i]] \in 0 .. 9 /\ Len(WrittenFor[tr[i]]) \in Nat
          /\ AnnouncedFor[tr[i]] <= Len(WrittenFor[tr[i]])
      BY ONLY <2>2, Zenon DEF TaggedFacts
    <2>4. Before(tr, i + 1) = Before(tr, i) + AnnouncedFor[tr[i]]
      BY ONLY <1>2, Zenon DEF DrawFacts
    <2> QED
      BY ONLY <2>3, <2>4
  <1>7. ASSUME NEW i \in PrimIds, NEW p, p = i \div PS
        PROVE  /\ p \in Nat /\ p * PS \in 0 .. n /\ i \in p * PS .. n /\ i + 1 \in p * PS .. n /\ FirstOf(p) = p * PS
               /\ i + 1 <= p * PS + PS
    <2>1. p \in Packages /\ i \in Nat /\ i < n
      BY ONLY <1>7, SetupArithmetic DEF SetupFacts
    <2>2. i \in PrimsOf(p)
      BY <1>7 DEF PrimsOf, PS
    <2>3. /\ p \in Nat /\ p * PS \in Nat /\ FirstOf(p) = p * PS /\ FirstOf(p + 1) <= n /\ FirstOf(p + 1) \in 0 .. n
          /\ PrimsOf(p) = p * PS .. FirstOf(p + 1) - 1 /\ p * PS < n /\ FirstOf(p + 1) <= p * PS + PS
      BY ONLY <2>1, SetupArithmetic, Zenon DEF SetupFacts
    <2>4. PICK a \in Nat : a = p * PS
      BY <2>3
    <2>5. i \in a .. FirstOf(p + 1) - 1 /\ a < n
      BY <2>2, <2>3, <2>4
    <2>6. a \in 0 .. n /\ i \in a .. n /\ i + 1 \in a .. n
      BY <1>1, <2>1, <2>5
    <2>7. i + 1 <= a + PS
      <3>1. PICK l \in 0 .. n : l = FirstOf(p + 1)
        BY ONLY <2>3
      <3>2. i \in a .. l - 1 /\ l <= a + PS
        BY ONLY <2>3, <2>4, <2>5, <3>1, Zenon
      <3> QED
        BY ONLY <1>1, <3>1, <3>2
    <2> QED
      BY ONLY <2>3, <2>4, <2>6, <2>7
  <1>8. ASSUME NEW i \in PrimIds
        PROVE  \E a \in 0 .. n :
                 /\ i \in a .. n /\ i + 1 \in a .. n /\ Sparse(i \div PS) = 9 * a /\ FirstOf(i \div PS) = a
                 /\ i + 1 <= a + PS /\ Sparse(i \div PS + 1) = 9 * (a + PS)
                 /\ Place(tr, i) = 9 * a + (Before(tr, i) - Before(tr, a))
    <2>1. PICK p : p = i \div PS
      OBVIOUS
    <2>2. PICK a \in 0 .. n : a = p * PS
      BY <1>7, <2>1
    <2>3. p \in Nat /\ i \in a .. n /\ i + 1 \in a .. n /\ FirstOf(p) = a /\ i + 1 <= a + PS
      BY ONLY <1>7, <2>1, <2>2
    <2>4. Sparse(p) = 9 * a
      BY <1>4, <2>2, <2>3
    <2>5. Sparse(p + 1) = 9 * (a + PS)
      <3>1. (p + 1) * PS = a + PS
        BY ONLY <1>1, <2>2, <2>3
      <3>2. p + 1 \in Nat
        BY ONLY <2>3
      <3> QED
        BY ONLY <1>4, <3>1, <3>2
    <2> QED
      BY ONLY <2>1, <2>3, <2>4, <2>5 DEF Place
  <1>9. ASSUME NEW i \in PrimIds
        PROVE  /\ Place(tr, i) \in Nat /\ Sparse(i \div PS) <= Place(tr, i)
               /\ Place(tr, i) + AnnouncedFor[tr[i]] <= Capacity
               /\ Place(tr, i) + AnnouncedFor[tr[i]] <= Sparse(i \div PS + 1)
    <2>1. PICK a \in 0 .. n :
            /\ i \in a .. n /\ i + 1 \in a .. n /\ Sparse(i \div PS) = 9 * a
            /\ i + 1 <= a + PS /\ Sparse(i \div PS + 1) = 9 * (a + PS)
            /\ Place(tr, i) = 9 * a + (Before(tr, i) - Before(tr, a))
      BY <1>8
    <2>2. Before(tr, i + 1) <= Before(tr, a) + 9 * (i + 1 - a)
      BY <2>1, AtMostNine
    <2>3. i \in 0 .. n /\ i + 1 \in 0 .. n /\ a <= i /\ i + 1 <= n /\ i \in Nat
      BY <1>1, <2>1
    <2>4. Before(tr, a) <= Before(tr, i)
      BY ONLY <1>2, <2>1, <2>3, Zenon DEF DrawFacts
    <2>5. PICK x \in Nat, y \in Nat, z \in Nat, w \in Nat :
            x = Before(tr, a) /\ y = Before(tr, i) /\ z = Before(tr, i + 1) /\ w = AnnouncedFor[tr[i]]
      BY <1>3, <1>6, <2>1, <2>3
    <2>6. z = y + w /\ x <= y /\ z <= x + 9 * (i + 1 - a) /\ Place(tr, i) = 9 * a + (y - x)
      BY ONLY <1>6, <2>1, <2>2, <2>4, <2>5
    <2>7. Capacity = n * 3 * 3
      BY DEF Capacity
    <2> QED
      BY ONLY <1>1, <2>1, <2>3, <2>5, <2>6, <2>7
  <1>10. ASSUME NEW i \in PrimIds, NEW j \in PrimIds, i < j, i \div PS = j \div PS
         PROVE  Place(tr, i) + AnnouncedFor[tr[i]] <= Place(tr, j)
    <2>1. PICK a \in 0 .. n :
            /\ i \in a .. n /\ i + 1 \in a .. n /\ FirstOf(i \div PS) = a
            /\ Place(tr, i) = 9 * a + (Before(tr, i) - Before(tr, a))
      BY <1>8
    <2>2. PICK b \in 0 .. n :
            /\ j \in b .. n /\ FirstOf(j \div PS) = b
            /\ Place(tr, j) = 9 * b + (Before(tr, j) - Before(tr, b))
      BY <1>8
    <2>3. a = b
      BY ONLY <1>10, <2>1, <2>2
    <2>4. i \in 0 .. n /\ i + 1 \in 0 .. n /\ j \in 0 .. n /\ i + 1 <= j
      BY <1>1, <1>10, <2>1, <2>2
    <2>5. Before(tr, i + 1) <= Before(tr, j)
      BY ONLY <1>2, <2>4, Zenon DEF DrawFacts
    <2>6. PICK x \in Nat, y \in Nat, z \in Nat, u \in Nat, w \in Nat :
            x = Before(tr, a) /\ y = Before(tr, i) /\ z = Before(tr, i + 1) /\ u = Before(tr, j) /\ w = AnnouncedFor[tr[i]]
      BY <1>3, <1>6, <2>1, <2>4
    <2>7. z = y + w /\ z <= u /\ Place(tr, i) = 9 * a + (y - x) /\ Place(tr, j) = 9 * a + (u - x)
      BY ONLY <1>6, <2>1, <2>2, <2>3, <2>5, <2>6
    <2> QED
      BY ONLY <2>1, <2>6, <2>7
  <1>11. \A i \in PrimIds : /\ AnnouncedFor[tr[i]] \in Nat /\ Len(WrittenFor[tr[i]]) \in Nat
                            /\ AnnouncedFor[tr[i]] <= Len(WrittenFor[tr[i]])
    BY <1>6
  <1>12. \A p \in Nat : Sparse(p) \in Nat
    BY <1>4
  <1> QED
    BY ONLY <1>5, <1>9, <1>10, <1>11, <1>12, Zenon DEF PlacesFit

(* No primitive is written beyond the places of its package.               *)
NoSpill(tr) == \A i \in PrimIds : Place(tr, i) + Len(WrittenFor[tr[i]]) <= Sparse(i \div PS + 1)

(* The places another primitive is written to, j in its own package being  *)
(* a later one, are none of those of primitive i.                          *)
LEMMA NoOverlap ==
  ASSUME NEW tr \in [PrimIds -> Triangles], NoSpill(tr), NEW i \in PrimIds, NEW j \in PrimIds,
         i \div PS = j \div PS => i < j, NEW x \in 1 .. AnnouncedFor[tr[i]]
  PROVE  /\ Place(tr, i) + (x - 1) \in Memory
         /\ Place(tr, i) + (x - 1) \notin Place(tr, j) .. Place(tr, j) + Len(WrittenFor[tr[j]]) - 1
  <1>1. PlacesFit(tr)
    BY PlacesOfDraw
  <1>2. PICK p \in Nat, q \in Nat : p = i \div PS /\ q = j \div PS
    <2>1. i \div PS \in Packages /\ j \div PS \in Packages
      BY ONLY SetupArithmetic DEF SetupFacts
    <2> QED
      BY <2>1 DEF Packages
  <1>3. /\ AnnouncedFor[tr[i]] \in Nat /\ Len(WrittenFor[tr[i]]) \in Nat /\ Len(WrittenFor[tr[j]]) \in Nat
        /\ AnnouncedFor[tr[i]] <= Len(WrittenFor[tr[i]])
        /\ Place(tr, i) \in Nat /\ Place(tr, j) \in Nat
        /\ Sparse(i \div PS) <= Place(tr, i) /\ Sparse(j \div PS) <= Place(tr, j)
        /\ Place(tr, i) + AnnouncedFor[tr[i]] <= Capacity
    BY ONLY <1>1, Zenon DEF PlacesFit
  <1>4. PICK pi \in Nat, pj \in Nat, ai \in Nat, wi \in Nat, wj \in Nat :
          /\ pi = Place(tr, i) /\ pj = Place(tr, j) /\ ai = AnnouncedFor[tr[i]]
          /\ wi = Len(WrittenFor[tr[i]]) /\ wj = Len(WrittenFor[tr[j]])
    BY <1>3
  <1>5. ai <= wi /\ Sparse(p) <= pi /\ Sparse(q) <= pj /\ pi + ai <= Capacity /\ x \in 1 .. ai
    BY ONLY <1>2, <1>3, <1>4, x \in 1 .. AnnouncedFor[tr[i]]
  <1>a. x \in Int /\ 1 <= x /\ x <= wi /\ pi \in Nat /\ pj \in Nat /\ wi \in Nat /\ wj \in Nat
    BY ONLY <1>5
  <1>b. ai \in Nat /\ x <= ai /\ pi + ai <= Capacity
    BY ONLY <1>5
  <1>6. pi + wi <= Sparse(p + 1) /\ pj + wj <= Sparse(q + 1)
    BY ONLY <1>2, <1>4, NoSpill(tr), i \in PrimIds, j \in PrimIds DEF NoSpill
  <1>7. \A k \in Nat : Sparse(k) \in Nat
    BY ONLY <1>1, Zenon DEF PlacesFit
  <1>8. pi + (x - 1) \in Memory
    <2>1. Capacity \in Nat
      BY GeomAssumption DEF Capacity
    <2> QED
      BY ONLY <1>a, <1>b, <2>1 DEF Memory
  <1> DEFINE Apart == pi + (x - 1) \notin pj .. pj + wj - 1
  <1>9. ASSUME p = q PROVE Apart
    <2>1. i < j
      BY <1>2, <1>9
    <2>2. Place(tr, i) + AnnouncedFor[tr[i]] <= Place(tr, j)
      BY ONLY <1>1, <1>2, <1>9, <2>1, i \in PrimIds, j \in PrimIds DEF PlacesFit
    <2>3. pi + ai <= pj
      BY ONLY <1>4, <2>2
    <2> QED
      BY ONLY <1>a, <1>b, <2>3
  <1>10. ASSUME p < q PROVE Apart
    <2>1. Sparse(p + 1) <= Sparse(q)
      BY ONLY <1>1, <1>2, <1>10, Zenon DEF PlacesFit
    <2>2. PICK s \in Nat, u \in Nat : s = Sparse(p + 1) /\ u = Sparse(q)
      BY <1>7
    <2>3. pi + wi <= s /\ s <= u /\ u <= pj
      BY ONLY <1>5, <1>6, <2>1, <2>2, Zenon
    <2> QED
      BY ONLY <1>a, <2>3
  <1>11. ASSUME q < p PROVE Apart
    <2>1. Sparse(q + 1) <= Sparse(p)
      BY ONLY <1>1, <1>2, <1>11, Zenon DEF PlacesFit
    <2>2. PICK s \in Nat, u \in Nat : s = Sparse(q + 1) /\ u = Sparse(p)
      BY <1>7
    <2>3. pj + wj <= s /\ s <= u /\ u <= pi
      BY ONLY <1>5, <1>6, <2>1, <2>2, Zenon
    <2> QED
      BY ONLY <1>a, <2>3
  <1>12. Apart
    BY ONLY <1>2, <1>9, <1>10, <1>11
  <1>13. Place(tr, i) + (x - 1) \notin Place(tr, j) .. Place(tr, j) + Len(WrittenFor[tr[j]]) - 1
    BY ONLY <1>4, <1>12, Zenon DEF Apart
  <1> QED
    BY ONLY <1>4, <1>8, <1>13, Zenon
-----------------------------------------------------------------------------
(***************************************************************************)
(* The inductive invariant of the geometry setup.                          *)
(***************************************************************************)

GeomTypeOK ==
  /\ tri \in [PrimIds -> Triangles]
  /\ setup_package \in 0 .. package_count
  /\ todo \in [SetupThreads -> SUBSET PrimIds]
  /\ cursor \in [SetupThreads -> Nat]
  /\ count \in [Packages -> Nat]
  /\ copied \subseteq Packages
  /\ DOMAIN clipped = Memory

(* Thread t is at primitive j of package p, with the vertices of those     *)
(* before it counted and its cursor after them.                            *)
WorksAt(t, p, j) ==
  /\ p < setup_package /\ FirstOf(p) <= j /\ j < FirstOf(p + 1)
  /\ todo[t] = j .. FirstOf(p + 1) - 1
  /\ count[p] = Before(tri, j) - Before(tri, FirstOf(p))
  /\ cursor[t] = Sparse(p) + count[p]
TodoOk == \A t \in SetupThreads : todo[t] # {} => \E p \in Packages : \E j \in PrimIds : WorksAt(t, p, j)

(* No two threads are at work on one package.                              *)
ApartOk ==
  \A t, u \in SetupThreads : t # u => \A i \in todo[t], j \in todo[u] : i \div PS # j \div PS

(* A package that no thread is at work on any longer is counted.           *)
Finished(p) == p < setup_package /\ \A t \in SetupThreads : \A i \in todo[t] : i \div PS # p
CountsOk ==
  \A p \in Packages : Finished(p) => count[p] = Before(tri, FirstOf(p + 1)) - Before(tri, FirstOf(p))

(* The vertices of the primitives clipped are at their places and stay.    *)
Clipped(i) == i \div PS < setup_package /\ \A t \in SetupThreads : i \notin todo[t]
InPlace(i) == \A x \in 1 .. AnnouncedFor[tri[i]] : clipped[Place(tri, i) + (x - 1)] = Verts(tri, i)[x]
ClippedOk == NoSpill(tri) => \A i \in PrimIds : Clipped(i) => InPlace(i)

AddressOk ==
  \/ address = <<>> /\ copied = {}
  \/ /\ ~Clipping
     /\ address = [p \in 0 .. package_count |-> Before(tri, FirstOf(p))]
     /\ DOMAIN compacted = 0 .. Before(tri, prim_count) - 1
CopiedOk ==
  \A p \in copied : \A a \in address[p] .. address[p] + count[p] - 1 :
    compacted[a] = clipped[Sparse(p) + (a - address[p])]

GInv == GeomTypeOK /\ TodoOk /\ ApartOk /\ CountsOk /\ ClippedOk /\ AddressOk /\ CopiedOk

(* The initial states satisfy the invariant.                               *)
LEMMA GeomStarts ==
  ASSUME GeomInit
  PROVE  GInv
  <1>1. package_count \in Nat /\ \A p \in Packages : p \in Nat
    BY SetupArithmetic, Zenon DEF SetupFacts
  <1>2. GeomTypeOK
    BY <1>1 DEF GeomInit, GeomTypeOK
  <1>3. \A t \in SetupThreads : todo[t] = {}
    BY DEF GeomInit
  <1>4. TodoOk /\ ApartOk
    BY ONLY <1>3, Zenon DEF TodoOk, ApartOk
  <1>5. CountsOk
    BY <1>1 DEF CountsOk, Finished, GeomInit
  <1>6. ClippedOk
    <2>1. \A i \in PrimIds : i \div PS \in Nat
      BY <1>1, SetupArithmetic DEF SetupFacts
    <2> QED
      BY <2>1 DEF ClippedOk, Clipped, GeomInit
  <1>7. AddressOk /\ CopiedOk
    BY DEF AddressOk, CopiedOk, GeomInit
  <1> QED
    BY ONLY <1>2, <1>4, <1>5, <1>6, <1>7, Zenon DEF GInv

(* The primitives of one package.                                          *)
LEMMA InPackage ==
  ASSUME NEW p \in Packages
  PROVE  /\ \A i \in PrimIds : i \div PS = p <=> FirstOf(p) <= i /\ i < FirstOf(p + 1)
         /\ FirstOf(p) \in 0 .. prim_count /\ FirstOf(p + 1) \in 0 .. prim_count /\ FirstOf(p) < FirstOf(p + 1)
         /\ PrimsOf(p) = FirstOf(p) .. FirstOf(p + 1) - 1 /\ FirstOf(p) \in PrimIds
         /\ p \in Nat /\ p < package_count
  <1>1. /\ p \in Nat /\ p + 1 \in 0 .. package_count /\ p \in 0 .. package_count
        /\ FirstOf(p) = p * PS /\ p * PS < FirstOf(p + 1) /\ PrimsOf(p) = p * PS .. FirstOf(p + 1) - 1
        /\ p * PS < prim_count /\ prim_count \in Nat /\ package_count \in Nat
    BY ONLY SetupArithmetic, p \in Packages, Zenon DEF SetupFacts
  <1>2. FirstOf(p) \in 0 .. prim_count /\ FirstOf(p + 1) \in 0 .. prim_count
    BY ONLY SetupArithmetic, <1>1, Zenon DEF SetupFacts
  <1>3. ASSUME NEW i \in PrimIds PROVE i \div PS = p <=> FirstOf(p) <= i /\ i < FirstOf(p + 1)
    <2>1. /\ i \div PS < p <=> i < FirstOf(p)
          /\ i \div PS < p + 1 <=> i < FirstOf(p + 1)
          /\ i \div PS \in Packages /\ i \in Nat
      BY ONLY SetupArithmetic, <1>1, i \in PrimIds, Zenon DEF SetupFacts
    <2>2. PICK q \in Nat : q = i \div PS
      BY <2>1 DEF Packages
    <2>3. (q < p <=> i < FirstOf(p)) /\ (q < p + 1 <=> i < FirstOf(p + 1))
      BY ONLY <2>1, <2>2
    <2> QED
      BY ONLY <1>1, <1>2, <2>1, <2>2, <2>3
  <1>4. PrimsOf(p) = FirstOf(p) .. FirstOf(p + 1) - 1 /\ FirstOf(p) < FirstOf(p + 1)
    BY ONLY <1>1, Zenon
  <1>5. FirstOf(p) \in PrimIds
    BY ONLY <1>1, <1>2 DEF PrimIds
  <1>6. p < package_count
    BY ONLY <1>1
  <1> QED
    BY ONLY <1>1, <1>2, <1>3, <1>4, <1>5, <1>6, Zenon

(* The thread clips the first primitive it still has.                      *)
LEMMA WorksAtIs ==
  ASSUME GeomTypeOK, NEW t \in SetupThreads, NEW p \in Packages, NEW j \in PrimIds, WorksAt(t, p, j)
  PROVE  /\ Min(todo[t]) = j /\ j \in todo[t] /\ j \div PS = p /\ cursor[t] = Place(tri, j)
         /\ \A i \in todo[t] : i \in PrimIds /\ i \div PS = p
         /\ todo[t] \ {j} = j + 1 .. FirstOf(p + 1) - 1
         /\ j \in Nat /\ j + 1 \in 0 .. prim_count
  <1>1. FirstOf(p) \in 0 .. prim_count /\ FirstOf(p + 1) \in 0 .. prim_count /\ p \in Nat
    BY InPackage
  <1>a. \A i \in PrimIds : i \div PS = p <=> FirstOf(p) <= i /\ i < FirstOf(p + 1)
    BY InPackage
  <1>2. j \in Nat /\ j + 1 \in 0 .. prim_count
    BY GeomAssumption DEF PrimIds
  <1>3. /\ FirstOf(p) <= j /\ j < FirstOf(p + 1) /\ todo[t] = j .. FirstOf(p + 1) - 1
        /\ count[p] = Before(tri, j) - Before(tri, FirstOf(p))
        /\ cursor[t] = Sparse(p) + count[p]
    BY DEF WorksAt
  <1>4. j \in todo[t] /\ todo[t] \ {j} = j + 1 .. FirstOf(p + 1) - 1 /\ todo[t] \subseteq Int
    BY ONLY <1>1, <1>2, <1>3
  <1>5. Min(todo[t]) = j
    <2>1. \A x \in todo[t] : j <= x
      BY ONLY <1>1, <1>2, <1>3
    <2> QED
      BY <1>4, <2>1, MinIs
  <1>6. ASSUME NEW i \in todo[t] PROVE i \in PrimIds /\ i \div PS = p
    <2>1. FirstOf(p) <= i /\ i < FirstOf(p + 1) /\ i \in 0 .. prim_count - 1
      BY ONLY <1>1, <1>2, <1>3, GeomAssumption, i \in todo[t]
    <2>2. i \in PrimIds
      BY <2>1 DEF PrimIds
    <2> QED
      BY ONLY <1>a, <2>1, <2>2, Zenon
  <1>7. j \div PS = p
    BY ONLY <1>4, <1>6
  <1>8. cursor[t] = Place(tri, j)
    BY ONLY <1>3, <1>7, Zenon DEF Place
  <1> QED
    BY ONLY <1>2, <1>4, <1>5, <1>6, <1>7, <1>8, Zenon

(* Taking a package: the thread starts at its first primitive, and no      *)
(* other thread is there.                                                  *)
LEMMA TakeKeeps ==
  ASSUME GInv, NEW t \in SetupThreads, TakeTriangles(t)
  PROVE  GInv'
  <1>0. PICK p : p = setup_package
    OBVIOUS
  <1>1. GeomTypeOK /\ TodoOk /\ ApartOk /\ CountsOk /\ ClippedOk /\ AddressOk /\ CopiedOk
    BY ONLY GInv, Zenon DEF GInv
  <1>2. /\ p = setup_package /\ tri' = tri /\ clipped' = clipped /\ address' = address /\ copied' = copied /\ compacted' = compacted
        /\ todo[t] = {} /\ setup_package' = p + 1 /\ p < package_count
    BY <1>0 DEF TakeTriangles
  <1>3. p \in Packages /\ p \in Nat /\ p + 1 \in 0 .. package_count /\ package_count \in Nat
    <2>1. package_count \in Nat
      BY SetupArithmetic DEF SetupFacts
    <2> QED
      BY <1>1, <1>2, <2>1 DEF GeomTypeOK, Packages
  <1>4. /\ todo \in [SetupThreads -> SUBSET PrimIds] /\ cursor \in [SetupThreads -> Nat]
        /\ count \in [Packages -> Nat] /\ tri \in [PrimIds -> Triangles]
    BY <1>1 DEF GeomTypeOK
  <1>5. /\ todo' = [todo EXCEPT ![t] = PrimsOf(p)] /\ cursor' = [cursor EXCEPT ![t] = Sparse(p)]
        /\ count' = [count EXCEPT ![p] = 0]
    BY <1>0 DEF TakeTriangles
  <1>6. /\ \A i \in PrimIds : i \div PS = p <=> FirstOf(p) <= i /\ i < FirstOf(p + 1)
        /\ FirstOf(p) \in 0 .. prim_count /\ FirstOf(p + 1) \in 0 .. prim_count /\ FirstOf(p) < FirstOf(p + 1)
        /\ PrimsOf(p) = FirstOf(p) .. FirstOf(p + 1) - 1 /\ FirstOf(p) \in PrimIds
    BY ONLY <1>3, InPackage
  <1>7. PrimsOf(p) \subseteq PrimIds /\ \A i \in PrimIds : i \in PrimsOf(p) <=> i \div PS = p
    BY DEF PrimsOf, PS
  <1>8. /\ todo'[t] = PrimsOf(p) /\ \A u \in SetupThreads : u # t => todo'[u] = todo[u]
        /\ cursor'[t] = Sparse(p) /\ \A u \in SetupThreads : u # t => cursor'[u] = cursor[u]
        /\ count'[p] = 0 /\ \A q \in Packages : q # p => count'[q] = count[q]
    BY ONLY <1>3, <1>4, <1>5
  <1>9. GeomTypeOK'
    <2>1. Sparse(p) \in Nat
      BY <1>3, <1>4, PlacesOfDraw, Zenon DEF PlacesFit
    <2>2. /\ todo' \in [SetupThreads -> SUBSET PrimIds] /\ cursor' \in [SetupThreads -> Nat]
          /\ count' \in [Packages -> Nat]
      BY ONLY <1>4, <1>5, <1>7, <2>1
    <2>3. /\ tri \in [PrimIds -> Triangles] /\ copied \subseteq Packages /\ DOMAIN clipped = Memory
      BY <1>1 DEF GeomTypeOK
    <2> QED
      BY ONLY <1>2, <1>3, <2>2, <2>3 DEF GeomTypeOK
  <1>10. ASSUME NEW u \in SetupThreads, u # t, NEW i \in todo[u]
         PROVE  i \in PrimIds /\ i \div PS \in Nat /\ i \div PS < p
    <2>1. todo[u] # {}
      OBVIOUS
    <2>2. PICK q \in Packages, j \in PrimIds : WorksAt(u, q, j)
      BY ONLY <1>1, <2>1, u \in SetupThreads, Zenon DEF TodoOk
    <2>3. i \in PrimIds /\ i \div PS = q
      BY ONLY <1>1, <1>10, <2>2, WorksAtIs
    <2>4. q < p /\ q \in Nat
      BY <1>2, <2>2 DEF WorksAt, Packages
    <2> QED
      BY ONLY <2>3, <2>4
  <1>11. TodoOk'
    <2> SUFFICES ASSUME NEW u \in SetupThreads, todo'[u] # {}
                 PROVE  \E q \in Packages : \E j \in PrimIds : WorksAt(u, q, j)'
      BY Zenon DEF TodoOk
    <2>1. CASE u = t
      <3>1. Before(tri, FirstOf(p)) - Before(tri, FirstOf(p)) = 0
        <4>1. Before(tri, FirstOf(p)) \in Nat
          BY <1>4, <1>6, DrawOrder, Zenon DEF DrawFacts
        <4> QED
          BY ONLY <4>1
      <3>2. p < p + 1 /\ FirstOf(p) <= FirstOf(p) /\ Sparse(p) + 0 = Sparse(p)
        <4>1. Sparse(p) \in Nat
          BY <1>3, <1>4, PlacesOfDraw, Zenon DEF PlacesFit
        <4> QED
          BY ONLY <1>3, <1>6, <4>1
      <3>3. WorksAt(t, p, FirstOf(p))'
        BY ONLY <1>2, <1>6, <1>8, <3>1, <3>2, Zenon DEF WorksAt
      <3> QED
        BY ONLY <1>3, <1>6, <2>1, <3>3, Zenon
    <2>2. CASE u # t
      <3>1. todo[u] # {} /\ todo'[u] = todo[u] /\ cursor'[u] = cursor[u]
        BY <1>8, <2>2
      <3>2. PICK q \in Packages, j \in PrimIds : WorksAt(u, q, j)
        BY ONLY <1>1, <3>1, u \in SetupThreads, Zenon DEF TodoOk
      <3>3. q < p /\ q \in Nat
        BY <1>2, <3>2 DEF WorksAt, Packages
      <3>4. q # p /\ q < p + 1
        BY ONLY <1>3, <3>3
      <3>5. count'[q] = count[q]
        BY ONLY <1>8, <3>4, q \in Packages, Zenon
      <3>6. WorksAt(u, q, j)'
        BY ONLY <1>2, <3>1, <3>2, <3>4, <3>5, Zenon DEF WorksAt
      <3> QED
        BY ONLY <3>6, q \in Packages, j \in PrimIds, Zenon
    <2> QED
      BY ONLY <2>1, <2>2
  <1>12. ApartOk'
    <2> SUFFICES ASSUME NEW u \in SetupThreads, NEW v \in SetupThreads, u # v,
                        NEW i \in todo'[u], NEW j \in todo'[v]
                 PROVE  i \div PS # j \div PS
      BY Zenon DEF ApartOk
    <2>1. CASE u = t
      <3>1. i \div PS = p
        BY ONLY <1>7, <1>8, <2>1, i \in todo'[u], Zenon
      <3>2. j \in todo[v] /\ v # t
        BY ONLY <1>8, <2>1, u # v, v \in SetupThreads, j \in todo'[v], Zenon
      <3> QED
        BY ONLY <1>3, <1>10, <3>1, <3>2, v \in SetupThreads
    <2>2. CASE v = t
      <3>1. j \div PS = p
        BY ONLY <1>7, <1>8, <2>2, j \in todo'[v], Zenon
      <3>2. i \in todo[u] /\ u # t
        BY ONLY <1>8, <2>2, u # v, u \in SetupThreads, i \in todo'[u], Zenon
      <3> QED
        BY ONLY <1>3, <1>10, <3>1, <3>2, u \in SetupThreads
    <2>3. CASE u # t /\ v # t
      <3>1. i \in todo[u] /\ j \in todo[v]
        BY <1>8, <2>3
      <3> QED
        BY ONLY <1>1, <3>1, u \in SetupThreads, v \in SetupThreads, u # v, Zenon DEF ApartOk
    <2> QED
      BY ONLY <2>1, <2>2, <2>3
  <1>13. CountsOk'
    <2> SUFFICES ASSUME NEW q \in Packages, Finished(q)'
                 PROVE  count'[q] = Before(tri', FirstOf(q + 1)) - Before(tri', FirstOf(q))
      BY Zenon DEF CountsOk
    <2>1. q < p + 1 /\ \A u \in SetupThreads : \A i \in todo'[u] : i \div PS # q
      BY <1>2 DEF Finished
    <2>2. q # p
      <3>1. FirstOf(p) \in PrimsOf(p) /\ FirstOf(p) \div PS = p
        BY ONLY <1>6, <1>7
      <3> QED
        BY ONLY <1>8, <2>1, <3>1, t \in SetupThreads, Zenon
    <2>3. q < p
      BY ONLY <1>3, <2>1, <2>2, q \in Packages DEF Packages
    <2>4. \A u \in SetupThreads : \A i \in todo[u] : i \div PS # q
      BY ONLY <1>2, <1>8, <2>1, Zenon
    <2>5. Finished(q)
      BY ONLY <1>2, <2>3, <2>4, Zenon DEF Finished
    <2>6. count[q] = Before(tri, FirstOf(q + 1)) - Before(tri, FirstOf(q))
      BY ONLY <1>1, <2>5, q \in Packages, Zenon DEF CountsOk
    <2> QED
      BY ONLY <1>2, <1>8, <2>2, <2>6, q \in Packages, Zenon
  <1>14. ClippedOk'
    <2> SUFFICES ASSUME NoSpill(tri'), NEW i \in PrimIds, Clipped(i)' PROVE InPlace(i)'
      BY Zenon DEF ClippedOk
    <2>a. NoSpill(tri)
      BY ONLY <1>2, NoSpill(tri'), Zenon
    <2>1. i \div PS < p + 1 /\ \A u \in SetupThreads : i \notin todo'[u]
      BY <1>2 DEF Clipped
    <2>2. i \div PS # p
      BY ONLY <1>7, <1>8, <2>1, i \in PrimIds, t \in SetupThreads, Zenon
    <2>3. i \div PS < p
      <3>1. PICK q \in Nat : q = i \div PS
        <4>1. i \div PS \in Packages
          BY SetupArithmetic DEF SetupFacts
        <4> QED
          BY <4>1 DEF Packages
      <3> QED
        BY ONLY <1>3, <2>1, <2>2, <3>1
    <2>4. \A u \in SetupThreads : i \notin todo[u]
      BY ONLY <1>2, <1>8, <2>1, Zenon
    <2>5. Clipped(i)
      BY ONLY <1>2, <2>3, <2>4, Zenon DEF Clipped
    <2>6. InPlace(i)
      BY ONLY <1>1, <2>a, <2>5, i \in PrimIds, Zenon DEF ClippedOk
    <2> QED
      BY ONLY <1>2, <2>6, Zenon DEF InPlace
  <1>15. address = <<>> /\ copied = {}
    <2>1. Clipping
      BY <1>2 DEF Clipping
    <2> QED
      BY ONLY <1>1, <2>1, Zenon DEF AddressOk
  <1>16. AddressOk' /\ CopiedOk'
    BY ONLY <1>2, <1>15, Zenon DEF AddressOk, CopiedOk
  <1> QED
    BY ONLY <1>9, <1>11, <1>12, <1>13, <1>14, <1>16, Zenon DEF GInv

(* Clipping a primitive: its own vertices come to their places, and no     *)
(* other's are touched.                                                    *)
LEMMA ClipKeeps ==
  ASSUME GInv, NEW t \in SetupThreads, ClipPrimitive(t)
  PROVE  GInv'
  <1>1. GeomTypeOK /\ TodoOk /\ ApartOk /\ CountsOk /\ ClippedOk /\ AddressOk /\ CopiedOk
    BY ONLY GInv, Zenon DEF GInv
  <1>2. todo[t] # {}
    BY DEF ClipPrimitive
  <1>3. PICK p \in Packages, j \in PrimIds : WorksAt(t, p, j)
    BY ONLY <1>1, <1>2, t \in SetupThreads, Zenon DEF TodoOk
  <1>4. /\ Min(todo[t]) = j /\ j \in todo[t] /\ j \div PS = p /\ cursor[t] = Place(tri, j)
        /\ \A i \in todo[t] : i \in PrimIds /\ i \div PS = p
        /\ todo[t] \ {j} = j + 1 .. FirstOf(p + 1) - 1
        /\ j \in Nat /\ j + 1 \in 0 .. prim_count
    BY ONLY <1>1, <1>3, WorksAtIs, t \in SetupThreads
  <1>5. /\ p \in Nat /\ p < setup_package /\ FirstOf(p) <= j /\ j < FirstOf(p + 1)
        /\ count[p] = Before(tri, j) - Before(tri, FirstOf(p))
        /\ cursor[t] = Sparse(p) + count[p] /\ todo[t] = j .. FirstOf(p + 1) - 1
    BY ONLY <1>3 DEF WorksAt, Packages
  <1>6. PICK e : e = AnnouncedFor[tri[j]]
    OBVIOUS
  <1>7. PICK verts : verts = Tagged(j, WrittenFor[tri[j]])
    OBVIOUS
  <1>8. /\ clipped' = [a \in Memory |->
             IF a \in cursor[t] .. cursor[t] + Len(verts) - 1 THEN verts[a - cursor[t] + 1] ELSE clipped[a]]
        /\ cursor' = [cursor EXCEPT ![t] = @ + e]
        /\ count' = [count EXCEPT ![p] = @ + e]
        /\ todo' = [todo EXCEPT ![t] = @ \ {j}]
        /\ tri' = tri /\ setup_package' = setup_package /\ address' = address /\ copied' = copied
        /\ compacted' = compacted
    BY ONLY <1>4, <1>6, <1>7, ClipPrimitive(t), Zenon DEF ClipPrimitive, PS
  <1>9. /\ todo \in [SetupThreads -> SUBSET PrimIds] /\ cursor \in [SetupThreads -> Nat]
        /\ count \in [Packages -> Nat] /\ tri \in [PrimIds -> Triangles]
    BY ONLY <1>1 DEF GeomTypeOK
  <1>10. DrawFacts(tri) /\ PlacesFit(tri)
    BY ONLY <1>9, DrawOrder, PlacesOfDraw
  <1>11. TaggedFacts(j, tri[j])
    BY ONLY <1>4, <1>9, Tagging
  <1>12. /\ e \in Nat /\ Before(tri, j + 1) = Before(tri, j) + e
         /\ Len(verts) = Len(WrittenFor[tri[j]]) /\ e <= Len(verts) /\ Len(verts) \in Nat
         /\ \A x \in 1 .. e : verts[x] = Verts(tri, j)[x]
    <2>1. e \in Nat
      BY ONLY <1>6, <1>10, j \in PrimIds, Zenon DEF PlacesFit
    <2>2. Before(tri, j + 1) = Before(tri, j) + e
      BY ONLY <1>6, <1>10, j \in PrimIds, Zenon DEF DrawFacts
    <2>3. /\ Len(verts) = Len(WrittenFor[tri[j]]) /\ e <= Len(WrittenFor[tri[j]]) /\ Len(WrittenFor[tri[j]]) \in Nat
          /\ \A x \in 1 .. e : verts[x] = Verts(tri, j)[x]
      BY ONLY <1>6, <1>7, <1>11, Zenon DEF TaggedFacts, Verts
    <2> QED
      BY ONLY <2>1, <2>2, <2>3, Zenon
  <1>13. /\ todo'[t] = j + 1 .. FirstOf(p + 1) - 1 /\ \A u \in SetupThreads : u # t => todo'[u] = todo[u]
         /\ cursor'[t] = cursor[t] + e /\ \A u \in SetupThreads : u # t => cursor'[u] = cursor[u]
         /\ count'[p] = count[p] + e /\ \A q \in Packages : q # p => count'[q] = count[q]
    BY ONLY <1>3, <1>4, <1>8, <1>9, t \in SetupThreads
  <1>a. count[p] \in Nat /\ cursor[t] \in Nat
    BY ONLY <1>9, p \in Packages, t \in SetupThreads
  <1>14. GeomTypeOK'
    <2>1. todo' \in [SetupThreads -> SUBSET PrimIds]
      BY ONLY <1>8, <1>9
    <2>2. cursor' \in [SetupThreads -> Nat]
      BY ONLY <1>8, <1>9, <1>12, <1>a
    <2>3. count' \in [Packages -> Nat]
      BY ONLY <1>8, <1>9, <1>12, <1>a
    <2>4. DOMAIN clipped' = Memory
      BY ONLY <1>8
    <2>5. setup_package \in 0 .. package_count /\ copied \subseteq Packages
      BY ONLY <1>1 DEF GeomTypeOK
    <2> QED
      BY ONLY <1>8, <1>9, <2>1, <2>2, <2>3, <2>4, <2>5, Zenon DEF GeomTypeOK
  (* The packages of the other threads are other packages. *)
  <1>15. ASSUME NEW u \in SetupThreads, u # t, NEW i \in todo[u] PROVE i \div PS # p
    <2>1. i \div PS # j \div PS
      BY ONLY <1>1, <1>4, <1>15, t \in SetupThreads, Zenon DEF ApartOk
    <2> QED
      BY ONLY <1>4, <2>1
  <1>16. TodoOk'
    <2> SUFFICES ASSUME NEW u \in SetupThreads, todo'[u] # {}
                 PROVE  \E q \in Packages : \E k \in PrimIds : WorksAt(u, q, k)'
      BY Zenon DEF TodoOk
    <2>1. CASE u = t
      <3>1. j + 1 \in PrimIds /\ FirstOf(p) <= j + 1 /\ j + 1 < FirstOf(p + 1)
        <4>1. FirstOf(p) \in 0 .. prim_count /\ FirstOf(p + 1) \in 0 .. prim_count /\ prim_count \in Nat
          BY ONLY InPackage, GeomAssumption, p \in Packages
        <4>2. j + 1 < FirstOf(p + 1)
          BY ONLY <1>4, <1>13, <2>1, <4>1, todo'[u] # {}
        <4> QED
          BY ONLY <1>4, <1>5, <4>1, <4>2 DEF PrimIds
      <3>2. count'[p] = Before(tri, j + 1) - Before(tri, FirstOf(p))
        <4>1. PICK x \in Nat, y \in Nat : x = Before(tri, j) /\ y = Before(tri, FirstOf(p))
          <5>1. j \in 0 .. prim_count /\ FirstOf(p) \in 0 .. prim_count
            BY ONLY <1>4, InPackage, GeomAssumption, p \in Packages
          <5>2. Before(tri, j) \in Nat /\ Before(tri, FirstOf(p)) \in Nat
            BY ONLY <1>10, <5>1, Zenon DEF DrawFacts
          <5> QED
            BY ONLY <5>2
        <4>2. count[p] = x - y /\ Before(tri, j + 1) = x + e
          BY ONLY <1>5, <1>12, <4>1
        <4>3. count'[p] = (x + e) - y
          BY ONLY <1>12, <1>13, <4>1, <4>2
        <4> QED
          BY ONLY <4>1, <4>2, <4>3
      <3>3. cursor'[t] = Sparse(p) + count'[p]
        <4>1. Sparse(p) \in Nat
          BY ONLY <1>5, <1>10, Zenon DEF PlacesFit
        <4> QED
          BY ONLY <1>5, <1>12, <1>13, <1>a, <4>1
      <3>4. WorksAt(t, p, j + 1)'
        BY ONLY <1>5, <1>8, <1>13, <3>1, <3>2, <3>3, Zenon DEF WorksAt
      <3> QED
        BY ONLY <2>1, <3>1, <3>4, p \in Packages, Zenon
    <2>2. CASE u # t
      <3>1. todo[u] # {} /\ todo'[u] = todo[u] /\ cursor'[u] = cursor[u]
        BY <1>13, <2>2
      <3>2. PICK q \in Packages, k \in PrimIds : WorksAt(u, q, k)
        BY ONLY <1>1, <3>1, u \in SetupThreads, Zenon DEF TodoOk
      <3>3. k \in todo[u] /\ k \div PS = q
        BY ONLY <1>1, <3>2, WorksAtIs, u \in SetupThreads
      <3>4. q # p
        BY ONLY <1>15, <2>2, <3>3, u \in SetupThreads, Zenon
      <3>5. count'[q] = count[q]
        BY ONLY <1>13, <3>4, q \in Packages, Zenon
      <3>6. WorksAt(u, q, k)'
        BY ONLY <1>8, <3>1, <3>2, <3>5, Zenon DEF WorksAt
      <3> QED
        BY ONLY <3>6, q \in Packages, k \in PrimIds, Zenon
    <2> QED
      BY ONLY <2>1, <2>2
  <1>17. \A u \in SetupThreads : todo'[u] \subseteq todo[u]
    BY ONLY <1>8, <1>9
  <1>18. ApartOk'
    BY ONLY <1>1, <1>17 DEF ApartOk
  <1>19. CountsOk'
    <2> SUFFICES ASSUME NEW q \in Packages, Finished(q)'
                 PROVE  count'[q] = Before(tri', FirstOf(q + 1)) - Before(tri', FirstOf(q))
      BY Zenon DEF CountsOk
    <2>1. q < setup_package /\ \A u \in SetupThreads : \A i \in todo'[u] : i \div PS # q
      BY ONLY <1>8, Finished(q)', Zenon DEF Finished
    <2>2. CASE q = p
      <3>1. FirstOf(p) \in 0 .. prim_count /\ FirstOf(p + 1) \in 0 .. prim_count /\ prim_count \in Nat
        BY ONLY InPackage, GeomAssumption, p \in Packages
      <3>2. todo'[t] = {}
        <4>1. \A i \in todo'[t] : i \in todo[t]
          BY ONLY <1>17, t \in SetupThreads
        <4> QED
          BY ONLY <1>4, <2>1, <2>2, <4>1, t \in SetupThreads, Zenon
      <3>3. j + 1 = FirstOf(p + 1)
        <4>1. ~(j + 1 < FirstOf(p + 1))
          <5>1. j + 1 < FirstOf(p + 1) => j + 1 \in j + 1 .. FirstOf(p + 1) - 1
            BY ONLY <1>4, <3>1
          <5>2. j + 1 .. FirstOf(p + 1) - 1 = {}
            BY ONLY <1>13, <3>2, Zenon
          <5> QED
            BY ONLY <5>1, <5>2, Zenon
        <4> QED
          BY ONLY <1>4, <1>5, <3>1, <4>1
      <3>4. PICK x \in Nat, y \in Nat : x = Before(tri, j) /\ y = Before(tri, FirstOf(p))
        <4>1. j \in 0 .. prim_count
          BY ONLY <1>4, GeomAssumption
        <4>2. Before(tri, j) \in Nat /\ Before(tri, FirstOf(p)) \in Nat
          BY ONLY <1>10, <3>1, <4>1, Zenon DEF DrawFacts
        <4> QED
          BY ONLY <4>2
      <3>5. count[p] = x - y /\ Before(tri, j + 1) = x + e
        BY ONLY <1>5, <1>12, <3>4
      <3>6. count'[p] = (x + e) - y
        BY ONLY <1>12, <1>13, <3>4, <3>5
      <3> QED
        BY ONLY <1>8, <2>2, <3>3, <3>4, <3>5, <3>6, Zenon
    <2>3. CASE q # p
      <3>1. \A u \in SetupThreads : \A i \in todo[u] : i \div PS # q
        BY ONLY <1>4, <1>13, <2>1, <2>3, Zenon
      <3>2. Finished(q)
        BY ONLY <2>1, <3>1, Zenon DEF Finished
      <3>3. count[q] = Before(tri, FirstOf(q + 1)) - Before(tri, FirstOf(q))
        BY ONLY <1>1, <3>2, q \in Packages, Zenon DEF CountsOk
      <3> QED
        BY ONLY <1>8, <1>13, <2>3, <3>3, q \in Packages, Zenon
    <2> QED
      BY ONLY <2>2, <2>3
  <1>20. ClippedOk'
    <2> SUFFICES ASSUME NoSpill(tri'), NEW i \in PrimIds, Clipped(i)' PROVE InPlace(i)'
      BY Zenon DEF ClippedOk
    <2>1. NoSpill(tri)
      BY ONLY <1>8, NoSpill(tri'), Zenon
    <2>2. i \div PS < setup_package /\ \A u \in SetupThreads : i \notin todo'[u]
      BY ONLY <1>8, Clipped(i)', Zenon DEF Clipped
    <2>3. PICK c \in Nat : c = cursor[t]
      BY ONLY <1>a
    <2> SUFFICES ASSUME NEW x \in 1 .. AnnouncedFor[tri'[i]]
                 PROVE  clipped'[Place(tri', i) + (x - 1)] = Verts(tri', i)[x]
      BY Zenon DEF InPlace
    <2>a. tri' = tri /\ x \in 1 .. AnnouncedFor[tri[i]]
      BY ONLY <1>8, x \in 1 .. AnnouncedFor[tri'[i]], Zenon
    <2>4. CASE i = j
      <3>1. x \in 1 .. e
        BY ONLY <1>6, <2>4, <2>a
      <3>2. /\ c + (x - 1) \in c .. c + Len(verts) - 1 /\ (c + (x - 1)) - c + 1 = x
        BY ONLY <1>12, <2>3, <3>1
      <3>3. c + (x - 1) \in Memory
        <4>1. Place(tri, j) + AnnouncedFor[tri[j]] <= Capacity
          BY ONLY <1>10, j \in PrimIds, Zenon DEF PlacesFit
        <4>2. c + e <= Capacity
          BY ONLY <1>4, <1>6, <2>3, <4>1
        <4>3. Capacity \in Nat
          BY ONLY GeomAssumption DEF Capacity
        <4> QED
          BY ONLY <1>12, <2>3, <3>1, <4>2, <4>3 DEF Memory
      <3>4. clipped'[c + (x - 1)] = verts[x]
        BY ONLY <1>8, <2>3, <3>2, <3>3
      <3>5. verts[x] = Verts(tri, j)[x]
        BY ONLY <1>12, <3>1, Zenon
      <3> QED
        BY ONLY <1>4, <2>a, <2>3, <2>4, <3>4, <3>5, Zenon
    <2>5. CASE i # j
      <3>1. \A u \in SetupThreads : i \notin todo[u]
        BY ONLY <1>8, <1>9, <2>2, <2>5
      <3>2. Clipped(i)
        BY ONLY <2>2, <3>1, Zenon DEF Clipped
      <3>3. clipped[Place(tri, i) + (x - 1)] = Verts(tri, i)[x]
        BY ONLY <1>1, <2>1, <3>2, i \in PrimIds, <2>a, Zenon DEF ClippedOk, InPlace
      <3>4. i \div PS = j \div PS => i < j
        <4> SUFFICES ASSUME i \div PS = j \div PS PROVE i < j
          OBVIOUS
        <4>1. FirstOf(p) <= i /\ i < FirstOf(p + 1)
          <5>1. \A k \in PrimIds : k \div PS = p <=> FirstOf(p) <= k /\ k < FirstOf(p + 1)
            BY ONLY InPackage, p \in Packages
          <5> QED
            BY ONLY <1>4, <5>1, i \div PS = j \div PS, i \in PrimIds, Zenon
        <4>2. i \in Nat /\ FirstOf(p + 1) \in 0 .. prim_count
          BY ONLY InPackage, p \in Packages, GeomAssumption, i \in PrimIds DEF PrimIds
        <4>3. i \notin j .. FirstOf(p + 1) - 1
          BY ONLY <1>5, <3>1, t \in SetupThreads, Zenon
        <4> QED
          BY ONLY <1>4, <4>1, <4>2, <4>3, GeomAssumption
      <3>5. /\ Place(tri, i) + (x - 1) \in Memory
            /\ Place(tri, i) + (x - 1) \notin Place(tri, j) .. Place(tri, j) + Len(WrittenFor[tri[j]]) - 1
        BY ONLY <1>9, <2>1, <3>4, i \in PrimIds, j \in PrimIds, <2>a, NoOverlap
      <3>6. PICK a : a = Place(tri, i) + (x - 1)
        OBVIOUS
      <3>7. a \in Memory /\ a \notin cursor[t] .. cursor[t] + Len(verts) - 1
        BY ONLY <1>4, <1>12, <3>5, <3>6, Zenon
      <3>8. clipped'[a] = clipped[a]
        BY ONLY <1>8, <3>7
      <3> QED
        BY ONLY <2>a, <3>3, <3>6, <3>8, Zenon
    <2> QED
      BY ONLY <2>4, <2>5
  <1>21. address = <<>> /\ copied = {}
    <2>1. Clipping
      BY ONLY <1>2, t \in SetupThreads DEF Clipping
    <2> QED
      BY ONLY <1>1, <2>1, Zenon DEF AddressOk
  <1>22. AddressOk' /\ CopiedOk'
    BY ONLY <1>8, <1>21, Zenon DEF AddressOk, CopiedOk
  <1> QED
    BY ONLY <1>14, <1>16, <1>18, <1>19, <1>20, <1>22, Zenon DEF GInv
-----------------------------------------------------------------------------
(***************************************************************************)
(* After the first loop.                                                   *)
(***************************************************************************)

(* Once the first loop is over everything is clipped and counted.          *)
LEMMA AllClipped ==
  ASSUME GeomTypeOK, ~Clipping
  PROVE  /\ \A p \in Packages : Finished(p)
         /\ \A i \in PrimIds : Clipped(i)
  <1>1. setup_package = package_count /\ \A t \in SetupThreads : todo[t] = {}
    <2>1. package_count \in Nat
      BY SetupArithmetic DEF SetupFacts
    <2> QED
      BY <2>1 DEF GeomTypeOK, Clipping
  <1>2. \A p \in Packages : p < setup_package
    BY <1>1, InPackage
  <1>3. \A i \in PrimIds : i \div PS < setup_package
    BY ONLY <1>2, SetupArithmetic DEF SetupFacts
  <1> QED
    BY ONLY <1>1, <1>2, <1>3, Zenon DEF Finished, Clipped

(* The prefix sum: all packages are counted, so the sums are the numbers   *)
(* of vertices before them.                                                *)
LEMMA ComputeKeeps ==
  ASSUME GInv, ComputeAddresses
  PROVE  GInv'
  <1>1. GeomTypeOK /\ TodoOk /\ ApartOk /\ CountsOk /\ ClippedOk /\ AddressOk /\ CopiedOk
    BY ONLY GInv, Zenon DEF GInv
  <1>2. /\ ~Clipping /\ address = <<>>
        /\ address' = [p \in 0 .. package_count |-> SumBelow(p)]
        /\ compacted' = [a \in 0 .. SumBelow(package_count) - 1 |-> Empty]
        /\ tri' = tri /\ setup_package' = setup_package /\ todo' = todo /\ cursor' = cursor
        /\ clipped' = clipped /\ count' = count /\ copied' = copied
    BY DEF ComputeAddresses
  <1>3. tri \in [PrimIds -> Triangles] /\ count \in [Packages -> Nat]
    BY ONLY <1>1 DEF GeomTypeOK
  <1>4. \A p \in Packages : count[p] = Before(tri, FirstOf(p + 1)) - Before(tri, FirstOf(p))
    BY ONLY <1>1, <1>2, AllClipped, Zenon DEF CountsOk
  <1>5. ASSUME NEW p \in 0 .. package_count PROVE SumBelow(p) = Before(tri, FirstOf(p))
    BY ONLY <1>3, <1>4, SumBelowIs, p \in 0 .. package_count
  <1>6. address' = [p \in 0 .. package_count |-> Before(tri, FirstOf(p))]
    <2>1. [p \in 0 .. package_count |-> SumBelow(p)] = [p \in 0 .. package_count |-> Before(tri, FirstOf(p))]
      BY ONLY <1>5
    <2> QED
      BY ONLY <1>2, <2>1, Zenon
  <1>7. package_count \in 0 .. package_count /\ FirstOf(package_count) = prim_count /\ 0 \in 0 .. package_count
    BY SetupArithmetic DEF SetupFacts
  <1>8. DOMAIN compacted' = 0 .. Before(tri, prim_count) - 1
    <2>1. SumBelow(package_count) = Before(tri, prim_count)
      BY ONLY <1>5, <1>7, Zenon
    <2> QED
      BY ONLY <1>2, <2>1
  <1>9. ~Clipping'
    BY ONLY <1>2, Zenon DEF Clipping
  <1>10. AddressOk'
    BY ONLY <1>2, <1>6, <1>8, <1>9, Zenon DEF AddressOk
  <1>11. copied = {}
    <2>1. CASE address = <<>> /\ copied = {}
      BY <2>1
    <2>2. CASE address = [p \in 0 .. package_count |-> Before(tri, FirstOf(p))]
      <3>1. DOMAIN address = 0 .. package_count
        BY ONLY <2>2
      <3>2. DOMAIN <<>> = {}
        OBVIOUS
      <3> QED
        BY ONLY <1>2, <1>7, <3>1, <3>2
    <2> QED
      BY ONLY <1>1, <2>1, <2>2, Zenon DEF AddressOk
  <1>12. CopiedOk'
    BY ONLY <1>2, <1>11, Zenon DEF CopiedOk
  <1>13. GeomTypeOK'
    BY ONLY <1>1, <1>2, Zenon DEF GeomTypeOK
  <1>14. TodoOk' /\ ApartOk'
    <2>1. ASSUME NEW t \in SetupThreads, NEW q \in Packages, NEW j \in PrimIds, WorksAt(t, q, j)
          PROVE  WorksAt(t, q, j)'
      BY ONLY <1>2, <2>1, Zenon DEF WorksAt
    <2>2. TodoOk'
      BY ONLY <1>1, <1>2, <2>1, Zenon DEF TodoOk
    <2>3. ApartOk /\ todo' = todo
      BY ONLY <1>1, <1>2, Zenon
    <2>4. ApartOk'
      BY ONLY <2>3 DEF ApartOk
    <2> QED
      BY ONLY <2>2, <2>4, Zenon
  <1>15. CountsOk'
    BY ONLY <1>1, <1>2, Zenon DEF CountsOk, Finished
  <1>16. ClippedOk'
    BY ONLY <1>1, <1>2, Zenon DEF ClippedOk, Clipped, InPlace
  <1> QED
    BY ONLY <1>10, <1>12, <1>13, <1>14, <1>15, <1>16, Zenon DEF GInv

(* The places of package p in the compacted array are its own.             *)
LEMMA OwnPlaces ==
  ASSUME NEW tr \in [PrimIds -> Triangles], NEW p \in Packages
  PROVE  /\ Before(tr, FirstOf(p)) \in Nat /\ Before(tr, FirstOf(p + 1)) \in Nat
         /\ Before(tr, FirstOf(p)) <= Before(tr, FirstOf(p + 1))
         /\ Before(tr, FirstOf(p + 1)) <= Before(tr, prim_count) /\ Before(tr, prim_count) \in Nat
         /\ \A q \in Packages : p < q => Before(tr, FirstOf(p + 1)) <= Before(tr, FirstOf(q))
  <1>1. DrawFacts(tr)
    BY DrawOrder
  <1>2. FirstOf(p) \in 0 .. prim_count /\ FirstOf(p + 1) \in 0 .. prim_count /\ FirstOf(p) < FirstOf(p + 1)
    BY InPackage
  <1>3. FirstOf(p) <= FirstOf(p + 1) /\ FirstOf(p + 1) <= prim_count /\ prim_count \in 0 .. prim_count
    BY ONLY <1>2, GeomAssumption
  <1>4. ASSUME NEW q \in Packages, p < q PROVE FirstOf(p + 1) <= FirstOf(q) /\ FirstOf(q) \in 0 .. prim_count
    <2>1. /\ FirstOf(q) \in PrimIds /\ FirstOf(q) \in 0 .. prim_count /\ FirstOf(q) < FirstOf(q + 1) /\ q \in Nat
      BY ONLY InPackage, q \in Packages
    <2>2. FirstOf(q) \div PS = q
      <3>1. \A i \in PrimIds : i \div PS = q <=> FirstOf(q) <= i /\ i < FirstOf(q + 1)
        BY ONLY InPackage, q \in Packages
      <3>2. FirstOf(q) <= FirstOf(q)
        BY ONLY <2>1
      <3> QED
        BY ONLY <2>1, <3>1, <3>2, Zenon
    <2>3. p + 1 \in 0 .. package_count /\ p \in Nat
      BY ONLY SetupArithmetic, p \in Packages, Zenon DEF SetupFacts
    <2>4. FirstOf(q) \div PS < p + 1 <=> FirstOf(q) < FirstOf(p + 1)
      BY ONLY SetupArithmetic, <2>1, <2>3, Zenon DEF SetupFacts
    <2> QED
      BY ONLY <1>2, <1>4, <2>1, <2>2, <2>3, <2>4
  <1>5. \A j, k \in 0 .. prim_count : j <= k => Before(tr, j) <= Before(tr, k)
    BY ONLY <1>1, Zenon DEF DrawFacts
  <1>6. \A k \in 0 .. prim_count : Before(tr, k) \in Nat
    BY ONLY <1>1, Zenon DEF DrawFacts
  <1> QED
    BY ONLY <1>2, <1>3, <1>4, <1>5, <1>6, Zenon

(* Where the package lies once the addresses are known.                    *)
LEMMA Addressed ==
  ASSUME GeomTypeOK, CountsOk, AddressOk, address # <<>>, NEW p \in Packages
  PROVE  /\ ~Clipping /\ address[p] = Before(tri, FirstOf(p))
         /\ \A a \in Int : a \in address[p] .. address[p] + count[p] - 1 <=>
                             Before(tri, FirstOf(p)) <= a /\ a < Before(tri, FirstOf(p + 1))
         /\ DOMAIN compacted = 0 .. Before(tri, prim_count) - 1
         /\ address[p] .. address[p] + count[p] - 1 \subseteq DOMAIN compacted
  <1>1. /\ ~Clipping /\ address = [q \in 0 .. package_count |-> Before(tri, FirstOf(q))]
        /\ DOMAIN compacted = 0 .. Before(tri, prim_count) - 1
    BY Zenon DEF AddressOk
  <1>2. p \in 0 .. package_count
    BY ONLY SetupArithmetic, p \in Packages, Zenon DEF SetupFacts
  <1>3. address[p] = Before(tri, FirstOf(p))
    BY ONLY <1>1, <1>2
  <1>4. count[p] = Before(tri, FirstOf(p + 1)) - Before(tri, FirstOf(p))
    BY ONLY <1>1, AllClipped, GeomTypeOK, CountsOk, p \in Packages, Zenon DEF CountsOk
  <1>5. tri \in [PrimIds -> Triangles]
    BY DEF GeomTypeOK
  <1>6. PICK x \in Nat, y \in Nat, z \in Nat :
          x = Before(tri, FirstOf(p)) /\ y = Before(tri, FirstOf(p + 1)) /\ z = Before(tri, prim_count)
    BY ONLY <1>5, OwnPlaces, p \in Packages
  <1>7. x <= y /\ y <= z
    BY ONLY <1>5, <1>6, OwnPlaces, p \in Packages
  <1>8. address[p] = x /\ count[p] = y - x
    BY ONLY <1>3, <1>4, <1>6
  <1>9. \A a \in Int : a \in address[p] .. address[p] + count[p] - 1 <=> x <= a /\ a < y
    BY ONLY <1>6, <1>8
  <1>10. address[p] .. address[p] + count[p] - 1 \subseteq 0 .. z - 1
    BY ONLY <1>6, <1>7, <1>8
  <1> QED
    BY ONLY <1>1, <1>3, <1>6, <1>9, <1>10, Zenon

(* Compacting a package: its places are its own, so the packages copied    *)
(* stay.                                                                   *)
LEMMA CompactKeeps ==
  ASSUME GInv, NEW p \in Packages, CompactPackage(p)
  PROVE  GInv'
  <1>1. GeomTypeOK /\ TodoOk /\ ApartOk /\ CountsOk /\ ClippedOk /\ AddressOk /\ CopiedOk
    BY ONLY GInv, Zenon DEF GInv
  <1>2. /\ address # <<>> /\ p \notin copied
        /\ compacted' = [a \in DOMAIN compacted |->
             IF a \in address[p] .. address[p] + count[p] - 1
             THEN clipped[Sparse(p) + a - address[p]] ELSE compacted[a]]
        /\ copied' = copied \cup {p}
        /\ tri' = tri /\ setup_package' = setup_package /\ todo' = todo /\ cursor' = cursor
        /\ clipped' = clipped /\ count' = count /\ address' = address
    BY DEF CompactPackage
  <1>3. tri \in [PrimIds -> Triangles] /\ copied \subseteq Packages
    BY ONLY <1>1 DEF GeomTypeOK
  <1>4. /\ ~Clipping /\ address = [q \in 0 .. package_count |-> Before(tri, FirstOf(q))]
        /\ DOMAIN compacted = 0 .. Before(tri, prim_count) - 1
    BY ONLY <1>1, <1>2, Zenon DEF AddressOk
  <1>5. DOMAIN compacted' = DOMAIN compacted
    BY ONLY <1>2
  <1>6. AddressOk'
    <2>1. ~Clipping'
      BY ONLY <1>2, <1>4, Zenon DEF Clipping
    <2> QED
      BY ONLY <1>2, <1>4, <1>5, <2>1, Zenon DEF AddressOk
  <1>7. CopiedOk'
    <2> SUFFICES ASSUME NEW q \in copied', NEW a \in address'[q] .. address'[q] + count'[q] - 1
                 PROVE  compacted'[a] = clipped'[Sparse(q) + (a - address'[q])]
      BY Zenon DEF CopiedOk
    <2>1. a \in address[q] .. address[q] + count[q] - 1 /\ q \in Packages
      BY ONLY <1>2, <1>3, q \in copied', a \in address'[q] .. address'[q] + count'[q] - 1, p \in Packages
    <2>2. a \in DOMAIN compacted /\ a \in Int
      <3>1. a \in DOMAIN compacted
        BY ONLY <1>1, <1>2, <2>1, Addressed
      <3> QED
        BY ONLY <1>4, <3>1
    <2>3. CASE q = p
      <3>1. compacted'[a] = clipped[Sparse(p) + a - address[p]]
        BY ONLY <1>2, <2>1, <2>2, <2>3
      <3>2. Sparse(p) + a - address[p] = Sparse(p) + (a - address[p])
        <4>1. Sparse(p) \in Nat
          <5>1. PlacesFit(tri) /\ p \in Nat
            BY ONLY <1>3, PlacesOfDraw, InPackage, p \in Packages
          <5> QED
            BY ONLY <5>1, Zenon DEF PlacesFit
        <4>2. address[p] \in Nat
          BY ONLY <1>1, <1>2, <1>3, Addressed, OwnPlaces, p \in Packages
        <4> QED
          BY ONLY <2>2, <4>1, <4>2
      <3> QED
        BY ONLY <1>2, <2>3, <3>1, <3>2, Zenon
    <2>4. CASE q # p
      <3>1. a \notin address[p] .. address[p] + count[p] - 1
        <4> SUFFICES ASSUME a \in address[p] .. address[p] + count[p] - 1 PROVE FALSE
          OBVIOUS
        <4>1. Before(tri, FirstOf(p)) <= a /\ a < Before(tri, FirstOf(p + 1))
          BY ONLY <1>1, <1>2, <2>2, Addressed, p \in Packages, a \in address[p] .. address[p] + count[p] - 1
        <4>2. Before(tri, FirstOf(q)) <= a /\ a < Before(tri, FirstOf(q + 1))
          BY ONLY <1>1, <1>2, <2>1, <2>2, Addressed
        <4>3. /\ Before(tri, FirstOf(p)) \in Nat /\ Before(tri, FirstOf(p + 1)) \in Nat
              /\ p < q => Before(tri, FirstOf(p + 1)) <= Before(tri, FirstOf(q))
          BY ONLY <1>3, <2>1, OwnPlaces, p \in Packages
        <4>4. /\ Before(tri, FirstOf(q)) \in Nat /\ Before(tri, FirstOf(q + 1)) \in Nat
              /\ q < p => Before(tri, FirstOf(q + 1)) <= Before(tri, FirstOf(p))
          BY ONLY <1>3, <2>1, OwnPlaces, p \in Packages
        <4>5. p \in Nat /\ q \in Nat
          BY ONLY <2>1, InPackage, p \in Packages
        <4>6. p < q \/ q < p
          BY ONLY <2>4, <4>5
        <4> QED
          BY ONLY <2>2, <4>1, <4>2, <4>3, <4>4, <4>6
      <3>2. compacted'[a] = compacted[a]
        BY ONLY <1>2, <2>2, <3>1
      <3>3. q \in copied
        BY ONLY <1>2, <2>4, q \in copied'
      <3>4. compacted[a] = clipped[Sparse(q) + (a - address[q])]
        BY ONLY <1>1, <2>1, <3>3, Zenon DEF CopiedOk
      <3> QED
        BY ONLY <1>2, <3>2, <3>4, Zenon
    <2> QED
      BY ONLY <2>3, <2>4
  <1>8. GeomTypeOK'
    <2>1. copied' \subseteq Packages
      BY ONLY <1>2, <1>3, p \in Packages
    <2> QED
      BY ONLY <1>1, <1>2, <2>1, Zenon DEF GeomTypeOK
  <1>9. TodoOk' /\ ApartOk'
    <2>1. ASSUME NEW t \in SetupThreads, NEW q \in Packages, NEW j \in PrimIds, WorksAt(t, q, j)
          PROVE  WorksAt(t, q, j)'
      BY ONLY <1>2, <2>1, Zenon DEF WorksAt
    <2>2. TodoOk'
      BY ONLY <1>1, <1>2, <2>1, Zenon DEF TodoOk
    <2>3. ApartOk /\ todo' = todo
      BY ONLY <1>1, <1>2, Zenon
    <2>4. ApartOk'
      BY ONLY <2>3 DEF ApartOk
    <2> QED
      BY ONLY <2>2, <2>4, Zenon
  <1>10. CountsOk'
    BY ONLY <1>1, <1>2, Zenon DEF CountsOk, Finished
  <1>11. ClippedOk'
    BY ONLY <1>1, <1>2, Zenon DEF ClippedOk, Clipped, InPlace
  <1> QED
    BY ONLY <1>6, <1>7, <1>8, <1>9, <1>10, <1>11, Zenon DEF GInv

(* A stuttering step.                                                      *)
LEMMA GeomStaysOn ==
  ASSUME GInv, UNCHANGED geomVars
  PROVE  GInv'
  <1>1. GeomTypeOK /\ TodoOk /\ ApartOk /\ CountsOk /\ ClippedOk /\ AddressOk /\ CopiedOk
    BY ONLY GInv, Zenon DEF GInv
  <1>2. /\ tri' = tri /\ setup_package' = setup_package /\ todo' = todo /\ cursor' = cursor
        /\ clipped' = clipped /\ count' = count /\ address' = address /\ copied' = copied
        /\ compacted' = compacted
    BY DEF geomVars
  <1>3. GeomTypeOK'
    BY ONLY <1>1, <1>2, Zenon DEF GeomTypeOK
  <1>4. TodoOk'
    <2>1. ASSUME NEW t \in SetupThreads, NEW q \in Packages, NEW j \in PrimIds, WorksAt(t, q, j)
          PROVE  WorksAt(t, q, j)'
      BY ONLY <1>2, <2>1, Zenon DEF WorksAt
    <2> QED
      BY ONLY <1>1, <1>2, <2>1, Zenon DEF TodoOk
  <1>5. ApartOk' /\ CountsOk'
    <2>1. ApartOk /\ todo' = todo
      BY ONLY <1>1, <1>2, Zenon
    <2>2. ApartOk'
      BY ONLY <2>1 DEF ApartOk
    <2>3. CountsOk'
      BY ONLY <1>1, <1>2, Zenon DEF CountsOk, Finished
    <2> QED
      BY ONLY <2>2, <2>3, Zenon
  <1>6. ClippedOk'
    BY ONLY <1>1, <1>2, Zenon DEF ClippedOk, Clipped, InPlace
  <1>7. AddressOk' /\ CopiedOk'
    BY ONLY <1>1, <1>2, Zenon DEF AddressOk, Clipping, CopiedOk
  <1> QED
    BY ONLY <1>3, <1>4, <1>5, <1>6, <1>7, Zenon DEF GInv

(* The conjuncts are inductive together.                                   *)
THEOREM GeomInvariant == GeomSpec => []GInv
  <1>1. GeomInit => GInv
    BY GeomStarts
  <1>2. GInv /\ [GeomNext]_geomVars => GInv'
    <2> SUFFICES ASSUME GInv, [GeomNext]_geomVars PROVE GInv'
      OBVIOUS
    <2>1. ASSUME NEW t \in SetupThreads, TakeTriangles(t) PROVE GInv'
      BY ONLY GInv, <2>1, TakeKeeps
    <2>2. ASSUME NEW t \in SetupThreads, ClipPrimitive(t) PROVE GInv'
      BY ONLY GInv, <2>2, ClipKeeps
    <2>3. CASE ComputeAddresses
      BY ONLY GInv, <2>3, ComputeKeeps
    <2>4. ASSUME NEW p \in Packages, CompactPackage(p) PROVE GInv'
      BY ONLY GInv, <2>4, CompactKeeps
    <2>5. CASE UNCHANGED geomVars
      BY ONLY GInv, <2>5, GeomStaysOn
    <2> QED
      BY <2>1, <2>2, <2>3, <2>4, <2>5, Zenon DEF GeomNext
  <1> QED
    BY <1>1, <1>2, PTL DEF GeomSpec

(* The polygon the clipper leaves of a triangle is its part between the    *)
(* planes, whatever its vertices and the far plane.                        *)
THEOREM PolygonsAreExact == GeomSpec => []PolygonExact
  <1>1. GInv => PolygonExact
    <2> SUFFICES ASSUME GInv PROVE PolygonExact
      OBVIOUS
    <2>1. tri \in [PrimIds -> Triangles]
      BY DEF GInv, GeomTypeOK
    <2> QED
      BY ONLY <2>1, PolygonsExact
  <1> QED
    BY <1>1, GeomInvariant, PTL

(* Whoever clips which package, its address is the number of vertices of   *)
(* the triangles of the packages before it.                                *)
THEOREM AddressesAreExact == GeomSpec => []AddressesExact
  <1>1. GInv => AddressesExact
    <2> SUFFICES ASSUME GInv, address # <<>>, NEW p \in 0 .. package_count
                 PROVE  address[p] = Len(FlattenSeq([k \in 1 .. prim_count |->
                          IF (k - 1) \div GEOMETRY_SETUP_PACKAGE_SIZE < p THEN MeantVerts(k - 1) ELSE <<>>]))
      BY Zenon DEF AddressesExact
    <2>1. tri \in [PrimIds -> Triangles]
      BY DEF GInv, GeomTypeOK
    <2>2. address = [q \in 0 .. package_count |-> Before(tri, FirstOf(q))]
      BY Zenon DEF GInv, AddressOk
    <2>3. address[p] = Before(tri, FirstOf(p))
      BY ONLY <2>2, p \in 0 .. package_count
    <2>4. Len(FlattenSeq([k \in 1 .. prim_count |-> IF (k - 1) \div PS < p THEN Verts(tri, k - 1) ELSE <<>>]))
            = Before(tri, FirstOf(p))
      BY ONLY <2>1, FlattenBelow, p \in 0 .. package_count
    <2> QED
      BY ONLY <2>3, <2>4, Zenon DEF MeantVerts, Verts, PS
  <1> QED
    BY <1>1, GeomInvariant, PTL

(* The compacted array holds the triangles' vertices in order, if no       *)
(* primitive is written beyond the places of its package.                  *)
THEOREM CompactionIsExact == GeomSpec => []CompactedExact
  <1>1. GInv => CompactedExact
    <2> SUFFICES ASSUME GInv, copied = Packages, \A i \in PrimIds : ~Spills(i), NEW a \in DOMAIN compacted
                 PROVE  compacted[a] = MeantAll[a + 1]
      BY Zenon DEF CompactedExact
    <2>1. GeomTypeOK /\ CountsOk /\ ClippedOk /\ AddressOk /\ CopiedOk
      BY ONLY GInv, Zenon DEF GInv
    <2>2. tri \in [PrimIds -> Triangles]
      BY ONLY <2>1 DEF GeomTypeOK
    <2>3. DrawFacts(tri) /\ PlacesFit(tri)
      BY ONLY <2>2, DrawOrder, PlacesOfDraw
    <2>4. NoSpill(tri)
      <3> SUFFICES ASSUME NEW i \in PrimIds
                   PROVE  Place(tri, i) + Len(WrittenFor[tri[i]]) <= Sparse(i \div PS + 1)
        BY Zenon DEF NoSpill
      <3>1. SparseStart(i) = Place(tri, i)
        BY ONLY <2>2, SparseStartIs, i \in PrimIds
      <3>2. ~(Place(tri, i) + Len(WrittenFor[tri[i]]) > Sparse(i \div PS + 1))
        BY ONLY <3>1, \A k \in PrimIds : ~Spills(k), i \in PrimIds, Zenon DEF Spills, PS
      <3>3. Place(tri, i) \in Nat /\ Len(WrittenFor[tri[i]]) \in Nat
        BY ONLY <2>3, i \in PrimIds, Zenon DEF PlacesFit
      <3>4. Sparse(i \div PS + 1) \in Nat
        <4>1. i \div PS \in Nat
          BY ONLY SetupArithmetic, i \in PrimIds, Zenon DEF SetupFacts
        <4>2. i \div PS + 1 \in Nat
          BY ONLY <4>1
        <4> QED
          BY ONLY <2>3, <4>2, Zenon DEF PlacesFit
      <3> QED
        BY ONLY <3>2, <3>3, <3>4
    <2>5. address # <<>>
      <3>1. 0 \in PrimIds
        BY ONLY GeomAssumption DEF PrimIds
      <3>2. 0 \div PS \in copied
        BY ONLY <3>1, SetupArithmetic, copied = Packages, Zenon DEF SetupFacts
      <3>3. 0 \in 0 .. package_count
        BY ONLY SetupArithmetic DEF SetupFacts
      <3>4. address = [q \in 0 .. package_count |-> Before(tri, FirstOf(q))]
        BY ONLY <2>1, <3>2 DEF AddressOk
      <3>5. DOMAIN <<>> = {}
        OBVIOUS
      <3> QED
        BY ONLY <3>3, <3>4, <3>5
    <2>6. DOMAIN compacted = 0 .. Before(tri, prim_count) - 1 /\ ~Clipping
      BY ONLY <2>1, <2>5, Zenon DEF AddressOk
    <2>7. Before(tri, prim_count) \in Nat
      <3>1. prim_count \in 0 .. prim_count
        BY ONLY GeomAssumption
      <3> QED
        BY ONLY <2>3, <3>1, Zenon DEF DrawFacts
    <2>8. a \in Nat /\ a + 1 \in 1 .. Before(tri, prim_count)
      BY ONLY <2>6, <2>7, a \in DOMAIN compacted
    <2>9. PICK i \in PrimIds : Before(tri, i) < a + 1 /\ a + 1 <= Before(tri, i + 1)
      BY ONLY <2>3, <2>8, Zenon DEF DrawFacts
    <2>10. PICK p \in Packages : p = i \div PS
      BY ONLY SetupArithmetic, i \in PrimIds, Zenon DEF SetupFacts
    <2>11. /\ i \in 0 .. prim_count /\ i + 1 \in 0 .. prim_count
           /\ FirstOf(p) <= i /\ i + 1 <= FirstOf(p + 1)
           /\ FirstOf(p) \in 0 .. prim_count /\ FirstOf(p + 1) \in 0 .. prim_count /\ p \in Nat
      <3>1. FirstOf(p) \in 0 .. prim_count /\ FirstOf(p + 1) \in 0 .. prim_count /\ p \in Nat
        BY ONLY InPackage, p \in Packages
      <3>2. \A k \in PrimIds : k \div PS = p <=> FirstOf(p) <= k /\ k < FirstOf(p + 1)
        BY ONLY InPackage, p \in Packages
      <3>3. FirstOf(p) <= i /\ i < FirstOf(p + 1)
        BY ONLY <2>10, <3>2, i \in PrimIds, Zenon
      <3> QED
        BY ONLY <3>1, <3>3, GeomAssumption, i \in PrimIds DEF PrimIds
    <2>12. Before(tri, FirstOf(p)) <= Before(tri, i) /\ Before(tri, i + 1) <= Before(tri, FirstOf(p + 1))
      BY ONLY <2>3, <2>11, Zenon DEF DrawFacts
    <2>13. Before(tri, i + 1) = Before(tri, i) + AnnouncedFor[tri[i]] /\ AnnouncedFor[tri[i]] \in Nat
      <3>1. AnnouncedFor[tri[i]] \in Nat
        BY ONLY <2>3, i \in PrimIds, Zenon DEF PlacesFit
      <3> QED
        BY ONLY <2>3, <3>1, i \in PrimIds, Zenon DEF DrawFacts
    <2>14. PICK f \in Nat, l \in Nat, b \in Nat, e \in Nat, s \in Nat :
             /\ f = Before(tri, FirstOf(p)) /\ l = Before(tri, FirstOf(p + 1)) /\ b = Before(tri, i)
             /\ e = AnnouncedFor[tri[i]] /\ s = Sparse(p)
      <3>1. /\ Before(tri, FirstOf(p)) \in Nat /\ Before(tri, FirstOf(p + 1)) \in Nat /\ Before(tri, i) \in Nat
        BY ONLY <2>3, <2>11, Zenon DEF DrawFacts
      <3>2. Sparse(p) \in Nat
        BY ONLY <2>3, <2>11, Zenon DEF PlacesFit
      <3> QED
        BY ONLY <2>13, <3>1, <3>2
    <2>15. f <= b /\ b + e <= l /\ b < a + 1 /\ a + 1 <= b + e
      BY ONLY <2>9, <2>12, <2>13, <2>14, Zenon
    <2>16. PICK x : x = a + 1 - b
      OBVIOUS
    <2>17. x \in 1 .. e /\ f <= a /\ a < l /\ (s + (b - f)) + (x - 1) = s + (a - f) /\ b + x = a + 1
      BY ONLY <2>8, <2>15, <2>16, f \in Nat, b \in Nat, e \in Nat, s \in Nat, l \in Nat
    <2>18. address[p] = f /\ a \in address[p] .. address[p] + count[p] - 1
      <3>1. a \in Int
        BY ONLY <2>8
      <3> QED
        BY ONLY <2>1, <2>5, <2>14, <2>17, <3>1, Addressed, p \in Packages
    <2>19. compacted[a] = clipped[s + (a - f)]
      BY ONLY <2>1, <2>14, <2>18, copied = Packages, p \in Packages, Zenon DEF CopiedOk
    <2>20. Place(tri, i) = s + (b - f)
      BY ONLY <2>10, <2>14, Zenon DEF Place
    <2>21. clipped[Place(tri, i) + (x - 1)] = Verts(tri, i)[x]
      <3>1. Clipped(i)
        BY ONLY <2>1, <2>6, AllClipped, i \in PrimIds, Zenon
      <3>2. x \in 1 .. AnnouncedFor[tri[i]]
        BY ONLY <2>14, <2>17, Zenon
      <3> QED
        BY ONLY <2>1, <2>4, <3>1, <3>2, i \in PrimIds, Zenon DEF ClippedOk, InPlace
    <2>22. InDraw(tri)[b + x] = Verts(tri, i)[x]
      <3>1. x \in 1 .. AnnouncedFor[tri[i]]
        BY ONLY <2>14, <2>17, Zenon
      <3> QED
        BY ONLY <2>3, <2>14, <3>1, i \in PrimIds, Zenon DEF DrawFacts
    <2>23. InDraw(tri) = MeantAll
      BY DEF InDraw, MeantAll, MeantVerts, Verts
    <2> QED
      BY ONLY <2>17, <2>19, <2>20, <2>21, <2>22, <2>23, Zenon
  <1> QED
    BY <1>1, GeomInvariant, PTL

(* A triangle writes its three vertices, a larger polygon seven triangles  *)
(* at most.                                                                *)
LEMMA WrittenAtMost ==
  ASSUME NEW s \in Triangles
  PROVE  \/ Len(WrittenFor[s]) \in 0 .. 3
         \/ Len(ClippedTo[s]) > 3 /\ Len(WrittenFor[s]) \in 0 .. 21
  <1>1. PICK c \in Seq(Int) : c = ClipTriangle(s) /\ Len(c) \in {0, 3, 4, 5}
    BY ClippedFacts
  <1>2. PICK n : n = Len(c)
    OBVIOUS
  <1>3. WrittenFor[s] = Written(s) /\ ClippedTo[s] = c
    BY <1>1 DEF WrittenFor, ClippedTo
  <1>4. Announced(s) = IF n < 3 THEN 0 ELSE (n - 2) * 3
    BY <1>1, <1>2 DEF Announced
  <1>5. CASE n = 0
    <2>1. Announced(s) = 0
      BY <1>4, <1>5
    <2>2. Written(s) = <<>> /\ Len(<<>>) \in 0 .. 3
      BY <2>1 DEF Written
    <2> QED
      BY ONLY <1>3, <2>2
  <1>6. CASE n \in {3, 4, 5}
    <2>1. Announced(s) # 0 /\ Announced(s) - 2 = 3 * (n - 2) - 2 /\ Announced(s) - 2 \in 1 .. 7
      BY <1>4, <1>6
    <2>2. CASE InFrustum(s)
      <3>1. Written(s) = Fan(s.z, 1, s.front)
        BY <2>1, <2>2 DEF Written
      <3>2. s.z \in [1 .. 3 -> Int]
        BY ClippedFacts
      <3>3. s.z \in Seq(Int)
        BY ONLY <3>2, SequenceFrom
      <3>4. 1 \in Nat /\ 1 \in 0 .. 1 /\ 3 * 1 = 3 /\ 3 \in 0 .. 3
        OBVIOUS
      <3>5. Len(Fan(s.z, 1, s.front)) = 3 * 1
        BY ONLY <3>3, <3>4, FanFacts
      <3> QED
        BY ONLY <1>3, <3>1, <3>4, <3>5, Zenon
    <2>3. CASE ~InFrustum(s)
      <3>1. PICK k \in 1 .. 7 : k = Announced(s) - 2
        BY ONLY <2>1
      <3>2. Written(s) = Fan(c, k, s.front)
        BY <1>1, <2>1, <2>3, <3>1 DEF Written
      <3>3. k \in Nat /\ k \in 0 .. k /\ 3 * k \in 0 .. 21
        BY ONLY k \in 1 .. 7
      <3>4. Len(Fan(c, k, s.front)) = 3 * k
        BY ONLY <3>3, c \in Seq(Int), FanFacts
      <3>5. n = 3 => 3 * k \in 0 .. 3
        BY ONLY <2>1, <3>1
      <3>6. n # 3 => Len(c) > 3
        BY ONLY <1>2, <1>6
      <3> QED
        BY ONLY <1>3, <3>2, <3>3, <3>4, <3>5, <3>6, Zenon
    <2> QED
      BY <2>2, <2>3
  <1> QED
    BY ONLY <1>1, <1>2, <1>5, <1>6

(* A primitive is clipped within the nine places of each one before it.    *)
LEMMA StartsWithinNines ==
  ASSUME NEW tr \in [PrimIds -> Triangles], NEW i \in PrimIds
  PROVE  Place(tr, i) \in Nat /\ i \in Nat /\ i < prim_count /\ Place(tr, i) <= 9 * i
  <1>1. PICK p \in Packages : p = i \div PS
    BY SetupArithmetic, Zenon DEF SetupFacts
  <1>2. /\ PS \in Nat \ {0} /\ prim_count \in Nat /\ i \in Nat /\ i < prim_count
        /\ p \in Nat /\ p * PS \in Nat /\ FirstOf(p) = p * PS
    BY ONLY SetupArithmetic, i \in PrimIds, p \in Packages DEF SetupFacts
  <1>3. FirstOf(p) <= i
    BY ONLY <1>1, InPackage, p \in Packages, i \in PrimIds, Zenon
  <1>4. PICK f \in Nat : f = FirstOf(p)
    BY <1>2
  <1>5. f \in 0 .. prim_count /\ i \in f .. prim_count /\ i \in 0 .. prim_count
    BY ONLY <1>2, <1>3, <1>4
  <1>6. Before(tr, i) <= Before(tr, f) + 9 * (i - f)
    BY ONLY <1>5, AtMostNine, tr \in [PrimIds -> Triangles]
  <1>7. DrawFacts(tr)
    BY DrawOrder
  <1>8. PICK x \in Nat, y \in Nat : x = Before(tr, i) /\ y = Before(tr, f)
    BY ONLY <1>5, <1>7, Zenon DEF DrawFacts
  <1>9. Sparse(p) = 9 * f
    BY ONLY <1>2, <1>4 DEF Sparse, PS
  <1>10. Place(tr, i) = 9 * f + (x - y)
    BY ONLY <1>1, <1>4, <1>8, <1>9, Zenon DEF Place
  <1>11. Place(tr, i) \in Nat
    BY PlacesOfDraw, Zenon DEF PlacesFit
  <1>12. 9 * f + (x - y) <= 9 * i
    BY ONLY <1>2, <1>6, <1>8, f \in Nat
  <1> QED
    BY ONLY <1>2, <1>10, <1>11, <1>12, Zenon

(* What a write of a primitive's vertices can reach.                       *)
LEMMA WritesWithinNines ==
  ASSUME NEW tr \in [PrimIds -> Triangles], NEW i \in PrimIds
  PROVE  LET last == Place(tr, i) + Len(WrittenFor[tr[i]]) IN
           /\ last \in Nat /\ last <= Capacity + 12
           /\ last <= Nines(i) \/ (Len(ClippedTo[tr[i]]) > 3 /\ last <= Nines(i) + 12)
  <1>1. tr[i] \in Triangles
    OBVIOUS
  <1>2. PICK c \in Nat : c = Place(tr, i) /\ c <= 9 * i
    BY ONLY StartsWithinNines, tr \in [PrimIds -> Triangles], i \in PrimIds
  <1>3. i \in Nat /\ i < prim_count /\ prim_count \in Nat
    BY ONLY StartsWithinNines, tr \in [PrimIds -> Triangles], i \in PrimIds, GeomAssumption
  <1>4. PICK w \in 0 .. 21 : w = Len(WrittenFor[tr[i]]) /\ (w \in 0 .. 3 \/ Len(ClippedTo[tr[i]]) > 3)
    BY ONLY <1>1, WrittenAtMost
  <1>5. Capacity = 9 * prim_count /\ Nines(i) = 9 * i + 9
    BY ONLY <1>3 DEF Capacity, Nines
  <1>6. c + w \in Nat /\ c + w <= 9 * prim_count + 12 /\ c + w <= 9 * i + 21 /\ (w \in 0 .. 3 => c + w <= 9 * i + 9)
    BY ONLY <1>2, <1>3, w \in 0 .. 21
  <1>7. 9 * i + 21 = (9 * i + 9) + 12
    BY ONLY <1>3
  <1> QED
    BY ONLY <1>2, <1>4, <1>5, <1>6, <1>7, Zenon

(* What a thread writes lies within its reach, the rest stays.             *)
LEMMA ClipConfines ==
  ASSUME GInv, VerticesConfined, NEW t \in SetupThreads, ClipPrimitive(t)
  PROVE  VerticesConfined'
  <1>1. GeomTypeOK /\ TodoOk
    BY ONLY GInv, Zenon DEF GInv
  <1>2. todo[t] # {}
    BY DEF ClipPrimitive
  <1>3. PICK p \in Packages, j \in PrimIds : WorksAt(t, p, j)
    BY ONLY <1>1, <1>2, t \in SetupThreads, Zenon DEF TodoOk
  <1>4. Min(todo[t]) = j /\ cursor[t] = Place(tri, j) /\ j \div PS = p
    BY ONLY <1>1, <1>3, WorksAtIs, t \in SetupThreads
  <1>5. PICK verts : verts = Tagged(j, WrittenFor[tri[j]])
    OBVIOUS
  <1>6. /\ clipped' = [a \in Memory |->
             IF a \in cursor[t] .. cursor[t] + Len(verts) - 1 THEN verts[a - cursor[t] + 1] ELSE clipped[a]]
        /\ tri' = tri
    BY ONLY <1>4, <1>5, ClipPrimitive(t), Zenon DEF ClipPrimitive
  <1>7. tri \in [PrimIds -> Triangles] /\ tri[j] \in Triangles /\ j \in Int
    BY ONLY <1>1, j \in PrimIds DEF GeomTypeOK, PrimIds
  <1>8. Len(verts) = Len(WrittenFor[tri[j]]) /\ Len(WrittenFor[tri[j]]) \in Nat
    BY ONLY <1>5, <1>7, Tagging, Zenon DEF TaggedFacts
  <1>9. PICK c \in Nat, e \in Nat : c = cursor[t] /\ e = Len(verts)
    <2>1. cursor[t] \in Nat
      BY ONLY <1>1, t \in SetupThreads DEF GeomTypeOK
    <2> QED
      BY ONLY <1>8, <2>1
  <1>10. Sparse(j \div PS) <= c
    BY ONLY <1>4, <1>7, <1>9, PlacesOfDraw, j \in PrimIds, Zenon DEF PlacesFit
  <1>11. c + e <= Nines(j) \/ (Len(ClippedTo[tri[j]]) > 3 /\ c + e <= Nines(j) + 12)
    BY ONLY <1>4, <1>7, <1>8, <1>9, WritesWithinNines, j \in PrimIds
  <1>12. Nines(j) \in Nat /\ Sparse(j \div PS) \in Nat
    <2>1. j \in Nat /\ j \div PS \in Nat
      BY ONLY SetupArithmetic, j \in PrimIds, Zenon DEF SetupFacts, Packages
    <2>2. Sparse(j \div PS) \in Nat
      BY ONLY <1>7, <2>1, PlacesOfDraw, Zenon DEF PlacesFit
    <2> QED
      BY ONLY <2>1, <2>2 DEF Nines
  <1> SUFFICES ASSUME NEW a \in Memory, clipped'[a] # Empty PROVE Confined(a, clipped[a][1])'
    BY Zenon DEF VerticesConfined
  <1>13. CASE a \in c .. c + e - 1
    <2>1. clipped'[a] = verts[a - c + 1]
      BY ONLY <1>6, <1>9, <1>13, a \in Memory
    <2>2. a - c + 1 \in 1 .. Len(WrittenFor[tri[j]])
      <3>1. e = Len(WrittenFor[tri[j]])
        BY ONLY <1>8, <1>9, Zenon
      <3>2. a - c + 1 \in 1 .. e
        BY ONLY <1>13, c \in Nat, e \in Nat
      <3> QED
        BY ONLY <3>1, <3>2, Zenon
    <2>3. verts[a - c + 1] = <<j, WrittenFor[tri[j]][a - c + 1]>>
      BY ONLY <1>5, <2>2 DEF Tagged
    <2>4. clipped'[a][1] = j
      BY ONLY <2>1, <2>3
    <2>5. Sparse(j \div PS) <= a /\ (a < Nines(j) \/ (Len(ClippedTo[tri[j]]) > 3 /\ a < Nines(j) + 12))
      BY ONLY <1>10, <1>11, <1>12, <1>13
    <2> QED
      BY ONLY <1>6, <2>4, <2>5, Zenon DEF Confined, PS
  <1>14. CASE a \notin c .. c + e - 1
    <2>1. clipped'[a] = clipped[a]
      BY ONLY <1>6, <1>9, <1>14, a \in Memory
    <2>2. Confined(a, clipped[a][1])
      BY ONLY <2>1, VerticesConfined, clipped'[a] # Empty, a \in Memory, Zenon DEF VerticesConfined
    <2> QED
      BY ONLY <1>6, <2>1, <2>2, Zenon DEF Confined
  <1> QED
    BY <1>13, <1>14

(* Whatever the triangles, the sizes and the interleaving: a vertex stays  *)
(* within the nine places of each primitive up to its own, and a polygon   *)
(* of four or five, whose loop runs too far, spoils twelve places more at  *)
(* most, of the array and behind it.                                       *)
THEOREM OverrunIsConfined == GeomSpec => []OverrunConfined
  <1>1. GeomInit => VerticesConfined
    BY DEF GeomInit, VerticesConfined
  <1>2. GInv /\ VerticesConfined /\ [GeomNext]_geomVars => VerticesConfined'
    <2> SUFFICES ASSUME GInv, VerticesConfined, [GeomNext]_geomVars PROVE VerticesConfined'
      OBVIOUS
    <2>1. ASSUME NEW t \in SetupThreads, ClipPrimitive(t) PROVE VerticesConfined'
      BY ONLY GInv, VerticesConfined, <2>1, ClipConfines
    <2>2. ASSUME clipped' = clipped, tri' = tri PROVE VerticesConfined'
      BY ONLY VerticesConfined, <2>2, Zenon DEF VerticesConfined, Confined
    <2>3. ASSUME NEW t \in SetupThreads, TakeTriangles(t) PROVE VerticesConfined'
      BY <2>2, <2>3, Zenon DEF TakeTriangles
    <2>4. CASE ComputeAddresses
      BY <2>2, <2>4, Zenon DEF ComputeAddresses
    <2>5. ASSUME NEW p \in Packages, CompactPackage(p) PROVE VerticesConfined'
      BY <2>2, <2>5, Zenon DEF CompactPackage
    <2>6. CASE UNCHANGED geomVars
      BY <2>2, <2>6, Zenon DEF geomVars
    <2> QED
      BY <2>1, <2>3, <2>4, <2>5, <2>6, Zenon DEF GeomNext
  <1>3. GInv /\ VerticesConfined => OverrunConfined
    <2> SUFFICES ASSUME GInv, VerticesConfined PROVE OverrunConfined
      OBVIOUS
    <2>1. ASSUME NEW t \in SetupThreads, todo[t] # {}
          PROVE  cursor[t] + Len(WrittenFor[tri[Min(todo[t])]]) <= Capacity + 12
      <3>1. GeomTypeOK /\ TodoOk
        BY ONLY GInv, Zenon DEF GInv
      <3>2. PICK p \in Packages, j \in PrimIds : WorksAt(t, p, j)
        BY ONLY <2>1, <3>1, Zenon DEF TodoOk
      <3>3. Min(todo[t]) = j /\ cursor[t] = Place(tri, j)
        BY ONLY <3>1, <3>2, WorksAtIs, t \in SetupThreads
      <3>4. tri \in [PrimIds -> Triangles]
        BY ONLY <3>1 DEF GeomTypeOK
      <3>5. Place(tri, j) + Len(WrittenFor[tri[j]]) <= Capacity + 12
        BY ONLY <3>4, WritesWithinNines, j \in PrimIds
      <3> QED
        BY ONLY <3>3, <3>5, Zenon
    <2> QED
      BY ONLY VerticesConfined, <2>1, Zenon DEF OverrunConfined, VerticesConfined, Confined
  <1> QED
    BY <1>1, <1>2, <1>3, GeomInvariant, PTL DEF GeomSpec
=============================================================================
