------------------------------ MODULE GeomSetup ------------------------------
(***************************************************************************)
(* geom_setup_engine: the threads clip packages of triangles into a sparse *)
(* array, nine places for each triangle; a prefix sum gives each package   *)
(* its address; the threads copy the packages to the compacted array.      *)
(* Both loops are execute_threads (ThreadContext): packages are taken in   *)
(* order, and the loop is over when all are done.                          *)
(***************************************************************************)
EXTENDS Clipper, FiniteSetsExt

CONSTANTS SetupThreads,
          prim_count,
          Triangles,                      (* the shapes that occur         *)
          GEOMETRY_SETUP_PACKAGE_SIZE

ASSUME GeomAssumption ==
  /\ prim_count \in Nat \ {0}
  /\ Triangles \subseteq Shapes
  /\ GEOMETRY_SETUP_PACKAGE_SIZE \in Nat \ {0}

PrimIds == 0 .. prim_count - 1
package_count == (prim_count + GEOMETRY_SETUP_PACKAGE_SIZE - 1) \div GEOMETRY_SETUP_PACKAGE_SIZE
Packages == 0 .. package_count - 1
PrimsOf(p) == {i \in PrimIds : i \div GEOMETRY_SETUP_PACKAGE_SIZE = p}
Sparse(p) == p * GEOMETRY_SETUP_PACKAGE_SIZE * 9

(* clipped_verts_cap_, and the memory behind it that a write can reach:    *)
(* the last primitive starts nine places before the end, or earlier, and   *)
(* writes at most seven triangles.                                         *)
Capacity == prim_count * 3 * 3
Memory == 0 .. Capacity + 11

(* What the clipper makes of each shape, tabulated for TLC.                *)
ClippedTo == [s \in Triangles |-> ClipTriangle(s)]
WrittenFor == [s \in Triangles |-> Written(s)]
AnnouncedFor == [s \in Triangles |-> Announced(s)]
MeantFor == [s \in Triangles |-> Meant(s)]

(* A place of the arrays holds a vertex of a triangle, or nothing yet.     *)
Tagged(i, verts) == [k \in 1 .. Len(verts) |-> <<i, verts[k]>>]
Empty == <<-1, Junk>>

VARIABLES
  tri,               (* the triangles of the draw                          *)
  setup_package,
  todo,              (* the primitives each thread still has to clip       *)
  cursor,            (* clip_results.clipped_verts of each thread          *)
  clipped,           (* clipped_verts_                                     *)
  count,             (* clipped_package_verts_count_                       *)
  address,           (* clipped_package_compacted_addresses_               *)
  copied,            (* the packages compacted                             *)
  compacted          (* compacted_verts_                                   *)

geomVars == <<tri, setup_package, todo, cursor, clipped, count, address, copied, compacted>>

GeomInit ==
  /\ tri \in [PrimIds -> Triangles]
  /\ setup_package = 0
  /\ todo = [t \in SetupThreads |-> {}]
  /\ cursor = [t \in SetupThreads |-> 0]
  /\ clipped = [a \in Memory |-> Empty]
  /\ count = [p \in Packages |-> 0]
  /\ address = <<>>
  /\ copied = {}
  /\ compacted = <<>>

TakeTriangles(t) ==
  /\ todo[t] = {}
  /\ setup_package < package_count
  /\ setup_package' = setup_package + 1
  /\ todo' = [todo EXCEPT ![t] = PrimsOf(setup_package)]
  /\ cursor' = [cursor EXCEPT ![t] = Sparse(setup_package)]
  /\ count' = [count EXCEPT ![setup_package] = 0]
  /\ UNCHANGED <<tri, clipped, address, copied, compacted>>

(* fetch3 and clip of one primitive: the vertices are written from the     *)
(* cursor on, and the cursor moves by the number announced.                *)
ClipPrimitiveNoStep(t) ==
  /\ todo[t] # {}
  /\ LET i == Min(todo[t])
         verts == Tagged(i, WrittenFor[tri[i]])
         p == i \div GEOMETRY_SETUP_PACKAGE_SIZE IN
       /\ clipped' = [a \in Memory |->
            IF a \in cursor[t] .. cursor[t] + Len(verts) - 1 THEN verts[a - cursor[t] + 1] ELSE clipped[a]]
       /\ cursor' = cursor
       /\ count' = [count EXCEPT ![p] = @ + AnnouncedFor[tri[i]]]
       /\ todo' = [todo EXCEPT ![t] = @ \ {i}]
  /\ UNCHANGED <<tri, setup_package, address, copied, compacted>>

ClipPrimitive(t) ==
  /\ todo[t] # {}
  /\ LET i == Min(todo[t])
         verts == Tagged(i, WrittenFor[tri[i]])
         p == i \div GEOMETRY_SETUP_PACKAGE_SIZE IN
       /\ clipped' = [a \in Memory |->
            IF a \in cursor[t] .. cursor[t] + Len(verts) - 1 THEN verts[a - cursor[t] + 1] ELSE clipped[a]]
       /\ cursor' = [cursor EXCEPT ![t] = @ + AnnouncedFor[tri[i]]]
       /\ count' = [count EXCEPT ![p] = @ + AnnouncedFor[tri[i]]]
       /\ todo' = [todo EXCEPT ![t] = @ \ {i}]
  /\ UNCHANGED <<tri, setup_package, address, copied, compacted>>

Clipping == setup_package < package_count \/ \E t \in SetupThreads : todo[t] # {}

(* The prefix sum, after the first loop is over.                           *)
SumBelowOrAt(p) == FoldSet(LAMBDA q, s : s + count[q], 0, (0 .. p) \cap Packages)  (* a slip *)
SumBelow(p) == FoldSet(LAMBDA q, s : s + count[q], 0, 0 .. p - 1)
ComputeAddresses ==
  /\ ~Clipping
  /\ address = <<>>
  /\ address' = [p \in 0 .. package_count |-> SumBelow(p)]
  /\ compacted' = [a \in 0 .. SumBelow(package_count) - 1 |-> Empty]
  /\ UNCHANGED <<tri, setup_package, todo, cursor, clipped, count, copied>>

(* memcpy of one package, by any thread.                                   *)
CompactPackage(p) ==
  /\ address # <<>>
  /\ p \notin copied
  /\ compacted' = [a \in DOMAIN compacted |->
       IF a \in address[p] .. address[p] + count[p] - 1
       THEN clipped[Sparse(p) + a - address[p]] ELSE compacted[a]]
  /\ copied' = copied \cup {p}
  /\ UNCHANGED <<tri, setup_package, todo, cursor, clipped, count, address>>

GeomNext ==
  \/ \E t \in SetupThreads : TakeTriangles(t) \/ ClipPrimitive(t)
  \/ ComputeAddresses
  \/ \E p \in Packages : CompactPackage(p)

GeomSpec == GeomInit /\ [][GeomNext]_geomVars
-----------------------------------------------------------------------------
(* The vertices the draw should hand to the rasterizer: those of the       *)
(* triangles in the order of the triangles.                                *)
MeantVerts(i) == Tagged(i, MeantFor[tri[i]])
MeantAll == FlattenSeq([k \in 1 .. prim_count |-> MeantVerts(k - 1)])

(* The polygon clip_triangle_to_poly_general leaves of a triangle that is  *)
(* not culled is the part between the planes: it is empty exactly when the *)
(* triangle lies beyond one of them, keeps inside both, reaches as near    *)
(* and as far as the triangle and the planes allow, and has at most the    *)
(* five vertices the clipper asserts.                                      *)
PolygonExact ==
  \A i \in PrimIds :
    LET poly == ToSet(ClippedTo[tri[i]])
        lowest == Min({tri[i].z[k] : k \in 1 .. 3})
        highest == Max({tri[i].z[k] : k \in 1 .. 3}) IN
      ~tri[i].culled =>
        /\ Len(ClippedTo[tri[i]]) \in {0, 3, 4, 5}
        /\ poly = {} <=> highest < 0 \/ lowest > Far
        /\ poly # {} => Min(poly) = Max({0, lowest}) /\ Max(poly) = Min({Far, highest})

(* Whoever clips which package, verts_count() and the addresses are those  *)
(* of the triangles in order.                                              *)
AddressesExact ==
  address # <<>> =>
    \A p \in 0 .. package_count :
      address[p] = Len(FlattenSeq([k \in 1 .. prim_count |->
                     IF (k - 1) \div GEOMETRY_SETUP_PACKAGE_SIZE < p THEN MeantVerts(k - 1) ELSE <<>>]))

(* A polygon of more than three vertices is written beyond its own end     *)
(* (Written), into places the next primitive of the package overwrites, or *)
(* into the next package if there is no next primitive to start so late.   *)
SparseStart(i) == Sparse(i \div GEOMETRY_SETUP_PACKAGE_SIZE)
              + FoldSet(LAMBDA k, s : s + AnnouncedFor[tri[k]], 0,
                        {k \in PrimsOf(i \div GEOMETRY_SETUP_PACKAGE_SIZE) : k < i})
Spills(i) == SparseStart(i) + Len(WrittenFor[tri[i]]) > Sparse((i \div GEOMETRY_SETUP_PACKAGE_SIZE) + 1)

(* The compacted array ends up holding the triangles' vertices in order,   *)
(* unless a polygon was written into the next package's places.            *)
CompactedExact ==
  copied = Packages /\ (\A i \in PrimIds : ~Spills(i)) =>
    \A a \in DOMAIN compacted : compacted[a] = MeantAll[a + 1]

(* What such a polygon can spoil, whoever clips when: a vertex lies in its *)
(* primitive's package or behind it, within the nine places of each        *)
(* primitive up to its own, or, of a larger polygon only, in the twelve    *)
(* after them; so memory is written at most twelve places behind the array *)
(* and only for the last two primitives.                                   *)
Nines(i) == 9 * (i + 1)
Confined(a, i) ==
  /\ Sparse(i \div GEOMETRY_SETUP_PACKAGE_SIZE) <= a
  /\ a < Nines(i) \/ (Len(ClippedTo[tri[i]]) > 3 /\ a < Nines(i) + 12)
VerticesConfined == \A a \in Memory : clipped[a] # Empty => Confined(a, clipped[a][1])
OverrunConfined ==
  /\ VerticesConfined
  /\ \A t \in SetupThreads : todo[t] # {} =>
       cursor[t] + Len(WrittenFor[tri[Min(todo[t])]]) <= Capacity + 12

(* "Every triangle can clipped out 3 triangles at most": the array with    *)
(* that many places is never overrun.                                      *)
InsideBuffer == \A a \in Memory : a >= Capacity => clipped[a] = Empty
=============================================================================
