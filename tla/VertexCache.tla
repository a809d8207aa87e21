----------------------------- MODULE VertexCache -----------------------------
(***************************************************************************)
(* The vertex caches between a draw and the shader: the threads of the     *)
(* geometry setup ask for the vertices of a triangle (fetch3) and get      *)
(* pointers; then every vertex that is left of the clipped triangles is    *)
(* projected in place, once however many triangles point to it.            *)
(*                                                                         *)
(* tls_vertex_cache keeps the vertices of each thread; shared_vertex_cache *)
(* has a second level the threads share, each entry of it locked by a      *)
(* marker in its index; precomputed_vertex_cache shades all vertices       *)
(* first.  create_default_vertex_cache makes the first; the others are the *)
(* same interface, chosen by changing that line.                           *)
(*                                                                         *)
(* The loops are execute_threads, here as ParallelFor promises it: the     *)
(* items of a loop in any order, each once.  No vertex has one of the two  *)
(* indexes that mark an entry.                                             *)
(***************************************************************************)
EXTENDS IndexFetcher, FiniteSets, SequencesExt

CONSTANTS thread_count,
          ENTRY_SIZE,          (* entries of a thread's own cache          *)
          SHARED_ENTRY_SIZE,   (* entries of the shared level              *)
          Classes,             (* the classes of cache that occur          *)
          Draws,               (* the draws that occur                     *)
          Remains,             (* what clipping leaves of a triangle       *)
          MaxVertices,         (* a bound on the vertices of a draw        *)
          MaxDraws             (* a bound on the number of draws           *)

(* An index buffer holds all that the draw reads of it: nothing checks it. *)
ASSUME CacheAssumption ==
  /\ {thread_count, ENTRY_SIZE, SHARED_ENTRY_SIZE, MaxDraws, MaxVertices} \subseteq Nat \ {0}
  /\ Classes \subseteq {"tls", "shared", "precomputed"} /\ Remains \subseteq SUBSET (1 .. 3)
  /\ \A d \in Draws :
       /\ d.topo \in {"triangle_list", "triangle_strip"} /\ d.indexed \in BOOLEAN
       /\ d.prim_count \in Nat \ {0} /\ 3 * d.prim_count <= MaxVertices
       /\ d.indexed => /\ d.start \in Nat /\ d.indexes \in Seq(Int)
                       /\ d.start + IdCount(d) <= Len(d.indexes)
       /\ \A p \in Prims(d), k \in 1 .. 3 : fetch_indexes(d, p)[k] \in Nat

Threads == 0 .. thread_count - 1
INVALID_SHARED_ENTRY == -1
SHARED_ENTRY_IS_USING == -2

(* A place for a vertex: in the pool of a thread, or in transformed_verts_ *)
(* of the precomputing cache.                                              *)
Capacity(d) == 3 * d.prim_count
Transformed == thread_count
Places == (Threads \cup {Transformed}) \X (0 .. MaxVertices - 1)
Nowhere == <<-1, -1>>

(* What a place holds: the vertex of a draw, and how often it was          *)
(* projected.                                                              *)
Vertex(draw, index, projected) == [draw |-> draw, index |-> index, projected |-> projected]

VARIABLES
  class,        (* the cache in use                                        *)
  drawn,        (* how many draws there were                               *)
  draw,         (* the draw at work                                        *)
  phase,        (* where the rasterizer is                                 *)
  todo,         (* the items of the loop that no thread has taken          *)
  cell,         (* the vertices                                            *)
  used,         (* used_verts_                                             *)
  next,         (* the size of each thread's pool                          *)
  items,        (* each thread's own entries                               *)
  shared,       (* the shared entries                                      *)
  local,        (* each thread in fetch3                                   *)
  handed,       (* the pointers given for each triangle                    *)
  gathered      (* the vertices that clipping leaves, as <<p, k>>          *)

vars == <<class, drawn, draw, phase, todo, cell, used, next, items, shared, local, handed, gathered>>

Entry(first, second) == [first |-> first, second |-> second]
Cleared(size) == [key \in 0 .. size - 1 |-> Entry(INVALID_SHARED_ENTRY, Nowhere)]
Idle == [at |-> "idle", prim |-> 0, v |-> <<>>, old |-> INVALID_SHARED_ENTRY]

Init ==
  /\ class \in Classes
  /\ drawn = 0
  /\ draw \in Draws
  /\ phase = "idle"
  /\ todo = {}
  /\ cell = [place \in Places |-> Vertex(0, 0, 0)]
  /\ used = <<>>
  /\ next = [t \in Threads |-> 0]
  /\ items = [t \in Threads |-> Cleared(ENTRY_SIZE)]
  /\ shared = Cleared(SHARED_ENTRY_SIZE)
  /\ local = [t \in Threads |-> Idle]
  /\ handed = <<>>
  /\ gathered = {}

(* Sorted and made unique: the indexes of the draw, ascending.             *)
Indices(d) == {fetch_indexes(d, p)[k] : p \in Prims(d), k \in 1 .. 3}
Ascending(all) ==
  {s \in [1 .. Cardinality(all) -> all] : \A j, k \in DOMAIN s : j < k => s[j] < s[k]}
unique_indices == CHOOSE s \in Ascending(Indices(draw)) : TRUE

Begin(d) ==
  /\ phase = "idle" /\ drawn < MaxDraws
  /\ drawn' = drawn + 1 /\ draw' = d
  /\ handed' = [p \in Prims(d) |-> <<>>]
  /\ gathered' = {}
  /\ UNCHANGED <<class, cell, local>>

(* prepare_vertices of the two caches that shade on demand.                *)
PrepareKeepPool(d) ==                                         (* a slip    *)
  /\ class # "precomputed" /\ Begin(d)
  /\ phase' = "fetch" /\ todo' = Prims(d)
  /\ items' = [t \in Threads |-> Cleared(ENTRY_SIZE)]
  /\ shared' = Cleared(SHARED_ENTRY_SIZE)
  /\ UNCHANGED <<used, next>>

Prepare(d) ==
  /\ class # "precomputed" /\ Begin(d)
  /\ phase' = "fetch" /\ todo' = Prims(d)
  /\ next' = [t \in Threads |-> 0]
  /\ items' = [t \in Threads |-> Cleared(ENTRY_SIZE)]
  /\ shared' = Cleared(SHARED_ENTRY_SIZE)
  /\ UNCHANGED used

(* prepare_vertices of the other: the distinct indexes are shaded first.   *)
PrepareAll(d) ==
  /\ class = "precomputed" /\ Begin(d)
  /\ phase' = "transform" /\ todo' = 0 .. Len(unique_indices') - 1
  /\ used' = [id \in 0 .. Last(unique_indices') |-> IF id \in DOMAIN used THEN used[id] ELSE 0]
  /\ UNCHANGED <<next, items, shared>>

TransformVertex(i) ==
  /\ phase = "transform"
  /\ used' = [used EXCEPT ![unique_indices[i + 1]] = i]
  /\ cell' = [cell EXCEPT ![<<Transformed, i>>] = Vertex(drawn, unique_indices[i + 1], 0)]
  /\ todo' = IF todo = {i} THEN Prims(draw) ELSE todo \ {i}
  /\ phase' = IF todo = {i} THEN "fetch" ELSE phase
  /\ UNCHANGED <<class, drawn, draw, next, items, shared, local, handed, gathered>>

FetchTransformed(p) ==
  /\ phase = "fetch" /\ class = "precomputed"
  /\ handed' = [handed EXCEPT ![p] = [k \in 1 .. 3 |-> <<Transformed, used[fetch_indexes(draw, p)[k]]>>]]
  /\ todo' = todo \ {p}
  /\ UNCHANGED <<class, drawn, draw, phase, cell, used, next, items, shared, local, gathered>>
-----------------------------------------------------------------------------
(* fetch3, vertex by vertex.                                               *)
TakePrimitive(t, p) ==
  /\ phase = "fetch" /\ class # "precomputed"
  /\ local[t].at = "idle"
  /\ local' = [local EXCEPT ![t] = [Idle EXCEPT !.at = "look", !.prim = p]]
  /\ todo' = todo \ {p}
  /\ UNCHANGED <<class, drawn, draw, phase, cell, used, next, items, shared, handed, gathered>>

IndexOf(t, k) == fetch_indexes(draw, local[t].prim)[k]
Wanted(t) == IndexOf(t, Len(local[t].v) + 1)
Looking(t) == local[t].at = "look" /\ Len(local[t].v) < 3
Own(t) == items[t][Wanted(t) % ENTRY_SIZE]
SharedKey(index) == index % SHARED_ENTRY_SIZE

Hit(t) ==
  /\ Looking(t)
  /\ Own(t).first = Wanted(t)
  /\ local' = [local EXCEPT ![t].v = Append(@, Own(t).second)]
  /\ UNCHANGED <<class, drawn, draw, phase, todo, cell, used, next, items, shared, handed, gathered>>

(* A vertex is shaded into the next place of the pool, and remembered.     *)
Shade(t, at) ==
  LET place == <<t, next[t]>> IN
    /\ next' = [next EXCEPT ![t] = @ + 1]
    /\ cell' = [cell EXCEPT ![place] = Vertex(drawn, Wanted(t), 0)]
    /\ items' = [items EXCEPT ![t][Wanted(t) % ENTRY_SIZE] = Entry(Wanted(t), place)]
    /\ local' = [local EXCEPT ![t].v = Append(@, place), ![t].at = at]

Miss(t) ==
  /\ Looking(t) /\ class = "tls"
  /\ Own(t).first # Wanted(t)
  /\ Shade(t, "look")
  /\ UNCHANGED <<class, drawn, draw, phase, todo, used, shared, handed, gathered>>

(* lock_shared_item: the thread spins until it has put the marker.         *)
Lock(key) ==
  /\ shared[key].first # SHARED_ENTRY_IS_USING
  /\ shared' = [shared EXCEPT ![key].first = SHARED_ENTRY_IS_USING]

LockShared(t) ==
  /\ Looking(t) /\ class = "shared"
  /\ Own(t).first # Wanted(t)
  /\ Lock(SharedKey(Wanted(t)))
  /\ local' = [local EXCEPT ![t].at = "locked", ![t].old = shared[SharedKey(Wanted(t))].first]
  /\ UNCHANGED <<class, drawn, draw, phase, todo, cell, used, next, items, handed, gathered>>

HitSharedKeepLock(t) ==                                       (* a slip    *)
  /\ local[t].at = "locked" /\ local[t].old = Wanted(t)
  /\ LET place == shared[SharedKey(Wanted(t))].second IN
       /\ items' = [items EXCEPT ![t][Wanted(t) % ENTRY_SIZE] = Entry(Wanted(t), place)]
       /\ local' = [local EXCEPT ![t].v = Append(@, place), ![t].at = "look"]
  /\ UNCHANGED <<class, drawn, draw, phase, todo, cell, used, next, shared, handed, gathered>>

HitShared(t) ==
  /\ local[t].at = "locked" /\ local[t].old = Wanted(t)
  /\ LET place == shared[SharedKey(Wanted(t))].second IN
       /\ items' = [items EXCEPT ![t][Wanted(t) % ENTRY_SIZE] = Entry(Wanted(t), place)]
       /\ local' = [local EXCEPT ![t].v = Append(@, place), ![t].at = "look"]
  /\ shared' = [shared EXCEPT ![SharedKey(Wanted(t))].first = Wanted(t)]
  /\ UNCHANGED <<class, drawn, draw, phase, todo, cell, used, next, handed, gathered>>

MissSharedClaim(t) ==                                         (* a slip    *)
  /\ local[t].at = "locked" /\ local[t].old # Wanted(t)
  /\ shared' = [shared EXCEPT ![SharedKey(Wanted(t))].first = Wanted(t)]
  /\ Shade(t, "publish")
  /\ UNCHANGED <<class, drawn, draw, phase, todo, used, handed, gathered>>

(* The entry is given back as it was while the vertex is shaded.           *)
MissShared(t) ==
  /\ local[t].at = "locked" /\ local[t].old # Wanted(t)
  /\ shared' = [shared EXCEPT ![SharedKey(Wanted(t))].first = local[t].old]
  /\ Shade(t, "publish")
  /\ UNCHANGED <<class, drawn, draw, phase, todo, used, handed, gathered>>

(* The vertex just shaded is the last in v.                                *)
Shaded(t) == IndexOf(t, Len(local[t].v))
LockToPublish(t) ==
  /\ local[t].at = "publish"
  /\ Lock(SharedKey(Shaded(t)))
  /\ local' = [local EXCEPT ![t].at = "publishing"]
  /\ UNCHANGED <<class, drawn, draw, phase, todo, cell, used, next, items, handed, gathered>>

Publish(t) ==
  /\ local[t].at = "publishing"
  /\ shared' = [shared EXCEPT ![SharedKey(Shaded(t))] = Entry(Shaded(t), Last(local[t].v))]
  /\ local' = [local EXCEPT ![t].at = "look"]
  /\ UNCHANGED <<class, drawn, draw, phase, todo, cell, used, next, items, handed, gathered>>

Return(t) ==
  /\ local[t].at = "look" /\ Len(local[t].v) = 3
  /\ handed' = [handed EXCEPT ![local[t].prim] = local[t].v]
  /\ local' = [local EXCEPT ![t] = Idle]
  /\ UNCHANGED <<class, drawn, draw, phase, todo, cell, used, next, items, shared, gathered>>
-----------------------------------------------------------------------------
(* viewport_and_project_transform: of the vertices clipping leaves (of a   *)
(* triangle that is culled none, of one that is cut some; the vertices it  *)
(* adds are not in the cache) the pointers, sorted and made unique: of     *)
(* equal ones the first stays.                                             *)
Slots(d) == Prims(d) \X (1 .. 3)
Number(slot) == 3 * slot[1] + slot[2]
Pointer(slot) == handed[slot[1]][slot[2]]

NotUnique(slots) == slots                                     (* a slip    *)

Unique(slots) ==
  {s \in slots : \A r \in slots : Pointer(r) = Pointer(s) => Number(s) <= Number(r)}

GatherVertices ==
  /\ phase = "fetch" /\ todo = {} /\ \A t \in Threads : local[t].at = "idle"
  /\ \E left \in [Prims(draw) -> Remains] :
       gathered' = {slot \in Slots(draw) : slot[2] \in left[slot[1]]}
  /\ todo' = Unique(gathered')
  /\ phase' = IF todo' = {} THEN "idle" ELSE "project"
  /\ UNCHANGED <<class, drawn, draw, cell, used, next, items, shared, local, handed>>

ProjectVertex(slot) ==
  /\ phase = "project"
  /\ cell' = [cell EXCEPT ![Pointer(slot)].projected = @ + 1]
  /\ todo' = todo \ {slot}
  /\ phase' = IF todo = {slot} THEN "idle" ELSE phase
  /\ UNCHANGED <<class, drawn, draw, used, next, items, shared, local, handed, gathered>>

Fetch(t) ==
  \/ \E p \in todo : TakePrimitive(t, p)
  \/ Hit(t) \/ Miss(t) \/ LockShared(t) \/ HitShared(t) \/ MissShared(t)
  \/ LockToPublish(t) \/ Publish(t) \/ Return(t)
Loops ==
  \/ GatherVertices
  \/ \E item \in todo : TransformVertex(item) \/ FetchTransformed(item) \/ ProjectVertex(item)

Next == Loops \/ (\E d \in Draws : Prepare(d) \/ PrepareAll(d)) \/ \E t \in Threads : Fetch(t)

Spec == Init /\ [][Next]_vars

(* The loops go on, and so does each thread in fetch3.                     *)
FairSpec == Spec /\ WF_vars(Loops) /\ \A t \in Threads : WF_vars(Fetch(t))
-----------------------------------------------------------------------------
(* Every variable has its type; no pool grows past what prepare_vertices   *)
(* reserved.                                                               *)
Entries == [first : Int, second : Places \cup {Nowhere}]
TypeOK ==
  /\ class \in Classes /\ drawn \in 0 .. MaxDraws /\ draw \in Draws
  /\ phase \in {"idle", "transform", "fetch", "project"}
  /\ cell \in [Places -> [draw : 0 .. MaxDraws, index : Nat, projected : Nat]]
  /\ next \in [Threads -> 0 .. Capacity(draw)]
  /\ items \in [Threads -> [0 .. ENTRY_SIZE - 1 -> Entries]]
  /\ shared \in [0 .. SHARED_ENTRY_SIZE - 1 -> Entries]
  /\ local \in [Threads -> [at : {"idle", "look", "locked", "publish", "publishing"},
                            prim : Nat, v : Seq(Places), old : Int]]

(* Whatever the threads did to the caches meanwhile, the three pointers    *)
(* handed out for a triangle lead to the vertices of that triangle of this *)
(* draw, wound as the strip or list says; those that clipping leaves are   *)
(* projected once by the end of the loop, though several triangles lead to *)
(* the same, and no other is; and in the end no triangle is missing.       *)
PointersOf(slots) == {Pointer(s) : s \in slots}
Projected(place) == place \in PointersOf(gathered) \ PointersOf(todo)
Times(place) == IF phase \in {"project", "idle"} /\ Projected(place) THEN 1 ELSE 0
VerticesExact ==
  drawn > 0 =>
    \A p \in Prims(draw) :
      IF handed[p] = <<>> THEN phase \in {"transform", "fetch"}
      ELSE \E r \in Rotations(Meant(draw, p)) :
             \A k \in 1 .. 3 : cell[handed[p][k]] = Vertex(drawn, r[k], Times(handed[p][k]))

(* An entry of the shared level is marked while exactly one thread holds   *)
(* it; and an entry that shows an index leads to a vertex of this draw     *)
(* with that index, finished.                                              *)
Holds(t, key) ==
  \/ local[t].at = "locked" /\ SharedKey(Wanted(t)) = key
  \/ local[t].at = "publishing" /\ SharedKey(Shaded(t)) = key
SharedItemsExact ==
  phase = "fetch" =>
    \A key \in DOMAIN shared :
      /\ Cardinality({t \in Threads : Holds(t, key)}) =
           (IF shared[key].first = SHARED_ENTRY_IS_USING THEN 1 ELSE 0)
      /\ shared[key].first >= 0 =>
           /\ shared[key].second \in Places
           /\ cell[shared[key].second] = Vertex(drawn, shared[key].first, 0)

(* No thread spins for ever: every draw that begins is drawn.              *)
EveryDrawEnds == phase # "idle" ~> phase = "idle"
=============================================================================
