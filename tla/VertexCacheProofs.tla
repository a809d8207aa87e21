--------------------------- MODULE VertexCacheProofs ---------------------------
(***************************************************************************)
(* The vertices a draw is made of, for any number of threads, any sizes of *)
(* the caches, all draws and each of the three classes.                    *)
(*                                                                         *)
(* The argument.  While vertices are fetched a place of a pool is written  *)
(* when it is taken and never again, so whoever remembers it (an entry of  *)
(* a thread, an entry of the shared level, a thread in the middle of       *)
(* fetch3, a triangle that has its pointers) finds in it what was shaded   *)
(* there.  A thread that holds an entry of the shared level is the only    *)
(* one to write it.  What a thread may still shade is bounded by what is   *)
(* still to be fetched, so the pool suffices.                              *)
(***************************************************************************)
EXTENDS VertexCache, FiniteSetTheorems, WellFoundedInduction, TLAPS

Busy(t) == local[t].at # "idle"
OnDemand == class # "precomputed"

(* A place of a pool that was taken holds a finished vertex.               *)
Taken(place) == place \in Places /\ place[1] \in Threads /\ place[2] < next[place[1]]
Leads(place, index) == Taken(place) /\ cell[place] = Vertex(drawn, index, 0)

PhaseOk ==
  /\ phase = "transform" => ~OnDemand
  /\ ~(phase = "fetch" /\ OnDemand) => \A t \in Threads : ~Busy(t)
  /\ phase \in {"transform", "fetch", "project"} => drawn > 0

(* The precomputing cache leaves the pools and the entries alone.          *)
PoolsIdle ==
  ~OnDemand =>
    /\ \A t \in Threads : next[t] = 0
    /\ \A t \in Threads : \A key \in DOMAIN items[t] : items[t][key].first = INVALID_SHARED_ENTRY
    /\ \A key \in DOMAIN shared : shared[key].first = INVALID_SHARED_ENTRY

(* How many vertices a thread in fetch3 may still shade.                   *)
Need(t) == IF Busy(t) THEN 3 - Len(local[t].v) ELSE 0
RoomOk ==
  phase = "fetch" =>
    /\ todo \subseteq Prims(draw)
    /\ OnDemand => \A t \in Threads : next[t] + 3 * Cardinality(todo) + Need(t) <= Capacity(draw)

OwnOk ==
  phase = "fetch" =>
    \A t \in Threads : \A key \in DOMAIN items[t] :
      items[t][key].first >= 0 => Leads(items[t][key].second, items[t][key].first)

SharedOk ==
  phase = "fetch" =>
    \A key \in DOMAIN shared :
      /\ shared[key].first >= 0 \/ shared[key].first \in {INVALID_SHARED_ENTRY, SHARED_ENTRY_IS_USING}
      /\ shared[key].first >= 0 => Leads(shared[key].second, shared[key].first)

(* Who holds an entry has put the marker, and is alone.                    *)
LocksOk ==
  phase = "fetch" =>
    /\ \A key \in DOMAIN shared :
         shared[key].first = SHARED_ENTRY_IS_USING <=> \E t \in Threads : Holds(t, key)
    /\ \A key \in DOMAIN shared : \A t, u \in Threads : Holds(t, key) /\ Holds(u, key) => t = u

(* A thread in fetch3: the pointers it has lead to the triangle's first    *)
(* vertices; what it took from the entry it holds can be put back.         *)
ThreadOk(t) ==
  /\ local[t].prim \in Prims(draw)
  /\ Len(local[t].v) <= 3
  /\ local[t].at = "locked" => Len(local[t].v) < 3
  /\ local[t].at \in {"publish", "publishing"} => Len(local[t].v) > 0
  /\ \A k \in DOMAIN local[t].v : Leads(local[t].v[k], IndexOf(t, k))
  /\ local[t].at = "locked" =>
       /\ local[t].old >= 0 \/ local[t].old = INVALID_SHARED_ENTRY
       /\ local[t].old >= 0 => Leads(shared[SharedKey(Wanted(t))].second, local[t].old)
ThreadsOk == \A t \in Threads : Busy(t) => ThreadOk(t)

(* The precomputing cache: what is transformed is found under its index.   *)
Order(d) == CHOOSE s \in Ascending(Indices(d)) : TRUE
Count(d) == Cardinality(Indices(d))
Found(i) ==
  /\ unique_indices[i + 1] \in DOMAIN used /\ used[unique_indices[i + 1]] = i
  /\ cell[<<Transformed, i>>] = Vertex(drawn, unique_indices[i + 1], 0)
TransformedOk ==
  ~OnDemand /\ phase \in {"transform", "fetch"} =>
    /\ DOMAIN used = 0 .. Last(unique_indices)
    /\ phase = "transform" => todo \subseteq 0 .. Count(draw) - 1
    /\ \A i \in 0 .. Count(draw) - 1 : (phase = "transform" /\ i \in todo) \/ Found(i)

(* The pointers of a triangle.                                             *)
Given(p) ==
  /\ handed[p] \in Seq(Places) /\ Len(handed[p]) = 3
  /\ \A k \in 1 .. 3 :
       /\ phase = "fetch" /\ OnDemand => Taken(handed[p][k])
       /\ cell[handed[p][k]] = Vertex(drawn, fetch_indexes(draw, p)[k], Times(handed[p][k]))
HandedOk ==
  drawn > 0 =>
    /\ DOMAIN handed = Prims(draw)
    /\ \A p \in Prims(draw) :
         IF handed[p] = <<>>
           THEN \/ phase = "transform"
                \/ phase = "fetch" /\ (p \in todo \/ \E t \in Threads : Busy(t) /\ local[t].prim = p)
           ELSE phase # "transform" /\ Given(p)

(* Two vertices still to be projected are different places: the first is   *)
(* not projected again when the second is.                                 *)
LoopOk ==
  phase = "project" =>
    /\ todo \subseteq gathered /\ gathered \subseteq Slots(draw)
    /\ \A r, s \in todo : Pointer(r) = Pointer(s) => r = s

VInv ==
  /\ TypeOK /\ PhaseOk /\ PoolsIdle /\ RoomOk
  /\ OwnOk /\ SharedOk /\ LocksOk /\ ThreadsOk /\ TransformedOk /\ HandedOk /\ LoopOk
-----------------------------------------------------------------------------
LEMMA DrawFacts ==
  ASSUME NEW d \in Draws
  PROVE  /\ d.prim_count \in Nat \ {0} /\ Capacity(d) \in Nat /\ Capacity(d) <= MaxVertices
         /\ Capacity(d) = 3 * d.prim_count
         /\ Prims(d) \subseteq Nat /\ Prims(d) = 0 .. d.prim_count - 1
         /\ IsFiniteSet(Prims(d)) /\ Cardinality(Prims(d)) = d.prim_count
  <1>1. d.prim_count \in Nat \ {0} /\ 3 * d.prim_count <= MaxVertices
    BY CacheAssumption
  <1> DEFINE n == d.prim_count
  <1>2. Prims(d) = 0 .. n - 1 /\ n - 1 \in Int /\ 0 \in Int /\ ~(0 > n - 1) /\ (n - 1) - 0 + 1 = n
    BY <1>1 DEF Prims
  <1>3. IsFiniteSet(0 .. n - 1) /\ Cardinality(0 .. n - 1) = IF 0 > n - 1 THEN 0 ELSE (n - 1) - 0 + 1
    BY ONLY <1>2, FS_Interval
  <1> QED
    BY <1>1, <1>2, <1>3 DEF Capacity

LEMMA IndexesAreNatural ==
  ASSUME NEW d \in Draws, NEW p \in Prims(d), NEW k \in 1 .. 3
  PROVE  fetch_indexes(d, p)[k] \in Nat /\ fetch_indexes(d, p)[k] \in Indices(d)
  BY CacheAssumption DEF Indices

LEMMA Remainder ==
  ASSUME NEW i \in Nat, NEW n \in Nat \ {0}
  PROVE  i % n \in 0 .. n - 1
  OBVIOUS

(* What a draw fetches for a triangle is the triangle it stands for.       *)
LEMMA FetchesWhatIsMeant ==
  ASSUME NEW d \in Draws, NEW p \in Prims(d)
  PROVE  \E r \in Rotations(Meant(d, p)) : \A k \in 1 .. 3 : fetch_indexes(d, p)[k] = r[k]
  <1> DEFINE s == Stream(d)
             n == d.prim_count
  <1>1. /\ d.topo \in {"triangle_list", "triangle_strip"} /\ d.indexed \in BOOLEAN /\ n \in Nat \ {0}
        /\ d.indexed => d.start \in Nat /\ Len(d.indexes) \in Nat /\ d.start + IdCount(d) <= Len(d.indexes)
        /\ p \in Nat /\ p <= n - 1
    BY CacheAssumption DEF Prims
  <1>2. ASSUME NEW id \in Nat, id < IdCount(d) PROVE s[id] = IndexAt(d, id)
    <2>1. id \in 0 .. 3 * n + 1
      BY <1>1, <1>2 DEF IdCount
    <2>2. s[id] = IF d.indexed
                  THEN IF d.start + id < Len(d.indexes) THEN d.indexes[d.start + id + 1] + d.base ELSE 0
                  ELSE id + d.base
      BY <2>1 DEF Stream
    <2>3. CASE d.indexed
      <3>1. d.start + id < Len(d.indexes)
        <4>1. IdCount(d) \in Nat
          BY <1>1 DEF IdCount
        <4> QED
          BY <1>1, <1>2, <2>3, <4>1
      <3> QED
        BY <2>2, <2>3, <3>1 DEF IndexAt
    <2>4. CASE ~d.indexed
      BY <2>2, <2>4 DEF IndexAt
    <2> QED
      BY <2>3, <2>4
  <1> HIDE DEF s
  <1> DEFINE m == Meant(d, p)
             f == fetch_indexes(d, p)
             c == Corners(d.topo, p)
  <1>3. \A k \in 1 .. 3 : f[k] = IndexAt(d, c[k])
    BY DEF fetch_indexes
  <1>4. m \in Rotations(m) /\ <<m[2], m[3], m[1]>> \in Rotations(m) /\ <<m[3], m[1], m[2]>> \in Rotations(m)
    BY DEF Rotations
  <1>5. CASE d.topo = "triangle_list"
    <2>1. c = <<3 * p, 3 * p + 1, 3 * p + 2>>
      BY <1>5 DEF Corners
    <2>2. m = <<s[3 * p], s[3 * p + 1], s[3 * p + 2]>>
      BY <1>5 DEF Meant, s
    <2>3. s[3 * p] = IndexAt(d, 3 * p) /\ s[3 * p + 1] = IndexAt(d, 3 * p + 1) /\ s[3 * p + 2] = IndexAt(d, 3 * p + 2)
      BY <1>1, <1>2, <1>5 DEF IdCount
    <2> HIDE DEF m, f, c
    <2>4. \A k \in 1 .. 3 : f[k] = m[k]
      BY <1>3, <2>1, <2>2, <2>3
    <2> QED
      BY <1>4, <2>4 DEF m, f
  <1>6. CASE d.topo = "triangle_strip"
    <2>1. s[p] = IndexAt(d, p) /\ s[p + 1] = IndexAt(d, p + 1) /\ s[p + 2] = IndexAt(d, p + 2)
      BY <1>1, <1>2, <1>6 DEF IdCount
    <2>2. CASE p % 2 = 1
      <3>1. c = <<p + 2, p + 1, p>>
        BY <1>6, <2>2 DEF Corners
      <3>2. m = <<s[p + 1], s[p], s[p + 2]>>
        BY <1>6, <2>2 DEF Meant, s
      <3> HIDE DEF m, f, c
      <3>3. \A k \in 1 .. 3 : f[k] = <<m[3], m[1], m[2]>>[k]
        BY <1>3, <2>1, <3>1, <3>2
      <3> QED
        BY <1>4, <3>3 DEF m, f
    <2>3. CASE p % 2 = 0
      <3>1. c = <<p, p + 1, p + 2>>
        BY <1>6, <2>3 DEF Corners
      <3>2. m = <<s[p], s[p + 1], s[p + 2]>>
        BY <1>6, <2>3 DEF Meant, s
      <3> HIDE DEF m, f, c
      <3>3. \A k \in 1 .. 3 : f[k] = m[k]
        BY <1>3, <2>1, <3>1, <3>2
      <3> QED
        BY <1>4, <3>3 DEF m, f
    <2>4. p % 2 \in 0 .. 1
      BY <1>1
    <2> QED
      BY <2>2, <2>3, <2>4
  <1> QED
    BY <1>1, <1>5, <1>6
-----------------------------------------------------------------------------
(* A set of indexes can be put in ascending order: by induction on its     *)
(* size, the set of the sizes for which it can being all of Nat.           *)
LEMMA LeastNatural ==
  ASSUME NEW S \in SUBSET Nat, S # {}
  PROVE  \E m \in S : \A y \in S : m <= y
  <1> DEFINE R == OpToRel(<, Nat)
  <1>1. \A x, y \in Nat : <<y, x>> \in R <=> y < x
    BY DEF OpToRel
  <1>2. IsWellFoundedOn(R, Nat)
    BY NatLessThanWellFounded
  <1> HIDE DEF R
  <1>3. PICK m \in S : \A y \in S : ~(<<y, m>> \in R)
    BY <1>2, WFMin
  <1>4. ASSUME NEW y \in S PROVE m <= y
    <2>1. m \in Nat /\ y \in Nat /\ ~(<<y, m>> \in R)
      BY <1>3
    <2>2. ~(y < m)
      BY <1>1, <2>1
    <2> QED
      BY <2>1, <2>2
  <1> QED
    BY <1>4

LEMMA AllNaturals ==
  ASSUME NEW T \in SUBSET Nat, 0 \in T, \A n \in T : n + 1 \in T
  PROVE  T = Nat
  <1> SUFFICES ASSUME Nat \ T # {} PROVE FALSE
    OBVIOUS
  <1>1. PICK m \in Nat \ T : \A y \in Nat \ T : m <= y
    BY LeastNatural
  <1>2. m - 1 \in Nat /\ ~(m <= m - 1) /\ m = (m - 1) + 1
    BY <1>1
  <1>3. m - 1 \in T
    BY <1>1, <1>2
  <1> QED
    BY <1>1, <1>2, <1>3

LEMMA AscendingExists ==
  ASSUME NEW S \in SUBSET Nat, IsFiniteSet(S)
  PROVE  Ascending(S) # {}
  <1> DEFINE T == {n \in Nat : \A A \in SUBSET Nat : IsFiniteSet(A) /\ Cardinality(A) = n => Ascending(A) # {}}
  <1>1. 0 \in T
    <2> SUFFICES ASSUME NEW A \in SUBSET Nat, IsFiniteSet(A), Cardinality(A) = 0
                 PROVE  Ascending(A) # {}
      OBVIOUS
    <2> DEFINE s == [k \in 1 .. 0 |-> 0]
    <2>1. s \in [1 .. Cardinality(A) -> A] /\ DOMAIN s = {}
      OBVIOUS
    <2> HIDE DEF s
    <2> QED
      BY <2>1 DEF Ascending
  <1>2. ASSUME NEW n \in T PROVE n + 1 \in T
    <2> SUFFICES ASSUME NEW A \in SUBSET Nat, IsFiniteSet(A), Cardinality(A) = n + 1
                 PROVE  Ascending(A) # {}
      OBVIOUS
    <2>1. n \in Nat /\ A # {}
      BY FS_EmptySet
    <2>2. PICK m \in A : \A y \in A : m <= y
      BY <2>1, LeastNatural
    <2> DEFINE B == A \ {m}
    <2>3. IsFiniteSet(B) /\ Cardinality(B) = n
      <3>1. IsFiniteSet(B) /\ Cardinality(B) = IF m \in A THEN Cardinality(A) - 1 ELSE Cardinality(A)
        BY FS_RemoveElement
      <3> QED
        BY <2>1, <3>1
    <2>4. PICK r : r \in Ascending(B)
      BY <2>3
    <2>5. r \in [1 .. n -> B] /\ \A j, k \in 1 .. n : j < k => r[j] < r[k]
      BY <2>3, <2>4 DEF Ascending
    <2> DEFINE s == [k \in 1 .. n + 1 |-> IF k = 1 THEN m ELSE r[k - 1]]
    <2>6. \A k \in 1 .. n + 1 : k = 1 \/ k - 1 \in 1 .. n
      BY <2>1
    <2>7. s \in [1 .. n + 1 -> A] /\ DOMAIN s = 1 .. n + 1
      BY <2>5, <2>6
    <2>8. ASSUME NEW j \in 1 .. n + 1, NEW k \in 1 .. n + 1, j < k PROVE s[j] < s[k]
      <3>1. k # 1 /\ k - 1 \in 1 .. n /\ s[k] = r[k - 1]
        BY <2>6, <2>8
      <3>2. CASE j = 1
        <4>1. s[j] = m /\ r[k - 1] \in B /\ m \in Nat
          BY <2>5, <3>1, <3>2
        <4>2. r[k - 1] \in Nat /\ m <= r[k - 1] /\ m # r[k - 1]
          BY <2>2, <4>1
        <4> QED
          BY <3>1, <4>1, <4>2
      <3>3. CASE j # 1
        <4>1. j - 1 \in 1 .. n /\ s[j] = r[j - 1] /\ j - 1 < k - 1
          BY <2>6, <2>8, <3>3
        <4> QED
          BY <2>5, <3>1, <4>1
      <3> QED
        BY <3>2, <3>3
    <2> HIDE DEF s
    <2>9. s \in Ascending(A)
      BY <2>7, <2>8 DEF Ascending
    <2> QED
      BY <2>9
  <1> HIDE DEF T
  <1>3. T = Nat
    <2>1. T \in SUBSET Nat
      BY DEF T
    <2> QED
      BY <1>1, <1>2, <2>1, AllNaturals
  <1>4. Cardinality(S) \in T
    BY <1>3, FS_CardinalityType
  <1> QED
    BY <1>4 DEF T

LEMMA AscendingIs ==
  ASSUME NEW S \in SUBSET Nat, IsFiniteSet(S), NEW s \in Ascending(S)
  PROVE  /\ Cardinality(S) \in Nat
         /\ s \in [1 .. Cardinality(S) -> S]
         /\ \A j, k \in 1 .. Cardinality(S) : s[j] = s[k] => j = k
         /\ \A x \in S : \E k \in 1 .. Cardinality(S) : s[k] = x
         /\ \A k \in 1 .. Cardinality(S) : s[k] <= s[Cardinality(S)]
  <1> DEFINE n == Cardinality(S)
  <1>1. n \in Nat
    BY FS_CardinalityType
  <1> HIDE DEF n
  <1>2. s \in [1 .. n -> S] /\ \A j, k \in 1 .. n : j < k => s[j] < s[k]
    BY DEF Ascending, n
  <1>3. \A k \in 1 .. n : s[k] \in Nat
    BY <1>2
  <1>4. ASSUME NEW j \in 1 .. n, NEW k \in 1 .. n, s[j] = s[k] PROVE j = k
    <2>1. ~(j < k) /\ ~(k < j)
      BY <1>2, <1>3, <1>4
    <2> QED
      BY <1>1, <2>1
  <1>5. s \in Injection(1 .. n, S)
    BY <1>2, <1>4 DEF Injection, IsInjective
  <1>6. Cardinality(1 .. n) = n
    <2>1. Cardinality(1 .. n) = IF 1 > n THEN 0 ELSE n - 1 + 1
      BY <1>1, FS_Interval
    <2> QED
      BY <1>1, <2>1
  <1>7. s \in Surjection(1 .. n, S)
    <2>1. Cardinality(1 .. n) = Cardinality(S) <=> s \in Surjection(1 .. n, S)
      BY <1>5, FS_Injection
    <2> QED
      BY <1>6, <2>1 DEF n
  <1>8. \A x \in S : \E k \in 1 .. n : s[k] = x
    BY <1>7 DEF Surjection
  <1>9. ASSUME NEW k \in 1 .. n PROVE s[k] <= s[n]
    <2>1. n \in 1 .. n /\ (k < n \/ k = n)
      BY <1>1
    <2> QED
      BY <1>2, <1>3, <2>1
  <1> QED
    BY <1>1, <1>2, <1>4, <1>8, <1>9 DEF n

(* The indexes of a draw and the order they are transformed in.            *)
LEMMA OrderFacts ==
  ASSUME NEW d \in Draws
  PROVE  /\ Indices(d) \subseteq Nat /\ Count(d) \in Nat \ {0} /\ Count(d) <= MaxVertices
         /\ Order(d) \in [1 .. Count(d) -> Indices(d)] /\ Order(d) \in Seq(Nat)
         /\ Len(Order(d)) = Count(d) /\ Last(Order(d)) \in Nat
         /\ \A j, k \in 1 .. Count(d) : Order(d)[j] = Order(d)[k] => j = k
         /\ \A x \in Indices(d) : \E k \in 1 .. Count(d) : Order(d)[k] = x
         /\ \A k \in 1 .. Count(d) : Order(d)[k] \in 0 .. Last(Order(d))
  <1> DEFINE corners == Prims(d) \X (1 .. 3)
             f == [c \in corners |-> fetch_indexes(d, c[1])[c[2]]]
             m == d.prim_count
  <1>1. /\ m \in Nat \ {0} /\ 3 * m <= MaxVertices /\ MaxVertices \in Nat
        /\ Prims(d) = 0 .. m - 1 /\ IsFiniteSet(Prims(d)) /\ Cardinality(Prims(d)) = m
    BY DrawFacts, CacheAssumption
  <1>2. IsFiniteSet(corners) /\ Cardinality(corners) = m * 3
    <2>0. 1 \in Int /\ 3 \in Int
      OBVIOUS
    <2>1. IsFiniteSet(1 .. 3) /\ Cardinality(1 .. 3) = IF 1 > 3 THEN 0 ELSE 3 - 1 + 1
      BY <2>0, FS_Interval, Zenon
    <2>2. Cardinality(1 .. 3) = 3
      BY <2>1
    <2> QED
      BY <1>1, <2>1, <2>2, FS_Product
  <1>3. Indices(d) \subseteq Nat
    BY IndexesAreNatural DEF Indices
  <1>4. f \in Surjection(corners, Indices(d))
    <2>1. f \in [corners -> Indices(d)]
      BY DEF Indices
    <2>2. ASSUME NEW x \in Indices(d) PROVE \E c \in corners : f[c] = x
      <3>1. PICK p \in Prims(d), k \in 1 .. 3 : x = fetch_indexes(d, p)[k]
        BY DEF Indices
      <3>2. <<p, k>> \in corners /\ f[<<p, k>>] = x
        BY <3>1
      <3> QED
        BY <3>2
    <2> QED
      BY <2>1, <2>2 DEF Surjection
  <1> HIDE DEF f, corners
  <1>5. IsFiniteSet(Indices(d)) /\ Count(d) <= m * 3 /\ Count(d) \in Nat
    BY <1>2, <1>4, FS_Surjection, FS_CardinalityType DEF Count
  <1>6. Count(d) # 0
    <2>1. 0 \in Prims(d) /\ 1 \in 1 .. 3
      BY <1>1
    <2>2. fetch_indexes(d, 0)[1] \in Indices(d)
      BY <2>1, IndexesAreNatural
    <2>3. Cardinality(Indices(d)) = 0 <=> Indices(d) = {}
      BY <1>5, FS_EmptySet
    <2> QED
      BY <2>2, <2>3 DEF Count
  <1>7. Order(d) \in Ascending(Indices(d))
    BY <1>3, <1>5, AscendingExists DEF Order
  <1>8. /\ Order(d) \in [1 .. Count(d) -> Indices(d)]
        /\ \A j, k \in 1 .. Count(d) : Order(d)[j] = Order(d)[k] => j = k
        /\ \A x \in Indices(d) : \E k \in 1 .. Count(d) : Order(d)[k] = x
        /\ \A k \in 1 .. Count(d) : Order(d)[k] <= Order(d)[Count(d)]
    BY <1>3, <1>5, <1>7, AscendingIs DEF Count
  <1> DEFINE u == Order(d)
  <1> HIDE DEF u
  <1>9. u \in [1 .. Count(d) -> Nat]
    BY <1>3, <1>8 DEF u
  <1>10. u \in Seq(Nat) /\ Len(u) = Count(d)
    BY <1>5, <1>9
  <1>11. Last(u) = u[Count(d)] /\ u[Count(d)] \in Nat
    BY <1>5, <1>6, <1>9, <1>10 DEF Last
  <1>12. \A k \in 1 .. Count(d) : u[k] \in 0 .. Last(u)
    BY <1>8, <1>9, <1>11 DEF u
  <1> QED
    BY <1>1, <1>3, <1>5, <1>6, <1>8, <1>10, <1>11, <1>12 DEF u
-----------------------------------------------------------------------------
(* What is known of a thread in fetch3.                                    *)
LEMMA BusyFacts ==
  ASSUME VInv, NEW t \in Threads, Busy(t)
  PROVE  /\ phase = "fetch" /\ OnDemand /\ drawn > 0 /\ draw \in Draws /\ drawn \in 0 .. MaxDraws
         /\ ThreadOk(t)
         /\ local[t].prim \in Prims(draw) /\ local[t].prim \in Nat
         /\ local[t].v \in Seq(Places) /\ Len(local[t].v) \in Nat /\ Len(local[t].v) <= 3
         /\ \A k \in 1 .. 3 : /\ IndexOf(t, k) \in Nat
                              /\ IndexOf(t, k) % ENTRY_SIZE \in 0 .. ENTRY_SIZE - 1
                              /\ SharedKey(IndexOf(t, k)) \in 0 .. SHARED_ENTRY_SIZE - 1
  <1>1. phase = "fetch" /\ OnDemand /\ drawn > 0 /\ draw \in Draws /\ ThreadOk(t) /\ drawn \in 0 .. MaxDraws
    BY DEF VInv, PhaseOk, TypeOK, ThreadsOk
  <1>2. local[t].prim \in Prims(draw) /\ Len(local[t].v) <= 3
    BY <1>1 DEF ThreadOk
  <1>3. local[t].v \in Seq(Places) /\ local[t].prim \in Nat
    BY DEF VInv, TypeOK
  <1>4. ASSUME NEW k \in 1 .. 3
        PROVE  /\ IndexOf(t, k) \in Nat
               /\ IndexOf(t, k) % ENTRY_SIZE \in 0 .. ENTRY_SIZE - 1
               /\ SharedKey(IndexOf(t, k)) \in 0 .. SHARED_ENTRY_SIZE - 1
    <2>1. IndexOf(t, k) \in Nat
      BY <1>1, <1>2, IndexesAreNatural DEF IndexOf
    <2> QED
      BY <2>1, Remainder, CacheAssumption DEF SharedKey
  <1> QED
    BY <1>1, <1>2, <1>3, <1>4

LEMMA WantedFacts ==
  ASSUME VInv, NEW t \in Threads, Busy(t), Len(local[t].v) < 3
  PROVE  /\ Wanted(t) = IndexOf(t, Len(local[t].v) + 1) /\ Wanted(t) \in Nat
         /\ Wanted(t) % ENTRY_SIZE \in 0 .. ENTRY_SIZE - 1
         /\ SharedKey(Wanted(t)) \in 0 .. SHARED_ENTRY_SIZE - 1
  <1>1. Len(local[t].v) + 1 \in 1 .. 3
    BY BusyFacts
  <1> QED
    BY <1>1, BusyFacts DEF Wanted

(* A step of a thread in fetch3 keeps the invariant when it leaves the     *)
(* places that were taken and the other threads alone, holds every entry   *)
(* of the shared level it changes, and leaves behind only entries and      *)
(* pointers that lead to what they say.                                    *)
LEMMA FetchStep ==
  ASSUME VInv, phase = "fetch", OnDemand, NEW t \in Threads, TypeOK',
         UNCHANGED <<class, drawn, draw, phase, used>>,
         \A u \in Threads \ {t} : local'[u] = local[u] /\ next'[u] = next[u],
         \A place \in Places : Taken(place) => Taken(place)' /\ cell'[place] = cell[place],
         todo' \subseteq todo,
         next'[t] + 3 * Cardinality(todo') + Need(t)' <= Capacity(draw),
         \A u \in Threads : \A key \in 0 .. ENTRY_SIZE - 1 :
           \/ items'[u][key] = items[u][key]
           \/ Leads(items[u][key].second, items[u][key].first)',
         \A key \in 0 .. SHARED_ENTRY_SIZE - 1 :
           \/ shared'[key] = shared[key] /\ (Holds(t, key)' <=> Holds(t, key))
           \/ /\ \A u \in Threads \ {t} : ~Holds(u, key)
              /\ shared'[key].first >= 0 \/ shared'[key].first \in {INVALID_SHARED_ENTRY, SHARED_ENTRY_IS_USING}
              /\ shared'[key].first >= 0 => Leads(shared[key].second, shared[key].first)'
              /\ shared'[key].first = SHARED_ENTRY_IS_USING <=> Holds(t, key)',
         Busy(t)' => ThreadOk(t)',
         DOMAIN handed' = DOMAIN handed,
         \A p \in Prims(draw) :
           \/ handed'[p] = handed[p] /\ (p \in todo => p \in todo' \/ (Busy(t)' /\ local'[t].prim = p))
                                     /\ (Busy(t) /\ local[t].prim = p => Busy(t)' /\ local'[t].prim = p)
           \/ handed'[p] # <<>> /\ Given(p)'
  PROVE  VInv'
  <1>0. DOMAIN shared = 0 .. SHARED_ENTRY_SIZE - 1 /\ DOMAIN shared' = 0 .. SHARED_ENTRY_SIZE - 1
        /\ draw \in Draws /\ drawn > 0 /\ phase' = "fetch" /\ OnDemand'
    BY DEF VInv, TypeOK, OnDemand, PhaseOk
  <1>1. \A place, index : Leads(place, index) => Leads(place, index)'
    BY DEF Leads, Taken
  <1>2. ASSUME NEW u \in Threads \ {t}
        PROVE  /\ Busy(u)' = Busy(u) /\ Need(u)' = Need(u)
               /\ \A k : IndexOf(u, k)' = IndexOf(u, k)
               /\ Wanted(u)' = Wanted(u) /\ Shaded(u)' = Shaded(u)
               /\ \A key : Holds(u, key)' = Holds(u, key)
    <2>1. local'[u] = local[u]
      OBVIOUS
    <2>2. Wanted(u)' = Wanted(u) /\ Shaded(u)' = Shaded(u) /\ \A k : IndexOf(u, k)' = IndexOf(u, k)
      BY <2>1 DEF Wanted, Shaded, IndexOf
    <2> QED
      BY <2>1, <2>2 DEF Busy, Need, Holds
  <1>3. PhaseOk' /\ PoolsIdle' /\ TransformedOk'
    BY <1>0 DEF PhaseOk, PoolsIdle, TransformedOk, OnDemand
  <1>4. RoomOk'
    <2>1. todo \subseteq Prims(draw)
      BY DEF VInv, RoomOk
    <2>2. IsFiniteSet(todo) /\ Cardinality(todo') <= Cardinality(todo)
          /\ Cardinality(todo) \in Nat /\ Cardinality(todo') \in Nat
      <3>1. IsFiniteSet(todo)
        BY <1>0, <2>1, DrawFacts, FS_Subset
      <3>2. IsFiniteSet(todo') /\ Cardinality(todo') <= Cardinality(todo)
        BY <3>1, FS_Subset
      <3> QED
        BY <3>1, <3>2, FS_CardinalityType
    <2>3. ASSUME NEW u \in Threads PROVE (next[u] + 3 * Cardinality(todo) + Need(u) <= Capacity(draw))'
      <3>1. CASE u = t
        BY <3>1
      <3>2. CASE u # t
        <4>1. next[u] + 3 * Cardinality(todo) + Need(u) <= Capacity(draw)
          BY DEF VInv, RoomOk
        <4>2. next'[u] = next[u] /\ Need(u)' = Need(u)
          BY <1>2, <3>2
        <4>3. next[u] \in Nat /\ Capacity(draw) \in Nat /\ Need(u) \in Int /\ Capacity(draw)' = Capacity(draw)
          <5>1. next[u] \in Nat /\ Len(local[u].v) \in Nat
            BY <1>0, DrawFacts DEF VInv, TypeOK
          <5> QED
            BY <1>0, <5>1, DrawFacts DEF Need
        <4> QED
          BY <2>2, <4>1, <4>2, <4>3
      <3> QED
        BY <3>1, <3>2
    <2> QED
      BY <2>1, <2>3 DEF RoomOk
  <1>5. OwnOk'
    <2> SUFFICES ASSUME NEW u \in Threads, NEW key \in DOMAIN (items'[u]), items'[u][key].first >= 0
                 PROVE  Leads(items[u][key].second, items[u][key].first)'
      BY DEF OwnOk
    <2>1. key \in 0 .. ENTRY_SIZE - 1 /\ DOMAIN items[u] = 0 .. ENTRY_SIZE - 1
      BY DEF VInv, TypeOK
    <2>2. CASE items'[u][key] = items[u][key]
      <3>1. Leads(items[u][key].second, items[u][key].first)
        BY <2>1, <2>2 DEF VInv, OwnOk
      <3> QED
        BY <1>1, <2>2, <3>1
    <2> QED
      BY <2>1, <2>2
  <1>6. SharedOk'
    <2> SUFFICES ASSUME NEW key \in 0 .. SHARED_ENTRY_SIZE - 1
                 PROVE  (/\ shared[key].first >= 0 \/ shared[key].first \in {INVALID_SHARED_ENTRY, SHARED_ENTRY_IS_USING}
                         /\ shared[key].first >= 0 => Leads(shared[key].second, shared[key].first))'
      BY <1>0 DEF SharedOk
    <2>1. CASE shared'[key] = shared[key]
      <3>1. /\ shared[key].first >= 0 \/ shared[key].first \in {INVALID_SHARED_ENTRY, SHARED_ENTRY_IS_USING}
            /\ shared[key].first >= 0 => Leads(shared[key].second, shared[key].first)
        BY <1>0 DEF VInv, SharedOk
      <3> QED
        BY <1>1, <2>1, <3>1 DEF INVALID_SHARED_ENTRY, SHARED_ENTRY_IS_USING
    <2>2. CASE shared'[key] # shared[key]
      BY <2>2 DEF INVALID_SHARED_ENTRY, SHARED_ENTRY_IS_USING
    <2> QED
      BY <2>1, <2>2
  <1>7. LocksOk'
    <2> SUFFICES ASSUME NEW key \in 0 .. SHARED_ENTRY_SIZE - 1
                 PROVE  /\ shared'[key].first = SHARED_ENTRY_IS_USING <=> \E u \in Threads : Holds(u, key)'
                        /\ \A u, w \in Threads : Holds(u, key)' /\ Holds(w, key)' => u = w
      BY <1>0 DEF LocksOk
    <2>1. /\ shared[key].first = SHARED_ENTRY_IS_USING <=> \E u \in Threads : Holds(u, key)
          /\ \A u, w \in Threads : Holds(u, key) /\ Holds(w, key) => u = w
      BY <1>0 DEF VInv, LocksOk
    <2>2. \A u \in Threads : u # t => (Holds(u, key)' <=> Holds(u, key))
      BY <1>2
    <2>3. CASE shared'[key] = shared[key] /\ (Holds(t, key)' <=> Holds(t, key))
      <3>1. \A u \in Threads : Holds(u, key)' <=> Holds(u, key)
        BY <2>2, <2>3
      <3> QED
        BY <2>1, <2>3, <3>1
    <2>4. CASE /\ \A u \in Threads \ {t} : ~Holds(u, key)
               /\ shared'[key].first = SHARED_ENTRY_IS_USING <=> Holds(t, key)'
      BY <2>2, <2>4
    <2> QED
      BY <2>3, <2>4
  <1>8. ThreadsOk'
    <2> SUFFICES ASSUME NEW u \in Threads, Busy(u)', u # t PROVE ThreadOk(u)'
      BY DEF ThreadsOk
    <2>1. Busy(u) /\ local'[u] = local[u] /\ Wanted(u)' = Wanted(u)
      BY <1>2
    <2>2. ThreadOk(u)
      BY <2>1 DEF VInv, ThreadsOk
    <2>3. /\ local'[u].prim \in Prims(draw)'
          /\ Len(local'[u].v) <= 3
          /\ local'[u].at = "locked" => Len(local'[u].v) < 3
          /\ local'[u].at \in {"publish", "publishing"} => Len(local'[u].v) > 0
      BY <2>1, <2>2 DEF ThreadOk
    <2>4. \A k \in DOMAIN local'[u].v : Leads(local[u].v[k], IndexOf(u, k))'
      <3> SUFFICES ASSUME NEW k \in DOMAIN local'[u].v PROVE Leads(local[u].v[k], IndexOf(u, k))'
        OBVIOUS
      <3>1. Leads(local[u].v[k], IndexOf(u, k))
        BY <2>1, <2>2 DEF ThreadOk
      <3>2. IndexOf(u, k)' = IndexOf(u, k)
        BY <1>2
      <3> QED
        BY <1>1, <2>1, <3>1, <3>2
    <2>5. ASSUME local'[u].at = "locked"
          PROVE  /\ local'[u].old >= 0 \/ local'[u].old = INVALID_SHARED_ENTRY
                 /\ local'[u].old >= 0 => Leads(shared[SharedKey(Wanted(u))].second, local[u].old)'
      <3> DEFINE key == SharedKey(Wanted(u))
      <3>1. /\ local[u].at = "locked"
            /\ local[u].old >= 0 \/ local[u].old = INVALID_SHARED_ENTRY
            /\ local[u].old >= 0 => Leads(shared[key].second, local[u].old)
        BY <2>1, <2>2, <2>5 DEF ThreadOk
      <3>2. key \in 0 .. SHARED_ENTRY_SIZE - 1 /\ SharedKey(Wanted(u))' = key
        BY <2>1, <2>2, <3>1, WantedFacts DEF ThreadOk, SharedKey
      <3>3. Holds(u, key)
        BY <3>1 DEF Holds
      <3>4. shared'[key] = shared[key]
        BY <3>2, <3>3
      <3> HIDE DEF key
      <3> QED
        BY <1>1, <2>1, <3>1, <3>2, <3>4
    <2> QED
      BY <2>3, <2>4, <2>5 DEF ThreadOk
  <1>9. HandedOk'
    <2>1. DOMAIN handed = Prims(draw)
          /\ \A p \in Prims(draw) :
               IF handed[p] = <<>>
                 THEN p \in todo \/ \E u \in Threads : Busy(u) /\ local[u].prim = p
                 ELSE Given(p)
      BY <1>0 DEF VInv, HandedOk
    <2> SUFFICES ASSUME NEW p \in Prims(draw)
                 PROVE  IF handed'[p] = <<>>
                          THEN p \in todo' \/ \E u \in Threads : Busy(u)' /\ local'[u].prim = p
                          ELSE Given(p)'
      BY <1>0, <2>1 DEF HandedOk
    <2>2. CASE handed'[p] = <<>>
      <3>1. /\ handed[p] = <<>> /\ (p \in todo => p \in todo' \/ (Busy(t)' /\ local'[t].prim = p))
            /\ (Busy(t) /\ local[t].prim = p => Busy(t)' /\ local'[t].prim = p)
        BY <2>2
      <3>2. CASE p \in todo
        BY <2>2, <3>1, <3>2
      <3>3. CASE p \notin todo
        <4>1. PICK u \in Threads : Busy(u) /\ local[u].prim = p
          BY <2>1, <3>1, <3>3
        <4>2. Busy(u)' /\ local'[u].prim = p
          BY <1>2, <3>1, <4>1
        <4> QED
          BY <2>2, <4>2
      <3> QED
        BY <3>2, <3>3
    <2>3. CASE handed'[p] # <<>> /\ handed'[p] = handed[p]
      <3>1. /\ handed[p] \in Seq(Places) /\ Len(handed[p]) = 3
            /\ \A k \in 1 .. 3 : /\ Taken(handed[p][k])
                                 /\ cell[handed[p][k]] = Vertex(drawn, fetch_indexes(draw, p)[k], 0)
        BY <1>0, <2>1, <2>3 DEF Given, Times, Projected
      <3>2. ASSUME NEW k \in 1 .. 3
            PROVE  /\ Taken(handed[p][k])'
                   /\ cell'[handed'[p][k]] = Vertex(drawn, fetch_indexes(draw, p)[k], 0)
        <4>1. PICK place \in Places : place = handed[p][k]
          BY <3>1 DEF Taken
        <4>2. Taken(place) /\ cell[place] = Vertex(drawn, fetch_indexes(draw, p)[k], 0)
          BY <3>1, <4>1
        <4>3. Taken(place)' /\ cell'[place] = cell[place]
          BY <4>2
        <4>4. handed'[p][k] = place
          BY <2>3, <4>1
        <4> QED
          BY <4>2, <4>3, <4>4
      <3>3. \A place : Times(place)' = 0
        BY <1>0 DEF Times, Projected
      <3> QED
        BY <2>3, <3>1, <3>2, <3>3 DEF Given
    <2> QED
      BY <2>2, <2>3
  <1>10. LoopOk'
    BY <1>0 DEF LoopOk
  <1> QED
    BY <1>3, <1>4, <1>5, <1>6, <1>7, <1>8, <1>9, <1>10 DEF VInv
LEMMA TakePrimitiveKeeps ==
  ASSUME VInv, NEW t \in Threads, NEW p \in todo, TakePrimitive(t, p)
  PROVE  VInv'
  <1>1. /\ phase = "fetch" /\ OnDemand /\ ~Busy(t) /\ draw \in Draws /\ drawn > 0
        /\ todo \subseteq Prims(draw) /\ p \in Prims(draw) /\ p \in Nat
    <2>1. phase = "fetch" /\ OnDemand /\ ~Busy(t) /\ draw \in Draws /\ todo \subseteq Prims(draw) /\ drawn > 0
      BY DEF TakePrimitive, OnDemand, Busy, VInv, TypeOK, RoomOk, PhaseOk
    <2> QED
      BY <2>1, DrawFacts
  <1>2. local'[t] = [at |-> "look", prim |-> p, v |-> <<>>, old |-> INVALID_SHARED_ENTRY]
        /\ \A u \in Threads \ {t} : local'[u] = local[u]
    BY DEF TakePrimitive, VInv, TypeOK, Idle
  <1>a. /\ local'[t].at = "look" /\ local'[t].prim = p /\ local'[t].v = <<>>
        /\ Len(<<>>) = 0 /\ DOMAIN <<>> = {}
    BY <1>2
  <1>3. TypeOK'
    <2>1. local' \in [Threads -> [at : {"idle", "look", "locked", "publish", "publishing"},
                                  prim : Nat, v : Seq(Places), old : Int]]
      <3>1. local'[t] \in [at : {"idle", "look", "locked", "publish", "publishing"},
                           prim : Nat, v : Seq(Places), old : Int]
        BY <1>1, <1>2 DEF INVALID_SHARED_ENTRY
      <3> QED
        BY <3>1 DEF TakePrimitive, VInv, TypeOK
    <2> QED
      BY <2>1 DEF TakePrimitive, VInv, TypeOK, Capacity
  <1>4. next'[t] + 3 * Cardinality(todo') + Need(t)' <= Capacity(draw)
    <2>1. IsFiniteSet(todo)
      BY <1>1, DrawFacts, FS_Subset
    <2>2. Cardinality(todo') = Cardinality(todo) - 1 /\ Cardinality(todo) \in Nat
      BY <2>1, FS_RemoveElement, FS_CardinalityType DEF TakePrimitive
    <2>3. Need(t) = 0 /\ Need(t)' = 3 /\ next'[t] = next[t] /\ next[t] \in Nat
      <3>1. Need(t) = 0 /\ Need(t)' = 3
        BY <1>1, <1>a DEF Need, Busy
      <3>2. next'[t] = next[t] /\ next[t] \in Nat
        BY <1>1, DrawFacts DEF TakePrimitive, VInv, TypeOK
      <3> QED
        BY <3>1, <3>2
    <2>4. next[t] + 3 * Cardinality(todo) + Need(t) <= Capacity(draw)
      BY <1>1 DEF VInv, RoomOk
    <2> QED
      BY <1>1, <2>2, <2>3, <2>4, DrawFacts
  <1>5. ThreadOk(t)'
    <2>1. local'[t].prim \in Prims(draw)'
      BY <1>1, <1>a DEF TakePrimitive
    <2>2. \A k \in DOMAIN local'[t].v : Leads(local[t].v[k], IndexOf(t, k))'
      BY <1>a
    <2> QED
      BY <1>a, <2>1, <2>2 DEF ThreadOk
  <1>6. \A key : ~Holds(t, key) /\ ~Holds(t, key)'
    BY <1>1, <1>2 DEF Holds, Busy
  <1>7. \A place : Taken(place) => Taken(place)'
    BY DEF Taken, TakePrimitive
  <1>8. \A q \in Prims(draw) : q \in todo => q \in todo' \/ (Busy(t)' /\ local'[t].prim = q)
    BY <1>2 DEF TakePrimitive, Busy
  <1> QED
    BY <1>1, <1>2, <1>3, <1>4, <1>5, <1>6, <1>7, <1>8, FetchStep DEF TakePrimitive

(* What the steps of a thread that leave the pools, the entries and the    *)
(* triangles alone have in common.                                         *)
LEMMA QuietStep ==
  ASSUME VInv, NEW t \in Threads, Busy(t), Busy(t)',
         UNCHANGED <<class, drawn, draw, phase, todo, cell, used, next, handed>>,
         \A u \in Threads \ {t} : local'[u] = local[u],
         local' \in [Threads -> [at : {"idle", "look", "locked", "publish", "publishing"},
                                 prim : Nat, v : Seq(Places), old : Int]],
         items' \in [Threads -> [0 .. ENTRY_SIZE - 1 -> Entries]],
         shared' \in [0 .. SHARED_ENTRY_SIZE - 1 -> Entries],
         local'[t].prim = local[t].prim,
         Len(local'[t].v) >= Len(local[t].v),
         \A u \in Threads : \A key \in 0 .. ENTRY_SIZE - 1 :
           \/ items'[u][key] = items[u][key]
           \/ Leads(items'[u][key].second, items'[u][key].first),
         \A key \in 0 .. SHARED_ENTRY_SIZE - 1 :
           \/ shared'[key] = shared[key] /\ (Holds(t, key)' <=> Holds(t, key))
           \/ /\ \A u \in Threads \ {t} : ~Holds(u, key)
              /\ shared'[key].first >= 0 \/ shared'[key].first \in {INVALID_SHARED_ENTRY, SHARED_ENTRY_IS_USING}
              /\ shared'[key].first >= 0 => Leads(shared'[key].second, shared'[key].first)
              /\ shared'[key].first = SHARED_ENTRY_IS_USING <=> Holds(t, key)',
         ThreadOk(t)'
  PROVE  VInv'
  <1>1. phase = "fetch" /\ OnDemand /\ draw \in Draws /\ next[t] \in Nat
    BY BusyFacts, DrawFacts DEF VInv, TypeOK
  <1>2. TypeOK'
    BY DEF VInv, TypeOK
  <1>3. \A place, index : /\ Taken(place)' <=> Taken(place)
                          /\ Leads(place, index)' <=> Leads(place, index)
    BY DEF Taken, Leads
  <1>4. next'[t] + 3 * Cardinality(todo') + Need(t)' <= Capacity(draw)
    <2>1. Need(t)' <= Need(t) /\ Need(t) \in Int /\ Need(t)' \in Int
      <3>1. Len(local[t].v) \in Nat /\ Len(local'[t].v) \in Nat
        BY DEF VInv, TypeOK
      <3> QED
        BY <3>1 DEF Need
    <2>2. next[t] + 3 * Cardinality(todo) + Need(t) <= Capacity(draw)
      BY <1>1 DEF VInv, RoomOk
    <2>3. Cardinality(todo) \in Nat
      <3>1. IsFiniteSet(todo)
        BY <1>1, DrawFacts, FS_Subset DEF VInv, RoomOk
      <3> QED
        BY <3>1, FS_CardinalityType
    <2> QED
      BY <1>1, <2>1, <2>2, <2>3, DrawFacts
  <1>5. /\ \A place \in Places : Taken(place) => Taken(place)' /\ cell'[place] = cell[place]
        /\ \A u \in Threads \ {t} : local'[u] = local[u] /\ next'[u] = next[u]
        /\ \A u \in Threads : \A key \in 0 .. ENTRY_SIZE - 1 :
             \/ items'[u][key] = items[u][key]
             \/ Leads(items[u][key].second, items[u][key].first)'
    BY <1>3
  <1>6. \A key \in 0 .. SHARED_ENTRY_SIZE - 1 :
           \/ shared'[key] = shared[key] /\ (Holds(t, key)' <=> Holds(t, key))
           \/ /\ \A u \in Threads \ {t} : ~Holds(u, key)
              /\ shared'[key].first >= 0 \/ shared'[key].first \in {INVALID_SHARED_ENTRY, SHARED_ENTRY_IS_USING}
              /\ shared'[key].first >= 0 => Leads(shared[key].second, shared[key].first)'
              /\ shared'[key].first = SHARED_ENTRY_IS_USING <=> Holds(t, key)'
    BY <1>3
  <1> QED
    BY <1>1, <1>2, <1>4, <1>5, <1>6, FetchStep

(* A thread gets its next pointer.                                         *)
Thread(at, prim, v, old) == [at |-> at, prim |-> prim, v |-> v, old |-> old]
LEMMA ThreadUpdate ==
  ASSUME NEW r \in [at : {"idle", "look", "locked", "publish", "publishing"},
                    prim : Nat, v : Seq(Places), old : Int], NEW w, NEW a
  PROVE  /\ [r EXCEPT !.v = w] = Thread(r.at, r.prim, w, r.old)
         /\ [r EXCEPT !.v = w, !.at = a] = Thread(a, r.prim, w, r.old)
  <1>1. r = Thread(r.at, r.prim, r.v, r.old)
    BY DEF Thread
  <1>2. ASSUME NEW x, NEW p, NEW v, NEW o
        PROVE  [Thread(x, p, v, o) EXCEPT !.v = w] = Thread(x, p, w, o)
    BY DEF Thread
  <1>3. ASSUME NEW x, NEW p, NEW v, NEW o
        PROVE  [Thread(x, p, v, o) EXCEPT !.at = a] = Thread(a, p, v, o)
    BY DEF Thread
  <1>4. [r EXCEPT !.v = w] = Thread(r.at, r.prim, w, r.old)
    BY <1>1, <1>2
  <1>5. [r EXCEPT !.v = w, !.at = a] = [[r EXCEPT !.v = w] EXCEPT !.at = a]
    OBVIOUS
  <1>6. [[r EXCEPT !.v = w] EXCEPT !.at = a] = Thread(a, r.prim, w, r.old)
    <2> DEFINE q == [r EXCEPT !.v = w]
    <2>1. q = Thread(r.at, r.prim, w, r.old)
      BY <1>4
    <2> HIDE DEF q
    <2>2. [q EXCEPT !.at = a] = Thread(a, r.prim, w, r.old)
      BY <1>3, <2>1
    <2> QED
      BY <2>2 DEF q
  <1> QED
    BY <1>4, <1>5, <1>6

LEMMA NextPointer ==
  ASSUME VInv, NEW t \in Threads, Busy(t), Len(local[t].v) < 3,
         NEW place \in Places, NEW at \in {"look", "publish"},
         local' = [local EXCEPT ![t] = Thread(at, local[t].prim, Append(local[t].v, place), local[t].old)],
         UNCHANGED <<draw, drawn>>,
         \A q \in Places : Taken(q) => Taken(q)' /\ cell'[q] = cell[q],
         Taken(place)', cell'[place] = Vertex(drawn, Wanted(t), 0)
  PROVE  /\ local' \in [Threads -> [at : {"idle", "look", "locked", "publish", "publishing"},
                                    prim : Nat, v : Seq(Places), old : Int]]
         /\ \A u \in Threads \ {t} : local'[u] = local[u]
         /\ local'[t].at = at /\ local'[t].prim = local[t].prim /\ Len(local'[t].v) = Len(local[t].v) + 1
         /\ Busy(t)' /\ ThreadOk(t)' /\ Len(local[t].v) \in Nat /\ Len(local'[t].v) \in Nat
  <1> DEFINE n == Len(local[t].v)
             w == Append(local[t].v, place)
  <1>1. /\ local[t].v \in Seq(Places) /\ n \in Nat /\ ThreadOk(t) /\ local[t].prim \in Nat /\ local[t].old \in Int
        /\ local[t].prim \in Prims(draw)
    BY BusyFacts DEF VInv, TypeOK
  <1>2. /\ w \in Seq(Places) /\ Len(w) = n + 1 /\ DOMAIN w = 1 .. n + 1
        /\ \A k \in 1 .. n + 1 : w[k] = IF k = n + 1 THEN place ELSE local[t].v[k]
        /\ DOMAIN local[t].v = 1 .. n
    BY <1>1
  <1>3. local'[t] = Thread(at, local[t].prim, w, local[t].old) /\ \A u \in Threads \ {t} : local'[u] = local[u]
    BY DEF VInv, TypeOK
  <1> HIDE DEF n, w
  <1>4. /\ local'[t].at = at /\ local'[t].prim = local[t].prim /\ local'[t].v = w
    BY <1>3 DEF Thread
  <1>5. local' \in [Threads -> [at : {"idle", "look", "locked", "publish", "publishing"},
                                prim : Nat, v : Seq(Places), old : Int]]
    <2>1. Thread(at, local[t].prim, w, local[t].old)
            \in [at : {"idle", "look", "locked", "publish", "publishing"}, prim : Nat, v : Seq(Places), old : Int]
      BY <1>1, <1>2 DEF Thread
    <2> QED
      BY <2>1 DEF VInv, TypeOK, w
  <1>6. ASSUME NEW k \in DOMAIN w PROVE Leads(local[t].v[k], IndexOf(t, k))'
    <2>1. IndexOf(t, k)' = IndexOf(t, k)
      BY <1>4 DEF IndexOf
    <2>2. CASE k = n + 1
      <3>1. local'[t].v[k] = place /\ IndexOf(t, k) = Wanted(t)
        BY <1>2, <1>4, <2>2 DEF Wanted, n
      <3> QED
        BY <2>1, <3>1 DEF Leads
    <2>3. CASE k # n + 1
      <3>1. k \in 1 .. n /\ w[k] = local[t].v[k]
        BY <1>1, <1>2, <2>3
      <3>2. PICK q : q = local[t].v[k]
        OBVIOUS
      <3>3. Leads(q, IndexOf(t, k))
        BY <1>1, <1>2, <3>1, <3>2 DEF ThreadOk
      <3>4. Taken(q)' /\ cell'[q] = Vertex(drawn, IndexOf(t, k), 0)
        BY <3>3 DEF Leads, Taken
      <3> QED
        BY <1>4, <2>1, <3>1, <3>2, <3>4 DEF Leads
    <2> QED
      BY <2>2, <2>3
  <1>7. Busy(t)' /\ n + 1 <= 3 /\ n + 1 > 0
    BY <1>1, <1>4 DEF Busy, n
  <1>8. ThreadOk(t)'
    BY <1>1, <1>2, <1>4, <1>6, <1>7 DEF ThreadOk
  <1> QED
    BY <1>1, <1>2, <1>3, <1>4, <1>5, <1>7, <1>8 DEF n

LEMMA HitKeeps ==
  ASSUME VInv, NEW t \in Threads, Hit(t)
  PROVE  VInv'
  <1>1. Busy(t) /\ Len(local[t].v) < 3 /\ local[t].at = "look"
    BY DEF Hit, Looking, Busy
  <1>2. PICK place : place = Own(t).second
    OBVIOUS
  <1>3. Leads(place, Wanted(t)) /\ place \in Places
    <2>1. Own(t).first = Wanted(t) /\ Wanted(t) >= 0
      BY <1>1, WantedFacts DEF Hit
    <2>2. Wanted(t) % ENTRY_SIZE \in DOMAIN items[t] /\ phase = "fetch"
      BY <1>1, WantedFacts, BusyFacts DEF VInv, TypeOK
    <2> QED
      BY <1>2, <2>1, <2>2 DEF VInv, OwnOk, Own, Leads, Taken
  <1>4. local' = [local EXCEPT ![t] = Thread("look", local[t].prim, Append(local[t].v, place), local[t].old)]
    <2>1. local' = [local EXCEPT ![t].v = Append(local[t].v, place)]
      BY <1>2 DEF Hit
    <2>2. /\ local[t] \in [at : {"idle", "look", "locked", "publish", "publishing"},
                           prim : Nat, v : Seq(Places), old : Int]
          /\ local \in [Threads -> [at : {"idle", "look", "locked", "publish", "publishing"},
                                   prim : Nat, v : Seq(Places), old : Int]]
      BY DEF VInv, TypeOK
    <2>3. [local[t] EXCEPT !.v = Append(local[t].v, place)]
            = Thread("look", local[t].prim, Append(local[t].v, place), local[t].old)
      <3>1. PICK w : w = Append(local[t].v, place)
        OBVIOUS
      <3>2. PICK r : r = local[t]
        OBVIOUS
      <3>3. [r EXCEPT !.v = w] = Thread(r.at, r.prim, w, r.old)
        BY ONLY <2>2, <3>2, ThreadUpdate
      <3> QED
        BY <1>1, <3>1, <3>2, <3>3
    <2> QED
      BY <2>1, <2>2, <2>3
  <1>5. \A q : Taken(q)' <=> Taken(q)
    BY DEF Taken, Hit
  <1>6. /\ local' \in [Threads -> [at : {"idle", "look", "locked", "publish", "publishing"},
                                   prim : Nat, v : Seq(Places), old : Int]]
        /\ \A u \in Threads \ {t} : local'[u] = local[u]
        /\ local'[t].at = "look" /\ local'[t].prim = local[t].prim
        /\ Len(local'[t].v) >= Len(local[t].v) /\ Busy(t)' /\ ThreadOk(t)'
    <2>1. /\ Taken(place)' /\ cell'[place] = Vertex(drawn, Wanted(t), 0)
          /\ \A q \in Places : Taken(q) => Taken(q)' /\ cell'[q] = cell[q]
          /\ UNCHANGED <<draw, drawn>>
      BY <1>3, <1>5 DEF Leads, Hit
    <2>2. "look" \in {"look", "publish"}
      OBVIOUS
    <2>3. /\ local' \in [Threads -> [at : {"idle", "look", "locked", "publish", "publishing"},
                                     prim : Nat, v : Seq(Places), old : Int]]
          /\ \A u \in Threads \ {t} : local'[u] = local[u]
          /\ local'[t].at = "look" /\ local'[t].prim = local[t].prim /\ Len(local'[t].v) = Len(local[t].v) + 1
          /\ Busy(t)' /\ ThreadOk(t)' /\ Len(local[t].v) \in Nat /\ Len(local'[t].v) \in Nat
      BY <1>1, <1>3, <1>4, <2>1, <2>2, NextPointer, ZenonT(60)
    <2>4. \A m, n \in Nat : m = n + 1 => m >= n
      OBVIOUS
    <2> QED
      BY <2>3, <2>4
  <1>7. \A key : ~Holds(t, key) /\ ~Holds(t, key)'
    BY <1>1, <1>6 DEF Holds
  <1> QED
    BY <1>1, <1>6, <1>7, QuietStep DEF Hit, VInv, TypeOK

LEMMA LockSharedKeeps ==
  ASSUME VInv, NEW t \in Threads, LockShared(t)
  PROVE  VInv'
  <1>0. PICK key : key = SharedKey(Wanted(t))
    OBVIOUS
  <1>1. Busy(t) /\ Len(local[t].v) < 3 /\ local[t].at = "look"
    BY DEF LockShared, Looking, Busy
  <1>2. /\ phase = "fetch" /\ ThreadOk(t) /\ key \in 0 .. SHARED_ENTRY_SIZE - 1
        /\ DOMAIN shared = 0 .. SHARED_ENTRY_SIZE - 1
        /\ local[t] \in [at : {"idle", "look", "locked", "publish", "publishing"},
                         prim : Nat, v : Seq(Places), old : Int]
    BY <1>0, <1>1, BusyFacts, WantedFacts DEF VInv, TypeOK
  <1>3. /\ shared[key].first \in Int /\ shared[key].second \in Places \cup {Nowhere}
        /\ shared[key].first # SHARED_ENTRY_IS_USING
        /\ shared[key].first >= 0 \/ shared[key].first = INVALID_SHARED_ENTRY
        /\ shared[key].first >= 0 => Leads(shared[key].second, shared[key].first)
        /\ \A u \in Threads : ~Holds(u, key)
    BY <1>0, <1>2 DEF LockShared, Lock, VInv, TypeOK, Entries, SharedOk, LocksOk
  <1>4. /\ shared' = [shared EXCEPT ![key].first = SHARED_ENTRY_IS_USING]
        /\ shared'[key] = Entry(SHARED_ENTRY_IS_USING, shared[key].second)
        /\ \A k \in 0 .. SHARED_ENTRY_SIZE - 1 : k # key => shared'[k] = shared[k]
        /\ shared' \in [0 .. SHARED_ENTRY_SIZE - 1 -> Entries]
    BY <1>0, <1>2 DEF LockShared, Lock, VInv, TypeOK, Entries, Entry, SHARED_ENTRY_IS_USING
  <1>5. /\ local'[t] = Thread("locked", local[t].prim, local[t].v, shared[key].first)
        /\ \A u \in Threads \ {t} : local'[u] = local[u]
        /\ local' \in [Threads -> [at : {"idle", "look", "locked", "publish", "publishing"},
                                   prim : Nat, v : Seq(Places), old : Int]]
    BY <1>0, <1>2, <1>3 DEF LockShared, VInv, TypeOK, Thread
  <1>6. /\ local'[t].at = "locked" /\ local'[t].prim = local[t].prim
        /\ local'[t].v = local[t].v /\ local'[t].old = shared[key].first
    BY <1>5 DEF Thread
  <1>7. /\ \A k : IndexOf(t, k)' = IndexOf(t, k)
        /\ Wanted(t)' = Wanted(t) /\ SharedKey(Wanted(t))' = key
        /\ \A q, index : Leads(q, index)' <=> Leads(q, index)
    <2>1. draw' = draw /\ next' = next /\ cell' = cell /\ drawn' = drawn
      BY DEF LockShared
    <2>2. \A k : IndexOf(t, k)' = IndexOf(t, k)
      BY <1>6, <2>1 DEF IndexOf
    <2>3. Wanted(t)' = Wanted(t)
      BY <1>6, <2>1 DEF Wanted, IndexOf
    <2>4. SharedKey(Wanted(t))' = key
      BY <1>0, <2>3 DEF SharedKey
    <2> QED
      BY <2>1, <2>2, <2>3, <2>4 DEF Leads, Taken
  <1>8. ThreadOk(t)'
    <2>1. Leads(shared[key].second, shared[key].first) => Leads(shared'[key].second, shared[key].first)
      BY <1>4 DEF Entry
    <2>2. draw' = draw
      BY DEF LockShared
    <2>3. local'[t].old >= 0 => Leads(shared[SharedKey(Wanted(t))].second, local[t].old)'
      BY <1>3, <1>6, <1>7, <2>1
    <2>4. \A k \in DOMAIN local'[t].v : Leads(local[t].v[k], IndexOf(t, k))'
      BY <1>2, <1>6, <1>7 DEF ThreadOk
    <2> QED
      BY <1>1, <1>2, <1>3, <1>6, <2>2, <2>3, <2>4 DEF ThreadOk
  <1>9. /\ Holds(t, key)' /\ \A k : k # key => ~Holds(t, k)'
        /\ \A k : ~Holds(t, k)
    BY <1>1, <1>6, <1>7 DEF Holds
  <1>10. \A k \in 0 .. SHARED_ENTRY_SIZE - 1 :
           \/ shared'[k] = shared[k] /\ (Holds(t, k)' <=> Holds(t, k))
           \/ /\ \A u \in Threads \ {t} : ~Holds(u, k)
              /\ shared'[k].first >= 0 \/ shared'[k].first \in {INVALID_SHARED_ENTRY, SHARED_ENTRY_IS_USING}
              /\ shared'[k].first >= 0 => Leads(shared'[k].second, shared'[k].first)
              /\ shared'[k].first = SHARED_ENTRY_IS_USING <=> Holds(t, k)'
    BY <1>3, <1>4, <1>9 DEF Entry, INVALID_SHARED_ENTRY, SHARED_ENTRY_IS_USING
  <1>11. Busy(t)' /\ Len(local'[t].v) >= Len(local[t].v)
    BY <1>1, <1>2, <1>6 DEF Busy
  <1> QED
    BY <1>1, <1>4, <1>5, <1>6, <1>8, <1>10, <1>11, QuietStep DEF LockShared, VInv, TypeOK
(* Shading a vertex, whatever it does to the entry of the shared level.    *)
LEMMA ShadeKeeps ==
  ASSUME VInv, NEW t \in Threads, Busy(t), Len(local[t].v) < 3,
         NEW at \in {"look", "publish"}, Shade(t, at),
         UNCHANGED <<class, drawn, draw, phase, todo, used, handed>>,
         shared' \in [0 .. SHARED_ENTRY_SIZE - 1 -> Entries],
         \A key \in 0 .. SHARED_ENTRY_SIZE - 1 :
           \/ shared'[key] = shared[key] /\ (Holds(t, key)' <=> Holds(t, key))
           \/ /\ \A u \in Threads \ {t} : ~Holds(u, key)
              /\ shared'[key].first >= 0 \/ shared'[key].first \in {INVALID_SHARED_ENTRY, SHARED_ENTRY_IS_USING}
              /\ shared'[key].first >= 0 => Leads(shared'[key].second, shared'[key].first)
              /\ shared'[key].first = SHARED_ENTRY_IS_USING <=> Holds(t, key)'
  PROVE  VInv'
  <1>1. /\ phase = "fetch" /\ OnDemand /\ draw \in Draws /\ next[t] \in Nat /\ drawn \in 0 .. MaxDraws
        /\ Wanted(t) \in Nat /\ Wanted(t) % ENTRY_SIZE \in 0 .. ENTRY_SIZE - 1
        /\ Len(local[t].v) \in Nat /\ Len(local[t].v) <= 3
        /\ Capacity(draw) \in Nat /\ Capacity(draw) <= MaxVertices /\ MaxVertices \in Nat
    <2>1. /\ phase = "fetch" /\ OnDemand /\ draw \in Draws /\ drawn \in 0 .. MaxDraws
          /\ Len(local[t].v) \in Nat /\ Len(local[t].v) <= 3
      BY BusyFacts
    <2>2. Wanted(t) \in Nat /\ Wanted(t) % ENTRY_SIZE \in 0 .. ENTRY_SIZE - 1
      BY WantedFacts
    <2>3. Capacity(draw) \in Nat /\ Capacity(draw) <= MaxVertices /\ MaxVertices \in Nat
      BY <2>1, DrawFacts, CacheAssumption
    <2>4. next[t] \in Nat
      BY <2>3 DEF VInv, TypeOK
    <2> QED
      BY <2>1, <2>2, <2>3, <2>4
  <1>2. /\ next[t] + 3 * Cardinality(todo) + (3 - Len(local[t].v)) <= Capacity(draw)
        /\ Cardinality(todo) \in Nat /\ next[t] + 1 <= Capacity(draw)
    <2>1. next[t] + 3 * Cardinality(todo) + Need(t) <= Capacity(draw)
      BY <1>1 DEF VInv, RoomOk
    <2>2. Need(t) = 3 - Len(local[t].v)
      BY DEF Need
    <2>3. Cardinality(todo) \in Nat
      <3>1. IsFiniteSet(todo)
        BY <1>1, DrawFacts, FS_Subset DEF VInv, RoomOk
      <3> QED
        BY <3>1, FS_CardinalityType
    <2>4. ASSUME NEW n \in Nat, NEW c \in Nat, NEW l \in Nat, NEW most \in Nat, l < 3, n + 3 * c + (3 - l) <= most
          PROVE  n + 1 <= most
      BY ONLY <2>4
    <2>5. next[t] + 3 * Cardinality(todo) + (3 - Len(local[t].v)) <= Capacity(draw)
      BY <2>1, <2>2
    <2> QED
      BY <1>1, <2>3, <2>4, <2>5
  <1>3. PICK place : place = <<t, next[t]>>
    OBVIOUS
  <1>4. place \in Places /\ ~Taken(place) /\ place[1] = t /\ place[2] = next[t]
    <2>1. next[t] \in 0 .. MaxVertices - 1
      BY <1>1, <1>2
    <2> QED
      BY <1>3, <2>1 DEF Places, Taken
  <1>5. /\ next' = [next EXCEPT ![t] = @ + 1]
        /\ cell' = [cell EXCEPT ![place] = Vertex(drawn, Wanted(t), 0)]
        /\ items' = [items EXCEPT ![t][Wanted(t) % ENTRY_SIZE] = Entry(Wanted(t), place)]
        /\ local' = [local EXCEPT ![t].v = Append(@, place), ![t].at = at]
    BY <1>3 DEF Shade
  <1>6. /\ next'[t] = next[t] + 1 /\ \A u \in Threads \ {t} : next'[u] = next[u]
        /\ next' \in [Threads -> 0 .. Capacity(draw)]
    <2>1. next \in [Threads -> 0 .. Capacity(draw)]
      BY DEF VInv, TypeOK
    <2>2. next[t] + 1 \in 0 .. Capacity(draw)
      BY <1>1, <1>2
    <2> QED
      BY <1>5, <2>1, <2>2
  <1>7. /\ cell'[place] = Vertex(drawn, Wanted(t), 0) /\ \A q \in Places : q # place => cell'[q] = cell[q]
        /\ cell' \in [Places -> [draw : 0 .. MaxDraws, index : Nat, projected : Nat]]
    <2>1. Vertex(drawn, Wanted(t), 0) \in [draw : 0 .. MaxDraws, index : Nat, projected : Nat]
      BY <1>1 DEF Vertex
    <2> QED
      BY <1>4, <1>5, <2>1 DEF VInv, TypeOK
  <1>8. /\ Taken(place)'
        /\ \A q \in Places : Taken(q) => Taken(q)' /\ cell'[q] = cell[q]
    <2>1. Taken(place)'
      BY <1>1, <1>4, <1>6 DEF Taken
    <2>2. ASSUME NEW q \in Places, Taken(q) PROVE Taken(q)' /\ cell'[q] = cell[q]
      <3>1. q # place /\ q[1] \in Threads /\ q[2] \in Nat /\ q[2] < next[q[1]]
        <4>1. Taken(q) /\ q[1] \in Threads /\ q[2] < next[q[1]] /\ q # place
          BY <1>4, <2>2 DEF Taken
        <4>2. q[2] \in 0 .. MaxVertices - 1
          BY DEF Places
        <4> QED
          BY <1>1, <4>1, <4>2
      <3>2. next[q[1]] \in Nat /\ q[2] < next'[q[1]]
        <4>1. PICK u \in Threads : u = q[1]
          BY <3>1
        <4>2. next[u] \in 0 .. Capacity(draw)
          BY DEF VInv, TypeOK
        <4>3. next[u] \in Nat /\ next'[u] >= next[u] /\ next'[u] \in Nat
          BY <1>1, <1>6, <4>2
        <4> QED
          BY <3>1, <4>1, <4>3
      <3> QED
        BY <1>7, <3>1, <3>2 DEF Taken
    <2> QED
      BY <2>1, <2>2
  <1>9. local' = [local EXCEPT ![t] = Thread(at, local[t].prim, Append(local[t].v, place), local[t].old)]
    <2>1. PICK w : w = Append(local[t].v, place)
      OBVIOUS
    <2>2. PICK r : r = local[t]
      OBVIOUS
    <2>3. /\ r \in [at : {"idle", "look", "locked", "publish", "publishing"},
                    prim : Nat, v : Seq(Places), old : Int]
          /\ local \in [Threads -> [at : {"idle", "look", "locked", "publish", "publishing"},
                                   prim : Nat, v : Seq(Places), old : Int]]
      BY <2>2 DEF VInv, TypeOK
    <2>4. [r EXCEPT !.v = w, !.at = at] = Thread(at, r.prim, w, r.old)
      BY ONLY <2>3, ThreadUpdate
    <2> QED
      BY <1>5, <2>1, <2>2, <2>3, <2>4
  <1>10. /\ local' \in [Threads -> [at : {"idle", "look", "locked", "publish", "publishing"},
                                    prim : Nat, v : Seq(Places), old : Int]]
         /\ \A u \in Threads \ {t} : local'[u] = local[u]
         /\ local'[t].at = at /\ local'[t].prim = local[t].prim /\ Len(local'[t].v) = Len(local[t].v) + 1
         /\ Busy(t)' /\ ThreadOk(t)' /\ Len(local[t].v) \in Nat /\ Len(local'[t].v) \in Nat
    BY <1>4, <1>7, <1>8, <1>9, NextPointer, ZenonT(60)
  <1>11. /\ items' \in [Threads -> [0 .. ENTRY_SIZE - 1 -> Entries]]
         /\ \A u \in Threads : \A key \in 0 .. ENTRY_SIZE - 1 :
              items'[u][key] = items[u][key] \/ items'[u][key] = Entry(Wanted(t), place)
    <2>1. Entry(Wanted(t), place) \in Entries
      BY <1>1, <1>4 DEF Entry, Entries
    <2>2. PICK e, k : e = Entry(Wanted(t), place) /\ k = Wanted(t) % ENTRY_SIZE
      OBVIOUS
    <2>3. items' = [items EXCEPT ![t][k] = e]
      BY <1>5, <2>2
    <2>4. items \in [Threads -> [0 .. ENTRY_SIZE - 1 -> Entries]] /\ e \in Entries
      BY <2>1, <2>2 DEF VInv, TypeOK
    <2> QED
      BY <2>2, <2>3, <2>4
  <1>12. TypeOK'
    <2>1. UNCHANGED <<class, drawn, draw, phase>> /\ Capacity(draw)' = Capacity(draw)
      OBVIOUS
    <2> QED
      BY <1>6, <1>7, <1>10, <1>11, <2>1 DEF VInv, TypeOK
  <1>13. next'[t] + 3 * Cardinality(todo') + Need(t)' <= Capacity(draw)
    <2>1. Need(t)' = 3 - Len(local'[t].v)
      BY <1>10 DEF Need
    <2>2. Need(t)' = 3 - (Len(local[t].v) + 1)
      BY <1>10, <2>1
    <2>3. next'[t] = next[t] + 1 /\ todo' = todo
      BY <1>6
    <2>4. \A a, c, n, m \in Nat : a + 3 * c + (3 - n) <= m => (a + 1) + 3 * c + (3 - (n + 1)) <= m
      OBVIOUS
    <2>5. (next[t] + 1) + 3 * Cardinality(todo) + (3 - (Len(local[t].v) + 1)) <= Capacity(draw)
      BY ONLY <1>1, <1>2, <2>4
    <2> QED
      BY ONLY <2>2, <2>3, <2>5
  <1>14. ASSUME NEW u \in Threads, NEW key \in 0 .. ENTRY_SIZE - 1
         PROVE  items'[u][key] = items[u][key] \/ Leads(items[u][key].second, items[u][key].first)'
    <2>1. CASE items'[u][key] = Entry(Wanted(t), place)
      <3>1. PICK index : index = Wanted(t)
        OBVIOUS
      <3>2. items'[u][key].first = index /\ items'[u][key].second = place
        BY <2>1, <3>1 DEF Entry
      <3>3. Leads(place, index)'
        BY <1>7, <1>8, <3>1 DEF Leads
      <3> QED
        BY <3>2, <3>3
    <2> QED
      BY <1>11, <2>1
  <1>15. \A q, index : Leads(q, index) => Leads(q, index)'
    BY <1>8 DEF Leads, Taken
  <1>16. \A key \in 0 .. SHARED_ENTRY_SIZE - 1 :
           \/ shared'[key] = shared[key] /\ (Holds(t, key)' <=> Holds(t, key))
           \/ /\ \A u \in Threads \ {t} : ~Holds(u, key)
              /\ shared'[key].first >= 0 \/ shared'[key].first \in {INVALID_SHARED_ENTRY, SHARED_ENTRY_IS_USING}
              /\ shared'[key].first >= 0 => Leads(shared[key].second, shared[key].first)'
              /\ shared'[key].first = SHARED_ENTRY_IS_USING <=> Holds(t, key)'
    BY <1>15
  <1> QED
    BY <1>1, <1>6, <1>8, <1>10, <1>12, <1>13, <1>14, <1>16, FetchStep

LEMMA MissKeeps ==
  ASSUME VInv, NEW t \in Threads, Miss(t)
  PROVE  VInv'
  <1>1. Busy(t) /\ Len(local[t].v) < 3 /\ local[t].at = "look" /\ Shade(t, "look") /\ shared' = shared
    BY DEF Miss, Looking, Busy
  <1>2. local'[t].at = "look"
    BY <1>1 DEF Shade, VInv, TypeOK
  <1>3. \A key : ~Holds(t, key) /\ ~Holds(t, key)'
    BY <1>1, <1>2 DEF Holds
  <1>4. shared \in [0 .. SHARED_ENTRY_SIZE - 1 -> Entries]
    BY DEF VInv, TypeOK
  <1>5. "look" \in {"look", "publish"}
    OBVIOUS
  <1>6. UNCHANGED <<class, drawn, draw, phase, todo, used, handed>>
    BY DEF Miss
  <1>7. \A key \in 0 .. SHARED_ENTRY_SIZE - 1 :
          shared'[key] = shared[key] /\ (Holds(t, key)' <=> Holds(t, key))
    BY <1>1, <1>3
  <1> QED
    BY <1>1, <1>4, <1>5, <1>6, <1>7, ShadeKeeps
(* A thread that holds an entry of the shared level: which, and that no    *)
(* other thread holds it.                                                  *)
LEMMA HolderAlone ==
  ASSUME VInv, phase = "fetch", NEW t \in Threads, NEW key \in 0 .. SHARED_ENTRY_SIZE - 1, Holds(t, key)
  PROVE  /\ shared[key].first = SHARED_ENTRY_IS_USING
         /\ \A u \in Threads \ {t} : ~Holds(u, key)
         /\ shared[key].second \in Places \cup {Nowhere}
  BY DEF VInv, TypeOK, LocksOk, Entries

LEMMA LockedFacts ==
  ASSUME VInv, NEW t \in Threads, local[t].at = "locked"
  PROVE  /\ Busy(t) /\ Len(local[t].v) < 3 /\ phase = "fetch" /\ ThreadOk(t)
         /\ local[t].old \in Int /\ (local[t].old >= 0 \/ local[t].old = INVALID_SHARED_ENTRY)
         /\ Wanted(t) \in Nat /\ Wanted(t) % ENTRY_SIZE \in 0 .. ENTRY_SIZE - 1
         /\ SharedKey(Wanted(t)) \in 0 .. SHARED_ENTRY_SIZE - 1
         /\ \A key : Holds(t, key) <=> key = SharedKey(Wanted(t))
         /\ \A key : SharedKey(Wanted(t)) = key =>
              /\ local[t].old >= 0 => Leads(shared[key].second, local[t].old)
              /\ \A u \in Threads \ {t} : ~Holds(u, key)
              /\ shared[key].second \in Places \cup {Nowhere}
  <1>1. Busy(t) /\ local[t].old \in Int
    BY DEF Busy, VInv, TypeOK
  <1>2. phase = "fetch" /\ ThreadOk(t)
    BY <1>1, BusyFacts
  <1>3. Len(local[t].v) < 3
    BY <1>2 DEF ThreadOk
  <1>4. /\ Wanted(t) \in Nat /\ Wanted(t) % ENTRY_SIZE \in 0 .. ENTRY_SIZE - 1
        /\ SharedKey(Wanted(t)) \in 0 .. SHARED_ENTRY_SIZE - 1
    BY <1>1, <1>3, WantedFacts
  <1>5. \A key : Holds(t, key) <=> key = SharedKey(Wanted(t))
    BY DEF Holds
  <1>6. /\ local[t].old >= 0 \/ local[t].old = INVALID_SHARED_ENTRY
        /\ local[t].old >= 0 => Leads(shared[SharedKey(Wanted(t))].second, local[t].old)
    BY <1>2 DEF ThreadOk
  <1>7. ASSUME NEW key, SharedKey(Wanted(t)) = key
        PROVE  /\ \A u \in Threads \ {t} : ~Holds(u, key)
               /\ shared[key].second \in Places \cup {Nowhere}
    BY <1>2, <1>4, <1>5, <1>7, HolderAlone
  <1> QED
    BY <1>1, <1>2, <1>3, <1>4, <1>5, <1>6, <1>7

LEMMA HitSharedKeeps ==
  ASSUME VInv, NEW t \in Threads, HitShared(t)
  PROVE  VInv'
  <1>0. PICK key : key = SharedKey(Wanted(t))
    OBVIOUS
  <1>1. PICK place : place = shared[key].second
    OBVIOUS
  <1>2. PICK index : index = Wanted(t)
    OBVIOUS
  <1>3. local[t].at = "locked" /\ local[t].old = index
    BY <1>2 DEF HitShared
  <1>4. /\ Busy(t) /\ Len(local[t].v) < 3 /\ phase = "fetch"
        /\ index \in Nat /\ index % ENTRY_SIZE \in 0 .. ENTRY_SIZE - 1 /\ key \in 0 .. SHARED_ENTRY_SIZE - 1
        /\ \A k : Holds(t, k) <=> k = key
        /\ Leads(place, index) /\ place \in Places
        /\ \A u \in Threads \ {t} : ~Holds(u, key)
    <2>1. index >= 0 => Leads(place, index)
      BY <1>0, <1>1, <1>3, LockedFacts
    <2>2. index \in Nat
      BY <1>2, <1>3, LockedFacts
    <2>3. Leads(place, index)
      BY <2>1, <2>2
    <2> QED
      BY <1>0, <1>2, <1>3, <2>3, LockedFacts DEF Leads, Taken
  <1>5. /\ items' = [items EXCEPT ![t][index % ENTRY_SIZE] = Entry(index, place)]
        /\ local' = [local EXCEPT ![t].v = Append(@, place), ![t].at = "look"]
        /\ shared' = [shared EXCEPT ![key].first = index]
        /\ UNCHANGED <<class, drawn, draw, phase, todo, cell, used, next, handed>>
    BY <1>0, <1>1, <1>2 DEF HitShared
  <1>6. \A q : Taken(q)' <=> Taken(q)
    BY <1>5 DEF Taken
  <1>7. /\ local' \in [Threads -> [at : {"idle", "look", "locked", "publish", "publishing"},
                                   prim : Nat, v : Seq(Places), old : Int]]
        /\ \A u \in Threads \ {t} : local'[u] = local[u]
        /\ local'[t].at = "look" /\ local'[t].prim = local[t].prim
        /\ Len(local'[t].v) >= Len(local[t].v) /\ Busy(t)' /\ ThreadOk(t)'
    <2>1. PICK w : w = Append(local[t].v, place)
      OBVIOUS
    <2>2. PICK r : r = local[t]
      OBVIOUS
    <2>3. /\ r \in [at : {"idle", "look", "locked", "publish", "publishing"},
                    prim : Nat, v : Seq(Places), old : Int]
          /\ local \in [Threads -> [at : {"idle", "look", "locked", "publish", "publishing"},
                                   prim : Nat, v : Seq(Places), old : Int]]
      BY <2>2 DEF VInv, TypeOK
    <2>4. [r EXCEPT !.v = w, !.at = "look"] = Thread("look", r.prim, w, r.old)
      BY ONLY <2>3, ThreadUpdate
    <2>5. local' = [local EXCEPT ![t] = Thread("look", local[t].prim, Append(local[t].v, place), local[t].old)]
      BY <1>5, <2>1, <2>2, <2>3, <2>4
    <2>6. /\ Taken(place)' /\ cell'[place] = Vertex(drawn, Wanted(t), 0)
          /\ \A q \in Places : Taken(q) => Taken(q)' /\ cell'[q] = cell[q]
          /\ UNCHANGED <<draw, drawn>>
      BY <1>2, <1>4, <1>5, <1>6 DEF Leads
    <2>7. "look" \in {"look", "publish"}
      OBVIOUS
    <2>8. /\ local' \in [Threads -> [at : {"idle", "look", "locked", "publish", "publishing"},
                                     prim : Nat, v : Seq(Places), old : Int]]
          /\ \A u \in Threads \ {t} : local'[u] = local[u]
          /\ local'[t].at = "look" /\ local'[t].prim = local[t].prim /\ Len(local'[t].v) = Len(local[t].v) + 1
          /\ Busy(t)' /\ ThreadOk(t)' /\ Len(local[t].v) \in Nat /\ Len(local'[t].v) \in Nat
      BY <1>4, <2>5, <2>6, <2>7, NextPointer, ZenonT(60)
    <2>9. \A m, n \in Nat : m = n + 1 => m >= n
      OBVIOUS
    <2> QED
      BY <2>8, <2>9
  <1>8. /\ items' \in [Threads -> [0 .. ENTRY_SIZE - 1 -> Entries]]
        /\ \A u \in Threads : \A k \in 0 .. ENTRY_SIZE - 1 :
             items'[u][k] = items[u][k] \/ Leads(items'[u][k].second, items'[u][k].first)
    <2>1. Entry(index, place) \in Entries /\ Entry(index, place).first = index /\ Entry(index, place).second = place
      BY <1>4 DEF Entry, Entries
    <2>2. PICK e, k : e = Entry(index, place) /\ k = index % ENTRY_SIZE
      OBVIOUS
    <2>3. items' = [items EXCEPT ![t][k] = e] /\ k \in 0 .. ENTRY_SIZE - 1
      BY <1>4, <1>5, <2>2
    <2>4. items \in [Threads -> [0 .. ENTRY_SIZE - 1 -> Entries]] /\ e \in Entries
      BY <2>1, <2>2 DEF VInv, TypeOK
    <2>5. items' \in [Threads -> [0 .. ENTRY_SIZE - 1 -> Entries]]
      BY <2>3, <2>4
    <2>6. \A u \in Threads : \A l \in 0 .. ENTRY_SIZE - 1 : items'[u][l] = items[u][l] \/ items'[u][l] = e
      BY <2>3, <2>4
    <2>7. Leads(e.second, e.first)
      BY <1>4, <2>1, <2>2
    <2> QED
      BY <2>5, <2>6, <2>7
  <1>9. /\ shared'[key] = Entry(index, place) /\ shared'[key].first = index /\ shared'[key].second = place
        /\ \A k \in 0 .. SHARED_ENTRY_SIZE - 1 : k # key => shared'[k] = shared[k]
        /\ shared' \in [0 .. SHARED_ENTRY_SIZE - 1 -> Entries]
    BY <1>1, <1>4, <1>5 DEF VInv, TypeOK, Entries, Entry
  <1>10. \A k : ~Holds(t, k)'
    BY <1>7 DEF Holds
  <1>11. \A k \in 0 .. SHARED_ENTRY_SIZE - 1 :
           \/ shared'[k] = shared[k] /\ (Holds(t, k)' <=> Holds(t, k))
           \/ /\ \A u \in Threads \ {t} : ~Holds(u, k)
              /\ shared'[k].first >= 0 \/ shared'[k].first \in {INVALID_SHARED_ENTRY, SHARED_ENTRY_IS_USING}
              /\ shared'[k].first >= 0 => Leads(shared'[k].second, shared'[k].first)
              /\ shared'[k].first = SHARED_ENTRY_IS_USING <=> Holds(t, k)'
    <2>1. index >= 0 /\ index # SHARED_ENTRY_IS_USING
      BY <1>4 DEF SHARED_ENTRY_IS_USING
    <2> QED
      BY <1>4, <1>9, <1>10, <2>1
  <1> QED
    BY <1>4, <1>5, <1>7, <1>8, <1>9, <1>11, QuietStep

LEMMA MissSharedKeeps ==
  ASSUME VInv, NEW t \in Threads, MissShared(t)
  PROVE  VInv'
  <1>0. PICK key : key = SharedKey(Wanted(t))
    OBVIOUS
  <1>1. PICK old : old = local[t].old
    OBVIOUS
  <1>2. /\ local[t].at = "locked" /\ shared' = [shared EXCEPT ![key].first = old] /\ Shade(t, "publish")
        /\ UNCHANGED <<class, drawn, draw, phase, todo, used, handed>>
    BY <1>0, <1>1 DEF MissShared
  <1>3. /\ Busy(t) /\ Len(local[t].v) < 3 /\ key \in 0 .. SHARED_ENTRY_SIZE - 1
        /\ \A k : Holds(t, k) <=> k = key
        /\ old \in Int /\ (old >= 0 \/ old = INVALID_SHARED_ENTRY)
        /\ old >= 0 => Leads(shared[key].second, old)
        /\ \A u \in Threads \ {t} : ~Holds(u, key)
        /\ shared[key].second \in Places \cup {Nowhere}
    BY <1>0, <1>1, <1>2, LockedFacts
  <1>4. local'[t].at = "publish"
    BY <1>2 DEF Shade, VInv, TypeOK
  <1>5. \A k : ~Holds(t, k)'
    BY <1>4 DEF Holds
  <1>6. /\ shared'[key] = Entry(old, shared[key].second) /\ shared'[key].first = old
        /\ shared'[key].second = shared[key].second
        /\ \A k \in 0 .. SHARED_ENTRY_SIZE - 1 : k # key => shared'[k] = shared[k]
        /\ shared' \in [0 .. SHARED_ENTRY_SIZE - 1 -> Entries]
    BY <1>2, <1>3 DEF VInv, TypeOK, Entries, Entry
  <1>7. \A k \in 0 .. SHARED_ENTRY_SIZE - 1 :
           \/ shared'[k] = shared[k] /\ (Holds(t, k)' <=> Holds(t, k))
           \/ /\ \A u \in Threads \ {t} : ~Holds(u, k)
              /\ shared'[k].first >= 0 \/ shared'[k].first \in {INVALID_SHARED_ENTRY, SHARED_ENTRY_IS_USING}
              /\ shared'[k].first >= 0 => Leads(shared'[k].second, shared'[k].first)
              /\ shared'[k].first = SHARED_ENTRY_IS_USING <=> Holds(t, k)'
    <2>1. old # SHARED_ENTRY_IS_USING
      BY <1>3 DEF SHARED_ENTRY_IS_USING, INVALID_SHARED_ENTRY
    <2> QED
      BY <1>3, <1>5, <1>6, <2>1
  <1>8. "publish" \in {"look", "publish"}
    OBVIOUS
  <1> QED
    BY <1>2, <1>3, <1>6, <1>7, <1>8, ShadeKeeps
(* A thread goes on with the pointers it has.                              *)
LEMMA SamePointers ==
  ASSUME VInv, NEW t \in Threads, Busy(t), local[t].at \in {"publish", "publishing"},
         NEW at \in {"look", "publishing"}, local' = [local EXCEPT ![t].at = at],
         UNCHANGED <<draw, drawn, next, cell>>
  PROVE  /\ local' \in [Threads -> [at : {"idle", "look", "locked", "publish", "publishing"},
                                    prim : Nat, v : Seq(Places), old : Int]]
         /\ \A u \in Threads \ {t} : local'[u] = local[u]
         /\ local'[t].at = at /\ local'[t].prim = local[t].prim /\ local'[t].v = local[t].v
         /\ Len(local'[t].v) >= Len(local[t].v) /\ Busy(t)' /\ ThreadOk(t)'
         /\ Shaded(t)' = Shaded(t)
         /\ Shaded(t) \in Nat /\ SharedKey(Shaded(t)) \in 0 .. SHARED_ENTRY_SIZE - 1
         /\ Leads(Last(local[t].v), Shaded(t)) /\ Last(local[t].v) \in Places
  <1>1. /\ local[t].v \in Seq(Places) /\ Len(local[t].v) \in Nat /\ Len(local[t].v) <= 3 /\ ThreadOk(t)
        /\ \A k \in 1 .. 3 : IndexOf(t, k) \in Nat /\ SharedKey(IndexOf(t, k)) \in 0 .. SHARED_ENTRY_SIZE - 1
    BY BusyFacts
  <1>2. Len(local[t].v) > 0
    BY <1>1 DEF ThreadOk
  <1>3. Len(local[t].v) \in 1 .. 3 /\ Len(local[t].v) \in DOMAIN local[t].v
    <2>1. \A n \in Nat : n > 0 /\ n <= 3 => n \in 1 .. 3 /\ n \in 1 .. n
      OBVIOUS
    <2>2. DOMAIN local[t].v = 1 .. Len(local[t].v)
      BY <1>1
    <2> QED
      BY <1>1, <1>2, <2>1, <2>2
  <1>4. Shaded(t) \in Nat /\ SharedKey(Shaded(t)) \in 0 .. SHARED_ENTRY_SIZE - 1
    BY <1>1, <1>3 DEF Shaded
  <1>5. Leads(Last(local[t].v), Shaded(t)) /\ Last(local[t].v) \in Places
    <2>1. Leads(local[t].v[Len(local[t].v)], Shaded(t))
      BY <1>1, <1>3 DEF ThreadOk, Shaded
    <2> QED
      BY <2>1 DEF Last, Leads, Taken
  <1>6. /\ local' \in [Threads -> [at : {"idle", "look", "locked", "publish", "publishing"},
                                    prim : Nat, v : Seq(Places), old : Int]]
        /\ \A u \in Threads \ {t} : local'[u] = local[u]
        /\ local'[t].at = at /\ local'[t].prim = local[t].prim /\ local'[t].v = local[t].v
    BY DEF VInv, TypeOK
  <1>7. /\ \A k : IndexOf(t, k)' = IndexOf(t, k)
        /\ \A q, index : Leads(q, index)' <=> Leads(q, index)
    BY <1>6 DEF IndexOf, Leads, Taken
  <1>8. Shaded(t)' = Shaded(t)
    BY <1>6 DEF Shaded, IndexOf
  <1>9. ThreadOk(t)'
    <2>1. \A k \in DOMAIN local'[t].v : Leads(local[t].v[k], IndexOf(t, k))'
      BY <1>1, <1>6, <1>7 DEF ThreadOk
    <2>2. local'[t].prim \in Prims(draw)'
      BY <1>1, <1>6 DEF ThreadOk
    <2> QED
      BY <1>1, <1>2, <1>6, <2>1, <2>2 DEF ThreadOk
  <1> QED
    BY <1>1, <1>4, <1>5, <1>6, <1>8, <1>9 DEF Busy

LEMMA LockToPublishKeeps ==
  ASSUME VInv, NEW t \in Threads, LockToPublish(t)
  PROVE  VInv'
  <1>0. PICK key : key = SharedKey(Shaded(t))
    OBVIOUS
  <1>1. /\ local[t].at = "publish" /\ Busy(t)
        /\ local' = [local EXCEPT ![t].at = "publishing"]
        /\ UNCHANGED <<class, drawn, draw, phase, todo, cell, used, next, items, handed>>
        /\ shared[key].first # SHARED_ENTRY_IS_USING
        /\ shared' = [shared EXCEPT ![key].first = SHARED_ENTRY_IS_USING]
    BY <1>0 DEF LockToPublish, Lock, Busy
  <1>2. /\ local' \in [Threads -> [at : {"idle", "look", "locked", "publish", "publishing"},
                                    prim : Nat, v : Seq(Places), old : Int]]
        /\ \A u \in Threads \ {t} : local'[u] = local[u]
        /\ local'[t].at = "publishing" /\ local'[t].prim = local[t].prim
        /\ Len(local'[t].v) >= Len(local[t].v) /\ Busy(t)' /\ ThreadOk(t)'
        /\ SharedKey(Shaded(t)') = key /\ key \in 0 .. SHARED_ENTRY_SIZE - 1
    <2>1. local[t].at \in {"publish", "publishing"} /\ "publishing" \in {"look", "publishing"}
      BY <1>1
    <2> QED
      BY <1>0, <1>1, <2>1, SamePointers
  <1>3. phase = "fetch"
    BY <1>1, BusyFacts
  <1>4. /\ shared'[key] = Entry(SHARED_ENTRY_IS_USING, shared[key].second)
        /\ shared'[key].first = SHARED_ENTRY_IS_USING
        /\ \A k \in 0 .. SHARED_ENTRY_SIZE - 1 : k # key => shared'[k] = shared[k]
        /\ shared' \in [0 .. SHARED_ENTRY_SIZE - 1 -> Entries]
    BY <1>1, <1>2 DEF VInv, TypeOK, Entries, Entry, SHARED_ENTRY_IS_USING
  <1>5. \A u \in Threads : ~Holds(u, key)
    BY <1>1, <1>2, <1>3 DEF VInv, TypeOK, LocksOk
  <1>6. \A k : (Holds(t, k)' <=> k = key) /\ ~Holds(t, k)
    <2>1. ASSUME NEW k PROVE Holds(t, k)' <=> k = key
      BY <1>2 DEF Holds, SharedKey
    <2> QED
      BY <1>1, <2>1 DEF Holds
  <1>7. \A k \in 0 .. SHARED_ENTRY_SIZE - 1 :
           \/ shared'[k] = shared[k] /\ (Holds(t, k)' <=> Holds(t, k))
           \/ /\ \A u \in Threads \ {t} : ~Holds(u, k)
              /\ shared'[k].first >= 0 \/ shared'[k].first \in {INVALID_SHARED_ENTRY, SHARED_ENTRY_IS_USING}
              /\ shared'[k].first >= 0 => Leads(shared'[k].second, shared'[k].first)
              /\ shared'[k].first = SHARED_ENTRY_IS_USING <=> Holds(t, k)'
    <2>1. ~(SHARED_ENTRY_IS_USING >= 0)
      BY DEF SHARED_ENTRY_IS_USING
    <2> QED
      BY <1>4, <1>5, <1>6, <2>1
  <1> QED
    BY <1>1, <1>2, <1>4, <1>7, QuietStep DEF VInv, TypeOK

LEMMA PublishKeeps ==
  ASSUME VInv, NEW t \in Threads, Publish(t)
  PROVE  VInv'
  <1>0. PICK key, index, place : key = SharedKey(Shaded(t)) /\ index = Shaded(t) /\ place = Last(local[t].v)
    OBVIOUS
  <1>1. /\ local[t].at = "publishing" /\ Busy(t)
        /\ local' = [local EXCEPT ![t].at = "look"]
        /\ UNCHANGED <<class, drawn, draw, phase, todo, cell, used, next, items, handed>>
        /\ shared' = [shared EXCEPT ![key] = Entry(index, place)]
    BY <1>0 DEF Publish, Busy
  <1>2. /\ local' \in [Threads -> [at : {"idle", "look", "locked", "publish", "publishing"},
                                    prim : Nat, v : Seq(Places), old : Int]]
        /\ \A u \in Threads \ {t} : local'[u] = local[u]
        /\ local'[t].at = "look" /\ local'[t].prim = local[t].prim
        /\ Len(local'[t].v) >= Len(local[t].v) /\ Busy(t)' /\ ThreadOk(t)'
        /\ key \in 0 .. SHARED_ENTRY_SIZE - 1
        /\ index \in Nat /\ Leads(place, index) /\ place \in Places
    <2>1. local[t].at \in {"publish", "publishing"} /\ "look" \in {"look", "publishing"}
      BY <1>1
    <2> QED
      BY <1>0, <1>1, <2>1, SamePointers
  <1>3. phase = "fetch"
    BY <1>1, BusyFacts
  <1>4. /\ shared'[key].first = index /\ shared'[key].second = place
        /\ \A k \in 0 .. SHARED_ENTRY_SIZE - 1 : k # key => shared'[k] = shared[k]
        /\ shared' \in [0 .. SHARED_ENTRY_SIZE - 1 -> Entries]
    BY <1>1, <1>2 DEF VInv, TypeOK, Entries, Entry
  <1>5. \A k : (Holds(t, k) <=> k = key) /\ ~Holds(t, k)'
    BY <1>0, <1>1, <1>2 DEF Holds
  <1>6. \A u \in Threads \ {t} : ~Holds(u, key)
    BY <1>2, <1>3, <1>5, HolderAlone
  <1>7. \A k \in 0 .. SHARED_ENTRY_SIZE - 1 :
           \/ shared'[k] = shared[k] /\ (Holds(t, k)' <=> Holds(t, k))
           \/ /\ \A u \in Threads \ {t} : ~Holds(u, k)
              /\ shared'[k].first >= 0 \/ shared'[k].first \in {INVALID_SHARED_ENTRY, SHARED_ENTRY_IS_USING}
              /\ shared'[k].first >= 0 => Leads(shared'[k].second, shared'[k].first)
              /\ shared'[k].first = SHARED_ENTRY_IS_USING <=> Holds(t, k)'
    <2>1. index >= 0 /\ index # SHARED_ENTRY_IS_USING
      BY <1>2 DEF SHARED_ENTRY_IS_USING
    <2> QED
      BY <1>2, <1>4, <1>5, <1>6, <2>1
  <1> QED
    BY <1>1, <1>2, <1>4, <1>7, QuietStep DEF VInv, TypeOK

LEMMA ReturnKeeps ==
  ASSUME VInv, NEW t \in Threads, Return(t)
  PROVE  VInv'
  <1>1. PICK p : p = local[t].prim
    OBVIOUS
  <1>2. /\ local[t].at = "look" /\ Len(local[t].v) = 3 /\ Busy(t)
        /\ handed' = [handed EXCEPT ![p] = local[t].v]
        /\ local' = [local EXCEPT ![t] = Idle]
        /\ UNCHANGED <<class, drawn, draw, phase, todo, cell, used, next, items, shared>>
    BY <1>1 DEF Return, Busy
  <1>3. /\ phase = "fetch" /\ OnDemand /\ drawn > 0 /\ draw \in Draws /\ ThreadOk(t)
        /\ p \in Prims(draw) /\ local[t].v \in Seq(Places)
    BY <1>1, <1>2, BusyFacts
  <1>4. /\ local'[t] = Idle /\ \A u \in Threads \ {t} : local'[u] = local[u]
        /\ local' \in [Threads -> [at : {"idle", "look", "locked", "publish", "publishing"},
                                   prim : Nat, v : Seq(Places), old : Int]]
    <2>1. Idle \in [at : {"idle", "look", "locked", "publish", "publishing"},
                    prim : Nat, v : Seq(Places), old : Int]
      BY DEF Idle, INVALID_SHARED_ENTRY
    <2> QED
      BY <1>2, <2>1 DEF VInv, TypeOK
  <1>5. local'[t].at = "idle" /\ ~Busy(t)'
    BY <1>4 DEF Idle, Busy
  <1>6. TypeOK'
    <2>1. UNCHANGED <<class, drawn, draw, phase>> /\ Capacity(draw)' = Capacity(draw)
      BY <1>2
    <2> QED
      BY <1>2, <1>4, <2>1 DEF VInv, TypeOK
  <1>7. next'[t] + 3 * Cardinality(todo') + Need(t)' <= Capacity(draw)
    <2>1. next[t] + 3 * Cardinality(todo) + Need(t) <= Capacity(draw)
      BY <1>3 DEF VInv, RoomOk
    <2>2. Need(t) = 0 /\ Need(t)' = 0
      BY <1>2, <1>5 DEF Need
    <2> QED
      BY <1>2, <2>1, <2>2
  <1>8. \A q : Taken(q)' <=> Taken(q)
    BY <1>2 DEF Taken
  <1>9. DOMAIN handed = Prims(draw)
    BY <1>3 DEF VInv, HandedOk
  <1>10. handed'[p] = local[t].v /\ handed'[p] # <<>>
    <2>1. handed'[p] = local[t].v
      BY <1>2, <1>3, <1>9
    <2>2. Len(<<>>) = 0
      OBVIOUS
    <2> QED
      BY <1>2, <2>1, <2>2
  <1>11. Given(p)'
    <2>1. \A k \in 1 .. 3 : Taken(local[t].v[k]) /\ cell[local[t].v[k]] = Vertex(drawn, fetch_indexes(draw, p)[k], 0)
      <3>1. DOMAIN local[t].v = 1 .. 3
        BY <1>2, <1>3
      <3> QED
        BY <1>1, <1>3, <3>1 DEF ThreadOk, Leads, IndexOf
    <2>2. \A place : Times(place)' = 0
      BY <1>2, <1>3 DEF Times, Projected
    <2>3. \A k \in 1 .. 3 : Taken(handed[p][k])'
      <3> SUFFICES ASSUME NEW k \in 1 .. 3 PROVE Taken(handed[p][k])'
        OBVIOUS
      <3>1. PICK q : q = local[t].v[k]
        OBVIOUS
      <3>2. Taken(q)' /\ handed'[p][k] = q
        BY <1>8, <1>10, <2>1, <3>1
      <3> QED
        BY <3>2
    <2> QED
      BY <1>2, <1>3, <1>10, <2>1, <2>2, <2>3 DEF Given
  <1>12. \A q \in Prims(draw) :
           \/ handed'[q] = handed[q] /\ (q \in todo => q \in todo' \/ (Busy(t)' /\ local'[t].prim = q))
                                     /\ (Busy(t) /\ local[t].prim = q => Busy(t)' /\ local'[t].prim = q)
           \/ handed'[q] # <<>> /\ Given(q)'
    BY <1>1, <1>2, <1>9, <1>10, <1>11
  <1>13. \A key : ~Holds(t, key) /\ ~Holds(t, key)'
    BY <1>2, <1>5 DEF Holds
  <1>14. DOMAIN handed' = DOMAIN handed
    BY <1>2
  <1> QED
    BY <1>2, <1>3, <1>4, <1>5, <1>6, <1>7, <1>8, <1>12, <1>13, <1>14, FetchStep
-----------------------------------------------------------------------------
(* The steps of the loops.                                                 *)
LEMMA InitHolds ==
  ASSUME Init
  PROVE  VInv
  <1>1. \A t \in Threads : local[t].at = "idle" /\ ~Busy(t)
    BY DEF Init, Idle, Busy
  <1>2. TypeOK
    <2>1. cell \in [Places -> [draw : 0 .. MaxDraws, index : Nat, projected : Nat]]
      BY CacheAssumption DEF Init, Vertex
    <2>2. next \in [Threads -> 0 .. Capacity(draw)]
      BY DrawFacts DEF Init
    <2>3. /\ items \in [Threads -> [0 .. ENTRY_SIZE - 1 -> Entries]]
          /\ shared \in [0 .. SHARED_ENTRY_SIZE - 1 -> Entries]
      BY DEF Init, Cleared, Entries, Entry, INVALID_SHARED_ENTRY
    <2>4. local \in [Threads -> [at : {"idle", "look", "locked", "publish", "publishing"},
                                 prim : Nat, v : Seq(Places), old : Int]]
      BY DEF Init, Idle, INVALID_SHARED_ENTRY
    <2> QED
      BY <2>1, <2>2, <2>3, <2>4, CacheAssumption DEF Init, TypeOK
  <1>3. phase = "idle" /\ drawn = 0
    BY DEF Init
  <1>4. PoolsIdle
    BY DEF Init, PoolsIdle, Cleared, Entry
  <1> QED
    BY <1>1, <1>2, <1>3, <1>4 DEF VInv, PhaseOk, RoomOk, OwnOk, SharedOk, LocksOk, ThreadsOk, TransformedOk, HandedOk, LoopOk

LEMMA NobodyBusy ==
  ASSUME VInv, ~(phase = "fetch" /\ OnDemand)
  PROVE  \A t \in Threads : ~Busy(t) /\ \A key : ~Holds(t, key)
  BY DEF VInv, PhaseOk, Busy, Holds

LEMMA PrepareKeeps ==
  ASSUME VInv, NEW d \in Draws, Prepare(d)
  PROVE  VInv'
  <1>1. /\ phase = "idle" /\ OnDemand /\ OnDemand' /\ drawn < MaxDraws
        /\ drawn' = drawn + 1 /\ draw' = d /\ phase' = "fetch" /\ todo' = Prims(d)
        /\ handed' = [p \in Prims(d) |-> <<>>]
        /\ next' = [t \in Threads |-> 0]
        /\ items' = [t \in Threads |-> Cleared(ENTRY_SIZE)] /\ shared' = Cleared(SHARED_ENTRY_SIZE)
        /\ UNCHANGED <<class, cell, local, used>>
    BY DEF Prepare, Begin, OnDemand
  <1>2. drawn' \in 0 .. MaxDraws /\ drawn' > 0
    BY <1>1, CacheAssumption DEF VInv, TypeOK
  <1>3. \A t \in Threads : ~Busy(t)' /\ \A key : ~Holds(t, key)'
    <2>1. \A t \in Threads : ~Busy(t)
      BY <1>1, NobodyBusy
    <2> QED
      BY <1>1, <2>1 DEF Busy, Holds
  <1>4. TypeOK'
    <2>1. next' \in [Threads -> 0 .. Capacity(d)]
      BY <1>1, DrawFacts
    <2>2. /\ items' \in [Threads -> [0 .. ENTRY_SIZE - 1 -> Entries]]
          /\ shared' \in [0 .. SHARED_ENTRY_SIZE - 1 -> Entries]
      BY <1>1 DEF Cleared, Entries, Entry, INVALID_SHARED_ENTRY
    <2> QED
      BY <1>1, <1>2, <2>1, <2>2 DEF VInv, TypeOK
  <1>5. RoomOk'
    <2>1. Cardinality(todo') = d.prim_count /\ Capacity(draw') = 3 * d.prim_count /\ d.prim_count \in Nat
      BY <1>1, DrawFacts
    <2>2. \A t \in Threads : Need(t)' = 0 /\ next'[t] = 0
      BY <1>1, <1>3 DEF Need
    <2>3. 0 + 3 * d.prim_count + 0 <= 3 * d.prim_count
      BY <2>1
    <2> QED
      BY <1>1, <2>1, <2>2, <2>3 DEF RoomOk
  <1>6. /\ \A t \in Threads : \A key \in DOMAIN (items'[t]) : items'[t][key].first = INVALID_SHARED_ENTRY
        /\ \A key \in DOMAIN shared' : shared'[key].first = INVALID_SHARED_ENTRY
    BY <1>1 DEF Cleared, Entry
  <1>7. OwnOk' /\ SharedOk' /\ LocksOk'
    <2>1. ~(INVALID_SHARED_ENTRY >= 0) /\ INVALID_SHARED_ENTRY # SHARED_ENTRY_IS_USING
      BY DEF INVALID_SHARED_ENTRY, SHARED_ENTRY_IS_USING
    <2> QED
      BY <1>3, <1>6, <2>1 DEF OwnOk, SharedOk, LocksOk
  <1>8. HandedOk'
    BY <1>1 DEF HandedOk
  <1>9. PhaseOk' /\ PoolsIdle' /\ ThreadsOk' /\ TransformedOk'
    BY <1>1, <1>2, <1>3 DEF PhaseOk, PoolsIdle, ThreadsOk, TransformedOk
  <1> QED
    BY <1>1, <1>4, <1>5, <1>7, <1>8, <1>9 DEF VInv, LoopOk

LEMMA PrepareAllKeeps ==
  ASSUME VInv, NEW d \in Draws, PrepareAll(d)
  PROVE  VInv'
  <1>1. /\ phase = "idle" /\ ~OnDemand /\ ~OnDemand' /\ drawn < MaxDraws
        /\ drawn' = drawn + 1 /\ draw' = d /\ phase' = "transform"
        /\ todo' = 0 .. Len(unique_indices') - 1
        /\ handed' = [p \in Prims(d) |-> <<>>]
        /\ DOMAIN used' = 0 .. Last(unique_indices')
        /\ UNCHANGED <<class, cell, local, next, items, shared>>
    BY DEF PrepareAll, Begin, OnDemand
  <1>2. unique_indices' = Order(d) /\ Len(Order(d)) = Count(d) /\ Count(d) \in Nat
    <2>1. unique_indices' = Order(d)
      BY <1>1 DEF unique_indices, Order
    <2> QED
      BY <2>1, OrderFacts
  <1>3. drawn' \in 0 .. MaxDraws /\ drawn' > 0
    BY <1>1, CacheAssumption DEF VInv, TypeOK
  <1>4. \A t \in Threads : ~Busy(t)'
    <2>1. \A t \in Threads : ~Busy(t)
      BY <1>1, NobodyBusy
    <2> QED
      BY <1>1, <2>1 DEF Busy
  <1>5. TypeOK'
    <2>1. next' \in [Threads -> 0 .. Capacity(d)]
      <3>1. \A t \in Threads : next[t] = 0
        BY <1>1 DEF VInv, PoolsIdle
      <3>2. next \in [Threads -> 0 .. Capacity(draw)]
        BY DEF VInv, TypeOK
      <3>3. 0 \in 0 .. Capacity(d)
        BY DrawFacts
      <3> QED
        BY <1>1, <3>1, <3>2, <3>3
    <2> QED
      BY <1>1, <1>3, <2>1 DEF VInv, TypeOK
  <1>6. TransformedOk'
    <2>1. todo' = 0 .. Count(draw)' - 1
      BY <1>1, <1>2 DEF Count
    <2> QED
      BY <1>1, <2>1 DEF TransformedOk
  <1>7. HandedOk'
    BY <1>1 DEF HandedOk
  <1>8. PoolsIdle'
    BY <1>1 DEF VInv, PoolsIdle
  <1>9. PhaseOk' /\ RoomOk' /\ OwnOk' /\ SharedOk' /\ LocksOk' /\ ThreadsOk'
    BY <1>1, <1>3, <1>4 DEF PhaseOk, RoomOk, OwnOk, SharedOk, LocksOk, ThreadsOk
  <1> QED
    BY <1>1, <1>5, <1>6, <1>7, <1>8, <1>9 DEF VInv, LoopOk
LEMMA TransformVertexKeeps ==
  ASSUME VInv, NEW i \in todo, TransformVertex(i)
  PROVE  VInv'
  <1> DEFINE u == Order(draw)
             n == Count(draw)
  <1>1. /\ phase = "transform" /\ ~OnDemand /\ draw \in Draws /\ drawn > 0 /\ drawn \in 0 .. MaxDraws
        /\ unique_indices = u /\ i \in 0 .. n - 1 /\ n \in Nat /\ n <= MaxVertices /\ MaxVertices \in Nat
        /\ todo \subseteq 0 .. n - 1
    <2>1. phase = "transform" /\ draw \in Draws /\ drawn \in 0 .. MaxDraws
      BY DEF TransformVertex, VInv, TypeOK
    <2>2. ~OnDemand /\ drawn > 0
      BY <2>1 DEF VInv, PhaseOk
    <2>3. todo \subseteq 0 .. n - 1
      BY <2>1, <2>2 DEF VInv, TransformedOk
    <2>4. n \in Nat /\ n <= MaxVertices /\ MaxVertices \in Nat
      BY <2>1, OrderFacts, CacheAssumption
    <2> QED
      BY <2>1, <2>2, <2>3, <2>4 DEF unique_indices, Order
  <1>2. /\ u[i + 1] \in Nat /\ u[i + 1] \in 0 .. Last(u) /\ i \in Nat
        /\ \A j \in 0 .. n - 1 : j # i => u[j + 1] # u[i + 1]
    <2>1. \A j \in 0 .. n - 1 : j + 1 \in 1 .. n /\ (j # i => j + 1 # i + 1)
      BY <1>1
    <2>2. /\ \A k \in 1 .. n : u[k] \in Nat /\ u[k] \in 0 .. Last(u)
          /\ \A j, k \in 1 .. n : u[j] = u[k] => j = k
      BY <1>1, OrderFacts
    <2> HIDE DEF u, n
    <2> QED
      BY <1>1, <2>1, <2>2
  <1>3. /\ used' = [used EXCEPT ![u[i + 1]] = i]
        /\ cell' = [cell EXCEPT ![<<Transformed, i>>] = Vertex(drawn, u[i + 1], 0)]
        /\ todo' = IF todo = {i} THEN Prims(draw) ELSE todo \ {i}
        /\ phase' = IF todo = {i} THEN "fetch" ELSE "transform"
        /\ UNCHANGED <<class, drawn, draw, next, items, shared, local, handed>>
    BY <1>1 DEF TransformVertex
  <1>4. unique_indices' = u /\ Count(draw)' = n /\ OnDemand' = OnDemand
    BY <1>1, <1>3 DEF unique_indices, Order, Count, OnDemand
  <1>5. <<Transformed, i>> \in Places
    BY <1>1 DEF Places
  <1>6. TypeOK'
    <2>1. Vertex(drawn, u[i + 1], 0) \in [draw : 0 .. MaxDraws, index : Nat, projected : Nat]
      BY <1>1, <1>2 DEF Vertex
    <2>2. cell' \in [Places -> [draw : 0 .. MaxDraws, index : Nat, projected : Nat]]
      BY <1>3, <2>1 DEF VInv, TypeOK
    <2>3. phase' \in {"idle", "transform", "fetch", "project"} /\ Capacity(draw)' = Capacity(draw)
      BY <1>3
    <2> QED
      BY <1>3, <2>2, <2>3 DEF VInv, TypeOK
  <1>7. \A t \in Threads : ~Busy(t)' /\ \A key : ~Holds(t, key)'
    <2>1. \A t \in Threads : ~Busy(t)
      BY <1>1, NobodyBusy
    <2> QED
      BY <1>3, <2>1 DEF Busy, Holds
  <1>8. TransformedOk'
    <2>1. DOMAIN used = 0 .. Last(u) /\ \A j \in 0 .. n - 1 : j \in todo \/ Found(j)
      BY <1>1 DEF VInv, TransformedOk
    <2>2. DOMAIN used' = 0 .. Last(u)
      BY <1>3, <2>1
    <2>3. phase' = "transform" => todo' \subseteq 0 .. n - 1
      BY <1>1, <1>3
    <2>4. ASSUME NEW j \in 0 .. n - 1, ~(phase' = "transform" /\ j \in todo') PROVE Found(j)'
      <3>1. CASE j = i
        <4>1. used'[u[i + 1]] = i
          BY <1>2, <1>3, <2>1
        <4>2. cell'[<<Transformed, i>>] = Vertex(drawn, u[i + 1], 0)
          BY <1>3, <1>5 DEF VInv, TypeOK
        <4> QED
          BY <1>2, <1>3, <1>4, <2>2, <3>1, <4>1, <4>2 DEF Found
      <3>2. CASE j # i
        <4>1. Found(j)
          BY <1>3, <2>1, <2>4, <3>2
        <4>2. u[j + 1] \in DOMAIN used /\ used[u[j + 1]] = j /\ cell[<<Transformed, j>>] = Vertex(drawn, u[j + 1], 0)
          BY <1>1, <4>1 DEF Found
        <4>3. used'[u[j + 1]] = j
          BY <1>2, <1>3, <3>2, <4>2
        <4>4. cell'[<<Transformed, j>>] = cell[<<Transformed, j>>]
          <5>1. <<Transformed, j>> # <<Transformed, i>>
            BY <3>2
          <5>2. <<Transformed, j>> \in Places
            BY <1>1 DEF Places
          <5> QED
            BY <1>3, <5>1, <5>2 DEF VInv, TypeOK
        <4> QED
          BY <1>3, <1>4, <2>1, <2>2, <4>2, <4>3, <4>4 DEF Found
      <3> QED
        BY <3>1, <3>2
    <2> HIDE DEF u, n
    <2> QED
      BY <1>4, <2>2, <2>3, <2>4 DEF TransformedOk
  <1>9. HandedOk'
    <2>1. DOMAIN handed = Prims(draw) /\ \A p \in Prims(draw) : handed[p] = <<>>
      BY <1>1 DEF VInv, HandedOk
    <2> QED
      BY <1>3, <2>1 DEF HandedOk
  <1>10. PhaseOk' /\ PoolsIdle' /\ ThreadsOk'
    BY <1>1, <1>3, <1>4, <1>7 DEF VInv, PhaseOk, PoolsIdle, ThreadsOk
  <1>11. RoomOk'
    BY <1>1, <1>3, <1>4 DEF RoomOk
  <1>12. OwnOk' /\ SharedOk' /\ LocksOk'
    <2>1. ~(INVALID_SHARED_ENTRY >= 0) /\ INVALID_SHARED_ENTRY # SHARED_ENTRY_IS_USING
      BY DEF INVALID_SHARED_ENTRY, SHARED_ENTRY_IS_USING
    <2>2. /\ \A t \in Threads : \A key \in DOMAIN items[t] : items[t][key].first = INVALID_SHARED_ENTRY
          /\ \A key \in DOMAIN shared : shared[key].first = INVALID_SHARED_ENTRY
      BY <1>1 DEF VInv, PoolsIdle
    <2> QED
      BY <1>3, <1>7, <2>1, <2>2 DEF OwnOk, SharedOk, LocksOk
  <1> QED
    BY <1>3, <1>6, <1>8, <1>9, <1>10, <1>11, <1>12 DEF VInv, LoopOk

LEMMA FetchTransformedKeeps ==
  ASSUME VInv, NEW p \in todo, FetchTransformed(p)
  PROVE  VInv'
  <1> DEFINE u == Order(draw)
             n == Count(draw)
             g == [k \in 1 .. 3 |-> <<Transformed, used[fetch_indexes(draw, p)[k]]>>]
  <1>1. /\ phase = "fetch" /\ ~OnDemand /\ draw \in Draws /\ drawn > 0
        /\ unique_indices = u /\ n \in Nat /\ n <= MaxVertices /\ MaxVertices \in Nat
        /\ todo \subseteq Prims(draw) /\ p \in Prims(draw)
    <2>1. phase = "fetch" /\ draw \in Draws /\ ~OnDemand
      BY DEF FetchTransformed, OnDemand, VInv, TypeOK
    <2>2. todo \subseteq Prims(draw) /\ drawn > 0
      BY <2>1 DEF VInv, RoomOk, PhaseOk
    <2>3. n \in Nat /\ n <= MaxVertices /\ MaxVertices \in Nat
      BY <2>1, OrderFacts, CacheAssumption
    <2> QED
      BY <2>1, <2>2, <2>3 DEF unique_indices, Order
  <1>2. /\ handed' = [handed EXCEPT ![p] = g] /\ todo' = todo \ {p}
        /\ UNCHANGED <<class, drawn, draw, phase, cell, used, next, items, shared, local>>
    BY DEF FetchTransformed
  <1>3. ASSUME NEW k \in 1 .. 3
        PROVE  g[k] \in Places /\ cell[g[k]] = Vertex(drawn, fetch_indexes(draw, p)[k], 0)
    <2>1. PICK index : index = fetch_indexes(draw, p)[k]
      OBVIOUS
    <2>2. index \in Indices(draw)
      BY <1>1, <2>1, IndexesAreNatural
    <2>3. PICK l \in 1 .. n : u[l] = index
      BY <1>1, <2>2, OrderFacts
    <2>4. l - 1 \in 0 .. n - 1 /\ l - 1 + 1 = l
      BY <1>1
    <2>5. Found(l - 1)
      BY <1>1, <2>4 DEF VInv, TransformedOk
    <2>6. used[index] = l - 1 /\ cell[<<Transformed, l - 1>>] = Vertex(drawn, index, 0)
      BY <1>1, <2>3, <2>4, <2>5 DEF Found
    <2>7. <<Transformed, l - 1>> \in Places
      BY <1>1, <2>4 DEF Places
    <2>8. g[k] = <<Transformed, l - 1>>
      BY <2>1, <2>6
    <2> QED
      BY <2>1, <2>6, <2>7, <2>8
  <1>4. g \in Seq(Places) /\ Len(g) = 3
    <2>1. g \in [1 .. 3 -> Places]
      BY <1>3
    <2> HIDE DEF g
    <2>2. \A m \in Nat : g \in [1 .. m -> Places] => g \in Seq(Places) /\ Len(g) = m
      OBVIOUS
    <2>3. 3 \in Nat
      OBVIOUS
    <2> QED
      BY ONLY <2>1, <2>2, <2>3, Zenon
  <1> HIDE DEF g
  <1>5. DOMAIN handed = Prims(draw)
    BY <1>1 DEF VInv, HandedOk
  <1>6. handed'[p] = g /\ g # <<>> /\ \A q \in Prims(draw) : q # p => handed'[q] = handed[q]
    <2>1. Len(<<>>) = 0 /\ 3 # 0
      OBVIOUS
    <2>2. g # <<>>
      BY <1>4, <2>1
    <2> QED
      BY <1>1, <1>2, <1>5, <2>2
  <1>7. OnDemand' = OnDemand /\ \A place : Times(place)' = 0 /\ Times(place) = 0
    BY <1>1, <1>2 DEF OnDemand, Times, Projected
  <1>8. Given(p)'
    BY <1>1, <1>2, <1>3, <1>4, <1>6, <1>7 DEF Given
  <1>9. ASSUME NEW q \in Prims(draw), Given(q), q # p PROVE Given(q)'
    BY <1>1, <1>2, <1>6, <1>7, <1>9 DEF Given
  <1>10. HandedOk'
    <2>1. \A t \in Threads : ~Busy(t)
      BY <1>1, NobodyBusy
    <2>2. \A q \in Prims(draw) : IF handed[q] = <<>> THEN q \in todo ELSE Given(q)
      BY <1>1, <2>1 DEF VInv, HandedOk
    <2>3. \A q \in Prims(draw) : IF handed'[q] = <<>> THEN q \in todo' ELSE Given(q)'
      BY <1>2, <1>6, <1>8, <1>9, <2>2
    <2> QED
      BY <1>1, <1>2, <1>5, <2>3 DEF HandedOk
  <1>11. TypeOK' /\ PhaseOk' /\ PoolsIdle' /\ ThreadsOk'
    <2>1. Capacity(draw)' = Capacity(draw) /\ \A t \in Threads : ~Busy(t)'
      BY <1>1, <1>2, NobodyBusy DEF Busy
    <2> QED
      BY <1>2, <1>7, <2>1 DEF VInv, TypeOK, PhaseOk, PoolsIdle, ThreadsOk
  <1>12. RoomOk' /\ TransformedOk'
    <2>1. unique_indices' = unique_indices /\ Count(draw)' = n /\ \A i : Found(i)' <=> Found(i)
      BY <1>2 DEF unique_indices, Count, Found
    <2>2. DOMAIN used = 0 .. Last(unique_indices) /\ \A i \in 0 .. n - 1 : Found(i)
      BY <1>1 DEF VInv, TransformedOk
    <2> QED
      BY <1>1, <1>2, <1>7, <2>1, <2>2 DEF RoomOk, TransformedOk
  <1>13. OwnOk' /\ SharedOk' /\ LocksOk'
    <2>1. /\ \A q, index : Leads(q, index)' <=> Leads(q, index)
          /\ \A t, key : Holds(t, key)' <=> Holds(t, key)
      BY <1>2 DEF Leads, Taken, Holds, Wanted, Shaded, IndexOf
    <2> QED
      BY <1>2, <2>1 DEF VInv, OwnOk, SharedOk, LocksOk
  <1> QED
    BY <1>1, <1>2, <1>10, <1>11, <1>12, <1>13 DEF VInv, LoopOk
(* Of the slots with one pointer the first is among those kept.           *)
LEMMA UniqueKeepsOne ==
  ASSUME NEW slots, NEW d \in Draws, slots \subseteq Slots(d)
  PROVE  /\ \A slot \in slots : \E s \in Unique(slots) : Pointer(s) = Pointer(slot)
         /\ \A r, s \in Unique(slots) : Pointer(r) = Pointer(s) => r = s
         /\ Unique(slots) \subseteq slots
  <1>1. ASSUME NEW s \in slots
        PROVE  s[1] \in Nat /\ s[2] \in 1 .. 3 /\ s = <<s[1], s[2]>> /\ Number(s) \in Nat
    <2>1. s \in Prims(d) \X (1 .. 3)
      BY DEF Slots
    <2>2. s[1] \in Nat /\ s[2] \in 1 .. 3 /\ s = <<s[1], s[2]>>
      BY <2>1, DrawFacts
    <2> QED
      BY <2>2 DEF Number
  <1>2. ASSUME NEW slot \in slots PROVE \E s \in Unique(slots) : Pointer(s) = Pointer(slot)
    <2> DEFINE Same == {r \in slots : Pointer(r) = Pointer(slot)}
               N == {Number(r) : r \in Same}
    <2>1. N \in SUBSET Nat /\ N # {}
      BY <1>1
    <2>2. PICK m \in N : \A y \in N : m <= y
      BY <2>1, LeastNatural
    <2>3. PICK s \in Same : m = Number(s)
      BY <2>2
    <2>4. ASSUME NEW r \in slots, Pointer(r) = Pointer(s) PROVE Number(s) <= Number(r)
      BY <2>2, <2>3, <2>4
    <2>5. s \in Unique(slots)
      BY <2>3, <2>4 DEF Unique
    <2> QED
      BY <2>3, <2>5
  <1>3. ASSUME NEW r \in Unique(slots), NEW s \in Unique(slots), Pointer(r) = Pointer(s) PROVE r = s
    <2>1. r \in slots /\ s \in slots /\ Number(r) <= Number(s) /\ Number(s) <= Number(r)
      BY <1>3 DEF Unique
    <2>2. Number(r) = Number(s)
      BY <1>1, <2>1
    <2>3. r[1] = s[1] /\ r[2] = s[2]
      BY <1>1, <2>1, <2>2 DEF Number
    <2> QED
      BY <1>1, <2>1, <2>3
  <1> QED
    BY <1>2, <1>3 DEF Unique

LEMMA GatherVerticesKeeps ==
  ASSUME VInv, GatherVertices
  PROVE  VInv'
  <1>1. /\ phase = "fetch" /\ todo = {} /\ phase' \in {"project", "idle"} /\ drawn > 0 /\ draw \in Draws
        /\ gathered' \subseteq Slots(draw) /\ todo' = Unique(gathered')
        /\ \A t \in Threads : ~Busy(t) /\ ~Busy(t)'
        /\ UNCHANGED <<class, drawn, draw, cell, used, next, items, shared, local, handed>>
    BY DEF GatherVertices, Busy, VInv, PhaseOk, TypeOK
  <1>2. \A p \in Prims(draw) : handed[p] # <<>> /\ Given(p)
    BY <1>1 DEF VInv, HandedOk
  <1>a. /\ \A slot \in gathered' : \E s \in todo' : Pointer(s) = Pointer(slot)
        /\ \A r, s \in todo' : Pointer(r) = Pointer(s) => r = s
        /\ todo' \subseteq gathered'
    BY <1>1, UniqueKeepsOne
  <1>b. \A s : Pointer(s)' = Pointer(s)
    BY <1>1 DEF Pointer
  <1>c. LoopOk'
    BY <1>1, <1>a, <1>b DEF LoopOk
  <1>d. \A place : Times(place)' = 0
    BY <1>a, <1>b DEF Times, Projected, PointersOf
  <1>3. ASSUME NEW p \in Prims(draw) PROVE Given(p)'
    <2>1. handed[p] \in Seq(Places) /\ Len(handed[p]) = 3 /\ DOMAIN handed[p] = 1 .. 3
      BY <1>2 DEF Given
    <2>2. ASSUME NEW k \in 1 .. 3
          PROVE  cell'[handed'[p][k]] = Vertex(drawn, fetch_indexes(draw, p)[k], Times(handed[p][k])')
      <3>1. PICK place : place = handed[p][k]
        OBVIOUS
      <3>2. cell[place] = Vertex(drawn, fetch_indexes(draw, p)[k], 0)
        BY <1>1, <1>2, <3>1 DEF Given, Times
      <3>3. Times(place)' = 0
        BY <1>d
      <3> QED
        BY <1>1, <3>1, <3>2, <3>3
    <2> QED
      BY <1>1, <2>1, <2>2 DEF Given
  <1>4. HandedOk'
    BY <1>1, <1>2, <1>3 DEF VInv, HandedOk
  <1>5. TypeOK' /\ PhaseOk' /\ PoolsIdle' /\ ThreadsOk'
    <2>1. Capacity(draw)' = Capacity(draw)
      BY <1>1
    <2> QED
      BY <1>1, <2>1 DEF VInv, TypeOK, PhaseOk, PoolsIdle, ThreadsOk, OnDemand
  <1>6. RoomOk' /\ OwnOk' /\ SharedOk' /\ LocksOk' /\ TransformedOk'
    BY <1>1 DEF RoomOk, OwnOk, SharedOk, LocksOk, TransformedOk
  <1> QED
    BY <1>4, <1>5, <1>6, <1>c DEF VInv

LEMMA ProjectVertexKeeps ==
  ASSUME VInv, NEW slot \in todo, ProjectVertex(slot)
  PROVE  VInv'
  <1>0. PICK place : place = Pointer(slot)
    OBVIOUS
  <1>1. /\ phase = "project" /\ drawn > 0
        /\ cell' = [cell EXCEPT ![place].projected = @ + 1]
        /\ todo' = todo \ {slot} /\ phase' = IF todo = {slot} THEN "idle" ELSE "project"
        /\ \A t \in Threads : ~Busy(t) /\ ~Busy(t)'
        /\ UNCHANGED <<class, drawn, draw, used, next, items, shared, local, handed, gathered>>
    <2>1. phase = "project" /\ drawn > 0
      BY DEF ProjectVertex, VInv, PhaseOk
    <2> QED
      BY <1>0, <2>1, NobodyBusy DEF ProjectVertex, Busy
  <1>2. \A q \in Places : cell[q] \in [draw : 0 .. MaxDraws, index : Nat, projected : Nat]
    BY DEF VInv, TypeOK
  <1>3. ASSUME NEW q \in Places
        PROVE  /\ cell'[q] = IF q = place THEN Vertex(cell[q].draw, cell[q].index, cell[q].projected + 1) ELSE cell[q]
               /\ cell'[q] \in [draw : 0 .. MaxDraws, index : Nat, projected : Nat]
    <2>1. PICK c : c = cell[q]
      OBVIOUS
    <2>2. c \in [draw : 0 .. MaxDraws, index : Nat, projected : Nat]
      BY <1>2, <2>1
    <2>3. c.projected + 1 \in Nat /\ [c EXCEPT !.projected = @ + 1] = Vertex(c.draw, c.index, c.projected + 1)
      BY <2>2 DEF Vertex
    <2>4. Vertex(c.draw, c.index, c.projected + 1) \in [draw : 0 .. MaxDraws, index : Nat, projected : Nat]
      BY <2>2, <2>3 DEF Vertex
    <2>5. cell'[q] = IF q = place THEN [c EXCEPT !.projected = @ + 1] ELSE c
      BY <1>1, <2>1 DEF VInv, TypeOK
    <2> QED
      BY <2>1, <2>2, <2>3, <2>4, <2>5
  <1>4. cell' \in [Places -> [draw : 0 .. MaxDraws, index : Nat, projected : Nat]]
    <2>1. cell' = [q \in Places |-> cell'[q]]
      BY <1>1 DEF VInv, TypeOK
    <2> QED
      BY <1>3, <2>1
  <1>5. \A p \in Prims(draw) : handed[p] # <<>> /\ Given(p)
    BY <1>1 DEF VInv, HandedOk
  <1>6. ASSUME NEW q
        PROVE  IF q = place THEN Times(q) = 0 /\ Times(q)' = 1 ELSE Times(q)' = Times(q)
    <2>1. /\ todo \subseteq gathered
          /\ \A r, s \in todo : Pointer(r) = Pointer(s) => r = s
      BY <1>1 DEF VInv, LoopOk
    <2>2. \A s : Pointer(s)' = Pointer(s)
      BY <1>1 DEF Pointer
    <2>3. q \in PointersOf(gathered)' <=> q \in PointersOf(gathered)
      BY <1>1, <2>2 DEF PointersOf
    <2>4. q \in PointersOf(todo)' <=> q \in PointersOf(todo) /\ q # place
      BY <1>0, <1>1, <2>1, <2>2 DEF PointersOf
    <2>5. place \in PointersOf(gathered) /\ place \in PointersOf(todo)
      BY <1>0, <2>1 DEF PointersOf
    <2>6. /\ Times(q) = IF q \in PointersOf(gathered) /\ q \notin PointersOf(todo) THEN 1 ELSE 0
          /\ Times(q)' = IF q \in PointersOf(gathered)' /\ q \notin PointersOf(todo)' THEN 1 ELSE 0
      BY <1>1 DEF Times, Projected
    <2> QED
      BY <2>3, <2>4, <2>5, <2>6
  <1>a. LoopOk'
    <2>1. \A s : Pointer(s)' = Pointer(s)
      BY <1>1 DEF Pointer
    <2> QED
      BY <1>1, <2>1 DEF VInv, LoopOk
  <1>7. ASSUME NEW p \in Prims(draw) PROVE Given(p)'
    <2>1. handed[p] \in Seq(Places) /\ Len(handed[p]) = 3
      BY <1>5 DEF Given
    <2>2. ASSUME NEW k \in 1 .. 3
          PROVE  cell'[handed'[p][k]] = Vertex(drawn, fetch_indexes(draw, p)[k], Times(handed[p][k])')
      <3>1. PICK q : q = handed[p][k]
        OBVIOUS
      <3>2. q \in Places
        BY <2>1, <3>1
      <3>3. cell[q] = Vertex(drawn, fetch_indexes(draw, p)[k], Times(q))
        BY <1>5, <3>1 DEF Given
      <3>4. CASE q = place
        <4>1. cell'[q] = Vertex(drawn, fetch_indexes(draw, p)[k], 0 + 1) /\ Times(q)' = 1
          BY <1>3, <1>6, <3>2, <3>3, <3>4 DEF Vertex
        <4> QED
          BY <1>1, <3>1, <4>1
      <3>5. CASE q # place
        <4>1. cell'[q] = cell[q] /\ Times(q)' = Times(q)
          BY <1>3, <1>6, <3>2, <3>5
        <4> QED
          BY <1>1, <3>1, <3>3, <4>1
      <3> QED
        BY <3>4, <3>5
    <2> QED
      BY <1>1, <2>1, <2>2 DEF Given
  <1>8. HandedOk'
    BY <1>1, <1>5, <1>7 DEF VInv, HandedOk
  <1>9. TypeOK' /\ PhaseOk' /\ PoolsIdle' /\ ThreadsOk'
    <2>1. Capacity(draw)' = Capacity(draw)
      BY <1>1
    <2> QED
      BY <1>1, <1>4, <2>1 DEF VInv, TypeOK, PhaseOk, PoolsIdle, ThreadsOk, OnDemand
  <1>10. RoomOk' /\ OwnOk' /\ SharedOk' /\ LocksOk' /\ TransformedOk'
    BY <1>1 DEF RoomOk, OwnOk, SharedOk, LocksOk, TransformedOk
  <1> QED
    BY <1>8, <1>9, <1>10, <1>a DEF VInv

LEMMA NothingHappens ==
  ASSUME VInv, UNCHANGED vars
  PROVE  VInv'
  <1>1. /\ UNCHANGED <<class, drawn, draw, phase, todo, cell, used, next, items, shared, local, handed, gathered>>
        /\ unique_indices' = unique_indices /\ Count(draw)' = Count(draw)
        /\ Capacity(draw)' = Capacity(draw)
    BY DEF vars, unique_indices, Count
  <1>2. /\ \A place, index : Leads(place, index)' <=> Leads(place, index)
        /\ \A slot : Pointer(slot)' = Pointer(slot)
        /\ \A place : (Taken(place)' <=> Taken(place)) /\ Times(place)' = Times(place)
        /\ \A t : /\ Busy(t)' <=> Busy(t)
                  /\ Need(t)' = Need(t)
                  /\ ThreadOk(t)' <=> ThreadOk(t)
                  /\ \A key : Holds(t, key)' <=> Holds(t, key)
        /\ \A i : Found(i)' <=> Found(i)
        /\ \A p : Given(p)' <=> Given(p)
        /\ OnDemand' <=> OnDemand
    BY <1>1 DEF Leads, Taken, Times, Projected, PointersOf, Pointer, Busy, Need, ThreadOk, Holds, Wanted, Shaded, IndexOf, Found,
                Given, OnDemand
  <1>3. TypeOK' /\ PhaseOk' /\ PoolsIdle' /\ RoomOk' /\ OwnOk' /\ SharedOk'
    BY <1>1, <1>2 DEF VInv, TypeOK, PhaseOk, PoolsIdle, RoomOk, OwnOk, SharedOk
  <1>4. LocksOk' /\ ThreadsOk' /\ TransformedOk' /\ HandedOk'
    BY <1>1, <1>2 DEF VInv, LocksOk, ThreadsOk, TransformedOk, HandedOk
  <1>5. LoopOk'
    BY <1>1, <1>2 DEF VInv, LoopOk
  <1> QED
    BY <1>3, <1>4, <1>5 DEF VInv
-----------------------------------------------------------------------------
(* The invariant.                                                          *)
THEOREM CachesInvariant == Spec => []VInv
  <1>1. Init => VInv
    BY InitHolds
  <1>2. VInv /\ [Next]_vars => VInv'
    <2> SUFFICES ASSUME VInv, [Next]_vars PROVE VInv'
      OBVIOUS
    <2>1. CASE UNCHANGED vars
      BY <2>1, NothingHappens
    <2>2. ASSUME NEW d \in Draws, Prepare(d) PROVE VInv'
      BY <2>2, PrepareKeeps
    <2>3. ASSUME NEW d \in Draws, PrepareAll(d) PROVE VInv'
      BY <2>3, PrepareAllKeeps
    <2>4. CASE GatherVertices
      BY <2>4, GatherVerticesKeeps
    <2>5. ASSUME NEW item \in todo, TransformVertex(item) \/ FetchTransformed(item) \/ ProjectVertex(item)
          PROVE  VInv'
      BY <2>5, TransformVertexKeeps, FetchTransformedKeeps, ProjectVertexKeeps
    <2>6. ASSUME NEW t \in Threads, Fetch(t) PROVE VInv'
      BY <2>6, TakePrimitiveKeeps, HitKeeps, MissKeeps, LockSharedKeeps, HitSharedKeeps, MissSharedKeeps,
         LockToPublishKeeps, PublishKeeps, ReturnKeeps DEF Fetch
    <2> QED
      BY <2>1, <2>2, <2>3, <2>4, <2>5, <2>6 DEF Next, Loops
  <1> QED
    BY <1>1, <1>2, PTL DEF Spec

(* Every variable has its type, and no pool grows past the 3 * prim_count  *)
(* vertices that prepare_vertices reserved for a thread.                   *)
THEOREM CachesTypeOK == Spec => []TypeOK
  <1>1. VInv => TypeOK
    BY DEF VInv
  <1> QED
    BY <1>1, CachesInvariant, PTL

(* The pointers handed out for a triangle lead to its vertices, whatever   *)
(* the threads did to the caches, and each vertex is projected once.       *)
THEOREM VerticesAreExact == Spec => []VerticesExact
  <1>1. VInv => VerticesExact
    <2> SUFFICES ASSUME VInv, drawn > 0, NEW p \in Prims(draw)
                 PROVE  IF handed[p] = <<>> THEN phase \in {"transform", "fetch"}
                        ELSE \E r \in Rotations(Meant(draw, p)) :
                               \A k \in 1 .. 3 :
                                 cell[handed[p][k]] = Vertex(drawn, r[k], Times(handed[p][k]))
      BY DEF VerticesExact
    <2>1. CASE handed[p] = <<>>
      BY <2>1 DEF VInv, HandedOk
    <2>2. CASE handed[p] # <<>>
      <3>1. \A k \in 1 .. 3 :
              cell[handed[p][k]] = Vertex(drawn, fetch_indexes(draw, p)[k], Times(handed[p][k]))
        BY <2>2 DEF VInv, HandedOk, Given
      <3>2. PICK r \in Rotations(Meant(draw, p)) : \A k \in 1 .. 3 : fetch_indexes(draw, p)[k] = r[k]
        BY FetchesWhatIsMeant DEF VInv, TypeOK
      <3> QED
        BY <2>2, <3>1, <3>2
    <2> QED
      BY <2>1, <2>2
  <1> QED
    BY <1>1, CachesInvariant, PTL

(* An entry of the shared level is marked while exactly one thread holds   *)
(* it, and an entry that shows an index leads to that vertex, finished.    *)
THEOREM SharedItemsAreExact == Spec => []SharedItemsExact
  <1>1. VInv => SharedItemsExact
    <2> SUFFICES ASSUME VInv, phase = "fetch", NEW key \in DOMAIN shared
                 PROVE  /\ Cardinality({t \in Threads : Holds(t, key)}) =
                             (IF shared[key].first = SHARED_ENTRY_IS_USING THEN 1 ELSE 0)
                        /\ shared[key].first >= 0 =>
                             /\ shared[key].second \in Places
                             /\ cell[shared[key].second] = Vertex(drawn, shared[key].first, 0)
      BY DEF SharedItemsExact
    <2>1. /\ shared[key].first = SHARED_ENTRY_IS_USING <=> \E t \in Threads : Holds(t, key)
          /\ \A t, u \in Threads : Holds(t, key) /\ Holds(u, key) => t = u
      BY DEF VInv, LocksOk
    <2>2. CASE shared[key].first = SHARED_ENTRY_IS_USING
      <3>1. PICK t \in Threads : {u \in Threads : Holds(u, key)} = {t}
        BY <2>1, <2>2
      <3>2. Cardinality({t}) = 1
        BY FS_Singleton
      <3> QED
        BY <2>2, <3>1, <3>2 DEF SHARED_ENTRY_IS_USING
    <2>3. CASE shared[key].first # SHARED_ENTRY_IS_USING
      <3>1. {u \in Threads : Holds(u, key)} = {}
        BY <2>1, <2>3
      <3>2. Cardinality({u \in Threads : Holds(u, key)}) = 0
        BY <3>1, FS_EmptySet
      <3> QED
        BY <2>3, <3>2 DEF VInv, SharedOk, Leads, Taken
    <2> QED
      BY <2>2, <2>3
  <1> QED
    BY <1>1, CachesInvariant, PTL
=============================================================================
