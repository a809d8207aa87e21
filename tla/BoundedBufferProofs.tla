------------------------- MODULE BoundedBufferProofs -------------------------
(***************************************************************************)
(* The count of unread items never leaves the circular buffer, no unread   *)
(* item is overwritten, and the buffer implements Channel, for every       *)
(* number of threads and every capacity.                                   *)
(***************************************************************************)
EXTENDS BoundedBuffer, SequenceTheorems, FiniteSetTheorems, TLAPS

(* push_front moves every item one place back; the last one falls out of a *)
(* full buffer.                                                            *)
LEMMA PushedFrontIs ==
  ASSUME NEW c \in Seq(Items), Len(c) <= Capacity, NEW x \in Items
  PROVE  /\ PushedFront(c, x) \in Seq(Items)
         /\ Len(PushedFront(c, x)) = IF Len(c) < Capacity THEN Len(c) + 1 ELSE Capacity
         /\ PushedFront(c, x)[1] = x
         /\ \A i \in 1 .. Len(c) : i < Capacity => PushedFront(c, x)[i + 1] = c[i]
  <1>1. <<x>> \in Seq(Items) /\ Len(<<x>>) = 1 /\ <<x>>[1] = x /\ Len(c) \in Nat
    OBVIOUS
  <1>2. CASE Len(c) < Capacity
    <2>1. /\ <<x>> \o c \in Seq(Items)
          /\ Len(<<x>> \o c) = Len(c) + 1
          /\ \A i \in 1 .. Len(c) + 1 :
               (<<x>> \o c)[i] = IF i <= 1 THEN <<x>>[i] ELSE c[i - 1]
      BY <1>1, ConcatProperties
    <2> QED
      BY <1>1, <1>2, <2>1, BufferAssumption DEF PushedFront
  <1>3. CASE Len(c) = Capacity
    <2> DEFINE kept == SubSeq(c, 1, Capacity - 1)
    <2>1. /\ kept \in Seq(Items)
          /\ Len(kept) = Capacity - 1
          /\ \A i \in 1 .. Capacity - 1 : kept[i] = c[i]
      BY <1>1, <1>3, BufferAssumption
    <2>2. /\ <<x>> \o kept \in Seq(Items)
          /\ Len(<<x>> \o kept) = Capacity
          /\ \A i \in 1 .. Capacity :
               (<<x>> \o kept)[i] = IF i <= 1 THEN <<x>>[i] ELSE kept[i - 1]
      <3> HIDE DEF kept
      <3> QED
        BY <1>1, <2>1, ConcatProperties, BufferAssumption
    <2>3. PushedFront(c, x) = <<x>> \o kept
      BY <1>3 DEF PushedFront
    <2> HIDE DEF kept
    <2> QED
      BY <1>1, <1>3, <2>1, <2>2, <2>3, BufferAssumption
  <1> QED
    BY <1>1, <1>2, <1>3, BufferAssumption

(* The history after one more element.                                     *)
LEMMA Appended ==
  ASSUME NEW s \in Seq(Items), NEW x \in Items
  PROVE  /\ Append(s, x) \in Seq(Items)
         /\ Len(s) \in Nat
         /\ Len(Append(s, x)) = Len(s) + 1
         /\ \A i \in 1 .. Len(s) : Append(s, x)[i] = s[i]
         /\ Append(s, x)[Len(s) + 1] = x
  OBVIOUS

(* The item that pop_back returns is the oldest one not yet popped.        *)
LEMMA OldestUnread ==
  ASSUME TypeOK, InOrder, m_unread > 0
  PROVE  /\ m_container[m_unread] = sent[Len(received) + 1]
         /\ m_container[m_unread] \in Items
         /\ Len(received) < Len(sent)
  <1>1. Len(sent) \in Nat /\ Len(received) \in Nat /\ m_unread \in 1 .. Len(m_container)
    BY DEF TypeOK
  <1>2. m_container[m_unread] = sent[Len(sent) + 1 - m_unread]
    BY <1>1 DEF InOrder
  <1>3. m_container[m_unread] \in Items
    BY <1>1, ElementOfSeq DEF TypeOK
  <1> QED
    BY <1>1, <1>2, <1>3 DEF InOrder
-----------------------------------------------------------------------------
BufferInv == TypeOK /\ InOrder

LEMMA InitBufferInv == Init => BufferInv
  BY BufferAssumption DEF Init, BufferInv, TypeOK, InOrder, Places, Items

LEMMA PushKeepsInv ==
  ASSUME BufferInv, NEW p \in Producers, Push(p)
  PROVE  BufferInv'
  <1> USE BufferAssumption DEF BufferInv
  <1>1. /\ item[p] \in Items /\ m_unread \in 0 .. Len(m_container) /\ m_unread < Capacity
        /\ Len(m_container) \in Nat /\ Len(m_container) <= Capacity
        /\ m_container \in Seq(Items) /\ sent \in Seq(Items) /\ received \in Seq(Items)
    BY DEF Push, is_not_full, TypeOK
  <1>2. /\ m_container' = PushedFront(m_container, item[p])
        /\ m_unread' = m_unread + 1
        /\ sent' = Append(sent, item[p])
        /\ received' = received
    BY DEF Push
  <1>3. /\ m_container' \in Seq(Items)
        /\ Len(m_container') = IF Len(m_container) < Capacity THEN Len(m_container) + 1 ELSE Capacity
        /\ m_container'[1] = item[p]
        /\ \A i \in 1 .. Len(m_container) : i < Capacity => m_container'[i + 1] = m_container[i]
    BY <1>1, <1>2, PushedFrontIs
  <1>4. /\ sent' \in Seq(Items)
        /\ Len(sent) \in Nat
        /\ Len(sent') = Len(sent) + 1
        /\ \A i \in 1 .. Len(sent) : sent'[i] = sent[i]
        /\ sent'[Len(sent) + 1] = item[p]
    BY <1>1, <1>2, Appended
  <1>5. TypeOK'
    <2>1. m_unread' \in 0 .. Len(m_container') /\ Len(m_container') <= Capacity
      BY <1>1, <1>2, <1>3
    <2>2. pc' \in [Threads -> Places]
      BY DEF Push, Goto, TypeOK, Places
    <2> QED
      BY <1>1, <1>2, <1>3, <1>4, <2>1, <2>2 DEF Push, TypeOK
  <1>6. Len(sent') = Len(received') + m_unread'
    BY <1>1, <1>2, <1>4 DEF InOrder
  <1>7. \A i \in 1 .. Len(received') : received'[i] = sent'[i]
    <2>1. Len(received) \in Nat /\ Len(received) <= Len(sent)
      BY <1>1, <1>4 DEF InOrder
    <2> QED
      BY <1>1, <1>2, <1>4, <2>1 DEF InOrder
  <1>8. ASSUME NEW i \in 1 .. m_unread' PROVE m_container'[i] = sent'[Len(sent') + 1 - i]
    <2>1. CASE i = 1
      BY <1>3, <1>4, <2>1
    <2>2. CASE i # 1
      <3>1. i - 1 \in 1 .. m_unread /\ i - 1 \in 1 .. Len(m_container) /\ i - 1 < Capacity
        BY <1>1, <1>2, <2>2
      <3>2. m_container'[i] = m_container[i - 1]
        BY <1>3, <3>1
      <3>3. m_container[i - 1] = sent[Len(sent) + 1 - (i - 1)]
        BY <3>1 DEF InOrder
      <3>4. Len(sent) + 1 - (i - 1) \in 1 .. Len(sent)
        BY <1>1, <1>4, <3>1 DEF InOrder
      <3>5. Len(sent') + 1 - i = Len(sent) + 1 - (i - 1)
        BY <1>4
      <3> QED
        BY <1>4, <3>2, <3>3, <3>4, <3>5
    <2> QED
      BY <2>1, <2>2
  <1> QED
    BY <1>5, <1>6, <1>7, <1>8 DEF InOrder

LEMMA PopKeepsInv ==
  ASSUME BufferInv, NEW c \in Consumers, Pop(c)
  PROVE  BufferInv'
  <1> USE DEF BufferInv
  <1>1. /\ m_unread \in 1 .. Len(m_container) /\ Len(m_container) \in Nat
        /\ sent \in Seq(Items) /\ received \in Seq(Items) /\ Len(sent) \in Nat
    BY DEF Pop, is_not_empty, TypeOK
  <1>2. /\ m_unread' = m_unread - 1
        /\ received' = Append(received, m_container[m_unread])
        /\ m_container' = m_container
        /\ sent' = sent
    BY <1>1 DEF Pop
  <1>3. /\ m_container[m_unread] = sent[Len(received) + 1]
        /\ m_container[m_unread] \in Items
    BY <1>1, OldestUnread
  <1>4. /\ received' \in Seq(Items)
        /\ Len(received) \in Nat
        /\ Len(received') = Len(received) + 1
        /\ \A i \in 1 .. Len(received) : received'[i] = received[i]
        /\ received'[Len(received) + 1] = m_container[m_unread]
    BY <1>1, <1>2, <1>3, Appended
  <1>5. TypeOK'
    <2>1. pc' \in [Threads -> Places]
      BY DEF Pop, Goto, TypeOK, Places
    <2>2. UNCHANGED <<m_container, item, calls, sent>> /\ m_unread' \in 0 .. Len(m_container)
      BY <1>1, <1>2 DEF Pop
    <2> QED
      BY <1>4, <2>1, <2>2 DEF TypeOK
  <1>6. Len(sent') = Len(received') + m_unread'
    BY <1>1, <1>2, <1>4 DEF InOrder
  <1>7. ASSUME NEW i \in 1 .. Len(received') PROVE received'[i] = sent'[i]
    <2>1. CASE i = Len(received) + 1
      BY <1>2, <1>3, <1>4, <2>1
    <2>2. CASE i \in 1 .. Len(received)
      BY <1>2, <1>4, <2>2 DEF InOrder
    <2> QED
      BY <1>4, <2>1, <2>2
  <1>8. \A i \in 1 .. m_unread' : m_container'[i] = sent'[Len(sent') + 1 - i]
    <2>1. \A i \in 1 .. m_unread - 1 : i \in 1 .. m_unread
      BY <1>1
    <2> QED
      BY <1>2, <2>1 DEF InOrder
  <1> QED
    BY <1>5, <1>6, <1>7, <1>8 DEF InOrder

LEMMA NextBufferInv == BufferInv /\ [Next]_vars => BufferInv'
  <1> SUFFICES ASSUME BufferInv, [Next]_vars PROVE BufferInv'
    OBVIOUS
  <1> USE DEF BufferInv
  <1>1. ASSUME NEW p \in Producers, CallPush(p) PROVE BufferInv'
    <2>1. calls' \in 0 .. MaxPushes /\ item' \in [Producers -> Items]
      BY <1>1, BufferAssumption DEF CallPush, TypeOK, Items
    <2>2. pc' \in [Threads -> Places]
      BY <1>1 DEF CallPush, Goto, TypeOK, Places
    <2> QED
      BY <1>1, <2>1, <2>2 DEF CallPush, TypeOK, InOrder
  <1>2. ASSUME NEW t \in Threads,
               \/ WaitNotFull(t) \/ CallPop(t) \/ WaitNotEmpty(t) \/ WakeSpuriously(t)
        PROVE  BufferInv'
    <2>1. pc' \in [Threads -> Places]
      BY <1>2 DEF WaitNotFull, CallPop, WaitNotEmpty, WakeSpuriously, Goto, TypeOK, Places
    <2> QED
      BY <1>2, <2>1 DEF WaitNotFull, CallPop, WaitNotEmpty, WakeSpuriously, TypeOK, InOrder
  <1>3. ASSUME NEW t \in Threads, NEW others, NotifyOne(t, others) PROVE BufferInv'
    <2>1. pc' \in [Threads -> Places]
      BY <1>3 DEF NotifyOne, Goto, TypeOK, Places
    <2> QED
      BY <1>3, <2>1 DEF NotifyOne, TypeOK, InOrder
  <1>4. CASE UNCHANGED vars
    BY <1>4 DEF vars, TypeOK, InOrder
  <1> QED
    BY <1>1, <1>2, <1>3, <1>4, PushKeepsInv, PopKeepsInv DEF Next, Produce, Consume, Threads

(* Every variable keeps its type: the count stays inside the buffer.       *)
THEOREM BufferTypeOK == Spec => []TypeOK
  <1>1. BufferInv => TypeOK
    BY DEF BufferInv
  <1> QED
    BY <1>1, InitBufferInv, NextBufferInv, PTL DEF Spec

(* No item is lost, duplicated, reordered or overwritten unread.           *)
THEOREM BufferInOrder == Spec => []InOrder
  <1>1. BufferInv => InOrder
    BY DEF BufferInv
  <1> QED
    BY <1>1, InitBufferInv, NextBufferInv, PTL DEF Spec

-----------------------------------------------------------------------------
(* No wake-up is lost: each item that is in the buffer while a consumer    *)
(* sleeps is answered for by a notification on its way or by a consumer    *)
(* awake inside the call; and each free place likewise.                    *)
At(S, place, where) == {t \in S : where[t] = place}

Moves(t, to, old, new) == new = [old EXCEPT ![t] = to]

AnsweredFor(work, sleepers, wakers, where) ==
  At(sleepers, "wait", where) # {} =>
    work <= Cardinality(At(wakers, "notify", where)) + Cardinality(At(sleepers, "lock", where))

WakeInv ==
  /\ AnsweredFor(m_unread, Consumers, Producers, pc)
  /\ AnsweredFor(Capacity - m_unread, Producers, Consumers, pc)

(* How many of the threads S are at a place after one thread has moved.    *)
LEMMA Moved ==
  ASSUME NEW S \in {Producers, Consumers}, NEW old \in [Threads -> Places], NEW t \in Threads,
         NEW to \in Places, NEW place \in Places, NEW new, Moves(t, to, old, new)
  PROVE  /\ Cardinality(At(S, place, old)) \in Nat
         /\ Cardinality(At(S, place, new)) \in Nat
         /\ t \notin S \/ (to = place <=> old[t] = place) =>
              At(S, place, new) = At(S, place, old)
         /\ t \in S /\ to = place /\ old[t] # place =>
              Cardinality(At(S, place, new)) = Cardinality(At(S, place, old)) + 1
         /\ t \in S /\ to # place /\ old[t] = place =>
              Cardinality(At(S, place, new)) = Cardinality(At(S, place, old)) - 1
  <1> DEFINE before == At(S, place, old)
             after == At(S, place, new)
  <1>1. S \subseteq Threads /\ IsFiniteSet(S)
    BY BufferAssumption DEF Threads
  <1>2. /\ IsFiniteSet(before) /\ Cardinality(before) \in Nat
        /\ IsFiniteSet(after) /\ Cardinality(after) \in Nat
    <2>1. before \subseteq S /\ after \subseteq S
      BY DEF At, Moves
    <2> HIDE DEF before, after
    <2> QED
      BY <1>1, <2>1, FS_Subset, FS_CardinalityType
  <1>3. t \notin S \/ (to = place <=> old[t] = place) => after = before
    BY <1>1 DEF At, Moves
  <1>4. ASSUME t \in S, to = place, old[t] # place PROVE Cardinality(after) = Cardinality(before) + 1
    <2>1. after = before \cup {t} /\ t \notin before
      BY <1>1, <1>4 DEF At, Moves
    <2> HIDE DEF before, after
    <2> QED
      BY <1>2, <2>1, FS_AddElement
  <1>5. ASSUME t \in S, to # place, old[t] = place PROVE Cardinality(after) = Cardinality(before) - 1
    <2>1. after = before \ {t} /\ t \in before
      BY <1>1, <1>5 DEF At, Moves
    <2> HIDE DEF before, after
    <2> QED
      BY <1>2, <2>1, FS_RemoveElement
  <1> QED
    BY <1>2, <1>3, <1>4, <1>5

(* A thread t of the side "sleepers" goes to sleep, wakes up, starts a     *)
(* call, takes one piece of its side's work or is done.                    *)
LEMMA SleeperMoves ==
  ASSUME NEW sleepers \in {Producers, Consumers}, NEW wakers \in {Producers, Consumers} \ {sleepers},
         NEW old \in [Threads -> Places], NEW t \in sleepers, NEW to \in Places,
         NEW new, Moves(t, to, old, new),
         NEW work \in Int, NEW left \in Int,
         AnsweredFor(work, sleepers, wakers, old),
         \/ to = "lock" /\ old[t] # "lock" /\ left = work
         \/ to = "wait" /\ left <= 0
         \/ to = "notify" /\ old[t] = "lock" /\ left = work - 1
         \/ to = "idle" /\ old[t] = "notify" /\ left = work
  PROVE  AnsweredFor(left, sleepers, wakers, new)
  <1> DEFINE owed == Cardinality(At(wakers, "notify", old))
             awake == Cardinality(At(sleepers, "lock", old))
             awake_now == Cardinality(At(sleepers, "lock", new))
  <1>1. t \in Threads /\ t \notin wakers
    BY BufferAssumption DEF Threads
  <1>2. Cardinality(At(wakers, "notify", new)) = owed /\ owed \in Nat
    BY <1>1, Moved DEF Places
  <1>3. /\ awake \in Nat /\ awake_now \in Nat
        /\ to = "lock" /\ old[t] # "lock" => awake_now = awake + 1
        /\ to = "notify" /\ old[t] = "lock" => awake_now = awake - 1
        /\ to = "idle" /\ old[t] = "notify" => awake_now = awake
    BY <1>1, Moved DEF Places
  <1>4. to # "wait" /\ At(sleepers, "wait", new) # {} => At(sleepers, "wait", old) # {}
    BY <1>1 DEF At, Threads, Moves
  <1>5. At(sleepers, "wait", old) # {} => work <= owed + awake
    BY DEF AnsweredFor
  <1> HIDE DEF owed, awake, awake_now
  <1>6. At(sleepers, "wait", new) # {} => left <= owed + awake_now
    <2>1. CASE to = "lock" /\ old[t] # "lock" /\ left = work
      BY <2>1, <1>2, <1>3, <1>4, <1>5
    <2>2. CASE to = "wait" /\ left <= 0
      BY <2>2, <1>2, <1>3
    <2>3. CASE to = "notify" /\ old[t] = "lock" /\ left = work - 1
      BY <2>3, <1>2, <1>3, <1>4, <1>5
    <2>4. CASE to = "idle" /\ old[t] = "notify" /\ left = work
      BY <2>4, <1>2, <1>3, <1>4, <1>5
    <2> QED
      BY <2>1, <2>2, <2>3, <2>4
  <1> QED
    BY <1>2, <1>6 DEF AnsweredFor, awake_now

(* A thread t of the side "wakers" that owes no notification does one      *)
(* piece of work more, and then owes one, or moves in some other way.      *)
LEMMA WakerMoves ==
  ASSUME NEW sleepers \in {Producers, Consumers}, NEW wakers \in {Producers, Consumers} \ {sleepers},
         NEW old \in [Threads -> Places], NEW t \in wakers, NEW to \in Places,
         NEW new, Moves(t, to, old, new),
         NEW work \in Int, NEW left \in Int,
         AnsweredFor(work, sleepers, wakers, old),
         old[t] # "notify",
         \/ to # "notify" /\ left = work
         \/ to = "notify" /\ left = work + 1
  PROVE  AnsweredFor(left, sleepers, wakers, new)
  <1> DEFINE owed == Cardinality(At(wakers, "notify", old))
             owed_now == Cardinality(At(wakers, "notify", new))
             awake == Cardinality(At(sleepers, "lock", old))
  <1>1. t \in Threads /\ t \notin sleepers
    BY BufferAssumption DEF Threads
  <1>2. /\ owed \in Nat /\ owed_now \in Nat
        /\ to # "notify" => owed_now = owed
        /\ to = "notify" => owed_now = owed + 1
    BY <1>1, Moved DEF Places
  <1>3. awake \in Nat /\ Cardinality(At(sleepers, "lock", new)) = awake
    BY <1>1, Moved DEF Places
  <1>4. At(sleepers, "wait", new) = At(sleepers, "wait", old)
    BY <1>1, Moved DEF Places
  <1>5. At(sleepers, "wait", old) # {} => work <= owed + awake
    BY DEF AnsweredFor
  <1> HIDE DEF owed, owed_now, awake
  <1>6. At(sleepers, "wait", new) # {} => left <= owed_now + awake
    BY <1>2, <1>3, <1>4, <1>5
  <1> QED
    BY <1>3, <1>6 DEF AnsweredFor, owed_now

(* notify_one either finds nobody asleep or turns the notification it owes *)
(* into a thread that is awake.                                            *)
LEMMA NotifyAnswers ==
  ASSUME NEW sleepers \in {Producers, Consumers}, NEW wakers \in {Producers, Consumers} \ {sleepers},
         NEW t \in wakers, NotifyOne(t, sleepers), pc \in [Threads -> Places],
         NEW work \in Int, AnsweredFor(work, sleepers, wakers, pc),
         NEW room \in Int, AnsweredFor(room, wakers, sleepers, pc)
  PROVE  AnsweredFor(work, sleepers, wakers, pc') /\ AnsweredFor(room, wakers, sleepers, pc')
  <1>0. PICK mid : Moves(t, "idle", pc, mid)
    BY DEF Moves
  <1>1. t \in Threads /\ t \notin sleepers /\ pc[t] = "notify" /\ mid \in [Threads -> Places]
    BY <1>0, BufferAssumption DEF Threads, NotifyOne, Places, Moves
  <1>2. /\ Cardinality(At(wakers, "notify", pc)) \in Nat
        /\ Cardinality(At(wakers, "notify", mid)) = Cardinality(At(wakers, "notify", pc)) - 1
        /\ Cardinality(At(sleepers, "lock", mid)) = Cardinality(At(sleepers, "lock", pc))
        /\ Cardinality(At(sleepers, "lock", pc)) \in Nat
    BY <1>0, <1>1, Moved DEF Places
  <1>3. At(sleepers, "wait", mid) = At(sleepers, "wait", pc)
    BY <1>0, <1>1, Moved DEF Places
  <1>4. sleepers \in {Producers, Consumers} \ {wakers}
    OBVIOUS
  <1>5. AnsweredFor(room, wakers, sleepers, mid)
    BY <1>0, <1>1, <1>4, SleeperMoves DEF Places
  <1>6. CASE At(sleepers, "wait", pc) = {} /\ pc' = mid
    BY <1>3, <1>5, <1>6 DEF AnsweredFor
  <1>7. ASSUME NEW u \in sleepers, pc[u] = "wait", Moves(u, "lock", mid, pc')
        PROVE  AnsweredFor(work, sleepers, wakers, pc') /\ AnsweredFor(room, wakers, sleepers, pc')
    <2>1. u \in Threads /\ u \notin wakers /\ mid[u] = "wait" /\ mid[u] # "notify" /\ mid[u] # "lock"
      BY <1>0, <1>1, <1>7, BufferAssumption DEF Threads, Moves
    <2>2. At(wakers, "notify", pc') = At(wakers, "notify", mid)
      BY <1>1, <1>7, <2>1, Moved DEF Places
    <2>3. Cardinality(At(sleepers, "lock", pc')) = Cardinality(At(sleepers, "lock", mid)) + 1
      BY <1>1, <1>7, <2>1, Moved DEF Places
    <2>4. At(sleepers, "wait", pc) # {}
      BY <1>7 DEF At
    <2>5. AnsweredFor(room, wakers, sleepers, pc')
      <3>1. "lock" \in Places /\ "lock" # "notify" /\ wakers \in {Producers, Consumers}
        BY DEF Places
      <3> QED
        BY <1>1, <1>4, <1>5, <1>7, <2>1, <3>1, WakerMoves
    <2>6. work <= Cardinality(At(wakers, "notify", pc)) + Cardinality(At(sleepers, "lock", pc))
      BY <2>4 DEF AnsweredFor
    <2>7. work <= Cardinality(At(wakers, "notify", pc')) + Cardinality(At(sleepers, "lock", pc'))
      BY <1>2, <2>2, <2>3, <2>6
    <2> QED
      BY <2>5, <2>7 DEF AnsweredFor
  <1>8. CASE \E u \in sleepers : pc[u] = "wait" /\ pc' = [pc EXCEPT ![t] = "idle", ![u] = "lock"]
    <2>1. PICK u \in sleepers : pc[u] = "wait" /\ pc' = [pc EXCEPT ![t] = "idle", ![u] = "lock"]
      BY <1>8
    <2>2. Moves(u, "lock", mid, pc')
      BY <1>0, <2>1 DEF Moves
    <2> QED
      BY <1>7, <2>1, <2>2
  <1> QED
    BY <1>0, <1>6, <1>8 DEF NotifyOne, At, Moves, Goto

LEMMA NextWakeInv == BufferInv /\ WakeInv /\ [Next]_vars => WakeInv'
  <1> SUFFICES ASSUME BufferInv, WakeInv, [Next]_vars PROVE WakeInv'
    OBVIOUS
  <1>1. /\ m_unread \in Nat /\ Capacity \in Nat /\ pc \in [Threads -> Places]
        /\ AnsweredFor(m_unread, Consumers, Producers, pc)
        /\ AnsweredFor(Capacity - m_unread, Producers, Consumers, pc)
        /\ m_unread <= Capacity
    BY BufferAssumption DEF BufferInv, TypeOK, WakeInv
  <1>2. CASE Producers = Consumers
    <2>1. Threads = {}
      BY <1>2, BufferAssumption DEF Threads
    <2> QED
      BY <2>1 DEF WakeInv, AnsweredFor, At, Threads
  <1>3. CASE Producers # Consumers
    <2> USE <1>1, <1>3
    <2>1. ASSUME NEW p \in Producers, CallPush(p) \/ WaitNotFull(p) \/ Push(p) \/ WakeSpuriously(p)
          PROVE  WakeInv'
      <3>1. PICK to \in Places :
              /\ Moves(p, to, pc, pc') /\ pc[p] # "notify"
              /\ \/ to = "lock" /\ pc[p] # "lock" /\ m_unread' = m_unread
                 \/ to = "wait" /\ m_unread >= Capacity /\ m_unread' = m_unread
                 \/ to = "notify" /\ pc[p] = "lock" /\ m_unread' = m_unread + 1
        <4>1. CASE CallPush(p) \/ WakeSpuriously(p)
          BY <4>1 DEF CallPush, WakeSpuriously, Goto, Places, Moves
        <4>2. CASE WaitNotFull(p)
          BY <4>2 DEF WaitNotFull, Goto, Places, Moves, is_not_full
        <4>3. CASE Push(p)
          BY <4>3 DEF Push, Goto, Places, Moves
        <4> QED
          BY <2>1, <4>1, <4>2, <4>3
      <3>2. AnsweredFor(m_unread', Consumers, Producers, pc')
        <4>1. m_unread' \in Int /\ m_unread \in Int /\ "lock" # "notify" /\ "wait" # "notify"
          BY <3>1
        <4> QED
          BY <3>1, <4>1, WakerMoves
      <3>3. AnsweredFor(Capacity - m_unread', Producers, Consumers, pc')
        <4> DEFINE room == Capacity - m_unread
        <4>1. /\ room \in Int /\ Capacity - m_unread' \in Int
              /\ to = "wait" => Capacity - m_unread' <= 0
              /\ to = "notify" => Capacity - m_unread' = room - 1
              /\ to = "lock" => Capacity - m_unread' = room
          BY <3>1
        <4> HIDE DEF room
        <4> QED
          BY <3>1, <4>1, SleeperMoves DEF room
      <3> QED
        BY <3>2, <3>3 DEF WakeInv
    <2>2. ASSUME NEW c \in Consumers, CallPop(c) \/ WaitNotEmpty(c) \/ Pop(c) \/ WakeSpuriously(c)
          PROVE  WakeInv'
      <3>1. PICK to \in Places :
              /\ Moves(c, to, pc, pc') /\ pc[c] # "notify"
              /\ \/ to = "lock" /\ pc[c] # "lock" /\ m_unread' = m_unread
                 \/ to = "wait" /\ m_unread <= 0 /\ m_unread' = m_unread
                 \/ to = "notify" /\ pc[c] = "lock" /\ m_unread' = m_unread - 1
        <4>1. CASE CallPop(c) \/ WakeSpuriously(c)
          BY <4>1 DEF CallPop, WakeSpuriously, Goto, Places, Moves
        <4>2. CASE WaitNotEmpty(c)
          BY <4>2 DEF WaitNotEmpty, Goto, Places, Moves, is_not_empty
        <4>3. CASE Pop(c)
          BY <4>3 DEF Pop, Goto, Places, Moves
        <4> QED
          BY <2>2, <4>1, <4>2, <4>3
      <3>2. AnsweredFor(m_unread', Consumers, Producers, pc')
        BY <3>1, SleeperMoves
      <3>3. AnsweredFor(Capacity - m_unread', Producers, Consumers, pc')
        <4>1. /\ Capacity - m_unread \in Int /\ Capacity - m_unread' \in Int
              /\ to = "notify" => Capacity - m_unread' = (Capacity - m_unread) + 1
              /\ to # "notify" => Capacity - m_unread' = Capacity - m_unread
          BY <3>1
        <4> QED
          BY <3>1, <4>1, WakerMoves
      <3> QED
        BY <3>2, <3>3 DEF WakeInv
    <2>3. ASSUME NEW p \in Producers, NotifyOne(p, Consumers) PROVE WakeInv'
      <3>1. m_unread' = m_unread
        BY <2>3 DEF NotifyOne
      <3> QED
        BY <2>3, <3>1, NotifyAnswers DEF WakeInv
    <2>4. ASSUME NEW c \in Consumers, NotifyOne(c, Producers) PROVE WakeInv'
      <3>1. m_unread' = m_unread
        BY <2>4 DEF NotifyOne
      <3> QED
        BY <2>4, <3>1, NotifyAnswers DEF WakeInv
    <2>5. CASE UNCHANGED vars
      BY <2>5 DEF vars, WakeInv
    <2> QED
      BY <2>1, <2>2, <2>3, <2>4, <2>5 DEF Next, Produce, Consume, Threads
  <1> QED
    BY <1>2, <1>3

(* A consumer never sleeps through an item, nor a producer through a free  *)
(* place, unless somebody is already on the way.                           *)
THEOREM BufferNoLostWakeup == Spec => []NoLostWakeup
  <1>1. Init => WakeInv
    BY DEF Init, WakeInv, AnsweredFor, At, Threads
  <1>2. BufferInv /\ WakeInv => NoLostWakeup
    <2> SUFFICES ASSUME BufferInv, WakeInv PROVE NoLostWakeup
      OBVIOUS
    <2>1. ASSUME NEW work \in Int, work > 0, NEW sleepers, NEW wakers, NEW t \in sleepers, pc[t] = "wait",
                 AnsweredFor(work, sleepers, wakers, pc)
          PROVE  (\E w \in wakers : pc[w] = "notify") \/ (\E s \in sleepers : pc[s] = "lock")
      <3>1. SUFFICES ASSUME At(wakers, "notify", pc) = {}, At(sleepers, "lock", pc) = {} PROVE FALSE
        BY DEF At
      <3>2. Cardinality(At(wakers, "notify", pc)) = 0 /\ Cardinality(At(sleepers, "lock", pc)) = 0
        BY <3>1, FS_EmptySet
      <3>3. At(sleepers, "wait", pc) # {}
        BY <2>1 DEF At
      <3> QED
        BY <2>1, <3>2, <3>3 DEF AnsweredFor
    <2>2. m_unread \in Int /\ Capacity \in Int
      BY BufferAssumption DEF BufferInv, TypeOK
    <2> QED
      BY <2>1, <2>2 DEF NoLostWakeup, WakeInv, is_not_empty, is_not_full
  <1> QED
    BY <1>1, <1>2, InitBufferInv, NextBufferInv, NextWakeInv, PTL DEF Spec
-----------------------------------------------------------------------------
(* bounded_buffer is a first-in first-out channel of Capacity items: a     *)
(* push is a Send, a pop a Receive, the rest stutters.                     *)
THEOREM BufferImplementsChannel == Spec => ImplementsChannel
  <1> USE DEF Chan!ChannelInit, Chan!ChannelNext, Chan!channelVars
  <1>1. Init => Chan!ChannelInit
    BY DEF Init
  <1>2. BufferInv /\ [Next]_vars => [Chan!ChannelNext]_(Chan!channelVars)
    <2> SUFFICES ASSUME BufferInv, [Next]_vars
                 PROVE  Chan!ChannelNext \/ UNCHANGED Chan!channelVars
      OBVIOUS
    <2>1. ASSUME NEW p \in Producers, Push(p) PROVE Chan!ChannelNext
      <3>1. Len(sent) - Len(received) < Capacity
        BY <2>1, BufferAssumption DEF Push, is_not_full, BufferInv, InOrder, TypeOK
      <3>2. item[p] \in Items /\ Chan!Send(item[p])
        BY <2>1, <3>1 DEF Push, Chan!Send, BufferInv, TypeOK
      <3> QED
        BY <3>2
    <2>2. ASSUME NEW c \in Consumers, Pop(c) PROVE Chan!ChannelNext
      <3>1. m_unread \in Nat /\ m_unread > 0 /\ m_unread' + 1 = m_unread
        BY <2>2 DEF Pop, is_not_empty, BufferInv, TypeOK
      <3>2. m_container[m_unread] = sent[Len(received) + 1] /\ Len(received) < Len(sent)
        BY <3>1, OldestUnread DEF BufferInv
      <3>3. Chan!Receive
        BY <2>2, <3>1, <3>2 DEF Pop, Chan!Receive
      <3> QED
        BY <3>3
    <2>3. ASSUME NEW t, NEW others,
                 \/ CallPush(t) \/ WaitNotFull(t) \/ CallPop(t) \/ WaitNotEmpty(t)
                 \/ WakeSpuriously(t) \/ NotifyOne(t, others)
          PROVE  UNCHANGED Chan!channelVars
      BY <2>3 DEF CallPush, WaitNotFull, CallPop, WaitNotEmpty, WakeSpuriously, NotifyOne
    <2> QED
      BY <2>1, <2>2, <2>3 DEF Next, Produce, Consume, vars
  <1> QED
    BY <1>1, <1>2, InitBufferInv, NextBufferInv, PTL DEF Spec, ImplementsChannel, Chan!ChannelSpec
=============================================================================
