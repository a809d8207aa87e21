---------------------------- MODULE BoundedBuffer ----------------------------
(***************************************************************************)
(* eflib::bounded_buffer: a circular buffer, a count of its unread items,  *)
(* a mutex and two condition variables.  An item is inserted at the front, *)
(* where it overwrites the item at the back once the buffer has been       *)
(* filled, and is read at index m_unread.                                  *)
(*                                                                         *)
(* One step is one critical section of m_mutex, which ends when the thread *)
(* unlocks or waits, or a notification, which the code sends after the     *)
(* unlock.  A waiting thread may also wake up without one.                 *)
(***************************************************************************)
EXTENDS Integers, Sequences, FiniteSets

CONSTANTS Producers, Consumers,   (* the threads on either side             *)
          Capacity,               (* the capacity given to the constructor  *)
          MaxPushes               (* bound on the calls of push_front       *)

ASSUME BufferAssumption ==
  /\ Capacity \in Nat \ {0}
  /\ MaxPushes \in Nat \ {0}
  /\ IsFiniteSet(Producers) /\ IsFiniteSet(Consumers)
  /\ Producers \cap Consumers = {}

Threads == Producers \cup Consumers
Items == Producers \X (1 .. MaxPushes)

VARIABLES
  m_container,   (* the circular buffer, front first                       *)
  m_unread,
  pc,            (* where each thread is                                   *)
  item,          (* the argument of each producer's push_front             *)
  calls,         (* how many times push_front was called                   *)
  sent, received (* history, the variables of Channel                      *)

vars == <<m_container, m_unread, pc, item, calls, sent, received>>

Init ==
  /\ m_container = <<>>
  /\ m_unread = 0
  /\ pc = [t \in Threads |-> "idle"]
  /\ item = [p \in Producers |-> <<p, 1>>]
  /\ calls = 0
  /\ sent = <<>>
  /\ received = <<>>

Goto(t, place) == pc' = [pc EXCEPT ![t] = place]

is_not_full == m_unread < Capacity
is_not_empty == m_unread > 0

(* circular_buffer::push_front.                                            *)
PushedFront(c, x) ==
  IF Len(c) < Capacity THEN <<x>> \o c ELSE <<x>> \o SubSeq(c, 1, Capacity - 1)

CallPush(p) ==
  /\ pc[p] = "idle"
  /\ calls < MaxPushes
  /\ calls' = calls + 1
  /\ item' = [item EXCEPT ![p] = <<p, calls + 1>>]
  /\ Goto(p, "lock")
  /\ UNCHANGED <<m_container, m_unread, sent, received>>

(* The mutex is taken and the predicate of the wait is false: sleep on     *)
(* m_not_full.                                                             *)
WaitNotFull(p) ==
  /\ pc[p] = "lock"
  /\ ~is_not_full
  /\ Goto(p, "wait")
  /\ UNCHANGED <<m_container, m_unread, item, calls, sent, received>>

(* Push with a fault: no notification, or one only into an empty buffer.   *)
PushQuietly(p) ==
  /\ pc[p] = "lock"
  /\ is_not_full
  /\ m_container' = PushedFront(m_container, item[p])
  /\ m_unread' = m_unread + 1
  /\ sent' = Append(sent, item[p])
  /\ Goto(p, "idle")
  /\ UNCHANGED <<item, calls, received>>

PushNotifyIfEmpty(p) ==
  /\ pc[p] = "lock"
  /\ is_not_full
  /\ m_container' = PushedFront(m_container, item[p])
  /\ m_unread' = m_unread + 1
  /\ sent' = Append(sent, item[p])
  /\ Goto(p, IF m_unread = 0 THEN "notify" ELSE "idle")
  /\ UNCHANGED <<item, calls, received>>

Push(p) ==
  /\ pc[p] = "lock"
  /\ is_not_full
  /\ m_container' = PushedFront(m_container, item[p])
  /\ m_unread' = m_unread + 1
  /\ sent' = Append(sent, item[p])
  /\ Goto(p, "notify")
  /\ UNCHANGED <<item, calls, received>>

CallPop(c) ==
  /\ pc[c] = "idle"
  /\ Goto(c, "lock")
  /\ UNCHANGED <<m_container, m_unread, item, calls, sent, received>>

WaitNotEmpty(c) ==
  /\ pc[c] = "lock"
  /\ ~is_not_empty
  /\ Goto(c, "wait")
  /\ UNCHANGED <<m_container, m_unread, item, calls, sent, received>>

(* Pop with a fault: the newest item, or no notification.                  *)
PopNewest(c) ==
  /\ pc[c] = "lock"
  /\ is_not_empty
  /\ m_unread' = m_unread - 1
  /\ received' = Append(received, m_container[1])
  /\ Goto(c, "notify")
  /\ UNCHANGED <<m_container, item, calls, sent>>

PopQuietly(c) ==
  /\ pc[c] = "lock"
  /\ is_not_empty
  /\ m_unread' = m_unread - 1
  /\ received' = Append(received, m_container[m_unread' + 1])
  /\ Goto(c, "idle")
  /\ UNCHANGED <<m_container, item, calls, sent>>

Pop(c) ==
  /\ pc[c] = "lock"
  /\ is_not_empty
  /\ m_unread' = m_unread - 1
  /\ received' = Append(received, m_container[m_unread' + 1])
  /\ Goto(c, "notify")
  /\ UNCHANGED <<m_container, item, calls, sent>>

(* notify_one on the condition variable the other side waits on.           *)
NotifyOne(t, others) ==
  /\ pc[t] = "notify"
  /\ LET asleep == {u \in others : pc[u] = "wait"}
     IN  \/ /\ asleep = {}
            /\ Goto(t, "idle")
         \/ \E u \in asleep : pc' = [pc EXCEPT ![t] = "idle", ![u] = "lock"]
  /\ UNCHANGED <<m_container, m_unread, item, calls, sent, received>>

WakeSpuriously(t) ==
  /\ pc[t] = "wait"
  /\ Goto(t, "lock")
  /\ UNCHANGED <<m_container, m_unread, item, calls, sent, received>>

Produce(p) == WaitNotFull(p) \/ Push(p) \/ NotifyOne(p, Consumers)
Consume(c) == WaitNotEmpty(c) \/ Pop(c) \/ NotifyOne(c, Producers)

Next ==
  \/ \E p \in Producers : CallPush(p) \/ Produce(p)
  \/ \E c \in Consumers : CallPop(c) \/ Consume(c)
  \/ \E t \in Threads : WakeSpuriously(t)

Spec == Init /\ [][Next]_vars

(* A thread inside push_front or pop_back runs on unless it sleeps, and a  *)
(* consumer comes back for more.  Nothing wakes a sleeper but notify_one.  *)
FairSpec ==
  /\ Spec
  /\ \A p \in Producers : WF_vars(Produce(p))
  /\ \A c \in Consumers : WF_vars(CallPop(c) \/ Consume(c))
-----------------------------------------------------------------------------
Places == {"idle", "lock", "wait", "notify"}

(* Every variable has its type; the count stays inside the buffer.         *)
TypeOK ==
  /\ m_container \in Seq(Items)
  /\ m_unread \in 0 .. Len(m_container)
  /\ Len(m_container) <= Capacity
  /\ pc \in [Threads -> Places]
  /\ item \in [Producers -> Items]
  /\ calls \in 0 .. MaxPushes
  /\ sent \in Seq(Items)
  /\ received \in Seq(Items)

(* The unread part of the buffer, read from m_unread down to the front, is *)
(* what was pushed and not yet popped; what was popped was pushed first.   *)
InOrder ==
  /\ Len(sent) = Len(received) + m_unread
  /\ \A i \in 1 .. Len(received) : received[i] = sent[i]
  /\ \A i \in 1 .. m_unread : m_container[i] = sent[Len(sent) + 1 - i]

(* A consumer never sleeps through an item, nor a producer through a free  *)
(* place: if one of them sleeps, a notification is still to be sent or     *)
(* another thread of its side is awake inside the call.                    *)
NoLostWakeup ==
  /\ is_not_empty /\ (\E c \in Consumers : pc[c] = "wait") =>
       \/ \E p \in Producers : pc[p] = "notify"
       \/ \E c \in Consumers : pc[c] = "lock"
  /\ is_not_full /\ (\E p \in Producers : pc[p] = "wait") =>
       \/ \E c \in Consumers : pc[c] = "notify"
       \/ \E p \in Producers : pc[p] = "lock"

(* The buffer implements the channel.                                      *)
Chan == INSTANCE Channel WITH Items <- Items, Capacity <- Capacity, sent <- sent, received <- received
ImplementsChannel == Chan!ChannelSpec

(* Every item pushed is popped.                                            *)
EveryItemReceived ==
  \A n \in 1 .. MaxPushes : Len(sent) >= n ~> Len(received) >= n

(* push_front returns.                                                     *)
PushReturns == \A p \in Producers : pc[p] = "lock" ~> pc[p] = "idle"
=============================================================================
