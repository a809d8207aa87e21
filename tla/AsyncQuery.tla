------------------------------ MODULE AsyncQuery ------------------------------
(***************************************************************************)
(* Queries: async_object, renderer_impl::begin, end and get_data on the    *)
(* application's thread, and the begin and end of counting on the thread   *)
(* of the renderer.                                                        *)
(*                                                                         *)
(* The command queue is the one AsyncRenderer describes, seen as a         *)
(* CommandStream: commands run one by one in the order of the calls and at *)
(* most QUEUE_SIZE are outstanding.  A command carries what its snapshot   *)
(* holds.  pending_writes_count_ is incremented outside the mutex that     *)
(* protects its decrement, so both are a read followed by a write.         *)
(***************************************************************************)
EXTENDS Integers, Sequences, FiniteSets

CONSTANTS Queries,
          IdOf,          (* async_object::id of each query                 *)
          NoQuery,       (* the empty pointer                              *)
          QUEUE_SIZE,
          MaxCalls       (* bound on the calls of begin, end and draw      *)

Ids == {IdOf[q] : q \in Queries}

ASSUME QueryAssumption ==
  /\ NoQuery \notin Queries
  /\ QUEUE_SIZE \in Nat \ {0}
  /\ MaxCalls \in Nat

VARIABLES
  started,    (* async_object::started_                                    *)
  pending,    (* async_object::pending_writes_count_                       *)
  counter,    (* the draws a query has counted                             *)
  asyncs,     (* render_state::asyncs of the application's block           *)
  queue,      (* the outstanding commands, oldest first                    *)
  apc, aq,    (* where the application's thread is, and for which query    *)
  areg,       (* the value its increment read                              *)
  cmd,        (* the command being committed                               *)
  answer,     (* what the last call returned                               *)
  rpc, rreg,  (* the same of the rendering thread                          *)
  overlaps,   (* history as well                                           *)
  calls, leaked, settled, hurried, inside   (* history, see below          *)

(* leaked[q]   how many begin(q) raised pending and were then refused      *)
(* settled     the queries read or flushed since their last begin          *)
(* hurried     the queries once restarted before they were settled         *)
(* inside[q]   the draws issued between the last begin(q) and its end      *)
(* overlaps[q] how often the increment and a decrement of q's pending were *)
(*             under way at once                                           *)
history == <<calls, leaked, settled, hurried, inside>>
object == <<started, pending, counter>>
app == <<asyncs, apc, aq, areg, cmd, answer>>
render == <<rpc, rreg, overlaps>>
vars == <<object, app, queue, render, history>>

NoCmd == [kind |-> "none", query |-> NoQuery, slots |-> [i \in Ids |-> NoQuery], counted |-> {}]

Init ==
  /\ started = [q \in Queries |-> FALSE]
  /\ pending = [q \in Queries |-> 0]
  /\ counter = [q \in Queries |-> {0}]      (* not initialised            *)
  /\ asyncs = [i \in Ids |-> NoQuery]
  /\ queue = <<>>
  /\ apc = "idle" /\ aq = NoQuery /\ areg = 0 /\ cmd = NoCmd /\ answer = "none"
  /\ rpc = "idle" /\ rreg = 0 /\ overlaps = [q \in Queries |-> 0]
  /\ calls = 0
  /\ leaked = [q \in Queries |-> 0]
  /\ settled = Queries
  /\ hurried = {}
  /\ inside = [q \in Queries |-> {}]
-----------------------------------------------------------------------------
Called ==
  /\ apc = "idle"
  /\ calls < MaxCalls
  /\ calls' = calls + 1

(* async_object::begin refuses BEG-BEG.                                    *)
BeginStarted(q) ==
  /\ Called
  /\ started[q]
  /\ answer' = "failed"
  /\ UNCHANGED <<object, asyncs, apc, aq, areg, cmd, queue, render, leaked, settled, inside, hurried>>

Met(q) == overlaps' = [overlaps EXCEPT ![q] = @ + 1]

(* The read of ++pending_writes_count_.                                    *)
BeginRead(q) ==
  /\ Called
  /\ ~started[q]
  /\ hurried' = IF q \in settled THEN hurried ELSE hurried \cup {q}
  /\ areg' = pending[q]
  /\ apc' = "begin"
  /\ aq' = q
  /\ IF rpc = "stop" /\ Head(queue).query = q THEN Met(q) ELSE UNCHANGED overlaps
  /\ UNCHANGED <<object, asyncs, cmd, answer, queue, rpc, rreg, leaked, settled, inside>>

Raised == pending' = [pending EXCEPT ![aq] = areg + 1]

(* The slot of the query's kind is taken: the call fails, the object stays *)
(* started and its count raised.                                           *)
BeginRefused ==
  /\ apc = "begin"
  /\ asyncs[IdOf[aq]] # NoQuery
  /\ Raised
  /\ started' = [started EXCEPT ![aq] = TRUE]
  /\ leaked' = [leaked EXCEPT ![aq] = @ + 1]
  /\ settled' = settled \ {aq}
  /\ apc' = "idle"
  /\ answer' = "failed"
  /\ UNCHANGED <<counter, asyncs, aq, areg, cmd, queue, render, calls, inside, hurried>>

BeginAccepted ==
  /\ apc = "begin"
  /\ asyncs[IdOf[aq]] = NoQuery
  /\ Raised
  /\ started' = [started EXCEPT ![aq] = TRUE]
  /\ asyncs' = [asyncs EXCEPT ![IdOf[aq]] = aq]
  /\ settled' = settled \ {aq}
  /\ inside' = [inside EXCEPT ![aq] = {}]
  /\ cmd' = [kind |-> "begin", query |-> aq, slots |-> asyncs', counted |-> {}]
  /\ apc' = "commit"
  /\ UNCHANGED <<counter, aq, areg, answer, queue, render, calls, leaked, hurried>>

(* async_object::end refuses END without BEG, and renderer_impl::end the   *)
(* query that does not hold its slot.                                      *)
EndRefused(q) ==
  /\ Called
  /\ ~started[q] \/ asyncs[IdOf[q]] # q
  /\ started' = [started EXCEPT ![q] = FALSE]
  /\ answer' = "failed"
  /\ UNCHANGED <<pending, counter, asyncs, apc, aq, areg, cmd, queue, render, leaked, settled, inside, hurried>>

(* End without asking who holds the slot: a slip.                          *)
EndUnchecked(q) ==
  /\ Called
  /\ started[q]
  /\ started' = [started EXCEPT ![q] = FALSE]
  /\ asyncs' = [asyncs EXCEPT ![IdOf[q]] = NoQuery]
  /\ cmd' = [kind |-> "end", query |-> q, slots |-> asyncs', counted |-> inside[q]]
  /\ apc' = "commit"
  /\ UNCHANGED <<pending, counter, aq, areg, answer, queue, render, leaked, settled, inside, hurried>>

End(q) ==
  /\ Called
  /\ started[q] /\ asyncs[IdOf[q]] = q
  /\ started' = [started EXCEPT ![q] = FALSE]
  /\ asyncs' = [asyncs EXCEPT ![IdOf[q]] = NoQuery]
  /\ cmd' = [kind |-> "end", query |-> q, slots |-> asyncs', counted |-> inside[q]]
  /\ apc' = "commit"
  /\ UNCHANGED <<pending, counter, aq, areg, answer, queue, render, leaked, settled, inside, hurried>>

(* A draw, named by the number of its call; the snapshot keeps the slots.  *)
Draw ==
  /\ Called
  /\ cmd' = [kind |-> "draw", query |-> NoQuery, slots |-> asyncs, counted |-> {calls'}]
  /\ inside' = [q \in Queries |-> IF asyncs[IdOf[q]] = q THEN inside[q] \cup {calls'} ELSE inside[q]]
  /\ apc' = "commit"
  /\ UNCHANGED <<object, asyncs, aq, areg, answer, queue, render, leaked, settled, hurried>>

Commit ==
  /\ apc = "commit"
  /\ Len(queue) < QUEUE_SIZE
  /\ queue' = Append(queue, cmd)
  /\ apc' = "idle"
  /\ answer' = "ok"
  /\ UNCHANGED <<object, asyncs, aq, areg, cmd, render, history>>

Flush ==
  /\ apc = "idle"
  /\ queue = <<>>
  /\ settled' = Queries \ {asyncs[i] : i \in Ids}
  /\ UNCHANGED <<object, app, queue, render, calls, leaked, inside, hurried>>

(* async_object::get, called between begin and end.                        *)
GetStarted(q) ==
  /\ apc = "idle"
  /\ started[q]
  /\ answer' = "error"
  /\ UNCHANGED <<object, asyncs, apc, aq, areg, cmd, queue, render, history>>

GetLock(q) ==
  /\ apc = "idle"
  /\ ~started[q]
  /\ apc' \in {"get", "poll"}       (* do_not_wait is false, or true        *)
  /\ aq' = q
  /\ UNCHANGED <<object, asyncs, areg, cmd, answer, queue, render, history>>

(* A slip, and the condition of the loop.                                  *)
WaitsOffByOne == pending[aq] > 1
Waits == pending[aq] > 0

(* The mutex is free: the other thread is not inside stop_counting.        *)
Timeout ==
  /\ apc = "poll" /\ rpc = "idle"
  /\ Waits
  /\ apc' = "idle"
  /\ answer' = "timeout"
  /\ UNCHANGED <<object, asyncs, aq, areg, cmd, queue, render, history>>

Wait ==
  /\ apc = "get" /\ rpc = "idle"
  /\ Waits
  /\ apc' = "wait"
  /\ UNCHANGED <<object, asyncs, aq, areg, cmd, answer, queue, render, history>>

WakeSpuriously ==
  /\ apc = "wait"
  /\ apc' = "get"
  /\ UNCHANGED <<object, asyncs, aq, areg, cmd, answer, queue, render, history>>

Settle ==
  /\ apc \in {"get", "poll"} /\ rpc = "idle"
  /\ ~Waits
  /\ apc' = "value"
  /\ UNCHANGED <<object, asyncs, aq, areg, cmd, answer, queue, render, history>>

(* get_value, after the mutex is released.                                 *)
GetValue ==
  /\ apc = "value"
  /\ apc' = "idle"
  /\ answer' = "ready"
  /\ settled' = settled \cup {aq}
  /\ UNCHANGED <<object, asyncs, aq, areg, cmd, queue, render, calls, leaked, inside, hurried>>
-----------------------------------------------------------------------------
Running(kind) ==
  /\ rpc = "idle"
  /\ queue # <<>>
  /\ Head(queue).kind = kind

(* Start without resetting the counters: a slip.                           *)
StartCountingDirty ==
  /\ Running("begin")
  /\ counter' = [counter EXCEPT ![Head(queue).query] = @ \ {0}]
  /\ queue' = Tail(queue)
  /\ UNCHANGED <<started, pending, app, render, history>>

StartCounting ==
  /\ Running("begin")
  /\ counter' = [counter EXCEPT ![Head(queue).query] = {}]
  /\ queue' = Tail(queue)
  /\ UNCHANGED <<started, pending, app, render, history>>

(* The stages accumulate into the queries of the snapshot's slots.         *)
ExecuteDraw ==
  /\ Running("draw")
  /\ LET c == Head(queue) IN
       counter' = [q \in Queries |->
                     IF c.slots[IdOf[q]] = q THEN counter[q] \cup c.counted ELSE counter[q]]
  /\ queue' = Tail(queue)
  /\ UNCHANGED <<started, pending, app, render, history>>

(* stop_counting takes the mutex and reads the count ...                   *)
StopRead ==
  /\ Running("end")
  /\ rreg' = pending[Head(queue).query]
  /\ rpc' = "stop"
  /\ IF apc = "begin" /\ aq = Head(queue).query THEN Met(aq) ELSE UNCHANGED overlaps
  /\ UNCHANGED <<object, app, queue, history>>

(* ... writes it back, and wakes the thread that waits for it to be 0.     *)
(* (WokenLate: a slip.)                                                    *)
WokenLate(q) == IF rreg = 0 /\ apc = "wait" /\ aq = q THEN "get" ELSE apc
Woken(q) == IF rreg = 1 /\ apc = "wait" /\ aq = q THEN "get" ELSE apc

StopWrite ==
  /\ rpc = "stop"
  /\ pending' = [pending EXCEPT ![Head(queue).query] = rreg - 1]
  /\ apc' = Woken(Head(queue).query)
  /\ queue' = Tail(queue)
  /\ rpc' = "idle"
  /\ UNCHANGED <<started, counter, asyncs, aq, areg, cmd, answer, rreg, overlaps, history>>

AppProgress == BeginRefused \/ BeginAccepted \/ Commit \/ Timeout \/ Wait \/ Settle \/ GetValue
RenderProgress == StartCounting \/ ExecuteDraw \/ StopRead \/ StopWrite

Next ==
  \/ \E q \in Queries : \/ BeginStarted(q) \/ BeginRead(q) \/ EndRefused(q) \/ End(q)
                        \/ GetStarted(q) \/ GetLock(q)
  \/ Draw \/ Flush \/ WakeSpuriously
  \/ AppProgress
  \/ RenderProgress

Spec == Init /\ [][Next]_vars

(* Both threads run on while they can.                                     *)
FairSpec == Spec /\ WF_vars(AppProgress) /\ WF_vars(RenderProgress)
-----------------------------------------------------------------------------
Names == Queries \cup {NoQuery}
CommandsOf == [kind : {"none", "begin", "end", "draw"}, query : Names,
               slots : [Ids -> Names], counted : SUBSET (1 .. MaxCalls)]

(* Every variable has its type.                                            *)
TypeOK ==
  /\ started \in [Queries -> BOOLEAN]
  /\ pending \in [Queries -> Int]
  /\ counter \in [Queries -> SUBSET (0 .. MaxCalls)]
  /\ asyncs \in [Ids -> Names]
  /\ queue \in Seq(CommandsOf) /\ Len(queue) <= QUEUE_SIZE
  /\ apc \in {"idle", "begin", "commit", "get", "poll", "wait", "value"}
  /\ aq \in Names /\ areg \in Int /\ cmd \in CommandsOf
  /\ answer \in {"none", "ok", "failed", "error", "timeout", "ready"}
  /\ rpc \in {"idle", "stop"} /\ rreg \in Int /\ overlaps \in [Queries -> Nat]
  /\ calls \in 0 .. MaxCalls
  /\ leaked \in [Queries -> 0 .. MaxCalls]
  /\ settled \subseteq Queries /\ hurried \subseteq Queries
  /\ inside \in [Queries -> SUBSET (1 .. MaxCalls)]

(* When a bracket is closed on the rendering thread, the query has counted *)
(* the draws issued inside it, no other and none less, however many        *)
(* commands, brackets of this or of other queries, were queued behind it.  *)
BracketExact ==
  rpc = "stop" => counter[Head(queue).query] = Head(queue).counted

(* ++pending_writes_count_ runs outside the mutex, and one of it and       *)
(* stop_counting's decrement is lost when the two overlap.  The rest is    *)
(* about queries this has not happened to, however early they are          *)
(* restarted.  The data get_data hands out is what was drawn inside the    *)
(* last bracket.                                                           *)
QueryExact ==
  apc = "value" /\ overlaps[aq] = 0 /\ counter[aq] # {0} => counter[aq] = inside[aq]

Closing(q) ==
  Cardinality({i \in 1 .. Len(queue) : queue[i].kind = "end" /\ queue[i].query = q})
  + (IF apc = "commit" /\ cmd.kind = "end" /\ cmd.query = q THEN 1 ELSE 0)

(* The number of brackets that are open or still being counted, and of the *)
(* refused begins, which nothing takes back.                               *)
Owed(q) == Closing(q) + (IF asyncs[IdOf[q]] = q THEN 1 ELSE 0) + leaked[q]

(* pending_writes_count_ of any query, restarted however early, is that    *)
(* number; each overlap takes it away from it by one, up or down, and      *)
(* nothing else does.                                                      *)
PendingExact ==
  \A q \in Queries : pending[q] - Owed(q) \in -overlaps[q] .. overlaps[q]

(* A query that is read or flushed before it is begun again never has the  *)
(* two under way at once: get_data and flush return only when nothing of   *)
(* it is left to be executed.                                              *)
SettledBeginsAlone == \A q \in Queries \ hurried : overlaps[q] = 0

(* get_data returns, unless a begin of the query was refused or met its    *)
(* stop_counting.                                                          *)
GetReturns ==
  \A q \in Queries :
    (apc \in {"get", "poll", "wait"} /\ aq = q /\ leaked[q] = 0 /\ overlaps[q] = 0)
       ~> apc = "idle"
=============================================================================
