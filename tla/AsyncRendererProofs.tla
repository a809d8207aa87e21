------------------------- MODULE AsyncRendererProofs -------------------------
(***************************************************************************)
(* The invariant of the asynchronous renderer, for every number of blocks, *)
(* every bound on the commands and every set of values.  IInv is inductive *)
(* (InitIInv, NextIInv); from it follow the safety properties the runs     *)
(* check, that nobody writes a queued block, and that the renderer         *)
(* implements CommandStream.                                               *)
(***************************************************************************)
EXTENDS AsyncRenderer, SequenceTheorems, TLAPS

(* A new block is well formed.                                             *)
LEMMA NewStateType == NewState \in States
  BY DefaultAssumption DEF NewState, States

(* A setter and a command call leave the application's block well formed.  *)
LEMMA SettersType ==
  ASSUME NEW s \in States, NEW v \in Values
  PROVE  /\ SetTo(s, v) \in States
         /\ SetTo(s, v).cmd = s.cmd
         /\ \A c \in Commands : /\ Called(s, c, v) \in States
                                /\ Called(s, c, v).cmd = c
  BY DEF SetTo, Called, States

LEMMA EffectType ==
  ASSUME NEW s \in States, s.cmd \in Commands
  PROVE  Effect(s) \in Effects
  <1>1. s \in [cmd : Commands, val : [Fields -> Values]]
    BY DEF States
  <1> QED
    BY <1>1 DEF Effects

(* copy_using_state carries over every field the command will read.        *)
LEMMA CopiedCoversReads ==
  ASSUME NEW c \in Commands
  PROVE  Reads(c) \subseteq Copied(c) /\ Reads(c) \subseteq Fields
  BY DEF Reads, Copied, Commands, Draws, Clears, Asyncs, Fields

(* Executing the snapshot does what executing the application's own block  *)
(* would have done, whatever the recycled block held before.               *)
THEOREM SnapshotFaithful ==
  ASSUME NEW dest \in States, NEW src \in States, src.cmd \in Commands
  PROVE  /\ CopyUsingState(dest, src) \in States
         /\ CopyUsingState(dest, src).cmd = src.cmd
         /\ Effect(CopyUsingState(dest, src)) = Effect(src)
  <1> DEFINE copy == CopyUsingState(dest, src)
  <1>1. copy \in States /\ copy.cmd = src.cmd
    BY DEF CopyUsingState, States
  <1>2. \A f \in Reads(src.cmd) : copy.val[f] = src.val[f]
    BY CopiedCoversReads DEF CopyUsingState
  <1>3. [f \in Reads(copy.cmd) |-> copy.val[f]] = [f \in Reads(src.cmd) |-> src.val[f]]
    BY <1>1, <1>2
  <1> QED
    BY <1>1, <1>3 DEF Effect
-----------------------------------------------------------------------------
(* The stack of the pool after pop_back.                                   *)
LEMMA FrontProperties ==
  ASSUME NEW S, NEW s \in Seq(S), s # <<>>
  PROVE  /\ SubSeq(s, 1, Len(s) - 1) \in Seq(S)
         /\ Len(SubSeq(s, 1, Len(s) - 1)) = Len(s) - 1
         /\ \A i \in 1 .. Len(s) - 1 : SubSeq(s, 1, Len(s) - 1)[i] = s[i]
         /\ Len(s) \in Nat \ {0}
         /\ s[Len(s)] \in S
  <1>1. Len(s) \in Nat \ {0} /\ DOMAIN s = 1 .. Len(s)
    BY EmptySeq, LenProperties
  <1>2. \A i \in 1 .. Len(s) : s[i] \in S
    BY ElementOfSeq
  <1>3. /\ SubSeq(s, 1, Len(s) - 1) \in Seq(S)
        /\ Len(SubSeq(s, 1, Len(s) - 1)) = IF 1 <= Len(s) - 1 THEN Len(s) - 1 - 1 + 1 ELSE 0
        /\ \A i \in 1 .. Len(s) - 1 - 1 + 1 : SubSeq(s, 1, Len(s) - 1)[i] = s[1 + i - 1]
    <2>1. \A i \in 1 .. Len(s) - 1 : s[i] \in S
      BY <1>1, <1>2
    <2> QED
      BY <1>1, <2>1, SubSeqProperties
  <1> QED
    BY <1>1, <1>2, <1>3

(* A queue or a history after one more element.                            *)
LEMMA AppendIs ==
  ASSUME NEW S, NEW s \in Seq(S), NEW e \in S
  PROVE  /\ Append(s, e) \in Seq(S)
         /\ Len(Append(s, e)) = Len(s) + 1
         /\ \A i \in 1 .. Len(s) : Append(s, e)[i] = s[i]
         /\ Append(s, e)[Len(s) + 1] = e
         /\ Append(s, e) # <<>>
         /\ Len(s) \in Nat
  OBVIOUS

(* A queue after its oldest element is taken.                              *)
LEMMA TailIs ==
  ASSUME NEW S, NEW s \in Seq(S), s # <<>>
  PROVE  /\ Head(s) = s[1]
         /\ Head(s) \in S
         /\ Tail(s) \in Seq(S)
         /\ Len(Tail(s)) = Len(s) - 1
         /\ \A i \in 1 .. Len(s) - 1 : Tail(s)[i] = s[i + 1]
         /\ Len(s) \in Nat \ {0}
  OBVIOUS

(* The empty pointer is not counted: it can only be the last element.      *)
LEMMA QueuedCount ==
  ASSUME TypeOK
  PROVE  /\ Len(queue) \in Nat
         /\ StatesQueued \in 0 .. Len(queue)
         /\ queue = <<>> => StatesQueued = 0
         /\ queue # <<>> /\ queue[Len(queue)] # Null => StatesQueued = Len(queue)
         /\ queue # <<>> /\ queue[Len(queue)] = Null => StatesQueued = Len(queue) - 1
         /\ queue # <<>> => Len(queue) > 0
  BY EmptySeq DEF TypeOK, StatesQueued, One
(* Places of a queue that grows shorter by one.                            *)
LEMMA Shifted ==
  ASSUME NEW n \in Nat, NEW k \in 0 .. n, NEW q, q = k + 1
  PROVE  /\ 1 \in 1 .. q
         /\ \A i \in 1 .. k : i \in 1 .. n /\ i + 1 \in 1 .. q
  OBVIOUS

(* The pool holds blocks, the queue blocks and the empty pointer.          *)
LEMMA Elements ==
  ASSUME TypeOK
  PROVE  /\ \A i \in 1 .. Len(pool) : pool[i] \in Blocks /\ pool[i] # Null
         /\ \A i \in 1 .. Len(queue) : queue[i] \in Blocks \cup {Null}
  <1>1. /\ \A i \in 1 .. Len(pool) : pool[i] \in Blocks
        /\ \A i \in 1 .. Len(queue) : queue[i] \in Blocks \cup {Null}
    BY ElementOfSeq DEF TypeOK
  <1>2. Null \notin Blocks
    BY SizeAssumption DEF Null, Blocks
  <1> QED
    BY <1>1, <1>2
-----------------------------------------------------------------------------
LEMMA InitIInv == Init => IInv
  <1> SUFFICES ASSUME Init PROVE IInv
    OBVIOUS
  <1> USE SizeAssumption DEF Init
  <1>1. TypeOK
    <2>1. pool \in Seq(Blocks)
      <3>1. pool \in [1 .. QUEUE_SIZE -> Blocks]
        BY DEF Blocks
      <3> QED
        BY <3>1, SeqDef
    <2>2. block \in [Blocks -> States]
      BY NewStateType
    <2> QED
      <3>1. /\ queue \in Seq(Blocks \cup {Null})
            /\ issued \in Seq(Effects)
            /\ executed \in Seq(Effects)
        BY EmptySeq
      <3>2. held \in Blocks \cup {Null} /\ rendering \in Blocks \cup {Null} /\ core \in Blocks \cup {Null}
        OBVIOUS
      <3> QED
        BY <2>1, <2>2, <3>1, <3>2, NewStateType DEF TypeOK, AppPlaces, RenderPlaces
  <1>2. PlacesAgree
    BY DEF PlacesAgree
  <1>3. OneOwner
    BY DEF OneOwner, Null
  <1>4. NoneLost
    BY DEF NoneLost, StatesQueued, One, Null
  <1>5. Backlog
    BY DEF Backlog, Outstanding, StatesQueued, One, Null
  <1> QED
    BY <1>1, <1>2, <1>3, <1>4, <1>5 DEF IInv

(* The steps that move no block and record nothing.                        *)
LEMMA QuietSteps ==
  ASSUME IInv,
         \/ \E v \in Values : Set(v)
         \/ FlushCall \/ FlushReturn \/ Release \/ Join \/ TestExit \/ Update
         \/ UNCHANGED vars
  PROVE  IInv'
  <1> USE DEF IInv
  <1>1. ASSUME NEW v \in Values, Set(v) PROVE IInv'
    <2>1. TypeOK' /\ PlacesAgree' /\ OneOwner' /\ NoneLost'
      BY <1>1, SettersType DEF Set, appVars, renderVars, TypeOK, PlacesAgree, OneOwner,
         NoneLost, StatesQueued
    <2>2. Backlog'
      BY <1>1 DEF Set, appVars, renderVars, Backlog, Outstanding, StatesQueued
    <2> QED
      BY <2>1, <2>2
  <1>2. CASE FlushCall
    BY <1>2 DEF FlushCall, appVars, renderVars, TypeOK, AppPlaces, PlacesAgree, OneOwner,
       NoneLost, Backlog, Outstanding, StatesQueued
  <1>3. CASE FlushReturn
    <2>1. synced' \in Nat
      BY <1>3 DEF FlushReturn, TypeOK
    <2> QED
      BY <1>3, <2>1 DEF FlushReturn, appVars, renderVars, TypeOK, AppPlaces, PlacesAgree,
         OneOwner, NoneLost, Backlog, Outstanding, StatesQueued
  <1>4. CASE Release
    <2>1. TypeOK'
      BY <1>4 DEF Release, appVars, renderVars, TypeOK, AppPlaces
    <2>2. PlacesAgree'
      BY <1>4 DEF Release, appVars, renderVars, TypeOK, PlacesAgree
    <2>3. OneOwner' /\ NoneLost' /\ Backlog'
      BY <1>4 DEF Release, appVars, renderVars, OneOwner, NoneLost, Backlog, Outstanding,
         StatesQueued
    <2> QED
      BY <2>1, <2>2, <2>3
  <1>5. CASE Join
    BY <1>5 DEF Join, appVars, renderVars, TypeOK, AppPlaces, PlacesAgree, OneOwner,
       NoneLost, Backlog, Outstanding, StatesQueued
  <1>6. CASE TestExit
    BY <1>6 DEF TestExit, appVars, renderVars, TypeOK, RenderPlaces, PlacesAgree, OneOwner,
       NoneLost, Backlog, Outstanding, StatesQueued
  <1>7. CASE Update
    BY <1>7 DEF Update, appVars, renderVars, TypeOK, RenderPlaces, PlacesAgree, OneOwner,
       NoneLost, Backlog, Outstanding, StatesQueued
  <1>8. CASE UNCHANGED vars
    BY <1>8 DEF vars, appVars, renderVars, TypeOK, PlacesAgree, OneOwner, NoneLost, Backlog,
       Outstanding, StatesQueued
  <1> QED
    BY <1>1, <1>2, <1>3, <1>4, <1>5, <1>6, <1>7, <1>8

LEMMA CallStep ==
  ASSUME IInv, NEW c \in Commands, NEW v \in Values, Call(c, v)
  PROVE  IInv'
  <1> USE DEF IInv
  <1>1. state' \in States /\ state'.cmd \in Commands
    BY SettersType DEF Call, TypeOK
  <1>2. Effect(state') \in Effects
    BY <1>1, EffectType
  <1>3. /\ issued' \in Seq(Effects)
        /\ Len(issued') = Len(issued) + 1
        /\ \A i \in 1 .. Len(issued) : issued'[i] = issued[i]
        /\ issued'[Len(issued')] = Effect(state')
        /\ Len(issued) \in Nat
    BY <1>2, AppendIs DEF Call, TypeOK
  <1>4. TypeOK'
    BY <1>1, <1>3 DEF Call, TypeOK, AppPlaces, renderVars
  <1>5. PlacesAgree' /\ OneOwner' /\ NoneLost'
    BY DEF Call, PlacesAgree, OneOwner, NoneLost, StatesQueued, renderVars
  <1>6. Backlog'
    <2>1. /\ StatesQueued' = StatesQueued
          /\ Outstanding' = Outstanding + 1
      BY QueuedCount DEF Call, renderVars, StatesQueued, Outstanding, One
    <2>2. /\ Len(executed) \in Nat
          /\ StatesQueued \in Nat
          /\ Len(issued) = Len(executed) + One(rpc \in {"update", "execute"}) + StatesQueued
      BY QueuedCount DEF Backlog, Outstanding, One, Call, TypeOK
    <2>3. \A i \in 1 .. StatesQueued :
            issued'[Len(executed) + One(rpc \in {"update", "execute"}) + i]
              = issued[Len(executed) + One(rpc \in {"update", "execute"}) + i]
      BY <1>3, <2>2 DEF One
    <2>4. rpc \in {"update", "execute"} => issued'[Len(executed) + 1] = issued[Len(executed) + 1]
      BY <1>3, <2>2 DEF One
    <2>5. /\ apc = "idle" /\ apc' = "alloc"
          /\ UNCHANGED <<executed, rpc, block, rendering, queue, held>>
      BY DEF Call, renderVars
    <2>6. Len(issued') = Len(executed') + Outstanding'
      BY <1>3, <2>1, <2>2, <2>5 DEF Backlog, Outstanding, One
    <2>7. \A i \in 1 .. Len(executed') : executed'[i] = issued'[i]
      BY <1>3, <2>2, <2>5 DEF Backlog, One
    <2> QED
      BY <1>1, <1>3, <2>1, <2>2, <2>3, <2>4, <2>5, <2>6, <2>7 DEF Backlog
  <1> QED
    BY <1>4, <1>5, <1>6

LEMMA AllocStep ==
  ASSUME IInv, AllocRenderState
  PROVE  IInv'
  <1> USE DEF IInv
  <1>1. /\ pool' \in Seq(Blocks)
        /\ Len(pool') = Len(pool) - 1
        /\ \A i \in 1 .. Len(pool') : pool'[i] = pool[i]
        /\ held' \in Blocks
        /\ held' = pool[Len(pool)]
        /\ Len(pool) \in Nat \ {0}
    BY FrontProperties DEF AllocRenderState, TypeOK
  <1>2. held' # Null /\ held = Null
    BY <1>1 DEF Blocks, Null, AllocRenderState, PlacesAgree
  <1>3. UNCHANGED <<state, block, queue, rendering, core, waiting_exit, rpc, issued, executed, synced>>
    BY DEF AllocRenderState, renderVars
  <1>4. apc = "alloc" /\ apc' = "copy"
    BY DEF AllocRenderState
  <1>5. TypeOK'
    BY <1>1, <1>3, <1>4 DEF TypeOK, AppPlaces
  <1>6. PlacesAgree'
    BY <1>2, <1>3, <1>4 DEF PlacesAgree
  <1>7. OneOwner'
    <2>1. \A i \in 1 .. Len(pool') : i \in 1 .. Len(pool) /\ i # Len(pool)
      BY <1>1
    <2>2. Len(pool) \in 1 .. Len(pool)
      BY <1>1
    <2>3. \A i \in 1 .. Len(pool') : pool'[i] # held'
      BY <1>1, <2>1, <2>2 DEF OneOwner
    <2>4. \A i \in 1 .. Len(queue) : queue[i] # held'
      BY <1>1, <2>2 DEF OneOwner
    <2>5. held' # rendering
      BY <1>1, <2>2 DEF OneOwner
    <2>6. \A i, j \in 1 .. Len(pool') : i # j => pool'[i] # pool'[j]
      BY <1>1, <2>1 DEF OneOwner
    <2>7. \A i \in 1 .. Len(pool') :
            /\ pool'[i] # rendering
            /\ \A j \in 1 .. Len(queue) : pool'[i] # queue[j]
      BY <1>1, <2>1 DEF OneOwner
    <2> QED
      BY <1>3, <2>3, <2>4, <2>5, <2>6, <2>7 DEF OneOwner
  <1>8. NoneLost'
    <2>1. StatesQueued' = StatesQueued /\ StatesQueued \in Nat
      BY <1>3, QueuedCount DEF StatesQueued
    <2> QED
      BY <1>1, <1>2, <1>3, <2>1 DEF NoneLost, One
  <1>9. Backlog'
    BY <1>3, <1>4 DEF Backlog, Outstanding, StatesQueued, One
  <1> QED
    BY <1>5, <1>6, <1>7, <1>8, <1>9

LEMMA CopyStep ==
  ASSUME IInv, Copy
  PROVE  IInv'
  <1> USE DEF IInv
  <1>1. UNCHANGED <<state, held, waiting_exit, issued, synced, rendering, core, rpc, executed, pool, queue>>
    BY DEF Copy, renderVars
  <1>2. apc = "copy" /\ apc' = "push" /\ held \in Blocks
    BY DEF Copy, PlacesAgree, TypeOK
  <1>3. /\ block'[held] = CopyUsingState(block[held], state)
        /\ \A b \in Blocks : b # held => block'[b] = block[b]
        /\ block' = [block EXCEPT ![held] = CopyUsingState(block[held], state)]
    BY <1>2 DEF Copy, TypeOK
  <1>4. /\ state \in States /\ state.cmd \in Commands
        /\ block[held] \in States
        /\ Effect(state) = issued[Len(issued)]
    BY <1>2 DEF TypeOK, Backlog
  <1>5. /\ block'[held] \in States
        /\ block'[held].cmd \in Commands
        /\ Effect(block'[held]) = issued[Len(issued)]
    BY <1>3, <1>4, SnapshotFaithful
  <1>6. TypeOK'
    <2>1. block' \in [Blocks -> States]
      BY <1>3, <1>5 DEF TypeOK
    <2> QED
      BY <1>1, <1>2, <2>1 DEF TypeOK, AppPlaces
  <1>7. PlacesAgree' /\ OneOwner' /\ NoneLost'
    <2>1. PlacesAgree'
      BY <1>1, <1>2 DEF PlacesAgree
    <2>2. OneOwner'
      BY <1>1, <1>2 DEF OneOwner
    <2>3. NoneLost'
      BY <1>1, <1>2 DEF NoneLost, StatesQueued
    <2> QED
      BY <2>1, <2>2, <2>3
  <1>8. Backlog'
    <2>1. rpc \in {"update", "execute"} => block'[rendering] = block[rendering]
      BY <1>2, <1>3 DEF OneOwner, PlacesAgree, TypeOK
    <2>2. StatesQueued' = StatesQueued /\ StatesQueued \in 0 .. Len(queue) /\ Len(queue) \in Nat
      BY <1>1, QueuedCount DEF StatesQueued
    <2>3. \A i \in 1 .. StatesQueued : queue[i] # Null
      BY <2>2, QueuedCount DEF PlacesAgree
    <2>4. \A i \in 1 .. StatesQueued : queue[i] \in Blocks /\ queue[i] # held
      BY <2>2, <2>3, Elements DEF OneOwner
    <2>5. \A i \in 1 .. StatesQueued : block'[queue[i]] = block[queue[i]]
      BY <1>3, <2>4
    <2>6. Outstanding' = Outstanding
      BY <1>1, <1>2, <2>2 DEF Outstanding
    <2> QED
      BY <1>1, <1>2, <1>5, <2>1, <2>2, <2>5, <2>6 DEF Backlog
  <1> QED
    BY <1>6, <1>7, <1>8

LEMMA PushStateStep ==
  ASSUME IInv, PushState
  PROVE  IInv'
  <1> USE DEF IInv
  <1>1. UNCHANGED <<state, block, pool, waiting_exit, issued, synced, rendering, core, rpc, executed>>
    BY DEF PushState, renderVars
  <1>2. apc = "push" /\ apc' = "idle" /\ held \in Blocks /\ held # Null /\ held' = Null
    BY DEF PushState, PlacesAgree, TypeOK
  <1>3. /\ queue' \in Seq(Blocks \cup {Null})
        /\ Len(queue') = Len(queue) + 1
        /\ \A i \in 1 .. Len(queue) : queue'[i] = queue[i]
        /\ queue'[Len(queue')] = held
        /\ queue' # <<>>
        /\ Len(queue) \in Nat
    BY <1>2, AppendIs DEF PushState, TypeOK
  <1>4. \A i \in 1 .. Len(queue) : queue[i] # Null
    BY <1>2 DEF PlacesAgree
  <1>5. /\ StatesQueued = Len(queue)
        /\ StatesQueued' = Len(queue) + 1
    <2>1. TypeOK'
      BY <1>1, <1>2, <1>3 DEF TypeOK, AppPlaces
    <2>2. StatesQueued' = Len(queue')
      BY <1>2, <1>3 DEF StatesQueued, One, Null
    <2> QED
      BY <1>3, <1>4, <2>2, QueuedCount
  <1>6. TypeOK'
    BY <1>1, <1>2, <1>3 DEF TypeOK, AppPlaces
  <1>7. PlacesAgree'
    <2>1. \A i \in 1 .. Len(queue') : queue'[i] # Null
      BY <1>2, <1>3, <1>4
    <2> QED
      BY <1>1, <1>2, <2>1 DEF PlacesAgree
  <1>8. OneOwner'
    <2>1. \A i \in 1 .. Len(queue') : i \in 1 .. Len(queue) \/ i = Len(queue')
      BY <1>3
    <2>2. \A i \in 1 .. Len(queue) : queue'[i] # held
      BY <1>3, <1>4 DEF OneOwner
    <2>3. \A i, j \in 1 .. Len(queue') : i # j => queue'[i] # queue'[j]
      BY <1>3, <2>1, <2>2 DEF OneOwner
    <2>4. \A i \in 1 .. Len(pool) : \A j \in 1 .. Len(queue') : pool[i] # queue'[j]
      BY <1>3, <2>1 DEF OneOwner
    <2>5. \A i \in 1 .. Len(pool) : pool[i] # Null
      BY Elements
    <2>6. \A i \in 1 .. Len(queue') : queue'[i] # Null /\ queue'[i] # rendering
      BY <1>2, <1>3, <1>4, <2>1 DEF OneOwner
    <2> QED
      BY <1>1, <1>2, <2>3, <2>4, <2>5, <2>6 DEF OneOwner
  <1>9. NoneLost'
    BY <1>1, <1>2, <1>3, <1>5 DEF NoneLost, One
  <1>10. Backlog'
    <2>1. Outstanding' = Outstanding /\ Len(executed) \in Nat
      BY <1>1, <1>2, <1>3, <1>5 DEF Outstanding, One, TypeOK
    <2>2. Effect(block[held]) = issued[Len(issued)] /\ block[held].cmd \in Commands
      BY <1>2 DEF Backlog
    <2>3. Len(issued) = Len(executed) + One(rpc \in {"update", "execute"}) + Len(queue')
      <3>1. One(apc \in {"alloc", "copy", "push"}) = 1 /\ One(rpc \in {"update", "execute"}) \in Nat
        BY <1>2 DEF One
      <3> QED
        BY <1>3, <1>5, <2>1, <3>1 DEF Backlog, Outstanding
    <2>4. \A i \in 1 .. StatesQueued' :
            /\ block[queue'[i]].cmd \in Commands
            /\ Effect(block[queue'[i]]) =
                 issued[Len(executed) + One(rpc \in {"update", "execute"}) + i]
      <3> SUFFICES ASSUME NEW i \in 1 .. StatesQueued'
                   PROVE  /\ block[queue'[i]].cmd \in Commands
                          /\ Effect(block[queue'[i]]) =
                               issued[Len(executed) + One(rpc \in {"update", "execute"}) + i]
        OBVIOUS
      <3>1. CASE i \in 1 .. Len(queue)
        BY <1>3, <1>5, <3>1 DEF Backlog
      <3>2. CASE i = Len(queue')
        BY <1>3, <2>2, <2>3, <3>2
      <3> QED
        BY <1>3, <1>5, <3>1, <3>2
    <2> QED
      BY <1>1, <1>2, <2>1, <2>4 DEF Backlog
  <1> QED
    BY <1>6, <1>7, <1>8, <1>9, <1>10

LEMMA PushNullStep ==
  ASSUME IInv, PushNull
  PROVE  IInv'
  <1> USE DEF IInv
  <1>1. UNCHANGED <<state, held, block, pool, waiting_exit, issued, synced, rendering, core, rpc, executed>>
    BY DEF PushNull, renderVars
  <1>2. apc = "push_null" /\ apc' = "join" /\ held = Null
    BY DEF PushNull, PlacesAgree
  <1>3. /\ queue' \in Seq(Blocks \cup {Null})
        /\ Len(queue') = Len(queue) + 1
        /\ \A i \in 1 .. Len(queue) : queue'[i] = queue[i]
        /\ queue'[Len(queue')] = Null
        /\ queue' # <<>>
        /\ Len(queue) \in Nat
    <2>1. Null \in Blocks \cup {Null}
      OBVIOUS
    <2>2. queue \in Seq(Blocks \cup {Null}) /\ queue' = Append(queue, Null)
      BY DEF PushNull, TypeOK
    <2> QED
      BY <2>1, <2>2, AppendIs
  <1>4. \A i \in 1 .. Len(queue) : queue[i] # Null
    BY <1>2 DEF PlacesAgree
  <1>5. StatesQueued = Len(queue) /\ StatesQueued' = Len(queue)
    <2>1. StatesQueued' = Len(queue') - 1
      BY <1>3 DEF StatesQueued, One
    <2> QED
      BY <1>3, <1>4, <2>1, QueuedCount
  <1>6. TypeOK'
    BY <1>1, <1>2, <1>3 DEF TypeOK, AppPlaces
  <1>7. PlacesAgree'
    BY <1>1, <1>2, <1>3, <1>4 DEF PlacesAgree
  <1>8. OneOwner'
    <2>1. \A i \in 1 .. Len(queue') : i \in 1 .. Len(queue) \/ i = Len(queue')
      BY <1>3
    <2>2. \A i \in 1 .. Len(pool) : pool[i] # Null
      BY Elements
    <2>3. \A i, j \in 1 .. Len(queue') : i # j => queue'[i] # queue'[j]
      BY <1>3, <1>4, <2>1 DEF OneOwner
    <2>4. \A i \in 1 .. Len(pool) : \A j \in 1 .. Len(queue') : pool[i] # queue'[j]
      BY <1>3, <2>1, <2>2 DEF OneOwner
    <2>5. \A i \in 1 .. Len(queue') :
            queue'[i] # Null => queue'[i] # held /\ queue'[i] # rendering
      BY <1>3, <2>1 DEF OneOwner
    <2> QED
      BY <1>1, <2>3, <2>4, <2>5 DEF OneOwner
  <1>9. NoneLost'
    BY <1>1, <1>5 DEF NoneLost
  <1>10. Backlog'
    <2>1. Outstanding' = Outstanding
      BY <1>1, <1>2, <1>5 DEF Outstanding
    <2>2. \A i \in 1 .. StatesQueued' : queue'[i] = queue[i]
      BY <1>3, <1>5
    <2> QED
      BY <1>1, <1>2, <1>5, <2>1, <2>2 DEF Backlog
  <1> QED
    BY <1>6, <1>7, <1>8, <1>9, <1>10

LEMMA PopStep ==
  ASSUME IInv, PopState
  PROVE  IInv'
  <1> USE DEF IInv
  <1>1. UNCHANGED <<state, held, apc, block, pool, waiting_exit, issued, synced, core, executed>>
    BY DEF PopState, appVars
  <1>2. /\ rendering' = queue[1]
        /\ rendering' \in Blocks \cup {Null}
        /\ queue' \in Seq(Blocks \cup {Null})
        /\ Len(queue') = Len(queue) - 1
        /\ \A i \in 1 .. Len(queue') : queue'[i] = queue[i + 1]
        /\ Len(queue) \in Nat \ {0}
    <2>1. /\ queue \in Seq(Blocks \cup {Null}) /\ queue # <<>>
          /\ queue' = Tail(queue) /\ rendering' = Head(queue)
      BY DEF PopState, TypeOK
    <2>2. /\ Head(queue) = queue[1] /\ Head(queue) \in Blocks \cup {Null}
          /\ Tail(queue) \in Seq(Blocks \cup {Null})
          /\ Len(Tail(queue)) = Len(queue) - 1
          /\ \A i \in 1 .. Len(queue) - 1 : Tail(queue)[i] = queue[i + 1]
          /\ Len(queue) \in Nat \ {0}
      BY ONLY <2>1, TailIs
    <2> QED
      BY ONLY <2>1, <2>2, SMTT(30)
  <1>3. /\ rpc = "pop" /\ rendering = Null
        /\ rendering' = Null => rpc' = "test"
        /\ rendering' # Null => rpc' = "update"
        /\ queue # <<>>
    BY <1>2, TailIs DEF PopState, PlacesAgree, TypeOK
  <1>4. TypeOK'
    BY <1>1, <1>2, <1>3 DEF TypeOK, RenderPlaces
  <1>5. PlacesAgree'
    BY <1>1, <1>2, <1>3 DEF PlacesAgree
  <1>6. OneOwner'
    <2>1. \A i \in 1 .. Len(queue') : i + 1 \in 1 .. Len(queue) /\ i + 1 # 1
      BY <1>2
    <2>2. 1 \in 1 .. Len(queue)
      BY <1>2
    <2>3. \A i, j \in 1 .. Len(queue') : i # j => queue'[i] # queue'[j]
      <3>1. \A i, j \in 1 .. Len(queue') : i # j => queue[i + 1] # queue[j + 1]
        BY <2>1 DEF OneOwner
      <3> QED
        BY <1>2, <3>1
    <2>4. \A i \in 1 .. Len(pool) : pool[i] # rendering'
      BY <1>2, <2>2 DEF OneOwner
    <2>5. \A i \in 1 .. Len(queue') : queue'[i] # rendering'
      BY <1>2, <2>1, <2>2 DEF OneOwner
    <2>6. held # Null => held # rendering'
      BY <1>2, <1>3, <2>2 DEF OneOwner
    <2> QED
      BY <1>1, <1>2, <2>1, <2>3, <2>4, <2>5, <2>6 DEF OneOwner
  <1>7. /\ rendering' = Null => StatesQueued = 0 /\ StatesQueued' = 0
        /\ rendering' # Null => StatesQueued = StatesQueued' + 1
        /\ StatesQueued' \in 0 .. Len(queue')
    <2>1. CASE rendering' = Null
      <3>1. Len(queue) = 1
        <4>1. 1 \in 1 .. Len(queue)
          BY <1>2
        <4> QED
          BY <1>2, <2>1, <4>1 DEF PlacesAgree
      <3>2. queue' = <<>>
        BY <1>2, <3>1, EmptySeq
      <3>3. StatesQueued = 0
        <4>1. queue[Len(queue)] = Null
          BY <1>2, <2>1, <3>1
        <4> QED
          BY <1>3, <3>1, <4>1, QueuedCount
      <3>4. StatesQueued' = Len(queue')
        BY <3>2 DEF StatesQueued, One
      <3> QED
        BY <1>2, <2>1, <3>1, <3>3, <3>4
    <2>2. CASE rendering' # Null /\ queue' = <<>>
      <3>1. Len(queue) = 1
        BY <1>2, <2>2, EmptySeq
      <3>2. StatesQueued = 1
        BY <1>2, <1>3, <2>2, <3>1, QueuedCount
      <3>3. StatesQueued' = Len(queue')
        BY <2>2 DEF StatesQueued, One
      <3> QED
        BY <1>2, <2>2, <3>1, <3>2, <3>3
    <2>3. CASE rendering' # Null /\ queue' # <<>>
      <3>1. Len(queue') \in Nat \ {0}
        BY <1>2, <2>3, EmptySeq
      <3>2. queue'[Len(queue')] = queue[Len(queue)]
        BY <1>2, <3>1
      <3>3. CASE queue[Len(queue)] = Null
        <4>1. StatesQueued = Len(queue) - 1
          BY <1>3, <3>3, QueuedCount
        <4>2. StatesQueued' = Len(queue') - 1
          BY <2>3, <3>2, <3>3 DEF StatesQueued, One
        <4> QED
          BY <1>2, <2>3, <3>1, <4>1, <4>2
      <3>4. CASE queue[Len(queue)] # Null
        <4>1. StatesQueued = Len(queue)
          BY <1>3, <3>4, QueuedCount
        <4>2. StatesQueued' = Len(queue')
          BY <1>2, <2>3, <3>2, <3>4 DEF StatesQueued, One
        <4> QED
          BY <1>2, <2>3, <3>1, <4>1, <4>2
      <3> QED
        BY <3>3, <3>4
    <2> QED
      BY <2>1, <2>2, <2>3
  <1>8. NoneLost'
    <2>1. Len(pool) \in Nat /\ One(held # Null) \in Nat
      BY DEF TypeOK, One
    <2>2. Len(pool) + StatesQueued + One(held # Null) = QUEUE_SIZE
      BY <1>3, <1>7, <2>1 DEF NoneLost, One
    <2>3. StatesQueued = StatesQueued' + One(rendering' # Null)
      BY <1>2, <1>7 DEF One
    <2> QED
      BY <1>1, <1>2, <1>7, <2>1, <2>2, <2>3 DEF NoneLost, One
  <1>9. Backlog'
    <2>1. Len(executed) \in Nat /\ Len(queue') \in Nat
      BY <1>2 DEF TypeOK
    <2>2. Outstanding' = Outstanding
      BY <1>1, <1>2, <1>3, <1>7, <2>1 DEF Outstanding, One
    <2>3. CASE rendering' = Null
      BY <1>1, <1>3, <1>7, <2>2, <2>3 DEF Backlog
    <2>4. CASE rendering' # Null
      <3>1. \A i \in 1 .. StatesQueued :
              /\ block[queue[i]].cmd \in Commands
              /\ Effect(block[queue[i]]) = issued[Len(executed) + i]
        BY <1>3, <2>1 DEF Backlog, One
      <3>2. /\ 1 \in 1 .. StatesQueued
            /\ \A i \in 1 .. StatesQueued' : i \in 1 .. Len(queue') /\ i + 1 \in 1 .. StatesQueued
        <4>1. StatesQueued = StatesQueued' + 1 /\ StatesQueued' \in 0 .. Len(queue')
          BY <1>7, <2>4
        <4> QED
          BY <2>1, <4>1, Shifted
      <3>3. /\ block[rendering'].cmd \in Commands
            /\ Effect(block[rendering']) = issued[Len(executed) + 1]
        BY <1>2, <3>1, <3>2
      <3>4. \A i \in 1 .. StatesQueued' :
              /\ block[queue'[i]].cmd \in Commands
              /\ Effect(block[queue'[i]]) = issued[Len(executed) + 1 + i]
        <4>1. \A i \in 1 .. StatesQueued' : Len(executed) + 1 + i = Len(executed) + (i + 1)
          BY <2>1, <3>2
        <4>2. \A i \in 1 .. StatesQueued' :
                /\ block[queue[i + 1]].cmd \in Commands
                /\ Effect(block[queue[i + 1]]) = issued[Len(executed) + (i + 1)]
          BY <3>1, <3>2
        <4> QED
          BY <1>2, <3>2, <4>1, <4>2
      <3> QED
        BY <1>1, <1>3, <2>2, <2>4, <3>3, <3>4 DEF Backlog, One
    <2> QED
      BY <2>3, <2>4
  <1> QED
    BY <1>4, <1>5, <1>6, <1>8, <1>9

LEMMA ExecuteStep ==
  ASSUME IInv, Execute
  PROVE  IInv'
  <1> USE DEF IInv
  <1>1. UNCHANGED <<state, held, apc, block, pool, queue, waiting_exit, issued, synced, core, rendering>>
    BY DEF Execute, appVars
  <1>2. rpc = "execute" /\ rpc' = "free" /\ core = rendering /\ rendering \in Blocks
    BY DEF Execute, PlacesAgree, TypeOK
  <1>3. Effect(block[core]) \in Effects /\ Effect(block[core]) = issued[Len(executed) + 1]
    BY <1>2, EffectType DEF Backlog, TypeOK
  <1>4. /\ executed' \in Seq(Effects)
        /\ Len(executed') = Len(executed) + 1
        /\ \A i \in 1 .. Len(executed) : executed'[i] = executed[i]
        /\ executed'[Len(executed')] = Effect(block[core])
        /\ Len(executed) \in Nat
    BY <1>3, AppendIs DEF Execute, TypeOK
  <1>5. TypeOK'
    BY <1>1, <1>2, <1>4 DEF TypeOK, RenderPlaces
  <1>6. PlacesAgree' /\ OneOwner' /\ NoneLost'
    BY <1>1, <1>2 DEF PlacesAgree, OneOwner, NoneLost, StatesQueued
  <1>7. Backlog'
    <2>1. StatesQueued' = StatesQueued /\ StatesQueued \in Nat
      BY <1>1, QueuedCount DEF StatesQueued
    <2>2. Outstanding' = Outstanding - 1 /\ Outstanding \in Nat
      BY <1>1, <1>2, <2>1 DEF Outstanding, One
    <2>3. \A i \in 1 .. Len(executed') : executed'[i] = issued[i]
      BY <1>3, <1>4 DEF Backlog
    <2> QED
      <3>1. Len(issued') = Len(executed') + Outstanding'
        BY <1>1, <1>4, <2>2 DEF Backlog
      <3>2. \A i \in 1 .. StatesQueued :
              /\ block[queue[i]].cmd \in Commands
              /\ Effect(block[queue[i]]) = issued[Len(executed') + i]
        BY <1>2, <1>4, <2>1 DEF Backlog, One
      <3>3. One(rpc' \in {"update", "execute"}) = 0 /\ \A i \in 1 .. StatesQueued : Len(executed') + 0 + i = Len(executed') + i
        BY <1>2, <1>4, <2>1 DEF One
      <3> QED
        BY <1>1, <1>2, <2>1, <2>3, <3>1, <3>2, <3>3 DEF Backlog
  <1> QED
    BY <1>5, <1>6, <1>7

LEMMA FreeStep ==
  ASSUME IInv, FreeRenderState
  PROVE  IInv'
  <1> USE DEF IInv
  <1>1. UNCHANGED <<state, held, apc, block, queue, waiting_exit, issued, synced, core, executed>>
    BY DEF FreeRenderState, appVars
  <1>2. /\ rpc = "free" /\ rpc' = "test"
        /\ rendering \in Blocks /\ rendering # Null /\ rendering' = Null
    BY DEF FreeRenderState, PlacesAgree, TypeOK
  <1>3. /\ pool' \in Seq(Blocks)
        /\ Len(pool') = Len(pool) + 1
        /\ \A i \in 1 .. Len(pool) : pool'[i] = pool[i]
        /\ pool'[Len(pool')] = rendering
        /\ Len(pool) \in Nat
    BY <1>2, AppendIs DEF FreeRenderState, TypeOK
  <1>4. TypeOK'
    BY <1>1, <1>2, <1>3 DEF TypeOK, RenderPlaces
  <1>5. PlacesAgree'
    BY <1>1, <1>2 DEF PlacesAgree
  <1>6. OneOwner'
    <2>1. \A i \in 1 .. Len(pool') : i \in 1 .. Len(pool) \/ i = Len(pool')
      BY <1>3
    <2>2. \A i \in 1 .. Len(pool) : pool[i] # Null
      BY Elements
    <2>3. \A i, j \in 1 .. Len(pool') : i # j => pool'[i] # pool'[j]
      BY <1>3, <2>1 DEF OneOwner
    <2>4. \A i \in 1 .. Len(pool') : \A j \in 1 .. Len(queue) : pool'[i] # queue[j]
      BY <1>2, <1>3, <2>1 DEF OneOwner
    <2>5. \A i \in 1 .. Len(pool') : pool'[i] # held /\ pool'[i] # Null
      BY <1>2, <1>3, <2>1, <2>2 DEF OneOwner
    <2> QED
      BY <1>1, <1>2, <2>3, <2>4, <2>5 DEF OneOwner
  <1>7. StatesQueued' = StatesQueued /\ StatesQueued \in Nat
    BY <1>1, QueuedCount DEF StatesQueued
  <1>8. NoneLost'
    BY <1>1, <1>2, <1>3, <1>7 DEF NoneLost, One
  <1>9. Backlog'
    BY <1>1, <1>2, <1>7 DEF Backlog, Outstanding
  <1> QED
    BY <1>4, <1>5, <1>6, <1>8, <1>9

(* IInv is inductive: one lemma per step above.                            *)
LEMMA NextIInv == IInv /\ [Next]_vars => IInv'
  BY QuietSteps, CallStep, AllocStep, CopyStep, PushStateStep, PushNullStep, PopStep,
     ExecuteStep, FreeStep, SizeAssumption DEF Next, Commit, Destroy, DoRendering

THEOREM AsyncInvariant == Spec => []IInv
  BY InitIInv, NextIInv, PTL DEF Spec

(* Every variable keeps its type.                                          *)
THEOREM AsyncTypeOK == Spec => []TypeOK
  BY AsyncInvariant, PTL DEF IInv

(* A render state is never in two places at once.                          *)
THEOREM AsyncOneOwner == Spec => []OneOwner
  BY AsyncInvariant, PTL DEF IInv

(* No render state is ever lost.                                           *)
THEOREM AsyncNoneLost == Spec => []NoneLost
  BY AsyncInvariant, PTL DEF IInv

(* The outstanding commands are in order and unchanged.                    *)
THEOREM AsyncBacklog == Spec => []Backlog
  BY AsyncInvariant, PTL DEF IInv

(* commit_state_and_command never waits for room in the queue.             *)
THEOREM AsyncCommitNeverWaits == Spec => []CommitNeverWaitsOnQueue
  <1>1. IInv => CommitNeverWaitsOnQueue
    <2> SUFFICES ASSUME IInv, apc = "push" PROVE Len(queue) < QUEUE_SIZE
      BY DEF CommitNeverWaitsOnQueue
    <2>1. held # Null /\ \A i \in 1 .. Len(queue) : queue[i] # Null
      BY DEF IInv, PlacesAgree
    <2>2. StatesQueued = Len(queue) /\ Len(queue) \in Nat
      BY <2>1, QueuedCount DEF IInv
    <2>3. Len(pool) \in Nat /\ One(rendering # Null) \in Nat /\ One(held # Null) = 1
      BY <2>1 DEF IInv, TypeOK, One
    <2> QED
      BY <2>2, <2>3, SizeAssumption DEF IInv, NoneLost
  <1> QED
    BY <1>1, AsyncInvariant, PTL

(* The threads wait for each other only in release, with every block       *)
(* queued and the render thread gone.                                      *)
THEOREM AsyncOnlyReleaseDeadlocks == Spec => []OnlyReleaseDeadlocks
  <1>1. IInv => OnlyReleaseDeadlocks
    <2> SUFFICES ASSUME IInv, AppBlocked, RenderBlocked
                 PROVE  apc = "push_null" /\ rpc = "exited" /\ pool = <<>>
      BY DEF OnlyReleaseDeadlocks
    <2> USE DEF IInv
    <2>1. /\ Len(pool) \in Nat /\ Len(queue) \in Nat
          /\ rendering = Null /\ One(rendering # Null) = 0
      BY DEF TypeOK, RenderBlocked, PlacesAgree, One
    <2>2. CASE rpc = "pop" /\ queue = <<>>
      <3>1. Len(queue) = 0 /\ StatesQueued = 0
        BY <2>2, QueuedCount, EmptySeq
      <3>2. CASE apc = "alloc" /\ pool = <<>>
        <4>1. Len(pool) = 0 /\ held = Null
          BY <3>2, EmptySeq DEF PlacesAgree
        <4> QED
          BY <2>1, <3>1, <4>1, SizeAssumption DEF NoneLost, One
      <3>3. CASE apc \in {"push", "push_null"} /\ Len(queue) = QUEUE_SIZE
        BY <3>1, <3>3, SizeAssumption
      <3>4. CASE apc = "flush" /\ Len(pool) # QUEUE_SIZE
        <4>1. held = Null
          BY <3>4 DEF PlacesAgree
        <4> QED
          BY <2>1, <3>1, <3>4, <4>1 DEF NoneLost, One
      <3>5. CASE apc = "join" /\ rpc # "exited"
        BY <2>2, <3>5 DEF PlacesAgree
      <3> QED
        BY <3>2, <3>3, <3>4, <3>5 DEF AppBlocked
    <2>3. CASE rpc = "exited"
      <3>1. apc = "push_null" /\ Len(queue) = QUEUE_SIZE
        BY <2>3 DEF PlacesAgree, AppBlocked
      <3>2. held = Null /\ \A i \in 1 .. Len(queue) : queue[i] # Null
        BY <3>1 DEF PlacesAgree
      <3>3. StatesQueued = QUEUE_SIZE
        BY <2>1, <3>1, <3>2, SizeAssumption, QueuedCount
      <3>4. Len(pool) = 0
        BY <2>1, <3>2, <3>3, SizeAssumption DEF NoneLost, One
      <3>5. pool = <<>>
        BY <3>4, EmptySeq DEF TypeOK
      <3> QED
        BY <2>3, <3>1, <3>5
    <2> QED
      BY <2>2, <2>3 DEF RenderBlocked
  <1> QED
    BY <1>1, AsyncInvariant, PTL
-----------------------------------------------------------------------------
(* Only Copy writes a render state, and the application holds it then.     *)
THEOREM AsyncSnapshotsAreFrozen == Spec => SnapshotsAreFrozen
  <1> DEFINE Frozen ==
        /\ rendering # Null => block'[rendering] = block[rendering]
        /\ \A i \in 1 .. Len(queue) :
             queue[i] # Null => block'[queue[i]] = block[queue[i]]
  <1>1. IInv /\ [Next]_vars => [Frozen]_vars
    <2> SUFFICES ASSUME IInv, [Next]_vars PROVE Frozen
      OBVIOUS
    <2>1. CASE Copy
      <3>1. \A b \in Blocks : b # held => block'[b] = block[b]
        BY <2>1 DEF Copy, IInv, TypeOK
      <3>2. rendering # Null => rendering \in Blocks /\ rendering # held
        BY <2>1 DEF Copy, IInv, TypeOK, PlacesAgree, OneOwner
      <3>3. \A i \in 1 .. Len(queue) :
              queue[i] # Null => queue[i] \in Blocks /\ queue[i] # held
        BY Elements DEF IInv, OneOwner
      <3> QED
        BY <3>1, <3>2, <3>3
    <2>2. CASE ~Copy
      <3>1. block' = block
        BY <2>2 DEF Next, Set, Call, Commit, AllocRenderState, PushState, FlushCall, FlushReturn,
           Release, Destroy, PushNull, Join, DoRendering, TestExit, PopState, Update, Execute,
           FreeRenderState, vars
      <3> QED
        BY <3>1
    <2> QED
      BY <2>1, <2>2
  <1> QED
    BY <1>1, AsyncInvariant, PTL DEF Spec, SnapshotsAreFrozen

(* Every step of the renderer is a step of CommandStream or changes none   *)
(* of its variables.                                                       *)
THEOREM AsyncImplementsStream == Spec => ImplementsStream
  <1> USE DEF Stream!StreamInit, Stream!StreamNext, Stream!streamVars
  <1>1. Init => Stream!StreamInit
    BY DEF Init
  <1>2. IInv /\ [Next]_vars => [Stream!StreamNext]_(Stream!streamVars)
    <2> SUFFICES ASSUME IInv, [Next]_vars
                 PROVE  Stream!StreamNext \/ UNCHANGED Stream!streamVars
      OBVIOUS
    <2>1. ASSUME NEW c \in Commands, NEW v \in Values, Call(c, v)
          PROVE  Stream!StreamNext
      <3>1. state' \in States /\ state'.cmd \in Commands
        BY <2>1, SettersType DEF Call, IInv, TypeOK
      <3>2. Effect(state') \in Effects
        BY <3>1, EffectType
      <3>3. Stream!Issue(Effect(state'))
        BY <2>1 DEF Call, renderVars, Stream!Issue
      <3> QED
        BY <3>2, <3>3
    <2>2. CASE Execute
      <3>1. Len(executed) < Len(issued)
        <4>1. Len(executed) \in Nat /\ StatesQueued \in Nat /\ One(rpc \in {"update", "execute"}) = 1
              /\ One(apc \in {"alloc", "copy", "push"}) \in Nat
          BY <2>2, QueuedCount DEF IInv, TypeOK, Execute, One
        <4> QED
          BY <4>1 DEF IInv, Backlog, Outstanding
      <3>2. Effect(block[core]) = issued[Len(executed) + 1]
        BY <2>2 DEF Execute, IInv, PlacesAgree, Backlog
      <3>3. Stream!Complete
        BY <2>2, <3>1, <3>2 DEF Execute, appVars, Stream!Complete
      <3> QED
        BY <3>3
    <2>3. CASE FlushReturn
      <3>1. Len(pool) = QUEUE_SIZE /\ apc = "flush" /\ held = Null
        BY <2>3 DEF FlushReturn, IInv, PlacesAgree
      <3>2. StatesQueued = 0 /\ rendering = Null
        <4>1. StatesQueued \in Nat /\ One(rendering # Null) \in Nat /\ One(held # Null) = 0
          BY <3>1, QueuedCount DEF IInv, One
        <4> QED
          BY <3>1, <4>1, SizeAssumption DEF IInv, NoneLost, One
      <3>3. Outstanding = 0
        BY <3>1, <3>2 DEF IInv, PlacesAgree, Outstanding, One
      <3>4. Len(executed) = Len(issued) /\ \A i \in 1 .. Len(executed) : executed[i] = issued[i]
        BY <3>3 DEF IInv, Backlog, TypeOK
      <3>5. executed = issued
        BY <3>4, SeqEqual DEF IInv, TypeOK
      <3>6. Stream!Flushed
        BY <2>3, <3>5 DEF FlushReturn, renderVars, Stream!Flushed
      <3> QED
        BY <3>6
    <2>4. ASSUME NEW v \in Values, Set(v)
          PROVE  UNCHANGED Stream!streamVars
      BY <2>4 DEF Set, renderVars
    <2>5. CASE \/ AllocRenderState \/ Copy \/ PushState \/ FlushCall \/ Release \/ PushNull \/ Join
               \/ TestExit \/ PopState \/ Update \/ FreeRenderState \/ UNCHANGED vars
      BY <2>5 DEF AllocRenderState, Copy, PushState, FlushCall, Release, PushNull, Join, TestExit,
         PopState, Update, FreeRenderState, vars, appVars, renderVars
    <2> QED
      BY <2>1, <2>2, <2>3, <2>4, <2>5, SizeAssumption DEF Next, Commit, Destroy, DoRendering
  <1> QED
    BY <1>1, <1>2, AsyncInvariant, PTL DEF Spec, ImplementsStream, Stream!StreamSpec
=============================================================================
