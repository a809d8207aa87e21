---------------------------- MODULE AsyncRenderer ----------------------------
(***************************************************************************)
(* class async_renderer: an application thread that records commands and a *)
(* render thread that executes them.  A command is recorded by taking a    *)
(* block from the pool of render states, copying into it what the command  *)
(* needs of the application's own block, and pushing it on the bounded     *)
(* queue; the render thread pops it, executes it and puts it back.         *)
(*                                                                         *)
(* One step is one critical section of state_pool_mutex_ or of the queue's *)
(* mutex, or the work a thread does between two of them on a block that    *)
(* only it holds.  The queue is the one BoundedBuffer.tla details.         *)
(***************************************************************************)
EXTENDS Naturals, Sequences, RenderState

CONSTANTS QUEUE_SIZE,   (* ASYNC_RENDER_QUEUE_SIZE and MAX_COMMAND_QUEUE   *)
          Calls,        (* the kinds of command the application issues     *)
          MaxCommands   (* bound on the commands of a run                  *)

ASSUME SizeAssumption ==
  /\ QUEUE_SIZE \in Nat \ {0}
  /\ MaxCommands \in Nat
  /\ Calls \subseteq Commands

Blocks == 1 .. QUEUE_SIZE     (* the render states the constructor creates *)
Null == 0                     (* the empty pointer that ends the thread    *)

VARIABLES
  state,         (* state_: the block the application writes               *)
  block,         (* the contents of the pooled render states               *)
  pool,          (* state_pool_: a stack                                   *)
  queue,         (* the unread part of state_queue_, oldest first          *)
  held,          (* dest_state of commit_state_and_command                 *)
  rendering,     (* rendering_state of do_rendering                        *)
  core,          (* core_.state_, which outlives the command               *)
  waiting_exit,  (* waiting_exit_                                          *)
  apc,           (* where the application thread is                        *)
  rpc,           (* where the render thread is                             *)
  issued, executed, synced   (* history, the variables of CommandStream    *)

appVars == <<state, held, apc, waiting_exit, issued, synced>>
renderVars == <<rendering, core, rpc, executed>>
vars == <<appVars, renderVars, block, pool, queue>>

Init ==
  /\ state = NewState
  /\ block = [b \in Blocks |-> NewState]
  /\ pool = [i \in 1 .. QUEUE_SIZE |-> i]
  /\ queue = <<>>
  /\ held = Null
  /\ rendering = Null
  /\ core = Null
  /\ waiting_exit = FALSE
  /\ apc = "idle"
  /\ rpc = "test"
  /\ issued = <<>>
  /\ executed = <<>>
  /\ synced = 0
-----------------------------------------------------------------------------
(* The application thread.                                                 *)

(* set_vertex_buffers, set_pixel_shader, set_render_targets, ...           *)
Set(v) ==
  /\ apc = "idle"
  /\ state' = SetTo(state, v)
  /\ UNCHANGED <<held, apc, waiting_exit, issued, synced, renderVars, block, pool, queue>>

(* draw, draw_index, clear_color, clear_depth_stencil, begin, end: up to   *)
(* the call of commit_state_and_command.                                   *)
Call(c, v) ==
  /\ apc = "idle"
  /\ Len(issued) < MaxCommands
  /\ state' = Called(state, c, v)
  /\ issued' = Append(issued, Effect(state'))
  /\ apc' = "alloc"
  /\ UNCHANGED <<held, waiting_exit, synced, renderVars, block, pool, queue>>

(* A slip: back() without pop_back().                                      *)
AllocRenderStateNoPop ==
  /\ apc = "alloc"
  /\ pool # <<>>
  /\ held' = pool[Len(pool)]
  /\ apc' = "copy"
  /\ UNCHANGED <<state, waiting_exit, issued, synced, renderVars, block, pool, queue>>

(* alloc_render_state: spins until the pool has a block.                   *)
AllocRenderState ==
  /\ apc = "alloc"
  /\ pool # <<>>
  /\ held' = pool[Len(pool)]
  /\ pool' = SubSeq(pool, 1, Len(pool) - 1)
  /\ apc' = "copy"
  /\ UNCHANGED <<state, waiting_exit, issued, synced, renderVars, block, queue>>

Copy ==
  /\ apc = "copy"
  /\ block' = [block EXCEPT ![held] = CopyUsingState(@, state)]
  /\ apc' = "push"
  /\ UNCHANGED <<state, held, waiting_exit, issued, synced, renderVars, pool, queue>>

PushState ==
  /\ apc = "push"
  /\ Len(queue) < QUEUE_SIZE
  /\ queue' = Append(queue, held)
  /\ held' = Null
  /\ apc' = "idle"
  /\ UNCHANGED <<state, waiting_exit, issued, synced, renderVars, block, pool>>

FlushCall ==
  /\ apc = "idle"
  /\ apc' = "flush"
  /\ UNCHANGED <<state, held, waiting_exit, issued, synced, renderVars, block, pool, queue>>

(* A slip: waiting for the queue to drain instead of the pool to fill.     *)
FlushReturnOnEmptyQueue ==
  /\ apc = "flush"
  /\ queue = <<>>
  /\ synced' = Len(issued)
  /\ apc' = "idle"
  /\ UNCHANGED <<state, held, waiting_exit, issued, renderVars, block, pool, queue>>

(* flush: spins until every block is back in the pool.                     *)
FlushReturn ==
  /\ apc = "flush"
  /\ Len(pool) = QUEUE_SIZE
  /\ synced' = Len(issued)
  /\ apc' = "idle"
  /\ UNCHANGED <<state, held, waiting_exit, issued, renderVars, block, pool, queue>>

(* release, called by the destructor.                                      *)
Release ==
  /\ apc = "idle"
  /\ waiting_exit' = TRUE
  /\ apc' = "push_null"
  /\ UNCHANGED <<state, held, issued, synced, renderVars, block, pool, queue>>

(* A slip: joining without waking the render thread.                       *)
PushNullForgotten ==
  /\ apc = "push_null"
  /\ apc' = "join"
  /\ UNCHANGED <<state, held, waiting_exit, issued, synced, renderVars, block, pool, queue>>

PushNull ==
  /\ apc = "push_null"
  /\ Len(queue) < QUEUE_SIZE
  /\ queue' = Append(queue, Null)
  /\ apc' = "join"
  /\ UNCHANGED <<state, held, waiting_exit, issued, synced, renderVars, block, pool>>

Join ==
  /\ apc = "join"
  /\ rpc = "exited"
  /\ apc' = "gone"
  /\ UNCHANGED <<state, held, waiting_exit, issued, synced, renderVars, block, pool, queue>>
-----------------------------------------------------------------------------
(* The render thread: do_rendering.                                        *)

TestExit ==
  /\ rpc = "test"
  /\ rpc' = IF waiting_exit THEN "exited" ELSE "pop"
  /\ UNCHANGED <<appVars, rendering, core, executed, block, pool, queue>>

PopState ==
  /\ rpc = "pop"
  /\ queue # <<>>
  /\ rendering' = Head(queue)
  /\ queue' = Tail(queue)
  /\ rpc' = IF Head(queue) = Null THEN "test" ELSE "update"
  /\ UNCHANGED <<appVars, core, executed, block, pool>>

(* A slip: the block goes back to the pool before it is executed.          *)
UpdateAndFree ==
  /\ rpc = "update"
  /\ core' = rendering
  /\ rpc' = "execute"
  /\ pool' = Append(pool, rendering)
  /\ UNCHANGED <<appVars, rendering, executed, block, queue>>

Update ==
  /\ rpc = "update"
  /\ core' = rendering
  /\ rpc' = "execute"
  /\ UNCHANGED <<appVars, rendering, executed, block, pool, queue>>

Execute ==
  /\ rpc = "execute"
  /\ executed' = Append(executed, Effect(block[core]))
  /\ rpc' = "free"
  /\ UNCHANGED <<appVars, rendering, core, block, pool, queue>>

(* Slips: the block is not put back; the pointer is reset before the block *)
(* is put back.                                                            *)
FreeRenderStateLeaks ==
  /\ rpc = "free"
  /\ rendering' = Null
  /\ rpc' = "test"
  /\ UNCHANGED <<appVars, core, executed, block, pool, queue>>

FreeRenderStateAfterReset ==
  /\ rpc = "free"
  /\ rendering' = Null
  /\ pool' = Append(pool, Null)
  /\ rpc' = "test"
  /\ UNCHANGED <<appVars, core, executed, block, queue>>

FreeRenderState ==
  /\ rpc = "free"
  /\ pool' = Append(pool, rendering)
  /\ rendering' = Null
  /\ rpc' = "test"
  /\ UNCHANGED <<appVars, core, executed, block, queue>>
-----------------------------------------------------------------------------
Commit == AllocRenderState \/ Copy \/ PushState
Destroy == PushNull \/ Join
DoRendering == TestExit \/ PopState \/ Update \/ Execute \/ FreeRenderState

Next ==
  \/ \E v \in Values : Set(v)
  \/ \E c \in Calls, v \in Values : Call(c, v)
  \/ Commit
  \/ FlushCall
  \/ FlushReturn
  \/ Release
  \/ Destroy
  \/ DoRendering

Spec == Init /\ [][Next]_vars

(* A thread that is not blocked runs on; whether the application calls     *)
(* anything is its own choice.                                             *)
Fairness ==
  /\ WF_vars(Commit)
  /\ WF_vars(FlushReturn)
  /\ WF_vars(Destroy)
  /\ WF_vars(DoRendering)

FairSpec == Spec /\ Fairness
-----------------------------------------------------------------------------
AppPlaces == {"idle", "alloc", "copy", "push", "flush", "push_null", "join", "gone"}
RenderPlaces == {"test", "pop", "update", "execute", "free", "exited"}

(* Every variable has its type.                                            *)
TypeOK ==
  /\ state \in States
  /\ block \in [Blocks -> States]
  /\ pool \in Seq(Blocks)
  /\ queue \in Seq(Blocks \cup {Null})
  /\ held \in Blocks \cup {Null}
  /\ rendering \in Blocks \cup {Null}
  /\ core \in Blocks \cup {Null}
  /\ waiting_exit \in BOOLEAN
  /\ apc \in AppPlaces
  /\ rpc \in RenderPlaces
  /\ issued \in Seq(Effects)
  /\ executed \in Seq(Effects)
  /\ synced \in Nat

(* What the structure of the two threads says of their places.             *)
PlacesAgree ==
  /\ held # Null <=> apc \in {"copy", "push"}
  /\ rendering # Null <=> rpc \in {"update", "execute", "free"}
  /\ rpc \in {"execute", "free"} => core = rendering
  /\ waiting_exit <=> apc \in {"push_null", "join", "gone"}
  /\ rpc = "exited" => waiting_exit
  /\ \A i \in 1 .. Len(queue) :
       queue[i] = Null => i = Len(queue) /\ apc \in {"join", "gone"}
  /\ apc \in {"join", "gone"} /\ rpc = "pop" =>
       queue # <<>> /\ queue[Len(queue)] = Null

(* A render state is in one place: in the pool, in the queue, with the     *)
(* application or with the render thread.  Two owners would let the        *)
(* application overwrite a command that is queued or being executed.       *)
OneOwner ==
  /\ \A i, j \in 1 .. Len(pool) : i # j => pool[i] # pool[j]
  /\ \A i, j \in 1 .. Len(queue) : i # j => queue[i] # queue[j]
  /\ \A i \in 1 .. Len(pool) : \A j \in 1 .. Len(queue) : pool[i] # queue[j]
  /\ \A i \in 1 .. Len(pool) : pool[i] # held /\ pool[i] # rendering
  /\ \A i \in 1 .. Len(queue) :
       queue[i] # Null => queue[i] # held /\ queue[i] # rendering
  /\ held # Null => held # rendering

One(p) == IF p THEN 1 ELSE 0

StatesQueued ==
  Len(queue) - One(queue # <<>> /\ queue[Len(queue)] = Null)

(* No render state is ever lost, so flush, which counts the pool, can      *)
(* tell an idle renderer from a busy one.                                  *)
NoneLost ==
  Len(pool) + StatesQueued + One(held # Null) + One(rendering # Null) = QUEUE_SIZE

Outstanding ==
  One(rpc \in {"update", "execute"}) + StatesQueued + One(apc \in {"alloc", "copy", "push"})

(* The outstanding commands are, in the order of the calls, the one being  *)
(* executed, those queued and the one being recorded, and each of them     *)
(* still describes the state its call was made under.                      *)
Backlog ==
  /\ Len(issued) = Len(executed) + Outstanding
  /\ \A i \in 1 .. Len(executed) : executed[i] = issued[i]
  /\ rpc \in {"update", "execute"} =>
       /\ block[rendering].cmd \in Commands
       /\ Effect(block[rendering]) = issued[Len(executed) + 1]
  /\ \A i \in 1 .. StatesQueued :
       /\ block[queue[i]].cmd \in Commands
       /\ Effect(block[queue[i]]) =
            issued[Len(executed) + One(rpc \in {"update", "execute"}) + i]
  /\ apc = "push" =>
       /\ block[held].cmd \in Commands
       /\ Effect(block[held]) = issued[Len(issued)]
  /\ apc \in {"alloc", "copy"} =>
       /\ state.cmd \in Commands
       /\ Effect(state) = issued[Len(issued)]

(* The inductive invariant.                                                *)
IInv == TypeOK /\ PlacesAgree /\ OneOwner /\ NoneLost /\ Backlog

(* Recording a command never waits for room in the queue: the pool, not    *)
(* the queue, is what holds the application back.                          *)
CommitNeverWaitsOnQueue == apc = "push" => Len(queue) < QUEUE_SIZE

AppBlocked ==
  \/ apc = "alloc" /\ pool = <<>>
  \/ apc \in {"push", "push_null"} /\ Len(queue) = QUEUE_SIZE
  \/ apc = "flush" /\ Len(pool) # QUEUE_SIZE
  \/ apc = "join" /\ rpc # "exited"

RenderBlocked ==
  \/ rpc = "pop" /\ queue = <<>>
  \/ rpc = "exited"

(* The two threads never wait for each other, but in one case: release     *)
(* finds every block queued, and the render thread sees waiting_exit_ and  *)
(* leaves without making room for the empty pointer release wants to push. *)
OnlyReleaseDeadlocks ==
  AppBlocked /\ RenderBlocked =>
    /\ apc = "push_null"
    /\ rpc = "exited"
    /\ pool = <<>>

(* While a command is queued or being executed nobody writes its block.    *)
SnapshotsAreFrozen ==
  [][/\ rendering # Null => block'[rendering] = block[rendering]
     /\ \A i \in 1 .. Len(queue) :
          queue[i] # Null => block'[queue[i]] = block[queue[i]]]_vars

(* The asynchronous renderer keeps the promise of CommandStream: commands  *)
(* take effect in order, under the state they were issued with, and flush  *)
(* returns with none outstanding.                                          *)
Stream == INSTANCE CommandStream WITH Effects <- Effects, issued <- issued, executed <- executed, synced <- synced
ImplementsStream == Stream!StreamSpec

(* Every command issued is executed, unless the renderer is destroyed.     *)
EveryCommandExecuted ==
  \A n \in 1 .. MaxCommands :
    Len(issued) >= n ~> Len(executed) >= n \/ waiting_exit

(* flush returns.                                                          *)
FlushReturns == apc = "flush" ~> apc = "idle"

(* The destructor returns, if a place in the queue was free when it set    *)
(* waiting_exit_ (see OnlyReleaseDeadlocks).                               *)
ReleaseReturns == apc = "push_null" /\ Len(queue) < QUEUE_SIZE ~> apc = "gone"
=============================================================================
