---------------------------- MODULE ThreadContext ----------------------------
(***************************************************************************)
(* execute_threads: thread_count - 1 tasks are given to the pool, the      *)
(* caller runs the last one itself and waits for the pool.  The tasks      *)
(* share the items by packages, each taken from one atomic counter.        *)
(*                                                                         *)
(* A scheduled task starts when a worker of the pool picks it up.          *)
(***************************************************************************)
EXTENDS Integers

CONSTANTS thread_count, item_count, package_size

ASSUME ThreadAssumption ==
  /\ thread_count \in Nat \ {0}
  /\ item_count \in Nat
  /\ package_size \in Nat \ {0}

Items == 0 .. item_count - 1
Threads == 0 .. thread_count - 1
Caller == thread_count - 1

VARIABLES
  working_package,   (* the shared counter                                 *)
  scheduled,         (* how many tasks the caller gave to the pool         *)
  pc,                (* where each task is                                 *)
  cur,               (* the package of each task                           *)
  item,              (* the item it processes next                         *)
  processed,         (* history: the items processed                       *)
  turns,             (* history: how often an item was processed           *)
  returned           (* execute_threads has returned                       *)

vars == <<working_package, scheduled, pc, cur, item, processed, turns, returned>>

package_count_down == item_count \div package_size   (* rounds down: a slip *)
package_count == (item_count + package_size - 1) \div package_size

Smaller(a, b) == IF a < b THEN a ELSE b

(* package_cursor::item_range.                                             *)
First(package) == package * package_size
Last(package) == Smaller(First(package) + package_size, item_count)

Valid(package) == package < package_count

Init ==
  /\ working_package = 0
  /\ scheduled = 0
  /\ pc = [t \in Threads |-> IF t = Caller THEN "schedule" ELSE "none"]
  /\ cur = [t \in Threads |-> 0]
  /\ item = [t \in Threads |-> 0]
  /\ processed = {}
  /\ turns = 0
  /\ returned = FALSE

Goto(t, place) == pc' = [pc EXCEPT ![t] = place]

Schedule ==
  /\ pc[Caller] = "schedule"
  /\ scheduled < thread_count - 1
  /\ Goto(scheduled, "pending")
  /\ scheduled' = scheduled + 1
  /\ UNCHANGED <<working_package, cur, item, processed, turns, returned>>

RunOwnTask ==
  /\ pc[Caller] = "schedule"
  /\ scheduled = thread_count - 1
  /\ Goto(Caller, "fetch")
  /\ UNCHANGED <<working_package, scheduled, cur, item, processed, turns, returned>>

Start(t) ==
  /\ pc[t] = "pending"
  /\ Goto(t, "fetch")
  /\ UNCHANGED <<working_package, scheduled, cur, item, processed, turns, returned>>

(* Taking the package in two steps: a slip.                                *)
NextPackageTwice(t) ==
  /\ pc[t] = "fetch"
  /\ cur' = [cur EXCEPT ![t] = working_package]
  /\ \/ working_package' = working_package + 1
     \/ UNCHANGED working_package
  /\ item' = [item EXCEPT ![t] = First(working_package)]
  /\ Goto(t, IF Valid(working_package) THEN "work" ELSE "done")
  /\ UNCHANGED <<scheduled, processed, turns, returned>>

(* Waiting for a package when none is left: a slip.                        *)
NextPackageOrWait(t) ==
  /\ pc[t] = "fetch"
  /\ Valid(working_package)
  /\ cur' = [cur EXCEPT ![t] = working_package]
  /\ working_package' = working_package + 1
  /\ item' = [item EXCEPT ![t] = First(working_package)]
  /\ Goto(t, "work")
  /\ UNCHANGED <<scheduled, processed, turns, returned>>

(* next_package, an atomic increment, and the test of the loop.            *)
NextPackage(t) ==
  /\ pc[t] = "fetch"
  /\ cur' = [cur EXCEPT ![t] = working_package]
  /\ working_package' = working_package + 1
  /\ item' = [item EXCEPT ![t] = First(working_package)]
  /\ Goto(t, IF Valid(working_package) THEN "work" ELSE "done")
  /\ UNCHANGED <<scheduled, processed, turns, returned>>

ProcessItem(t) ==
  /\ pc[t] = "work"
  /\ processed' = processed \cup {item[t]}
  /\ turns' = turns + 1
  /\ item' = [item EXCEPT ![t] = @ + 1]
  /\ Goto(t, IF item[t] + 1 < Last(cur[t]) THEN "work" ELSE "fetch")
  /\ UNCHANGED <<working_package, scheduled, cur, returned>>

(* The caller's task is over before it waits.  Without the wait: a slip.   *)
ReturnEarly ==
  /\ pc[Caller] = "done"
  /\ ~returned
  /\ returned' = TRUE
  /\ UNCHANGED <<working_package, scheduled, pc, cur, item, processed, turns>>

(* global_thread_pool().wait(): no task is pending or running.             *)
Wait ==
  /\ \A t \in Threads : pc[t] = "done"
  /\ ~returned
  /\ returned' = TRUE
  /\ UNCHANGED <<working_package, scheduled, pc, cur, item, processed, turns>>

Run(t) == Start(t) \/ NextPackage(t) \/ ProcessItem(t)

Next == Schedule \/ RunOwnTask \/ Wait \/ \E t \in Threads : Run(t)

Spec == Init /\ [][Next]_vars

(* The caller runs on, the pool starts every task, a running task runs on. *)
FairSpec ==
  /\ Spec
  /\ WF_vars(Schedule \/ RunOwnTask \/ Wait)
  /\ \A t \in Threads : WF_vars(Run(t))
-----------------------------------------------------------------------------
(* Every variable has its type.                                            *)
TypeOK ==
  /\ working_package \in Nat
  /\ scheduled \in 0 .. thread_count - 1
  /\ pc \in [Threads -> {"none", "schedule", "pending", "fetch", "work", "done"}]
  /\ cur \in [Threads -> Nat]
  /\ item \in [Threads -> Nat]
  /\ processed \subseteq Items
  /\ turns \in Nat
  /\ returned \in BOOLEAN

(* Two tasks are never inside the same package, and what a task still has  *)
(* to process of its package nobody has processed yet: no item is worked   *)
(* on by two threads or twice.                                             *)
Todo(t) == item[t] .. Last(cur[t]) - 1
Exclusive ==
  /\ \A t, u \in Threads : pc[t] = "work" /\ pc[u] = "work" /\ t # u => cur[t] # cur[u]
  /\ \A t \in Threads : pc[t] = "work" => Todo(t) \cap processed = {}

(* The call returns with every item processed and every task over: nothing *)
(* of the function and the contexts it points to is used afterwards.       *)
DoneAtReturn ==
  returned => processed = Items /\ \A t \in Threads : pc[t] = "done"

(* Each item is processed exactly once, before the return.                 *)
For == INSTANCE ParallelFor WITH Items <- Items, processed <- processed, turns <- turns, returned <- returned
ImplementsFor == For!ForSpec

(* The call returns.                                                       *)
Returns == <>returned
-----------------------------------------------------------------------------
(* The inductive invariant: the items of the packages taken so far are     *)
(* processed, but for those a task still has to do; the task of a package  *)
(* that is not done is alive.                                              *)
Taken == {i \in Items : \E p \in 0 .. working_package - 1 : First(p) <= i /\ i < Last(p)}
TakenIsProcessed ==
  \A i \in Taken : i \in processed \/ \E t \in Threads : pc[t] = "work" /\ i \in Todo(t)
WorkInRange ==
  \A t \in Threads :
    pc[t] = "work" =>
      /\ cur[t] < working_package
      /\ Valid(cur[t])
      /\ First(cur[t]) <= item[t] /\ item[t] < Last(cur[t])
ProcessedIsTaken == processed \subseteq Taken
NotYetScheduled == \A t \in Threads : t # Caller /\ t >= scheduled => pc[t] = "none"
AllTaken == (\E t \in Threads : pc[t] = "done") => working_package >= package_count
IInv ==
  /\ TypeOK /\ Exclusive /\ DoneAtReturn
  /\ NotYetScheduled /\ WorkInRange /\ TakenIsProcessed /\ ProcessedIsTaken /\ AllTaken
=============================================================================
