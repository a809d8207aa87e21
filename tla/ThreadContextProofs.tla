------------------------- MODULE ThreadContextProofs -------------------------
(***************************************************************************)
(* execute_threads processes every item exactly once and returns when all  *)
(* is done, for every number of threads, of items and package size.        *)
(***************************************************************************)
EXTENDS ThreadContext, TLAPS

(* Rounding down: the package an item belongs to.                          *)
LEMMA Division ==
  ASSUME NEW a \in Nat, NEW P \in Nat \ {0}
  PROVE  a \div P \in Nat /\ (a \div P) * P <= a /\ a < (a \div P) * P + P
  OBVIOUS

(* Packages do not overlap.                                                *)
LEMMA Monotone ==
  ASSUME NEW p \in Nat, NEW q \in Nat, NEW P \in Nat, p < q
  PROVE  p * P + P <= q * P
  OBVIOUS

LEMMA Product == ASSUME NEW p \in Nat, NEW P \in Nat PROVE p * P \in Nat
  OBVIOUS

(* A package that exists is not empty and lies inside the items.           *)
LEMMA PackageBounds ==
  ASSUME NEW p \in Nat
  PROVE  /\ First(p) \in Nat
         /\ Last(p) \in Nat
         /\ Last(p) <= item_count
         /\ Last(p) <= First(p) + package_size
         /\ package_count \in Nat
         /\ Valid(p) => First(p) < Last(p)
  <1> DEFINE a == item_count + package_size - 1
  <1>1. First(p) \in Nat /\ First(p) = p * package_size
    BY Product, ThreadAssumption DEF First
  <1>2. Last(p) \in Nat /\ Last(p) <= item_count /\ Last(p) <= First(p) + package_size
    BY <1>1, ThreadAssumption DEF Last, Smaller
  <1>3. a \in Nat /\ package_size \in Nat \ {0}
    BY ThreadAssumption
  <1>4. package_count \in Nat /\ package_count * package_size <= a
    BY <1>3, Division DEF package_count
  <1>5. ASSUME Valid(p) PROVE First(p) < Last(p)
    <2>1. p * package_size + package_size <= package_count * package_size
      BY <1>4, <1>5, ThreadAssumption, Monotone DEF Valid
    <2>2. package_count * package_size \in Nat
      BY <1>4, ThreadAssumption, Product
    <2>3. First(p) + package_size <= item_count + package_size - 1
      BY <1>1, <1>3, <1>4, <2>1, <2>2
    <2>4. First(p) < item_count
      BY <1>1, <1>3, <2>3, ThreadAssumption
    <2> QED
      BY <1>1, <2>4, ThreadAssumption DEF Last, Smaller
  <1> QED
    BY <1>1, <1>2, <1>4, <1>5

LEMMA PackagesDisjoint ==
  ASSUME NEW p \in Nat, NEW q \in Nat, NEW i \in Int,
         First(p) <= i, i < Last(p), First(q) <= i, i < Last(q)
  PROVE  p = q
  <1>1. /\ First(p) \in Nat /\ Last(p) \in Nat /\ Last(p) <= First(p) + package_size
        /\ First(q) \in Nat /\ Last(q) \in Nat /\ Last(q) <= First(q) + package_size
    BY PackageBounds
  <1>2. ~(p < q)
    BY <1>1, Monotone, ThreadAssumption DEF First
  <1>3. ~(q < p)
    BY <1>1, Monotone, ThreadAssumption DEF First
  <1> QED
    BY <1>2, <1>3

(* Every item belongs to a package that exists.                            *)
LEMMA PackageOf ==
  ASSUME NEW i \in Items
  PROVE  \E p \in Nat : Valid(p) /\ First(p) <= i /\ i < Last(p)
  <1> DEFINE p == i \div package_size
             a == item_count + package_size - 1
  <1>1. i \in Nat /\ i < item_count /\ package_size \in Nat \ {0} /\ item_count \in Nat
    BY ThreadAssumption DEF Items
  <1>2. p \in Nat /\ p * package_size <= i /\ i < p * package_size + package_size
    BY <1>1, Division
  <1>3. First(p) <= i /\ i < Last(p)
    BY <1>1, <1>2, Product DEF First, Last, Smaller
  <1>4. package_count \in Nat /\ a < package_count * package_size + package_size
    <2>1. a \in Nat
      BY <1>1
    <2> QED
      BY <1>1, <2>1, Division DEF package_count
  <1>5. p < package_count
    <2> SUFFICES ASSUME package_count <= p PROVE FALSE
      BY <1>2, <1>4
    <2>1. package_count * package_size <= p * package_size
      <3>1. CASE package_count = p
        BY <1>2, <3>1, <1>1, Product
      <3>2. CASE package_count < p
        BY <1>1, <1>2, <1>4, <3>2, Monotone, Product
      <3> QED
        BY <1>2, <1>4, <3>1, <3>2
    <2>2. a >= i + package_size
      BY <1>1
    <2>3. package_count * package_size \in Nat /\ p * package_size \in Nat
      BY <1>1, <1>2, <1>4, Product
    <2> QED
      BY <1>1, <1>2, <1>4, <2>1, <2>2, <2>3
  <1> QED
    BY <1>2, <1>3, <1>5 DEF Valid
-----------------------------------------------------------------------------
LEMMA InitIInv == Init => IInv
  <1> SUFFICES ASSUME Init PROVE IInv
    OBVIOUS
  <1> USE ThreadAssumption DEF Init
  <1>1. TypeOK
    <2>1. \A t \in Threads : (IF t = Caller THEN "schedule" ELSE "none")
                               \in {"none", "schedule", "pending", "fetch", "work", "done"}
      OBVIOUS
    <2>2. pc \in [Threads -> {"none", "schedule", "pending", "fetch", "work", "done"}]
      <3>1. pc = [t \in Threads |-> IF t = Caller THEN "schedule" ELSE "none"]
        BY DEF Init
      <3> QED
        BY ONLY <2>1, <3>1
    <2>3. processed \subseteq Items /\ scheduled \in 0 .. thread_count - 1
      OBVIOUS
    <2>4. returned \in BOOLEAN
      BY Zenon
    <2> QED
      BY <2>2, <2>3, <2>4 DEF TypeOK
  <1>2. Exclusive /\ WorkInRange /\ DoneAtReturn /\ AllTaken /\ NotYetScheduled
    BY DEF Exclusive, WorkInRange, DoneAtReturn, AllTaken, NotYetScheduled
  <1>3. Taken = {} /\ TakenIsProcessed /\ ProcessedIsTaken
    <2>1. Taken = {}
      <3>1. \A p \in 0 .. working_package - 1 : FALSE
        OBVIOUS
      <3> QED
        BY <3>1 DEF Taken
    <2> QED
      BY <2>1 DEF TakenIsProcessed, ProcessedIsTaken
  <1> QED
    BY <1>1, <1>2, <1>3 DEF IInv

(* The steps that take no package and process no item.                     *)
LEMMA QuietSteps ==
  ASSUME IInv,
         Schedule \/ RunOwnTask \/ (\E t \in Threads : Start(t)) \/ UNCHANGED vars
  PROVE  IInv'
  <1> DEFINE Quiet ==
        /\ UNCHANGED <<working_package, cur, item, processed, turns, returned>>
        /\ pc' \in [Threads -> {"none", "schedule", "pending", "fetch", "work", "done"}]
        /\ \A t \in Threads : pc'[t] = "work" <=> pc[t] = "work"
        /\ \A t \in Threads : pc'[t] = "done" <=> pc[t] = "done"
        /\ scheduled' \in 0 .. thread_count - 1
        /\ NotYetScheduled'
  <1>1. Quiet
    <2>1. CASE Schedule
      <3>1. scheduled \in Threads /\ scheduled # Caller /\ scheduled + 1 \in 0 .. thread_count - 1
        BY <2>1, ThreadAssumption DEF Schedule, IInv, TypeOK, Threads, Caller
      <3>2. pc[scheduled] = "none"
        BY <2>1, <3>1 DEF IInv, NotYetScheduled, Threads
      <3>3. /\ pc' = [pc EXCEPT ![scheduled] = "pending"]
            /\ scheduled' = scheduled + 1
            /\ UNCHANGED <<working_package, cur, item, processed, turns, returned>>
            /\ pc \in [Threads -> {"none", "schedule", "pending", "fetch", "work", "done"}]
        BY <2>1 DEF Schedule, Goto, IInv, TypeOK
      <3>4. NotYetScheduled'
        BY <3>1, <3>3 DEF IInv, NotYetScheduled, Threads
      <3> QED
        BY ONLY <3>1, <3>2, <3>3, <3>4
    <2>2. CASE RunOwnTask
      BY <2>2 DEF RunOwnTask, Goto, IInv, TypeOK, NotYetScheduled
    <2>3. ASSUME NEW t \in Threads, Start(t) PROVE Quiet
      BY <2>3 DEF Start, Goto, IInv, TypeOK, NotYetScheduled
    <2>4. CASE UNCHANGED vars
      BY <2>4 DEF vars, IInv, TypeOK, NotYetScheduled
    <2> QED
      BY <2>1, <2>2, <2>3, <2>4
  <1> QED
    BY <1>1 DEF IInv, TypeOK, Exclusive, DoneAtReturn, WorkInRange, TakenIsProcessed,
       ProcessedIsTaken, AllTaken, Taken, Todo

(* A task takes a package nobody has taken, or finds that none is left.    *)
LEMMA NextPackageStep ==
  ASSUME IInv, NEW t \in Threads, NextPackage(t)
  PROVE  IInv'
  <1> DEFINE p == working_package
  <1>1. /\ p \in Nat /\ working_package' = p + 1
        /\ cur' = [cur EXCEPT ![t] = p]
        /\ item' = [item EXCEPT ![t] = First(p)]
        /\ pc' = [pc EXCEPT ![t] = IF Valid(p) THEN "work" ELSE "done"]
        /\ UNCHANGED <<scheduled, processed, turns, returned>>
        /\ pc[t] = "fetch"
        /\ pc \in [Threads -> {"none", "schedule", "pending", "fetch", "work", "done"}]
        /\ cur \in [Threads -> Nat] /\ item \in [Threads -> Nat]
    BY DEF NextPackage, Goto, IInv, TypeOK
  <1>2. /\ First(p) \in Nat /\ Last(p) \in Nat /\ Last(p) <= item_count
        /\ package_count \in Nat
        /\ Valid(p) => First(p) < Last(p)
    BY <1>1, PackageBounds
  <1>3. \A u \in Threads \ {t} : pc'[u] = pc[u] /\ cur'[u] = cur[u] /\ item'[u] = item[u]
    BY <1>1
  <1>4. /\ pc'[t] = (IF Valid(p) THEN "work" ELSE "done")
        /\ cur'[t] = p /\ item'[t] = First(p)
    BY <1>1
  <1>5. TypeOK'
    <2>1. /\ pc' \in [Threads -> {"none", "schedule", "pending", "fetch", "work", "done"}]
          /\ cur' \in [Threads -> Nat] /\ item' \in [Threads -> Nat]
          /\ working_package' \in Nat
      BY <1>1, <1>2
    <2> QED
      BY <1>1, <2>1 DEF IInv, TypeOK
  <1>6. NotYetScheduled' /\ DoneAtReturn'
    BY <1>1, <1>3, <1>4 DEF IInv, NotYetScheduled, DoneAtReturn
  <1>7. WorkInRange'
    <2>1. \A u \in Threads \ {t} : pc[u] = "work" => cur[u] < p + 1
      BY <1>1 DEF IInv, WorkInRange
    <2> QED
      BY <1>1, <1>2, <1>3, <1>4, <2>1 DEF IInv, WorkInRange
  <1>8. Taken' = Taken \cup {i \in Items : First(p) <= i /\ i < Last(p)}
    <2>1. 0 .. working_package' - 1 = (0 .. working_package - 1) \cup {p}
      BY <1>1
    <2> QED
      BY <2>1 DEF Taken
  <1>9. TakenIsProcessed'
    <2> SUFFICES ASSUME NEW i \in Items, i \in Taken'
                 PROVE  i \in processed \/ \E u \in Threads : pc'[u] = "work" /\ i \in Todo(u)'
      BY <1>1 DEF TakenIsProcessed, Taken
    <2>1. CASE i \in Taken
      <3>1. i \in processed \/ \E u \in Threads \ {t} : pc[u] = "work" /\ i \in Todo(u)
        BY <1>1, <2>1 DEF IInv, TakenIsProcessed
      <3> QED
        BY <1>3, <3>1 DEF Todo
    <2>2. CASE First(p) <= i /\ i < Last(p)
      <3>1. Valid(p)
        <4>1. PICK q \in Nat : Valid(q) /\ First(q) <= i /\ i < Last(q)
          BY PackageOf
        <4>2. q = p
          BY <1>1, <2>2, <4>1, PackagesDisjoint, i \in Int DEF Items
        <4> QED
          BY <4>1, <4>2
      <3>2. i \in Todo(t)'
        BY <1>2, <1>4, <2>2 DEF Todo, Items
      <3> QED
        BY <1>4, <3>1, <3>2
    <2> QED
      BY <1>8, <2>1, <2>2
  <1>10. ProcessedIsTaken'
    BY <1>1, <1>8 DEF IInv, ProcessedIsTaken
  <1>11. AllTaken'
    BY <1>1, <1>2, <1>3, <1>4 DEF IInv, AllTaken, Valid
  <1>12. Exclusive'
    <2>1. \A u \in Threads : pc[u] = "work" => cur[u] # p
      BY <1>1 DEF IInv, WorkInRange, TypeOK
    <2>2. ASSUME NEW i \in Todo(t)', i \in processed, Valid(p) PROVE FALSE
      <3>1. i \in Int /\ First(p) <= i /\ i < Last(p)
        BY <1>2, <1>4, <2>2 DEF Todo
      <3>2. PICK q \in 0 .. working_package - 1 : First(q) <= i /\ i < Last(q)
        BY <2>2 DEF IInv, ProcessedIsTaken, Taken
      <3>3. q \in Nat /\ q # p
        BY <1>1, <3>2
      <3> QED
        BY <1>1, <3>1, <3>2, <3>3, PackagesDisjoint
    <2>3. \A u \in Threads \ {t} : pc'[u] = "work" => Todo(u)' \cap processed' = {}
      BY <1>1, <1>3 DEF IInv, Exclusive, Todo
    <2>4. pc'[t] = "work" => Todo(t)' \cap processed' = {}
      BY <1>1, <1>4, <2>2
    <2> QED
      BY <1>3, <1>4, <2>1, <2>3, <2>4 DEF IInv, Exclusive
  <1> QED
    BY <1>5, <1>6, <1>7, <1>9, <1>10, <1>11, <1>12 DEF IInv

(* A task processes the next item of its package, which nobody else has.   *)
LEMMA ProcessItemStep ==
  ASSUME IInv, NEW t \in Threads, ProcessItem(t)
  PROVE  IInv' /\ item[t] \in Items /\ item[t] \notin processed /\ ~returned
  <1> DEFINE i == item[t]
             q == cur[t]
  <1>1. /\ pc[t] = "work"
        /\ processed' = processed \cup {i}
        /\ item' = [item EXCEPT ![t] = i + 1]
        /\ pc' = [pc EXCEPT ![t] = IF i + 1 < Last(q) THEN "work" ELSE "fetch"]
        /\ UNCHANGED <<working_package, scheduled, cur, returned>>
        /\ pc \in [Threads -> {"none", "schedule", "pending", "fetch", "work", "done"}]
        /\ cur \in [Threads -> Nat] /\ item \in [Threads -> Nat]
        /\ working_package \in Nat
    BY DEF ProcessItem, Goto, IInv, TypeOK
  <1>2. /\ i \in Nat /\ q \in Nat /\ q < working_package
        /\ First(q) <= i /\ i < Last(q) /\ Valid(q)
    BY <1>1 DEF IInv, WorkInRange
  <1>3. /\ First(q) \in Nat /\ Last(q) \in Nat /\ Last(q) <= item_count
    BY <1>2, PackageBounds
  <1>4. i \in Items
    BY <1>2, <1>3, ThreadAssumption DEF Items
  <1>5. i \in Todo(t) /\ i \notin processed
    BY <1>1, <1>2, <1>3 DEF Todo, IInv, Exclusive
  <1>6. ~returned
    BY <1>1 DEF IInv, DoneAtReturn
  <1>7. \A u \in Threads \ {t} : pc'[u] = pc[u] /\ cur'[u] = cur[u] /\ item'[u] = item[u]
    BY <1>1
  <1>8. /\ pc'[t] = (IF i + 1 < Last(q) THEN "work" ELSE "fetch")
        /\ cur'[t] = q /\ item'[t] = i + 1
    BY <1>1
  <1>9. TypeOK'
    <2>1. /\ pc' \in [Threads -> {"none", "schedule", "pending", "fetch", "work", "done"}]
          /\ item' \in [Threads -> Nat]
          /\ processed' \subseteq Items
      BY <1>1, <1>2, <1>4 DEF IInv, TypeOK
    <2>2. turns' \in Nat
      BY DEF ProcessItem, IInv, TypeOK
    <2> QED
      BY <1>1, <2>1, <2>2 DEF IInv, TypeOK
  <1>10. NotYetScheduled' /\ DoneAtReturn' /\ AllTaken'
    BY <1>1, <1>6, <1>7, <1>8 DEF IInv, NotYetScheduled, DoneAtReturn, AllTaken
  <1>11. WorkInRange'
    BY <1>1, <1>2, <1>3, <1>7, <1>8 DEF IInv, WorkInRange
  <1>12. Taken' = Taken
    BY <1>1 DEF Taken
  <1>13. TakenIsProcessed'
    <2> SUFFICES ASSUME NEW j \in Taken
                 PROVE  j \in processed' \/ \E u \in Threads : pc'[u] = "work" /\ j \in Todo(u)'
      BY <1>12 DEF TakenIsProcessed
    <2>1. CASE j \in processed
      BY <1>1, <2>1
    <2>2. CASE \E u \in Threads \ {t} : pc[u] = "work" /\ j \in Todo(u)
      BY <1>7, <2>2 DEF Todo
    <2>3. CASE j \in Todo(t)
      <3>1. CASE j = i
        BY <1>1, <3>1
      <3>2. CASE j # i
        <4>1. j \in Int /\ i + 1 <= j /\ j <= Last(q) - 1
          BY <1>2, <1>3, <2>3, <3>2 DEF Todo
        <4>2. pc'[t] = "work" /\ j \in Todo(t)'
          BY <1>2, <1>3, <1>8, <4>1 DEF Todo
        <4> QED
          BY <4>2
      <3> QED
        BY <3>1, <3>2
    <2> QED
      BY <2>1, <2>2, <2>3 DEF IInv, TakenIsProcessed
  <1>14. ProcessedIsTaken'
    <2>1. i \in Taken
      BY <1>1, <1>2, <1>4 DEF Taken
    <2> QED
      BY <1>1, <1>12, <2>1 DEF IInv, ProcessedIsTaken
  <1>15. Exclusive'
    <2>1. ASSUME NEW u \in Threads \ {t}, pc[u] = "work" PROVE i \notin Todo(u)
      <3>1. cur[u] \in Nat /\ cur[u] # q /\ item[u] \in Nat /\ First(cur[u]) <= item[u]
        BY <1>1, <2>1 DEF IInv, Exclusive, WorkInRange
      <3>2. First(cur[u]) \in Nat /\ Last(cur[u]) \in Nat
        BY <3>1, PackageBounds
      <3>3. ~(First(cur[u]) <= i /\ i < Last(cur[u]))
        BY <1>2, <3>1, PackagesDisjoint
      <3> QED
        BY <1>2, <3>1, <3>2, <3>3 DEF Todo
    <2>2. \A u \in Threads \ {t} : pc'[u] = "work" => Todo(u)' \cap processed' = {}
      BY <1>1, <1>7, <2>1 DEF IInv, Exclusive, Todo
    <2>3. pc'[t] = "work" => Todo(t)' \cap processed' = {}
      <3>1. Todo(t)' \subseteq Todo(t) \ {i}
        BY <1>2, <1>3, <1>8 DEF Todo
      <3> QED
        BY <1>1, <3>1 DEF IInv, Exclusive
    <2>4. \A u, v \in Threads : pc'[u] = "work" /\ pc'[v] = "work" /\ u # v => cur'[u] # cur'[v]
      BY <1>1, <1>7, <1>8 DEF IInv, Exclusive
    <2> QED
      BY <2>2, <2>3, <2>4 DEF Exclusive
  <1> QED
    BY <1>4, <1>5, <1>6, <1>9, <1>10, <1>11, <1>13, <1>14, <1>15 DEF IInv

(* When every task is over, every package is taken and no item is left.    *)
LEMMA WaitStep ==
  ASSUME IInv, Wait
  PROVE  IInv' /\ processed = Items
  <1>1. /\ \A t \in Threads : pc[t] = "done"
        /\ UNCHANGED <<working_package, scheduled, pc, cur, item, processed, turns>>
        /\ returned' = TRUE
    BY DEF Wait
  <1>2. Caller \in Threads /\ working_package >= package_count /\ working_package \in Nat
    BY <1>1, ThreadAssumption DEF IInv, AllTaken, Threads, Caller, TypeOK
  <1>3. ASSUME NEW i \in Items PROVE i \in processed
    <2>1. PICK p \in Nat : Valid(p) /\ First(p) <= i /\ i < Last(p)
      BY PackageOf
    <2>2. p \in 0 .. working_package - 1
      BY <1>2, <2>1, PackageBounds DEF Valid
    <2>3. i \in Taken
      BY <2>1, <2>2 DEF Taken
    <2> QED
      BY <1>1, <2>3 DEF IInv, TakenIsProcessed
  <1>4. processed = Items
    BY <1>3 DEF IInv, TypeOK
  <1> QED
    BY <1>1, <1>4 DEF IInv, TypeOK, Exclusive, DoneAtReturn, WorkInRange, TakenIsProcessed,
       ProcessedIsTaken, AllTaken, Taken, Todo, NotYetScheduled
-----------------------------------------------------------------------------
(* IInv holds in every reachable state.                                    *)
THEOREM ThreadInvariant == Spec => []IInv
  <1>1. IInv /\ [Next]_vars => IInv'
    BY QuietSteps, NextPackageStep, ProcessItemStep, WaitStep DEF Next, Run
  <1> QED
    BY <1>1, InitIInv, PTL DEF Spec

(* Every variable keeps its type.                                          *)
THEOREM ThreadTypeOK == Spec => []TypeOK
  <1>1. IInv => TypeOK
    BY DEF IInv
  <1> QED
    BY <1>1, ThreadInvariant, PTL

(* No two threads are inside the same package, none redoes an item.        *)
THEOREM ThreadExclusive == Spec => []Exclusive
  <1>1. IInv => Exclusive
    BY DEF IInv
  <1> QED
    BY <1>1, ThreadInvariant, PTL

(* When execute_threads returns every item is processed and no task runs.  *)
THEOREM ThreadDoneAtReturn == Spec => []DoneAtReturn
  <1>1. IInv => DoneAtReturn
    BY DEF IInv
  <1> QED
    BY <1>1, ThreadInvariant, PTL

(* execute_threads implements ParallelFor: ProcessItem is Process of a new *)
(* item, Wait is Finish, every other step stutters.                        *)
THEOREM ThreadImplementsFor == Spec => ImplementsFor
  <1> USE DEF For!ForInit, For!ForNext
  <1>1. Init => For!ForInit
    BY DEF Init
  <1>2. IInv /\ [Next]_vars => [For!ForNext]_<<processed, turns, returned>>
    <2> SUFFICES ASSUME IInv, [Next]_vars
                 PROVE  For!ForNext \/ UNCHANGED <<processed, turns, returned>>
      OBVIOUS
    <2>1. ASSUME NEW t \in Threads, ProcessItem(t) PROVE For!ForNext
      <3>1. item[t] \in Items /\ For!Process(item[t])
        BY <2>1, ProcessItemStep DEF ProcessItem, For!Process
      <3> QED
        BY <3>1
    <2>2. CASE Wait
      BY <2>2, WaitStep DEF Wait, For!Finish
    <2>3. CASE Schedule \/ RunOwnTask \/ UNCHANGED vars
      BY <2>3 DEF Schedule, RunOwnTask, vars
    <2>4. ASSUME NEW t \in Threads, Start(t) \/ NextPackage(t)
          PROVE  UNCHANGED <<processed, turns, returned>>
      BY <2>4 DEF Start, NextPackage
    <2> QED
      BY <2>1, <2>2, <2>3, <2>4 DEF Next, Run
  <1> QED
    BY <1>1, <1>2, ThreadInvariant, PTL DEF Spec, ImplementsFor, For!ForSpec
=============================================================================
