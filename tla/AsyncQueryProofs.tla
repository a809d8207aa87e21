-------------------------- MODULE AsyncQueryProofs --------------------------
(***************************************************************************)
(* A bracket counts its draws and no others, and a query read after its    *)
(* bracket closed hands them out, for every number of queries, every       *)
(* length of the queue and every interleaving of the two threads.          *)
(*                                                                         *)
(* The argument looks ahead: what a query will have counted once the       *)
(* commands before position k of the queue have run is known already, and  *)
(* running the first of them, or issuing another, does not change it.  The *)
(* count of pending writes says when nothing of a query is left to run.    *)
(***************************************************************************)
EXTENDS AsyncQuery, SequenceTheorems, FunctionTheorems, FiniteSetTheorems, TLAPS

(* The commands that are issued and not yet executed.                      *)
Outstanding == IF apc = "commit" THEN Append(queue, cmd) ELSE queue

Begins(c, q) == c.kind = "begin" /\ c.query = q
Counts(c, q) == c.kind = "draw" /\ c.slots[IdOf[q]] = q

(* What q will have counted after the first k commands of Q, if it has     *)
(* counted now before them.                                                *)
Seen(now, Q, q, k) ==
  {x \in 0 .. MaxCalls :
     \/ x \in now /\ \A b \in 1 .. k : ~Begins(Q[b], q)
     \/ \E j \in 1 .. k : /\ Counts(Q[j], q) /\ x \in Q[j].counted
                          /\ \A b \in j .. k : ~Begins(Q[b], q)}

(* The end of a bracket carries what its query will have counted ...       *)
Ends(now, Q) ==
  \A k \in 1 .. Len(Q) : Q[k].kind = "end" => Q[k].counted = Seen(now[Q[k].query], Q, Q[k].query, k - 1)

(* ... and what an open bracket holds is what its query will have counted. *)
Opens(now, Q, slots, ins) ==
  \A q \in Queries : slots[IdOf[q]] = q => ins[q] = Seen(now[q], Q, q, Len(Q))

LookAhead == Ends(counter, Outstanding) /\ Opens(counter, Outstanding, asyncs, inside)

Bounds ==
  /\ \A q \in Queries : leaked[q] <= calls
  /\ apc \in {"begin", "get", "poll", "wait", "value"} => aq \in Queries
  /\ apc = "begin" => \A q \in Queries : leaked[q] < calls
  /\ apc = "commit" => cmd.kind # "none" /\ (cmd.kind \in {"begin", "end"} => cmd.query \in Queries)
  /\ \A k \in 1 .. Len(queue) : queue[k].kind \in {"begin", "end"} => queue[k].query \in Queries
  /\ rpc = "stop" => queue # <<>> /\ Head(queue).kind = "end"

QueryInv == TypeOK /\ Bounds /\ LookAhead
-----------------------------------------------------------------------------
LEMMA AppendedSeq ==
  ASSUME NEW S, NEW Q \in Seq(S), NEW e \in S
  PROVE  /\ Append(Q, e) \in Seq(S) /\ Len(Q) \in Nat /\ Len(Append(Q, e)) = Len(Q) + 1
         /\ \A j \in 1 .. Len(Q) : Append(Q, e)[j] = Q[j]
         /\ Append(Q, e)[Len(Q) + 1] = e
  OBVIOUS

LEMMA TailSeq ==
  ASSUME NEW S, NEW Q \in Seq(S), Q # <<>>
  PROVE  /\ Tail(Q) \in Seq(S) /\ Len(Q) \in Nat \ {0} /\ Len(Tail(Q)) = Len(Q) - 1
         /\ \A j \in 1 .. Len(Q) - 1 : Tail(Q)[j] = Q[j + 1]
         /\ Head(Q) = Q[1] /\ Head(Q) \in S
  OBVIOUS

(* Issuing a command does not change what is counted before it ...         *)
LEMMA SeenBefore ==
  ASSUME NEW Q \in Seq(CommandsOf), NEW e \in CommandsOf, NEW q, NEW now, NEW k \in 0 .. Len(Q)
  PROVE  Seen(now, Append(Q, e), q, k) = Seen(now, Q, q, k)
  <1>1. \A j \in 1 .. k : Append(Q, e)[j] = Q[j]
    BY AppendedSeq
  <1>2. \A j \in 1 .. k : \A b \in j .. k : b \in 1 .. k
    OBVIOUS
  <1> QED
    BY <1>1, <1>2 DEF Seen

(* ... and adds what the command itself does.                              *)
LEMMA SeenAfter ==
  ASSUME NEW Q \in Seq(CommandsOf), NEW e \in CommandsOf, NEW q, NEW now
  PROVE  /\ Begins(e, q) => Seen(now, Append(Q, e), q, Len(Q) + 1) = {}
         /\ Counts(e, q) => Seen(now, Append(Q, e), q, Len(Q) + 1) = Seen(now, Q, q, Len(Q)) \cup e.counted
         /\ ~Begins(e, q) /\ ~Counts(e, q) =>
              Seen(now, Append(Q, e), q, Len(Q) + 1) = Seen(now, Q, q, Len(Q))
  <1> DEFINE n == Len(Q)
             R == Append(Q, e)
  <1>1. /\ n \in Nat /\ R[n + 1] = e
        /\ \A j \in 1 .. n : R[j] = Q[j]
    BY AppendedSeq
  <1>2. n + 1 \in 1 .. n + 1
    BY <1>1
  <1>3. \A j : j \in 1 .. n + 1 <=> j \in 1 .. n \/ j = n + 1
    BY <1>1
  <1>4. \A j \in 1 .. n : \A b : b \in j .. n + 1 <=> b \in j .. n \/ b = n + 1
    BY <1>1
  <1>5. \A j \in 1 .. n : \A b \in j .. n : b \in 1 .. n
    BY <1>1
  <1>6. \A b : b \in n + 1 .. n + 1 <=> b = n + 1
    BY <1>1
  <1> HIDE DEF n, R
  <1>7. CASE Begins(e, q)
    <2>1. Seen(now, R, q, n + 1) = {}
      BY <1>1, <1>2, <1>3, <1>4, <1>6, <1>7 DEF Seen
    <2> QED
      BY <1>7, <2>1 DEF R, n, Begins, Counts
  <1>8. CASE ~Begins(e, q)
    <2>1. \A x : x \in Seen(now, R, q, n + 1) <=>
                   x \in Seen(now, Q, q, n) \/ (Counts(e, q) /\ x \in e.counted /\ x \in 0 .. MaxCalls)
      <3>1. (\A b \in 1 .. n + 1 : ~Begins(R[b], q)) <=> (\A b \in 1 .. n : ~Begins(Q[b], q))
        BY <1>1, <1>3, <1>8
      <3>2. ASSUME NEW j \in 1 .. n
            PROVE  (\A b \in j .. n + 1 : ~Begins(R[b], q)) <=> (\A b \in j .. n : ~Begins(Q[b], q))
        BY <1>1, <1>4, <1>5, <1>8
      <3>3. \A b \in n + 1 .. n + 1 : ~Begins(R[b], q)
        BY <1>1, <1>6, <1>8
      <3>4. ASSUME NEW x
            PROVE  (\E j \in 1 .. n + 1 : /\ Counts(R[j], q) /\ x \in R[j].counted
                                         /\ \A b \in j .. n + 1 : ~Begins(R[b], q))
                   <=> \/ \E j \in 1 .. n : /\ Counts(Q[j], q) /\ x \in Q[j].counted
                                           /\ \A b \in j .. n : ~Begins(Q[b], q)
                       \/ Counts(e, q) /\ x \in e.counted
        BY <1>1, <1>3, <3>2, <3>3
      <3> QED
        BY <1>2, <3>1, <3>4 DEF Seen
    <2>2. e.counted \subseteq 0 .. MaxCalls
      BY DEF CommandsOf
    <2> QED
      BY <1>8, <2>1, <2>2 DEF R, n
  <1> QED
    BY <1>7, <1>8

(* What q has counted after a command.                                     *)
Now(now, c, q) == IF Begins(c, q) THEN {} ELSE IF Counts(c, q) THEN now \cup c.counted ELSE now

(* Executing the first command changes nothing of what will be counted.    *)
LEMMA SeenShifts ==
  ASSUME NEW Q \in Seq(CommandsOf), Q # <<>>, NEW q, NEW now, NEW k \in 1 .. Len(Q)
  PROVE  Seen(Now(now, Head(Q), q), Tail(Q), q, k - 1) = Seen(now, Q, q, k)
  <1> DEFINE n == Len(Q)
             T == Tail(Q)
             e == Head(Q)
  <1>a. /\ n \in Nat \ {0} /\ e = Q[1] /\ e \in CommandsOf
        /\ \A j \in 1 .. n - 1 : T[j] = Q[j + 1]
    BY TailSeq
  <1>b. e.counted \subseteq 0 .. MaxCalls
    BY <1>a DEF CommandsOf, e
  <1>1. /\ n \in Nat \ {0} /\ e = Q[1] /\ e \in CommandsOf /\ e.counted \subseteq 0 .. MaxCalls
        /\ \A j \in 1 .. n - 1 : T[j] = Q[j + 1]
    BY <1>a, <1>b
  <1>0. k \in 1 .. n
    BY DEF n
  <1> HIDE DEF n, T, e
  <1>2. k \in 1 .. n /\ k \in Nat \ {0} /\ 1 \in 1 .. k
    BY <1>0, <1>1
  <1>3. \A j \in 1 .. k - 1 : j \in 1 .. n - 1 /\ j + 1 \in 1 .. k
    BY <1>1, <1>2
  <1>4. \A j \in 1 .. k : j = 1 \/ j - 1 \in 1 .. k - 1
    BY <1>1, <1>2
  <1>5. \A j \in 1 .. k : j # 1 => Q[j] = T[j - 1]
    <2>1. ASSUME NEW j \in 1 .. k, j # 1 PROVE j - 1 \in 1 .. n - 1 /\ (j - 1) + 1 = j
      BY <1>1, <1>2, <2>1
    <2> QED
      BY <1>1, <2>1
  <1>6. (\A b \in 1 .. k : ~Begins(Q[b], q)) <=> ~Begins(e, q) /\ \A b \in 1 .. k - 1 : ~Begins(T[b], q)
    <2>1. ASSUME \A b \in 1 .. k : ~Begins(Q[b], q)
          PROVE  ~Begins(e, q) /\ \A b \in 1 .. k - 1 : ~Begins(T[b], q)
      BY <1>1, <1>2, <1>3, <2>1
    <2>2. ASSUME ~Begins(e, q), \A b \in 1 .. k - 1 : ~Begins(T[b], q), NEW b \in 1 .. k
          PROVE  ~Begins(Q[b], q)
      BY <1>1, <1>4, <1>5, <2>2
    <2> QED
      BY <2>1, <2>2
  <1>7. ASSUME NEW j \in 1 .. k - 1
        PROVE  (\A b \in j + 1 .. k : ~Begins(Q[b], q)) <=> (\A b \in j .. k - 1 : ~Begins(T[b], q))
    <2>1. ASSUME NEW b \in j .. k - 1 PROVE b \in 1 .. n - 1 /\ b + 1 \in j + 1 .. k
      BY <1>1, <1>2
    <2>2. ASSUME NEW b \in j + 1 .. k PROVE b \in 1 .. k /\ b # 1 /\ b - 1 \in j .. k - 1
      BY <1>1, <1>2
    <2>3. ASSUME \A b \in j + 1 .. k : ~Begins(Q[b], q), NEW b \in j .. k - 1 PROVE ~Begins(T[b], q)
      BY <1>1, <2>1, <2>3
    <2>4. ASSUME \A b \in j .. k - 1 : ~Begins(T[b], q), NEW b \in j + 1 .. k PROVE ~Begins(Q[b], q)
      BY <1>5, <2>2, <2>4
    <2> QED
      BY <2>3, <2>4
  <1> DEFINE CountedIn(x) == \E j \in 1 .. k - 1 : /\ Counts(T[j], q) /\ x \in T[j].counted
                                                   /\ \A b \in j .. k - 1 : ~Begins(T[b], q)
             CleanTail == \A b \in 1 .. k - 1 : ~Begins(T[b], q)
  <1>8. ASSUME NEW x
        PROVE  (\E j \in 1 .. k : /\ Counts(Q[j], q) /\ x \in Q[j].counted
                                  /\ \A b \in j .. k : ~Begins(Q[b], q))
               <=> CountedIn(x) \/ (Counts(e, q) /\ x \in e.counted /\ ~Begins(e, q) /\ CleanTail)
    <2>1. ASSUME NEW j \in 1 .. k, Counts(Q[j], q), x \in Q[j].counted, \A b \in j .. k : ~Begins(Q[b], q)
          PROVE  CountedIn(x) \/ (Counts(e, q) /\ x \in e.counted /\ ~Begins(e, q) /\ CleanTail)
      <3>1. CASE j = 1
        BY <1>1, <1>6, <2>1, <3>1
      <3>2. CASE j # 1
        <4>1. PICK i \in 1 .. k - 1 : i = j - 1 /\ j = i + 1
          BY <1>2, <1>4, <3>2
        <4>2. T[i] = Q[j]
          BY <1>5, <3>2, <4>1
        <4>3. \A b \in i .. k - 1 : ~Begins(T[b], q)
          BY <1>7, <2>1, <4>1
        <4> QED
          BY <2>1, <4>2, <4>3
      <3> QED
        BY <3>1, <3>2
    <2>2. ASSUME NEW j \in 1 .. k - 1, Counts(T[j], q), x \in T[j].counted, \A b \in j .. k - 1 : ~Begins(T[b], q)
          PROVE  \E i \in 1 .. k : /\ Counts(Q[i], q) /\ x \in Q[i].counted
                                   /\ \A b \in i .. k : ~Begins(Q[b], q)
      <3>1. j + 1 \in 1 .. k /\ T[j] = Q[j + 1]
        BY <1>1, <1>3
      <3>2. \A b \in j + 1 .. k : ~Begins(Q[b], q)
        BY <1>7, <2>2
      <3> QED
        BY <2>2, <3>1, <3>2
    <2>3. ASSUME Counts(e, q), x \in e.counted, ~Begins(e, q), CleanTail
          PROVE  \E i \in 1 .. k : /\ Counts(Q[i], q) /\ x \in Q[i].counted
                                   /\ \A b \in i .. k : ~Begins(Q[b], q)
      BY <1>1, <1>2, <1>6, <2>3
    <2> QED
      BY <2>1, <2>2, <2>3
  <1>9. ~(Begins(e, q) /\ Counts(e, q))
    BY DEF Begins, Counts
  <1>10. ASSUME NEW x \in 0 .. MaxCalls
         PROVE  x \in Seen(Now(now, e, q), T, q, k - 1) <=> x \in Seen(now, Q, q, k)
    <2>1. x \in Seen(Now(now, e, q), T, q, k - 1) <=> (x \in Now(now, e, q) /\ CleanTail) \/ CountedIn(x)
      BY DEF Seen
    <2>2. x \in Seen(now, Q, q, k) <=>
            \/ x \in now /\ ~Begins(e, q) /\ CleanTail
            \/ CountedIn(x) \/ (Counts(e, q) /\ x \in e.counted /\ ~Begins(e, q) /\ CleanTail)
      BY <1>2, <1>6, <1>8 DEF Seen
    <2> HIDE DEF CleanTail, CountedIn
    <2>3. x \in Now(now, e, q) <=> ~Begins(e, q) /\ (x \in now \/ (Counts(e, q) /\ x \in e.counted))
      BY <1>9 DEF Now
    <2> QED
      BY <2>1, <2>2, <2>3
  <1> QED
    BY <1>10 DEF Seen, e, T

LEMMA TailAppend ==
  ASSUME NEW S, NEW Q \in Seq(S), NEW e \in S, Q # <<>>
  PROVE  Tail(Append(Q, e)) = Append(Tail(Q), e) /\ Head(Append(Q, e)) = Head(Q) /\ Append(Q, e) # <<>>
  OBVIOUS

(* Issuing a command keeps the ends exact, if the command itself is.       *)
LEMMA EndsIssued ==
  ASSUME NEW Q \in Seq(CommandsOf), NEW e \in CommandsOf, NEW now, Ends(now, Q),
         e.kind = "end" => e.counted = Seen(now[e.query], Q, e.query, Len(Q))
  PROVE  Ends(now, Append(Q, e))
  <1>1. /\ Len(Q) \in Nat /\ Len(Append(Q, e)) = Len(Q) + 1 /\ Append(Q, e)[Len(Q) + 1] = e
        /\ \A j \in 1 .. Len(Q) : Append(Q, e)[j] = Q[j]
    BY AppendedSeq
  <1> SUFFICES ASSUME NEW k \in 1 .. Len(Q) + 1, Append(Q, e)[k].kind = "end"
               PROVE  Append(Q, e)[k].counted =
                        Seen(now[Append(Q, e)[k].query], Append(Q, e), Append(Q, e)[k].query, k - 1)
    BY <1>1 DEF Ends
  <1>2. k - 1 \in 0 .. Len(Q) /\ (k \in 1 .. Len(Q) \/ k = Len(Q) + 1)
    BY <1>1
  <1>3. \A q : Seen(now[q], Append(Q, e), q, k - 1) = Seen(now[q], Q, q, k - 1)
    BY <1>2, SeenBefore
  <1>4. CASE k \in 1 .. Len(Q)
    <2>1. Append(Q, e)[k] = Q[k] /\ Q[k].kind = "end"
      BY <1>1, <1>4
    <2>2. Q[k].counted = Seen(now[Q[k].query], Q, Q[k].query, k - 1)
      BY <1>4, <2>1 DEF Ends
    <2> QED
      BY <1>3, <2>1, <2>2
  <1>5. CASE k = Len(Q) + 1
    <2>1. Append(Q, e)[k] = e /\ k - 1 = Len(Q)
      BY <1>1, <1>5
    <2> QED
      BY <1>3, <2>1
  <1> QED
    BY <1>2, <1>4, <1>5

(* Executing the oldest command keeps both.                                *)
LEMMA LookAheadRuns ==
  ASSUME NEW Q \in Seq(CommandsOf), Q # <<>>, NEW now, NEW then, NEW slots, NEW ins,
         \A k \in 1 .. Len(Q) : Q[k].kind = "end" => Q[k].query \in Queries,
         \A q \in Queries : then[q] = Now(now[q], Head(Q), q),
         Ends(now, Q), Opens(now, Q, slots, ins)
  PROVE  Ends(then, Tail(Q)) /\ Opens(then, Tail(Q), slots, ins)
  <1>1. /\ Tail(Q) \in Seq(CommandsOf) /\ Len(Q) \in Nat \ {0} /\ Len(Tail(Q)) = Len(Q) - 1
        /\ \A j \in 1 .. Len(Q) - 1 : Tail(Q)[j] = Q[j + 1]
    BY TailSeq
  <1>2. ASSUME NEW q \in Queries, NEW k \in 1 .. Len(Q)
        PROVE  Seen(then[q], Tail(Q), q, k - 1) = Seen(now[q], Q, q, k)
    BY SeenShifts
  <1>3. ASSUME NEW k \in 1 .. Len(Q) - 1, Q[k + 1].kind = "end"
        PROVE  Q[k + 1].counted = Seen(then[Q[k + 1].query], Tail(Q), Q[k + 1].query, k - 1)
    <2>1. k \in 1 .. Len(Q) /\ k + 1 \in 1 .. Len(Q) /\ (k + 1) - 1 = k
      BY <1>1
    <2>2. Q[k + 1].query \in Queries
      BY <1>3, <2>1
    <2>3. Q[k + 1].counted = Seen(now[Q[k + 1].query], Q, Q[k + 1].query, k)
      BY <1>3, <2>1 DEF Ends
    <2> QED
      BY <1>2, <2>1, <2>2, <2>3
  <1>4. Ends(then, Tail(Q))
    BY <1>1, <1>3 DEF Ends
  <1>5. Len(Q) \in 1 .. Len(Q)
    BY <1>1
  <1>6. Opens(then, Tail(Q), slots, ins)
    BY <1>1, <1>2, <1>5 DEF Opens
  <1> QED
    BY <1>4, <1>6
-----------------------------------------------------------------------------
LEMMA InitQueryInv == Init => QueryInv
  <1> SUFFICES ASSUME Init PROVE QueryInv
    OBVIOUS
  <1>1. TypeOK
    BY QueryAssumption DEF Init, TypeOK, NoCmd, Names, CommandsOf, Ids
  <1>2. Outstanding = <<>> /\ Len(queue) = 0 /\ queue = <<>>
    BY DEF Init, Outstanding
  <1>3. \A q \in Queries : asyncs[IdOf[q]] # q
    BY QueryAssumption DEF Init, Ids
  <1> QED
    BY <1>1, <1>2, <1>3 DEF Init, QueryInv, Bounds, LookAhead, Ends, Opens

(* The type of the variables, and the order of the two threads' steps.     *)
LEMMA NextTypeOK == TypeOK /\ Bounds /\ [Next]_vars => TypeOK' /\ Bounds'
  <1> SUFFICES ASSUME TypeOK, Bounds, [Next]_vars PROVE TypeOK' /\ Bounds'
    OBVIOUS
  <1> USE QueryAssumption DEF object, app, render, history, Names, Called
  <1>0. \A q \in Queries : IdOf[q] \in Ids
    BY DEF Ids
  <1>1. ASSUME NEW q \in Queries, BeginStarted(q)
        PROVE  TypeOK' /\ Bounds'
    BY <1>1 DEF TypeOK, Bounds, BeginStarted
  <1>2. ASSUME NEW q \in Queries, BeginRead(q)
        PROVE  TypeOK' /\ Bounds'
    <2>1. areg' \in Int /\ hurried' \subseteq Queries /\ aq' \in Queries
      BY <1>2 DEF BeginRead, TypeOK
    <2>2. calls' \in 0 .. MaxCalls /\ \A r \in Queries : leaked'[r] <= calls' /\ leaked'[r] < calls'
      BY <1>2 DEF BeginRead, TypeOK, Bounds
    <2>3. overlaps' \in [Queries -> Nat]
      <3>1. overlaps' = IF rpc = "stop" /\ Head(queue).query = q THEN [overlaps EXCEPT ![q] = @ + 1] ELSE overlaps
        BY <1>2 DEF BeginRead, Met
      <3>2. overlaps \in [Queries -> Nat]
        BY DEF TypeOK
      <3> QED
        BY <3>1, <3>2
    <2>4. TypeOK'
      BY <1>2, <2>1, <2>2, <2>3 DEF BeginRead, TypeOK
    <2> QED
      BY <1>2, <2>1, <2>2, <2>4 DEF BeginRead, Bounds
  <1>3. ASSUME NEW q \in Queries, EndRefused(q)
        PROVE  TypeOK' /\ Bounds'
    BY <1>3 DEF TypeOK, Bounds, EndRefused
  <1>4. ASSUME NEW q \in Queries, GetStarted(q)
        PROVE  TypeOK' /\ Bounds'
    BY <1>4 DEF TypeOK, Bounds, GetStarted
  <1>5. ASSUME NEW q \in Queries, GetLock(q)
        PROVE  TypeOK' /\ Bounds'
    BY <1>5 DEF TypeOK, Bounds, GetLock
  <1>6. ASSUME NEW q \in Queries, End(q)
        PROVE  TypeOK' /\ Bounds'
    <2>1. started' \in [Queries -> BOOLEAN] /\ asyncs' \in [Ids -> Names]
      BY <1>6 DEF End, TypeOK
    <2>2. cmd' \in CommandsOf /\ cmd'.kind = "end" /\ cmd'.query = q
      BY <1>6, <2>1 DEF End, TypeOK, CommandsOf
    <2>3. calls' \in 0 .. MaxCalls /\ \A r \in Queries : leaked'[r] <= calls'
      BY <1>6 DEF End, TypeOK, Bounds
    <2>4. TypeOK'
      BY <1>6, <2>1, <2>2, <2>3 DEF End, TypeOK
    <2> QED
      BY <1>6, <2>2, <2>3, <2>4 DEF End, Bounds
  <1>7. CASE Draw
    BY <1>7 DEF TypeOK, Bounds, Draw, CommandsOf
  <1>8. CASE BeginRefused
    BY <1>8 DEF TypeOK, Bounds, BeginRefused, Raised
  <1>9. CASE BeginAccepted
    <2>1. aq \in Queries
      BY <1>9 DEF BeginAccepted, Bounds
    <2>2. started' \in [Queries -> BOOLEAN] /\ pending' \in [Queries -> Int]
      BY <1>9, <2>1 DEF BeginAccepted, Raised, TypeOK
    <2>3. asyncs' \in [Ids -> Names] /\ settled' \subseteq Queries
      BY <1>9, <2>1 DEF BeginAccepted, TypeOK
    <2>4. inside' \in [Queries -> SUBSET (1 .. MaxCalls)]
      BY <1>9, <2>1 DEF BeginAccepted, TypeOK
    <2>5. cmd' \in CommandsOf /\ cmd'.kind = "begin" /\ cmd'.query = aq
      BY <1>9, <2>1, <2>3 DEF BeginAccepted, CommandsOf
    <2>6. TypeOK'
      BY <1>9, <2>1, <2>2, <2>3, <2>4, <2>5 DEF BeginAccepted, TypeOK
    <2> QED
      BY <1>9, <2>1, <2>5, <2>6 DEF BeginAccepted, Bounds
  <1>10. CASE Commit
    BY <1>10 DEF TypeOK, Bounds, Commit
  <1>11. CASE Flush
    BY <1>11 DEF TypeOK, Bounds, Flush
  <1>12. CASE WakeSpuriously \/ Timeout \/ Wait \/ Settle
    BY <1>12 DEF TypeOK, Bounds, WakeSpuriously, Timeout, Wait, Settle
  <1>13. CASE GetValue
    BY <1>13 DEF TypeOK, Bounds, GetValue
  <1>14. ASSUME queue # <<>>, queue' = Tail(queue)
         PROVE  /\ queue' \in Seq(CommandsOf) /\ Len(queue') <= QUEUE_SIZE
                /\ \A k \in 1 .. Len(queue') : queue'[k].kind \in {"begin", "end"} => queue'[k].query \in Queries
    <2>1. /\ queue' \in Seq(CommandsOf) /\ Len(queue) \in Nat \ {0} /\ Len(queue') = Len(queue) - 1
          /\ \A j \in 1 .. Len(queue) - 1 : queue'[j] = queue[j + 1]
      BY <1>14, TailSeq DEF TypeOK
    <2>2. \A j \in 1 .. Len(queue) - 1 : j + 1 \in 1 .. Len(queue)
      BY <2>1
    <2>3. Len(queue') <= QUEUE_SIZE
      BY <2>1 DEF TypeOK
    <2>4. \A k \in 1 .. Len(queue') : queue'[k].kind \in {"begin", "end"} => queue'[k].query \in Queries
      BY <2>1, <2>2 DEF Bounds
    <2> QED
      BY <2>1, <2>3, <2>4
  <1>15. queue # <<>> => /\ Head(queue) \in CommandsOf /\ Head(queue).counted \subseteq 0 .. MaxCalls
                         /\ Head(queue).kind \in {"begin", "end"} => Head(queue).query \in Queries
    <2> SUFFICES ASSUME queue # <<>> PROVE Head(queue) = queue[1] /\ 1 \in 1 .. Len(queue) /\ queue[1] \in CommandsOf
      BY DEF Bounds, CommandsOf
    <2>1. queue \in Seq(CommandsOf)
      BY DEF TypeOK
    <2>2. Len(queue) \in Nat \ {0} /\ Head(queue) = queue[1] /\ Head(queue) \in CommandsOf
      BY <2>1, TailSeq
    <2> QED
      BY <2>2
  <1>16. CASE StartCounting
    <2>1. counter' \in [Queries -> SUBSET (0 .. MaxCalls)]
      BY <1>16, <1>15 DEF StartCounting, Running, TypeOK
    <2> QED
      BY <1>14, <1>16, <2>1 DEF StartCounting, Running, TypeOK, Bounds
  <1>17. CASE ExecuteDraw
    <2>1. counter' \in [Queries -> SUBSET (0 .. MaxCalls)]
      BY <1>17, <1>15 DEF ExecuteDraw, Running, TypeOK
    <2> QED
      BY <1>14, <1>17, <2>1 DEF ExecuteDraw, Running, TypeOK, Bounds
  <1>18. CASE StopRead
    <2>1. overlaps' \in [Queries -> Nat]
      <3>1. overlaps' = overlaps \/ Met(aq)
        BY <1>18 DEF StopRead
      <3> QED
        BY <3>1 DEF Met, TypeOK
    <2> QED
      BY <1>15, <1>18, <2>1 DEF StopRead, Running, TypeOK, Bounds
  <1>19. CASE StopWrite
    <2>1. Head(queue).query \in Queries /\ queue # <<>>
      BY <1>15, <1>19 DEF StopWrite, Bounds
    <2>2. pending' \in [Queries -> Int]
      BY <1>19, <2>1 DEF StopWrite, TypeOK
    <2>3. apc' \in {apc, "get"} /\ (apc' = "get" => apc \in {"get", "wait"})
      BY <1>19 DEF StopWrite, Woken
    <2> QED
      BY <1>14, <1>19, <2>1, <2>2, <2>3 DEF StopWrite, TypeOK, Bounds
  <1>20. CASE UNCHANGED vars
    BY <1>20 DEF TypeOK, Bounds, vars
  <1> QED
    BY <1>1, <1>2, <1>3, <1>4, <1>5, <1>6, <1>7, <1>8, <1>9, <1>10, <1>11, <1>12, <1>13,
       <1>16, <1>17, <1>18, <1>19, <1>20
       DEF Next, AppProgress, RenderProgress

LEMMA OutstandingTyped ==
  ASSUME TypeOK, Bounds
  PROVE  /\ Outstanding \in Seq(CommandsOf)
         /\ \A k \in 1 .. Len(Outstanding) : Outstanding[k].kind = "end" => Outstanding[k].query \in Queries
  <1>1. queue \in Seq(CommandsOf) /\ cmd \in CommandsOf
    BY DEF TypeOK
  <1>2. CASE apc = "commit"
    <2>1. /\ Append(queue, cmd) \in Seq(CommandsOf) /\ Len(queue) \in Nat /\ Len(Append(queue, cmd)) = Len(queue) + 1
          /\ \A j \in 1 .. Len(queue) : Append(queue, cmd)[j] = queue[j]
          /\ Append(queue, cmd)[Len(queue) + 1] = cmd
      BY <1>1, AppendedSeq
    <2>2. \A k \in 1 .. Len(queue) + 1 : k \in 1 .. Len(queue) \/ k = Len(queue) + 1
      BY <2>1
    <2> QED
      BY <1>2, <2>1, <2>2 DEF Outstanding, Bounds
  <1>3. CASE apc # "commit"
    BY <1>1, <1>3 DEF Outstanding, Bounds
  <1> QED
    BY <1>2, <1>3

(* The oldest command of the queue is the oldest outstanding one.          *)
LEMMA OldestRuns ==
  ASSUME TypeOK, queue # <<>>, queue' = Tail(queue), cmd' = cmd, apc' = "commit" <=> apc = "commit"
  PROVE  Outstanding # <<>> /\ Outstanding' = Tail(Outstanding) /\ Head(Outstanding) = Head(queue)
  <1>1. queue \in Seq(CommandsOf) /\ cmd \in CommandsOf
    BY DEF TypeOK
  <1> QED
    BY <1>1, TailAppend DEF Outstanding

(* The look ahead is kept by every step of both threads.                   *)
LEMMA NextLookAhead == QueryInv /\ [Next]_vars => LookAhead'
  <1> SUFFICES ASSUME TypeOK, Bounds, LookAhead, [Next]_vars PROVE LookAhead'
    BY DEF QueryInv
  <1> USE DEF object, app, render, history
  <1>0. queue \in Seq(CommandsOf) /\ cmd \in CommandsOf /\ cmd' \in CommandsOf /\ Len(queue) \in Nat
    BY NextTypeOK DEF TypeOK
  <1>a. ASSUME Outstanding' = Outstanding, UNCHANGED <<counter, asyncs, inside>> PROVE LookAhead'
    BY <1>a DEF LookAhead
  <1>b. ASSUME apc # "commit", apc' # "commit", UNCHANGED <<queue, counter, asyncs, inside>> PROVE LookAhead'
    BY <1>a, <1>b DEF Outstanding
  <1>c. ASSUME apc # "commit", apc' = "commit", queue' = queue, counter' = counter,
               cmd'.kind = "end" => cmd'.counted = Seen(counter[cmd'.query], queue, cmd'.query, Len(queue)),
               \A r \in Queries : asyncs'[IdOf[r]] = r =>
                 inside'[r] = Seen(counter[r], Append(queue, cmd'), r, Len(queue) + 1)
        PROVE  LookAhead'
    <2>1. Outstanding = queue /\ Outstanding' = Append(queue, cmd') /\ Len(Outstanding') = Len(queue) + 1
      BY <1>0, <1>c, AppendedSeq DEF Outstanding
    <2>2. Ends(counter, queue)
      BY <2>1 DEF LookAhead
    <2>3. Ends(counter, Append(queue, cmd'))
      BY <1>0, <1>c, <2>2, EndsIssued
    <2> QED
      BY <1>c, <2>1, <2>3 DEF LookAhead, Opens
  <1>d. ASSUME apc # "commit", NEW r \in Queries, asyncs[IdOf[r]] = r
        PROVE  inside[r] = Seen(counter[r], queue, r, Len(queue))
    BY <1>d DEF LookAhead, Opens, Outstanding
  <1>e. ASSUME NEW r
        PROVE  /\ Begins(cmd', r) => Seen(counter[r], Append(queue, cmd'), r, Len(queue) + 1) = {}
               /\ Counts(cmd', r) => Seen(counter[r], Append(queue, cmd'), r, Len(queue) + 1)
                                       = Seen(counter[r], queue, r, Len(queue)) \cup cmd'.counted
               /\ ~Begins(cmd', r) /\ ~Counts(cmd', r) =>
                    Seen(counter[r], Append(queue, cmd'), r, Len(queue) + 1) = Seen(counter[r], queue, r, Len(queue))
    BY <1>0, SeenAfter
  <1>1. ASSUME NEW q \in Queries, BeginStarted(q) \/ BeginRead(q) \/ EndRefused(q) \/ GetStarted(q) \/ GetLock(q)
        PROVE  LookAhead'
    BY <1>1, <1>b DEF BeginStarted, BeginRead, EndRefused, GetStarted, GetLock, Called
  <1>2. ASSUME NEW q \in Queries, End(q)
        PROVE  LookAhead'
    <2>1. /\ apc # "commit" /\ apc' = "commit" /\ queue' = queue /\ counter' = counter
          /\ cmd'.kind = "end" /\ cmd'.query = q /\ cmd'.counted = inside[q] /\ asyncs[IdOf[q]] = q
      BY <1>2 DEF End, Called
    <2>2. cmd'.counted = Seen(counter[q], queue, q, Len(queue))
      BY <1>d, <2>1
    <2>3. ASSUME NEW r \in Queries, asyncs'[IdOf[r]] = r
          PROVE  inside'[r] = Seen(counter[r], Append(queue, cmd'), r, Len(queue) + 1)
      <3>1. IdOf[r] \in Ids /\ asyncs \in [Ids -> Names] /\ r # NoQuery
        BY QueryAssumption DEF TypeOK, Ids
      <3>2. asyncs[IdOf[r]] = r /\ inside'[r] = inside[r]
        BY <1>2, <2>3, <3>1 DEF End
      <3>3. ~Begins(cmd', r) /\ ~Counts(cmd', r)
        BY <2>1 DEF Begins, Counts
      <3> QED
        BY <1>d, <1>e, <2>1, <3>2, <3>3
    <2> QED
      BY <1>c, <2>1, <2>2, <2>3
  <1>3. CASE Draw
    <2>1. /\ apc # "commit" /\ apc' = "commit" /\ queue' = queue /\ counter' = counter /\ asyncs' = asyncs
          /\ cmd'.kind = "draw" /\ cmd'.slots = asyncs /\ cmd'.counted = {calls'}
      BY <1>3 DEF Draw, Called, object
    <2>2. ASSUME NEW r \in Queries, asyncs'[IdOf[r]] = r
          PROVE  inside'[r] = Seen(counter[r], Append(queue, cmd'), r, Len(queue) + 1)
      <3>1. inside'[r] = inside[r] \cup {calls'} /\ asyncs[IdOf[r]] = r
        BY <1>3, <2>1, <2>2 DEF Draw
      <3>2. Counts(cmd', r)
        BY <2>1, <3>1 DEF Counts
      <3> QED
        BY <1>d, <1>e, <2>1, <3>1, <3>2
    <2>3. cmd'.kind # "end"
      BY <2>1
    <2> QED
      BY <1>c, <2>1, <2>2, <2>3
  <1>4. CASE BeginAccepted
    <2>1. /\ apc # "commit" /\ apc' = "commit" /\ queue' = queue /\ counter' = counter
          /\ cmd'.kind = "begin" /\ cmd'.query = aq /\ aq \in Queries
      BY <1>4 DEF BeginAccepted, Bounds
    <2>2. ASSUME NEW r \in Queries, asyncs'[IdOf[r]] = r
          PROVE  inside'[r] = Seen(counter[r], Append(queue, cmd'), r, Len(queue) + 1)
      <3>1. CASE r = aq
        <4>1. inside'[r] = {} /\ Begins(cmd', r)
          BY <1>4, <2>1, <3>1 DEF BeginAccepted, Begins, TypeOK
        <4> QED
          BY <1>e, <4>1
      <3>2. CASE r # aq
        <4>1. IdOf[r] \in Ids /\ asyncs \in [Ids -> Names] /\ inside \in [Queries -> SUBSET (1 .. MaxCalls)]
          BY DEF TypeOK, Ids
        <4>2. asyncs[IdOf[r]] = r /\ inside'[r] = inside[r]
          BY <1>4, <2>2, <3>2, <4>1 DEF BeginAccepted
        <4>3. ~Begins(cmd', r) /\ ~Counts(cmd', r)
          BY <2>1, <3>2 DEF Begins, Counts
        <4> QED
          BY <1>d, <1>e, <2>1, <4>2, <4>3
      <3> QED
        BY <3>1, <3>2
    <2>3. cmd'.kind # "end"
      BY <2>1
    <2> QED
      BY <1>c, <2>1, <2>2, <2>3
  <1>5. CASE BeginRefused
    BY <1>5, <1>b DEF BeginRefused
  <1>6. CASE Commit
    <2>1. Outstanding' = Outstanding
      BY <1>6 DEF Commit, Outstanding
    <2> QED
      BY <1>6, <1>a, <2>1 DEF Commit
  <1>7. CASE Flush \/ WakeSpuriously \/ Timeout \/ Wait \/ Settle \/ GetValue
    BY <1>7, <1>b DEF Flush, WakeSpuriously, Timeout, Wait, Settle, GetValue
  <1>8. CASE StopRead \/ UNCHANGED vars
    BY <1>8, <1>a DEF StopRead, vars, Outstanding
  <1>f. ASSUME queue # <<>>, queue' = Tail(queue), UNCHANGED <<asyncs, inside, cmd>>,
               apc' = "commit" <=> apc = "commit",
               \A q \in Queries : counter'[q] = Now(counter[q], Head(queue), q)
        PROVE  LookAhead'
    <2>1. Outstanding # <<>> /\ Outstanding' = Tail(Outstanding) /\ Head(Outstanding) = Head(queue)
      BY <1>f, OldestRuns
    <2>2. \A q \in Queries : counter'[q] = Now(counter[q], Head(Outstanding), q)
      BY <1>f, <2>1
    <2>3. Ends(counter', Tail(Outstanding)) /\ Opens(counter', Tail(Outstanding), asyncs, inside)
      BY <2>1, <2>2, OutstandingTyped, LookAheadRuns DEF LookAhead
    <2> QED
      BY <1>f, <2>1, <2>3 DEF LookAhead
  <1>9. CASE StartCounting
    <2>1. ASSUME NEW q \in Queries PROVE counter'[q] = Now(counter[q], Head(queue), q)
      BY <1>9 DEF StartCounting, Running, Now, Begins, Counts, TypeOK
    <2> QED
      BY <1>9, <1>f, <2>1 DEF StartCounting, Running
  <1>10. CASE ExecuteDraw
    <2>1. ASSUME NEW q \in Queries PROVE counter'[q] = Now(counter[q], Head(queue), q)
      BY <1>10 DEF ExecuteDraw, Running, Now, Begins, Counts
    <2> QED
      BY <1>10, <1>f, <2>1 DEF ExecuteDraw, Running
  <1>11. CASE StopWrite
    <2>1. ASSUME NEW q \in Queries PROVE counter'[q] = Now(counter[q], Head(queue), q)
      BY <1>11 DEF StopWrite, Bounds, Now, Begins, Counts
    <2>2. apc' = "commit" <=> apc = "commit"
      BY <1>11 DEF StopWrite, Woken
    <2> QED
      BY <1>11, <1>f, <2>1, <2>2 DEF StopWrite, Bounds
  <1> QED
    BY <1>1, <1>2, <1>3, <1>4, <1>5, <1>6, <1>7, <1>8, <1>9, <1>10, <1>11
       DEF Next, AppProgress, RenderProgress

(* What the end of a bracket carries is what its query has counted when it *)
(* is the oldest command.                                                  *)
LEMMA LookAheadExact == QueryInv => BracketExact
  <1> SUFFICES ASSUME TypeOK, Bounds, LookAhead, rpc = "stop"
               PROVE  counter[Head(queue).query] = Head(queue).counted
    BY DEF QueryInv, BracketExact
  <1> DEFINE q == Head(queue).query
  <1>1. queue \in Seq(CommandsOf) /\ queue # <<>> /\ Head(queue).kind = "end"
    BY DEF TypeOK, Bounds
  <1>2. Len(queue) \in Nat \ {0} /\ Head(queue) = queue[1]
    BY <1>1, TailSeq
  <1>3. 1 \in 1 .. Len(Outstanding) /\ Outstanding[1] = Head(queue)
    <2>1. CASE apc = "commit"
      <3>1. Len(Append(queue, cmd)) = Len(queue) + 1 /\ \A j \in 1 .. Len(queue) : Append(queue, cmd)[j] = queue[j]
        BY <1>1, AppendedSeq DEF TypeOK
      <3> QED
        BY <1>2, <2>1, <3>1 DEF Outstanding
    <2>2. CASE apc # "commit"
      BY <1>2, <2>2 DEF Outstanding
    <2> QED
      BY <2>1, <2>2
  <1>4. Head(queue).counted = Seen(counter[q], Outstanding, q, 0)
    BY <1>1, <1>3 DEF LookAhead, Ends
  <1>5. q \in Queries /\ counter[q] \subseteq 0 .. MaxCalls
    BY <1>1, <1>2 DEF Bounds, TypeOK
  <1>6. Seen(counter[q], Outstanding, q, 0) = counter[q]
    BY <1>5 DEF Seen
  <1> QED
    BY <1>4, <1>6

LEMMA QueryInvariance == Spec => []QueryInv
  <1>1. QueryInv /\ [Next]_vars => QueryInv'
    BY NextTypeOK, NextLookAhead DEF QueryInv
  <1> QED
    BY <1>1, InitQueryInv, PTL DEF Spec

(* The variables keep their types for every number of queries and calls:   *)
(* the queue stays within its bound and a refused begin within the calls.  *)
THEOREM QueryTypeOK == Spec => []TypeOK
  <1>1. QueryInv => TypeOK
    BY DEF QueryInv
  <1> QED
    BY <1>1, QueryInvariance, PTL

(* When the rendering thread closes a bracket, its query has counted the   *)
(* draws the application issued inside it and no others, for any number of *)
(* queries and kinds, any length of the queue and any interleaving.        *)
THEOREM BracketsCountTheirDraws == Spec => []BracketExact
  BY QueryInvariance, LookAheadExact, PTL
-----------------------------------------------------------------------------
(* The brackets of q that are closed in Q: what stop_counting will still   *)
(* take from its count.                                                    *)
EndsOf(Q, q) == {i \in 1 .. Len(Q) : Q[i].kind = "end" /\ Q[i].query = q}
Left(Q, q) == Cardinality(EndsOf(Q, q))
IsEnd(c, q) == c.kind = "end" /\ c.query = q
Open(q) == IF asyncs[IdOf[q]] = q THEN 1 ELSE 0
Due(q) == Left(Outstanding, q) + Open(q) + leaked[q]

(* The count, and what either thread has read of it to write it back, is   *)
(* as far from what is due as there were overlaps; an overlap still under  *)
(* way has not cost anything yet.                                          *)
Meeting(q) == apc = "begin" /\ aq = q /\ rpc = "stop" /\ Head(queue).query = q
Slack(q) == overlaps[q] - (IF Meeting(q) THEN 1 ELSE 0)
Near(a, b, n) == a - b <= n /\ b - a <= n

PendingNear == \A q \in Queries : Near(pending[q], Due(q), Slack(q))
BeginNear == apc = "begin" => Near(areg, Due(aq), Slack(aq))
StopNear == rpc = "stop" => Near(rreg, Due(Head(queue).query), Slack(Head(queue).query))
NearInv == PendingNear /\ BeginNear /\ StopNear

(* If the application settles before it begins again, no end of the query  *)
(* is outstanding at its begin.                                            *)
SettledDone == \A q \in settled \ hurried : Left(Outstanding, q) = 0 /\ asyncs[IdOf[q]] # q
HeldStarted == \A q \in Queries : asyncs[IdOf[q]] = q => started[q]
BeginFresh == apc = "begin" => ~started[aq] /\ (aq \notin hurried => aq \in settled)
GetClosed == apc \in {"get", "poll", "wait", "value"} => ~started[aq]
ValueSettled == apc = "value" /\ overlaps[aq] = 0 => Left(Outstanding, aq) = 0

SettleInv ==
  /\ SettledDone /\ HeldStarted /\ BeginFresh
  /\ GetClosed /\ ValueSettled /\ SettledBeginsAlone

CountInv == NearInv /\ SettleInv

LEMMA LeftFinite ==
  ASSUME NEW Q \in Seq(CommandsOf), NEW q
  PROVE  IsFiniteSet(EndsOf(Q, q)) /\ Left(Q, q) \in Nat
  <1>1. Len(Q) \in Nat
    OBVIOUS
  <1>2. IsFiniteSet(1 .. Len(Q))
    BY <1>1, FS_Interval
  <1>3. EndsOf(Q, q) \subseteq 1 .. Len(Q)
    BY DEF EndsOf
  <1>4. IsFiniteSet(EndsOf(Q, q))
    BY <1>2, <1>3, FS_Subset
  <1> QED
    BY <1>4, FS_CardinalityType DEF Left

(* Issuing an end adds one ...                                             *)
LEMMA LeftIssued ==
  ASSUME NEW Q \in Seq(CommandsOf), NEW e \in CommandsOf, NEW q
  PROVE  Left(Append(Q, e), q) = Left(Q, q) + (IF IsEnd(e, q) THEN 1 ELSE 0)
  <1> DEFINE n == Len(Q)
             R == Append(Q, e)
  <1>1. n \in Nat /\ Len(R) = n + 1 /\ R[n + 1] = e /\ \A j \in 1 .. n : R[j] = Q[j]
    BY AppendedSeq
  <1>2. \A j : j \in 1 .. n + 1 <=> j \in 1 .. n \/ j = n + 1
    BY <1>1
  <1>3. n + 1 \notin EndsOf(Q, q)
    BY <1>1 DEF EndsOf
  <1>4. CASE IsEnd(e, q)
    <2>1. EndsOf(R, q) = EndsOf(Q, q) \cup {n + 1}
      <3> HIDE DEF R
      <3> QED
        BY <1>1, <1>2, <1>4 DEF EndsOf, IsEnd, n
    <2>2. Cardinality(EndsOf(Q, q) \cup {n + 1}) = Cardinality(EndsOf(Q, q)) + 1
      BY <1>3, LeftFinite, FS_AddElement
    <2> QED
      BY <1>4, <2>1, <2>2 DEF Left
  <1>5. CASE ~IsEnd(e, q)
    <2>1. EndsOf(R, q) = EndsOf(Q, q)
      <3> HIDE DEF R
      <3> QED
        BY <1>1, <1>2, <1>5 DEF EndsOf, IsEnd, n
    <2>2. Left(Q, q) \in Nat
      BY LeftFinite
    <2> QED
      BY <1>5, <2>1, <2>2 DEF Left
  <1> QED
    BY <1>4, <1>5

(* ... and executing one takes it away.                                    *)
LEMMA LeftRun ==
  ASSUME NEW Q \in Seq(CommandsOf), Q # <<>>, NEW q
  PROVE  /\ Left(Q, q) = Left(Tail(Q), q) + (IF IsEnd(Head(Q), q) THEN 1 ELSE 0)
         /\ IsEnd(Head(Q), q) => Left(Q, q) >= 1
  <1> DEFINE n == Len(Q)
             T == Tail(Q)
             Later == EndsOf(Q, q) \ {1}
             f == [i \in EndsOf(T, q) |-> i + 1]
  <1>1. /\ n \in Nat \ {0} /\ T \in Seq(CommandsOf) /\ Len(T) = n - 1 /\ Head(Q) = Q[1]
        /\ \A j \in 1 .. n - 1 : T[j] = Q[j + 1]
    BY TailSeq
  <1>2. IsFiniteSet(EndsOf(T, q)) /\ Left(T, q) \in Nat /\ IsFiniteSet(EndsOf(Q, q)) /\ Left(Q, q) \in Nat
    BY <1>1, LeftFinite
  <1>3. f \in Bijection(EndsOf(T, q), Later)
    <2> HIDE DEF T
    <2>1. ASSUME NEW i \in EndsOf(T, q) PROVE i \in Nat /\ i + 1 \in Later
      BY <1>1 DEF EndsOf
    <2>2. ASSUME NEW k \in Later PROVE \E i \in EndsOf(T, q) : i + 1 = k
      <3>1. k \in 1 .. n /\ k # 1 /\ Q[k].kind = "end" /\ Q[k].query = q
        BY DEF EndsOf
      <3>2. k - 1 \in 1 .. n - 1 /\ (k - 1) + 1 = k
        BY <1>1, <3>1
      <3>3. T[k - 1] = Q[k]
        BY <1>1, <3>2
      <3>4. k - 1 \in EndsOf(T, q)
        BY <1>1, <3>1, <3>2, <3>3 DEF EndsOf
      <3> QED
        BY <3>2, <3>4
    <2>3. f \in [EndsOf(T, q) -> Later]
      BY <2>1
    <2>4. \A i, j \in EndsOf(T, q) : f[i] = f[j] => i = j
      BY <2>1
    <2>5. \A k \in Later : \E i \in EndsOf(T, q) : f[i] = k
      BY <2>2
    <2> QED
      BY <2>3, <2>4, <2>5, Fun_IsBij
  <1>4. Cardinality(EndsOf(T, q)) = Cardinality(Later)
    <2>1. ExistsBijection(EndsOf(T, q), Later)
      BY <1>3 DEF ExistsBijection
    <2> HIDE DEF Later, T
    <2> QED
      BY <1>2, <2>1, FS_Bijection
  <1>5. 1 \in EndsOf(Q, q) <=> IsEnd(Head(Q), q)
    BY <1>1 DEF EndsOf, IsEnd
  <1>6. CASE IsEnd(Head(Q), q)
    <2>1. Cardinality(Later) = Cardinality(EndsOf(Q, q)) - 1
      BY <1>2, <1>5, <1>6, FS_RemoveElement
    <2>2. Left(T, q) = Left(Q, q) - 1
      BY <1>4, <2>1 DEF Left
    <2>3. Left(Q, q) \in Nat /\ Left(Q, q) = Left(T, q) + 1 /\ Left(Q, q) >= 1
      BY <1>2, <2>2
    <2> QED
      BY <1>6, <2>3
  <1>7. CASE ~IsEnd(Head(Q), q)
    <2>1. Later = EndsOf(Q, q)
      BY <1>5, <1>7
    <2>2. Left(Q, q) = Left(T, q) /\ Left(T, q) \in Nat
      BY <1>2, <1>4, <2>1 DEF Left
    <2> QED
      BY <1>7, <2>2
  <1> QED
    BY <1>6, <1>7
-----------------------------------------------------------------------------
LEMMA ClosingLeft ==
  ASSUME TypeOK, NEW q
  PROVE  Closing(q) = Left(Outstanding, q)
  <1>1. queue \in Seq(CommandsOf) /\ cmd \in CommandsOf
    BY DEF TypeOK
  <1>2. Left(queue, q) = Cardinality({i \in 1 .. Len(queue) : queue[i].kind = "end" /\ queue[i].query = q})
    BY DEF Left, EndsOf
  <1>3. CASE apc = "commit"
    <2>1. Left(Append(queue, cmd), q) = Left(queue, q) + (IF IsEnd(cmd, q) THEN 1 ELSE 0)
      BY <1>1, LeftIssued
    <2> QED
      BY <1>2, <1>3, <2>1 DEF Closing, Outstanding, IsEnd
  <1>4. CASE apc # "commit"
    <2>1. Left(queue, q) \in Nat
      BY <1>1, LeftFinite
    <2> QED
      BY <1>2, <1>4, <2>1 DEF Closing, Outstanding
  <1> QED
    BY <1>3, <1>4

LEMMA LeftEmpty == \A q : Left(<<>>, q) = 0
  <1>1. \A q : EndsOf(<<>>, q) = {}
    BY DEF EndsOf
  <1> QED
    BY <1>1, FS_EmptySet DEF Left

LEMMA InitCountInv == Init => CountInv
  <1> SUFFICES ASSUME Init PROVE CountInv
    OBVIOUS
  <1>1. Outstanding = <<>> /\ apc = "idle" /\ rpc = "idle" /\ hurried = {}
    BY DEF Init, Outstanding
  <1>2. \A q \in Queries : Left(Outstanding, q) = 0 /\ Open(q) = 0 /\ asyncs[IdOf[q]] # q
    BY <1>1, LeftEmpty, QueryAssumption DEF Init, Open, Ids
  <1>3. \A q \in Queries : pending[q] = 0 /\ leaked[q] = 0 /\ overlaps[q] = 0
    BY DEF Init
  <1>4. NearInv
    BY <1>1, <1>2, <1>3 DEF NearInv, PendingNear, BeginNear, StopNear, Near, Due, Slack, Meeting
  <1>5. SettledDone /\ HeldStarted /\ SettledBeginsAlone
    BY <1>2, <1>3 DEF SettledDone, HeldStarted, SettledBeginsAlone, Init
  <1> QED
    BY <1>1, <1>4, <1>5 DEF CountInv, SettleInv, BeginFresh, GetClosed, ValueSettled

(* An end the rendering thread has come to is outstanding.                 *)
LEMMA EndOutstanding ==
  ASSUME TypeOK, Bounds, queue # <<>>, Head(queue).kind = "end"
  PROVE  Head(queue).query \in Queries /\ Left(Outstanding, Head(queue).query) >= 1
  <1>0. queue \in Seq(CommandsOf) /\ cmd \in CommandsOf /\ Outstanding \in Seq(CommandsOf)
    BY OutstandingTyped DEF TypeOK
  <1>1. Len(queue) \in Nat \ {0} /\ Head(queue) = queue[1]
    BY <1>0, TailSeq
  <1>2. Outstanding # <<>> /\ Head(Outstanding) = Head(queue)
    BY <1>0, <1>1, TailAppend DEF Outstanding
  <1>3. Head(queue).query \in Queries
    BY <1>1 DEF Bounds
  <1> QED
    BY <1>0, <1>2, <1>3, LeftRun DEF IsEnd

LEMMA NearShifts ==
  ASSUME NEW a \in Int, NEW b \in Int, NEW n \in Int, Near(a, b, n)
  PROVE  /\ Near(a + 1, b + 1, n) /\ Near(a - 1, b - 1, n)
         /\ Near(a, b + 1, n + 1) /\ Near(a, b - 1, n + 1)
         /\ Near(a + 1, b + 1, n + 1) /\ Near(a - 1, b - 1, n + 1) /\ Near(a, b, n + 1)
  BY DEF Near

LEMMA NextCountInv == QueryInv /\ CountInv /\ [Next]_vars => CountInv'
  <1> SUFFICES ASSUME TypeOK, Bounds, CountInv, [Next]_vars PROVE CountInv'
    BY DEF QueryInv
  <1> USE DEF object, app, render, history
  <1>0. /\ queue \in Seq(CommandsOf) /\ cmd \in CommandsOf /\ cmd' \in CommandsOf
        /\ Outstanding \in Seq(CommandsOf)
        /\ pending \in [Queries -> Int] /\ started \in [Queries -> BOOLEAN] /\ asyncs \in [Ids -> Names]
        /\ leaked \in [Queries -> 0 .. MaxCalls] /\ settled \subseteq Queries /\ hurried \subseteq Queries
        /\ MaxCalls \in Nat /\ NoQuery \notin Queries /\ \A q \in Queries : IdOf[q] \in Ids
    BY NextTypeOK, OutstandingTyped, QueryAssumption DEF TypeOK, Ids
  <1>l. \A r \in Queries : Left(Outstanding, r) \in Nat /\ leaked[r] \in Nat /\ Open(r) \in {0, 1}
    BY <1>0, LeftFinite DEF Open
  <1>n. /\ \A r \in Queries : pending[r] \in Int /\ Due(r) \in Int /\ Slack(r) \in Int /\ overlaps[r] \in Nat
        /\ areg \in Int /\ rreg \in Int /\ overlaps \in [Queries -> Nat]
    <2>1. /\ pending \in [Queries -> Int] /\ areg \in Int /\ rreg \in Int /\ overlaps \in [Queries -> Nat]
      BY DEF TypeOK
    <2>2. \A r \in Queries : Due(r) \in Int
      BY <1>l DEF Due
    <2>3. \A r \in Queries : Slack(r) \in Int
      BY <2>1 DEF Slack
    <2> QED
      BY <2>1, <2>2, <2>3
  (* An outstanding end of the query whose count the rendering thread read.*)
  <1>h. ASSUME rpc = "stop"
        PROVE  Head(queue).query \in Queries /\ Left(Outstanding, Head(queue).query) >= 1
    BY <1>h, EndOutstanding DEF Bounds
  (* A step that changes neither the count nor what is due.                *)
  <1>q. ASSUME UNCHANGED <<pending, rpc, rreg, overlaps, hurried>>, \A r \in Queries : Due(r)' = Due(r),
               apc' = "begin" <=> apc = "begin", apc = "begin" => UNCHANGED <<aq, areg>>,
               rpc = "stop" => Head(queue') = Head(queue)
        PROVE  NearInv' /\ SettledBeginsAlone'
    <2>1. \A r \in Queries : Slack(r)' = Slack(r)
      BY <1>q DEF Slack, Meeting
    <2>2. PendingNear'
      BY <1>q, <2>1 DEF CountInv, NearInv, PendingNear
    <2>3. BeginNear'
      BY <1>q, <2>1 DEF CountInv, NearInv, BeginNear, Bounds
    <2>4. StopNear'
      BY <1>h, <1>q, <2>1 DEF CountInv, NearInv, StopNear
    <2> QED
      BY <1>q, <2>2, <2>3, <2>4 DEF CountInv, SettleInv, NearInv, SettledBeginsAlone
  (* How the three kinds of step change what is outstanding.               *)
  <1>s. ASSUME Outstanding' = Outstanding, UNCHANGED <<asyncs, leaked>>, hurried \subseteq hurried'
        PROVE  (\A r \in Queries : Due(r)' = Due(r)) /\ (settled' \subseteq settled => SettledDone')
    BY <1>s DEF CountInv, SettleInv, SettledDone, Open, Due
  <1>i. ASSUME apc # "commit", apc' = "commit", queue' = queue, NEW r
        PROVE  Left(Outstanding', r) = Left(Outstanding, r) + (IF IsEnd(cmd', r) THEN 1 ELSE 0)
    <2>1. Outstanding = queue /\ Outstanding' = Append(queue, cmd')
      BY <1>i DEF Outstanding
    <2> QED
      BY <1>0, <2>1, LeftIssued
  <1>r. ASSUME queue # <<>>, queue' = Tail(queue), cmd' = cmd, apc' = "commit" <=> apc = "commit", NEW r
        PROVE  Left(Outstanding, r) = Left(Outstanding', r) + (IF IsEnd(Head(queue), r) THEN 1 ELSE 0)
    <2>1. Outstanding # <<>> /\ Outstanding' = Tail(Outstanding) /\ Head(Outstanding) = Head(queue)
      BY <1>r, OldestRuns
    <2> QED
      BY <1>0, <2>1, LeftRun
  <1>1. ASSUME NEW q \in Queries, BeginStarted(q) \/ GetStarted(q)
        PROVE  CountInv'
    <2>1. /\ Outstanding' = Outstanding /\ apc = "idle" /\ apc' = "idle"
          /\ UNCHANGED <<pending, started, asyncs, leaked, settled, hurried, queue, rpc, rreg, overlaps>>
      BY <1>1 DEF BeginStarted, GetStarted, Called, Outstanding
    <2>2. NearInv' /\ SettledBeginsAlone' /\ SettledDone'
      BY <1>q, <1>s, <2>1
    <2> QED
      BY <2>1, <2>2 DEF CountInv, SettleInv, HeldStarted, BeginFresh, GetClosed, ValueSettled
  (* The increment and the decrement meet, or what is read is the count.   *)
  <1>2. ASSUME NEW q \in Queries, BeginRead(q)
        PROVE  CountInv'
    <2>1. /\ Outstanding' = Outstanding /\ UNCHANGED <<pending, started, asyncs, leaked, settled, queue, rpc, rreg>>
          /\ apc = "idle" /\ apc' = "begin" /\ aq' = q /\ ~started[q] /\ areg' = pending[q]
          /\ hurried' = IF q \in settled THEN hurried ELSE hurried \cup {q}
          /\ overlaps' = IF rpc = "stop" /\ Head(queue).query = q THEN [overlaps EXCEPT ![q] = @ + 1] ELSE overlaps
      BY <1>2 DEF BeginRead, Met, Called, Outstanding
    <2>2. (\A r \in Queries : Due(r)' = Due(r)) /\ SettledDone'
      BY <1>s, <2>1
    <2>3. \A r \in Queries : Slack(r)' = Slack(r)
      <3> SUFFICES ASSUME NEW r \in Queries PROVE Slack(r)' = Slack(r)
        OBVIOUS
      <3>1. Slack(r) = overlaps[r] /\ overlaps[r] \in Nat
        BY <1>n, <2>1 DEF Slack, Meeting
      <3>2. Slack(r)' = overlaps'[r] - (IF q = r /\ rpc = "stop" /\ Head(queue).query = r THEN 1 ELSE 0)
        BY <2>1 DEF Slack, Meeting
      <3>3. overlaps'[r] = overlaps[r] + (IF q = r /\ rpc = "stop" /\ Head(queue).query = r THEN 1 ELSE 0)
        BY <1>n, <2>1, <3>1
      <3> QED
        BY <3>1, <3>2, <3>3
    <2>4. NearInv'
      <3>1. PendingNear' /\ BeginNear'
        BY <2>1, <2>2, <2>3 DEF CountInv, NearInv, PendingNear, BeginNear
      <3>2. StopNear'
        BY <1>h, <2>1, <2>2, <2>3 DEF CountInv, NearInv, StopNear
      <3> QED
        BY <3>1, <3>2 DEF NearInv
    <2>5. SettledBeginsAlone'
      <3> SUFFICES ASSUME NEW r \in Queries \ hurried' PROVE overlaps'[r] = 0
        BY DEF SettledBeginsAlone
      <3>1. overlaps[r] = 0 /\ r \notin hurried
        BY <2>1 DEF CountInv, SettleInv, SettledBeginsAlone
      <3>2. r = q => ~(rpc = "stop" /\ Head(queue).query = q)
        BY <1>h, <2>1, <3>1 DEF CountInv, SettleInv, SettledDone
      <3> QED
        BY <1>n, <2>1, <3>1, <3>2
    <2>6. BeginFresh'
      BY <1>0, <2>1 DEF BeginFresh
    <2> QED
      BY <2>1, <2>2, <2>4, <2>5, <2>6 DEF CountInv, SettleInv, HeldStarted, GetClosed, ValueSettled
  <1>3. ASSUME NEW q \in Queries, EndRefused(q)
        PROVE  CountInv'
    <2>1. /\ Outstanding' = Outstanding /\ UNCHANGED <<pending, asyncs, leaked, settled, hurried, queue, rpc, rreg, overlaps>>
          /\ apc = "idle" /\ apc' = "idle" /\ started' = [started EXCEPT ![q] = FALSE]
          /\ (~started[q] \/ asyncs[IdOf[q]] # q)
      BY <1>3 DEF EndRefused, Called, Outstanding
    <2>2. HeldStarted'
      BY <1>0, <2>1 DEF CountInv, SettleInv, HeldStarted
    <2>3. NearInv' /\ SettledBeginsAlone' /\ SettledDone'
      BY <1>q, <1>s, <2>1
    <2> QED
      BY <2>1, <2>2, <2>3 DEF CountInv, SettleInv, BeginFresh, GetClosed, ValueSettled
  <1>4. ASSUME NEW q \in Queries, End(q)
        PROVE  CountInv'
    <2>1. /\ apc = "idle" /\ apc' = "commit" /\ queue' = queue /\ cmd'.kind = "end" /\ cmd'.query = q
          /\ UNCHANGED <<pending, leaked, settled, hurried, rpc, rreg, overlaps>> /\ asyncs[IdOf[q]] = q
          /\ started' = [started EXCEPT ![q] = FALSE] /\ asyncs' = [asyncs EXCEPT ![IdOf[q]] = NoQuery]
      BY <1>4 DEF End, Called
    <2>2. \A r \in Queries : asyncs'[IdOf[r]] = r <=> asyncs[IdOf[r]] = r /\ r # q
      BY <1>0, <2>1
    <2>3. ASSUME NEW r \in Queries
          PROVE  Due(r)' = Due(r) /\ (r # q => Left(Outstanding', r) = Left(Outstanding, r))
      <3>1. Left(Outstanding', r) = Left(Outstanding, r) + (IF r = q THEN 1 ELSE 0)
        BY <1>i, <2>1 DEF IsEnd
      <3>2. Open(r) = IF asyncs[IdOf[r]] = r THEN 1 ELSE 0
        BY DEF Open
      <3>3. Open(r)' = IF asyncs[IdOf[r]] = r /\ r # q THEN 1 ELSE 0
        BY <2>2 DEF Open
      <3> QED
        BY <1>l, <2>1, <3>1, <3>2, <3>3 DEF Due
    <2>4. NearInv' /\ SettledBeginsAlone'
      BY <1>q, <2>1, <2>3
    <2>5. SettledDone'
      BY <1>0, <2>1, <2>2, <2>3 DEF CountInv, SettleInv, SettledDone
    <2>6. HeldStarted'
      BY <1>0, <2>1, <2>2 DEF CountInv, SettleInv, HeldStarted
    <2> QED
      BY <2>1, <2>4, <2>5, <2>6 DEF CountInv, SettleInv, BeginFresh, GetClosed, ValueSettled
  <1>5. CASE Draw
    <2>1. /\ apc = "idle" /\ apc' = "commit" /\ queue' = queue /\ cmd'.kind = "draw"
          /\ UNCHANGED <<pending, started, asyncs, leaked, settled, hurried, rpc, rreg, overlaps>>
      BY <1>5 DEF Draw, Called
    <2>2. \A r \in Queries : Left(Outstanding', r) = Left(Outstanding, r) /\ Due(r)' = Due(r)
      BY <1>i, <1>l, <2>1 DEF IsEnd, Open, Due
    <2>3. NearInv' /\ SettledBeginsAlone'
      BY <1>q, <2>1, <2>2
    <2>4. SettledDone'
      BY <1>0, <2>1, <2>2 DEF CountInv, SettleInv, SettledDone
    <2> QED
      BY <2>1, <2>3, <2>4 DEF CountInv, SettleInv, HeldStarted, BeginFresh, GetClosed, ValueSettled
  (* The count is written back, one more than was read, and one more is    *)
  (* due; an overlap that was under way has its price now.                 *)
  <1>b. ASSUME BeginRefused \/ BeginAccepted,
               \A r \in Queries : Due(r)' = IF r = aq THEN Due(r) + 1 ELSE Due(r)
        PROVE  NearInv'
    <2>1. aq \in Queries /\ apc = "begin" /\ apc' # "begin" /\ pending' = [pending EXCEPT ![aq] = areg + 1]
          /\ UNCHANGED <<queue, rpc, rreg, overlaps>>
      BY <1>b DEF BeginRefused, BeginAccepted, Raised, Bounds
    <2>2. \A r \in Queries : Slack(r)' = IF Meeting(r) THEN Slack(r) + 1 ELSE Slack(r)
      BY <1>n, <2>1 DEF Slack, Meeting
    <2>3. Near(areg, Due(aq), Slack(aq))
      BY <2>1 DEF CountInv, NearInv, BeginNear
    <2>4. PendingNear'
      <3> SUFFICES ASSUME NEW r \in Queries PROVE Near(pending'[r], Due(r)', Slack(r)')
        BY DEF PendingNear
      <3>1. CASE r = aq
        <4>1. pending'[r] = areg + 1 /\ Due(r)' = Due(r) + 1
          BY <1>0, <1>b, <2>1, <3>1
        <4> QED
          BY <1>n, <2>2, <2>3, <3>1, <4>1, NearShifts
      <3>2. CASE r # aq
        <4>1. pending'[r] = pending[r] /\ Due(r)' = Due(r) /\ Slack(r)' = Slack(r)
          BY <1>b, <2>1, <2>2, <3>2 DEF Meeting
        <4> QED
          BY <4>1 DEF CountInv, NearInv, PendingNear
      <3> QED
        BY <3>1, <3>2
    <2>5. StopNear'
      <3> SUFFICES ASSUME rpc = "stop", NEW h \in Queries, h = Head(queue).query
                   PROVE  Near(rreg, Due(h)', Slack(h)')
        BY <1>h, <2>1 DEF StopNear
      <3>1. Near(rreg, Due(h), Slack(h))
        BY DEF CountInv, NearInv, StopNear
      <3>2. CASE h = aq
        <4>1. Due(h)' = Due(h) + 1 /\ Slack(h)' = Slack(h) + 1
          BY <1>b, <2>1, <2>2, <3>2 DEF Meeting
        <4> QED
          BY <1>n, <3>1, <4>1, NearShifts
      <3>3. CASE h # aq
        <4>1. Due(h)' = Due(h) /\ Slack(h)' = Slack(h)
          BY <1>b, <2>1, <2>2, <3>3 DEF Meeting
        <4> QED
          BY <3>1, <4>1
      <3> QED
        BY <3>2, <3>3
    <2> QED
      BY <2>1, <2>4, <2>5 DEF NearInv, BeginNear
  <1>c. ASSUME BeginRefused \/ BeginAccepted
        PROVE  /\ aq \in Queries /\ ~started[aq] /\ asyncs[IdOf[aq]] # aq /\ apc = "begin"
               /\ aq \notin hurried => aq \in settled
               /\ started' = [started EXCEPT ![aq] = TRUE] /\ settled' = settled \ {aq}
               /\ UNCHANGED <<queue, hurried, overlaps, rpc, rreg, aq>>
    BY <1>0, <1>c DEF BeginRefused, BeginAccepted, Bounds, CountInv, SettleInv, BeginFresh, HeldStarted
  <1>6. CASE BeginRefused
    <2>1. /\ Outstanding' = Outstanding /\ asyncs' = asyncs /\ apc' = "idle"
          /\ leaked' = [leaked EXCEPT ![aq] = @ + 1]
      BY <1>6 DEF BeginRefused, Outstanding
    <2>2. \A r \in Queries : leaked'[r] = IF r = aq THEN leaked[r] + 1 ELSE leaked[r]
      BY <1>0, <1>6, <1>c, <2>1
    <2>3. \A r \in Queries : Due(r)' = IF r = aq THEN Due(r) + 1 ELSE Due(r)
      BY <1>l, <2>1, <2>2 DEF Due, Open
    <2>4. NearInv'
      BY <1>6, <1>b, <2>3
    <2>5. SettledDone' /\ SettledBeginsAlone'
      BY <1>6, <1>c, <2>1 DEF CountInv, SettleInv, SettledDone, SettledBeginsAlone
    <2>6. HeldStarted'
      BY <1>0, <1>6, <1>c, <2>1 DEF CountInv, SettleInv, HeldStarted
    <2> QED
      BY <2>1, <2>4, <2>5, <2>6 DEF CountInv, SettleInv, BeginFresh, GetClosed, ValueSettled
  <1>7. CASE BeginAccepted
    <2>1. /\ apc # "commit" /\ apc' = "commit" /\ queue' = queue /\ cmd'.kind = "begin"
          /\ leaked' = leaked /\ asyncs[IdOf[aq]] = NoQuery /\ asyncs' = [asyncs EXCEPT ![IdOf[aq]] = aq]
      BY <1>7 DEF BeginAccepted
    <2>2. \A r \in Queries : asyncs'[IdOf[r]] = r <=> asyncs[IdOf[r]] = r \/ r = aq
      BY <1>0, <1>7, <1>c, <2>1
    <2>3. \A r \in Queries : Left(Outstanding', r) = Left(Outstanding, r)
      BY <1>i, <1>l, <2>1 DEF IsEnd
    <2>4. \A r \in Queries : Due(r)' = IF r = aq THEN Due(r) + 1 ELSE Due(r)
      <3> SUFFICES ASSUME NEW r \in Queries PROVE Due(r)' = IF r = aq THEN Due(r) + 1 ELSE Due(r)
        OBVIOUS
      <3>1. Open(r)' = IF r = aq THEN 1 ELSE Open(r)
        BY <2>2 DEF Open
      <3>2. r = aq => Open(r) = 0
        BY <1>7, <1>c DEF Open
      <3> QED
        BY <1>l, <2>1, <2>3, <3>1, <3>2 DEF Due
    <2>5. NearInv'
      BY <1>7, <1>b, <2>4
    <2>6. SettledDone' /\ SettledBeginsAlone'
      BY <1>0, <1>7, <1>c, <2>2, <2>3 DEF CountInv, SettleInv, SettledDone, SettledBeginsAlone
    <2>7. HeldStarted'
      <3> SUFFICES ASSUME NEW r \in Queries, asyncs'[IdOf[r]] = r PROVE started'[r]
        BY DEF HeldStarted
      <3>1. started' = [started EXCEPT ![aq] = TRUE] /\ started \in [Queries -> BOOLEAN]
        BY <1>0, <1>7, <1>c
      <3>2. r = aq \/ started[r]
        BY <2>2 DEF CountInv, SettleInv, HeldStarted
      <3> QED
        BY <3>1, <3>2
    <2> QED
      BY <2>1, <2>5, <2>6, <2>7 DEF CountInv, SettleInv, BeginFresh, GetClosed, ValueSettled
  <1>8. CASE Commit
    <2>1. /\ Outstanding' = Outstanding /\ apc = "commit" /\ apc' = "idle" /\ queue' = Append(queue, cmd)
          /\ UNCHANGED <<pending, started, asyncs, leaked, settled, hurried, rpc, rreg, overlaps>>
      BY <1>8 DEF Commit, Outstanding
    <2>2. rpc = "stop" => Head(queue') = Head(queue)
      BY <1>0, <2>1, TailAppend DEF Bounds, TypeOK
    <2>3. NearInv' /\ SettledBeginsAlone' /\ SettledDone'
      BY <1>q, <1>s, <2>1, <2>2
    <2> QED
      BY <2>1, <2>3 DEF CountInv, SettleInv, HeldStarted, BeginFresh, GetClosed, ValueSettled
  <1>9. CASE Flush
    <2>1. /\ Outstanding' = Outstanding /\ apc' = apc /\ apc = "idle" /\ Outstanding = <<>>
          /\ settled' = Queries \ {asyncs[i] : i \in Ids}
          /\ UNCHANGED <<pending, started, asyncs, leaked, hurried, queue, rpc, rreg, overlaps>>
      BY <1>9 DEF Flush, Outstanding
    <2>2. SettledDone'
      BY <1>0, <2>1, LeftEmpty DEF SettledDone
    <2>3. NearInv' /\ SettledBeginsAlone'
      BY <1>q, <1>s, <2>1
    <2> QED
      BY <2>1, <2>2, <2>3 DEF CountInv, SettleInv, HeldStarted, BeginFresh, GetClosed, ValueSettled
  <1>10. ASSUME NEW q \in Queries, GetLock(q)
         PROVE  CountInv'
    <2>1. /\ Outstanding' = Outstanding /\ apc = "idle" /\ apc' \in {"get", "poll"} /\ aq' = q /\ ~started[q]
          /\ UNCHANGED <<pending, started, asyncs, leaked, settled, hurried, queue, rpc, rreg, overlaps>>
      BY <1>10 DEF GetLock, Outstanding
    <2>2. NearInv' /\ SettledBeginsAlone' /\ SettledDone'
      BY <1>q, <1>s, <2>1
    <2> QED
      BY <2>1, <2>2 DEF CountInv, SettleInv, HeldStarted, BeginFresh, GetClosed, ValueSettled
  <1>11. CASE Timeout \/ Wait \/ WakeSpuriously
    <2>1. /\ Outstanding' = Outstanding /\ apc' \in {"idle", "wait", "get"}
          /\ apc \in {"get", "poll", "wait"} /\ aq' = aq
          /\ UNCHANGED <<pending, started, asyncs, leaked, settled, hurried, queue, rpc, rreg, overlaps>>
      BY <1>11 DEF Timeout, Wait, WakeSpuriously, Outstanding
    <2>2. NearInv' /\ SettledBeginsAlone' /\ SettledDone'
      BY <1>q, <1>s, <2>1
    <2> QED
      BY <2>1, <2>2 DEF CountInv, SettleInv, HeldStarted, BeginFresh, GetClosed, ValueSettled
  (* A count that is exact, and is not above zero, leaves nothing due.     *)
  <1>12. CASE Settle
    <2>1. /\ Outstanding' = Outstanding /\ apc' = "value" /\ apc \in {"get", "poll"} /\ aq' = aq
          /\ UNCHANGED <<pending, started, asyncs, leaked, settled, hurried, queue, rpc, rreg, overlaps>>
          /\ ~(pending[aq] > 0) /\ aq \in Queries
      BY <1>12 DEF Settle, Waits, Outstanding, Bounds
    <2>2. overlaps[aq] = 0 => Left(Outstanding, aq) = 0
      <3> SUFFICES ASSUME overlaps[aq] = 0 PROVE Left(Outstanding, aq) = 0
        OBVIOUS
      <3>5. apc # "begin"
        BY <2>1
      <3>6. ASSUME NEW r \in Queries PROVE Slack(r) = overlaps[r]
        BY <1>n, <3>5 DEF Slack, Meeting
      <3>7. Slack(aq) = overlaps[aq]
        BY <2>1, <3>6
      <3>8. Slack(aq) = 0
        BY <3>7
      <3>9. Near(pending[aq], Due(aq), Slack(aq))
        BY <2>1 DEF CountInv, NearInv, PendingNear
      <3>1. Near(pending[aq], Due(aq), 0)
        BY <3>8, <3>9
      <3>2. pending[aq] = Due(aq)
        BY <1>n, <2>1, <3>1 DEF Near
      <3>3. Left(Outstanding, aq) \in Nat /\ Open(aq) \in Nat /\ leaked[aq] \in Nat
        BY <1>l, <2>1
      <3>4. ASSUME NEW a \in Nat, NEW b \in Nat, NEW c \in Nat, ~(a + b + c > 0) PROVE a = 0
        BY <3>4
      <3> QED
        BY <2>1, <3>2, <3>3, <3>4 DEF Due
    <2>3. ValueSettled'
      BY <2>1, <2>2 DEF ValueSettled
    <2>4. NearInv' /\ SettledBeginsAlone' /\ SettledDone'
      BY <1>q, <1>s, <2>1
    <2> QED
      BY <2>1, <2>3, <2>4 DEF CountInv, SettleInv, HeldStarted, BeginFresh, GetClosed
  <1>13. CASE GetValue
    <2>1. /\ Outstanding' = Outstanding /\ apc' = "idle" /\ apc = "value" /\ settled' = settled \cup {aq}
          /\ UNCHANGED <<pending, started, asyncs, leaked, hurried, queue, rpc, rreg, overlaps>> /\ aq \in Queries
      BY <1>13 DEF GetValue, Outstanding, Bounds
    <2>2. ~started[aq] /\ asyncs[IdOf[aq]] # aq
      BY <2>1 DEF CountInv, SettleInv, GetClosed, HeldStarted
    <2>3. aq \notin hurried => Left(Outstanding, aq) = 0
      BY <2>1 DEF CountInv, SettleInv, ValueSettled, SettledBeginsAlone
    <2>4. SettledDone'
      BY <2>1, <2>2, <2>3 DEF CountInv, SettleInv, SettledDone
    <2>5. NearInv' /\ SettledBeginsAlone'
      BY <1>q, <1>s, <2>1
    <2> QED
      BY <2>1, <2>4, <2>5 DEF CountInv, SettleInv, HeldStarted, BeginFresh, GetClosed, ValueSettled
  <1>14. CASE StartCounting \/ ExecuteDraw
    <2>1. /\ queue # <<>> /\ queue' = Tail(queue) /\ Head(queue).kind # "end" /\ rpc = "idle"
          /\ UNCHANGED <<pending, started, asyncs, leaked, settled, hurried, cmd, apc, aq, areg, rpc, rreg, overlaps>>
      BY <1>14 DEF StartCounting, ExecuteDraw, Running
    <2>2. \A r : Left(Outstanding, r) = Left(Outstanding', r) + (IF IsEnd(Head(queue), r) THEN 1 ELSE 0)
      BY <1>r, <2>1
    <2>3. \A r : IsEnd(Head(queue), r) = FALSE
      BY <2>1 DEF IsEnd
    <2>4. Outstanding' \in Seq(CommandsOf)
      BY NextTypeOK, OutstandingTyped, <1>0, <2>1, TailAppend, TailSeq DEF Outstanding, TypeOK
    <2>5. \A r : Left(Outstanding', r) = Left(Outstanding, r)
      <3>1. \A r : Left(Outstanding', r) \in Nat
        BY <2>4, LeftFinite
      <3> QED
        BY <2>2, <2>3, <3>1
    <2>6. NearInv' /\ SettledBeginsAlone'
      <3>1. \A r \in Queries : Due(r)' = Due(r)
        BY <2>1, <2>5 DEF Due, Open
      <3> QED
        BY <1>q, <2>1, <3>1
    <2>7. SettledDone' /\ ValueSettled'
      BY <2>1, <2>5 DEF CountInv, SettleInv, SettledDone, ValueSettled
    <2> QED
      BY <2>1, <2>6, <2>7 DEF CountInv, SettleInv, HeldStarted, BeginFresh, GetClosed
  <1>15. CASE StopRead
    <2> DEFINE h == Head(queue).query
    <2>1. /\ Outstanding' = Outstanding /\ rreg' = pending[h] /\ rpc = "idle" /\ rpc' = "stop"
          /\ queue # <<>> /\ Head(queue).kind = "end"
          /\ UNCHANGED <<pending, started, asyncs, leaked, settled, hurried, queue, apc, aq, areg>>
          /\ overlaps' = IF apc = "begin" /\ aq = h THEN [overlaps EXCEPT ![aq] = @ + 1] ELSE overlaps
      BY <1>15 DEF StopRead, Running, Met, Outstanding
    <2>2. h \in Queries /\ Left(Outstanding, h) >= 1
      BY <2>1, EndOutstanding
    <2>3. (\A r \in Queries : Due(r)' = Due(r)) /\ SettledDone'
      BY <1>s, <2>1
    <2>4. \A r \in Queries : Slack(r)' = Slack(r)
      <3> SUFFICES ASSUME NEW r \in Queries PROVE Slack(r)' = Slack(r)
        OBVIOUS
      <3>1. Slack(r) = overlaps[r] /\ overlaps[r] \in Nat
        BY <1>n, <2>1 DEF Slack, Meeting
      <3>2. Slack(r)' = overlaps'[r] - (IF apc = "begin" /\ aq = r /\ h = r THEN 1 ELSE 0)
        BY <2>1 DEF Slack, Meeting
      <3>3. overlaps'[r] = overlaps[r] + (IF apc = "begin" /\ aq = r /\ h = r THEN 1 ELSE 0)
        BY <1>n, <2>1, <3>1
      <3> QED
        BY <3>1, <3>2, <3>3
    <2>5. NearInv'
      <3>1. PendingNear' /\ StopNear'
        BY <2>1, <2>2, <2>3, <2>4 DEF CountInv, NearInv, PendingNear, StopNear
      <3>2. BeginNear'
        BY <2>1, <2>3, <2>4 DEF CountInv, NearInv, BeginNear, Bounds
      <3> QED
        BY <3>1, <3>2 DEF NearInv
    <2>6. SettledBeginsAlone'
      <3> SUFFICES ASSUME NEW r \in Queries \ hurried PROVE overlaps'[r] = 0
        BY <2>1 DEF SettledBeginsAlone
      <3>1. overlaps[r] = 0
        BY DEF CountInv, SettleInv, SettledBeginsAlone
      <3>2. apc = "begin" /\ aq = h => r # aq
        BY <2>2 DEF CountInv, SettleInv, SettledDone, BeginFresh
      <3> QED
        BY <1>n, <2>1, <3>1, <3>2
    <2>7. ValueSettled'
      BY <2>1 DEF CountInv, SettleInv, ValueSettled
    <2> QED
      BY <2>1, <2>3, <2>5, <2>6, <2>7 DEF CountInv, SettleInv, HeldStarted, BeginFresh, GetClosed
  <1>16. CASE StopWrite
    <2> DEFINE h == Head(queue).query
    <2>1. /\ rpc = "stop" /\ rpc' = "idle" /\ queue # <<>> /\ queue' = Tail(queue) /\ Head(queue).kind = "end"
          /\ pending' = [pending EXCEPT ![h] = rreg - 1]
          /\ UNCHANGED <<started, asyncs, leaked, settled, hurried, cmd, aq, areg, rreg, overlaps>>
          /\ apc' = apc \/ (apc = "wait" /\ apc' = "get")
      BY <1>16 DEF StopWrite, Woken, Bounds
    <2>2. h \in Queries /\ Left(Outstanding, h) >= 1
      BY <1>h, <2>1
    <2>3. \A r : Left(Outstanding, r) = Left(Outstanding', r) + (IF r = h THEN 1 ELSE 0)
      <3>1. apc' = "commit" <=> apc = "commit"
        BY <2>1
      <3> QED
        BY <1>r, <2>1, <3>1 DEF IsEnd
    <2>4. Outstanding' \in Seq(CommandsOf)
      BY <1>0, <2>1, TailAppend, TailSeq DEF Outstanding, TypeOK
    <2>5. \A r : Left(Outstanding', r) \in Nat
      BY <2>4, LeftFinite
    <2>6. \A r \in Queries : Slack(r)' = IF Meeting(r) THEN Slack(r) + 1 ELSE Slack(r)
      BY <1>n, <2>1 DEF Slack, Meeting
    <2>7. \A r \in Queries : Meeting(r) <=> apc = "begin" /\ aq = r /\ h = r
      BY <2>1 DEF Meeting
    <2>8. Near(rreg, Due(h), Slack(h))
      BY <2>1 DEF CountInv, NearInv, StopNear
    <2> HIDE DEF h
    <2>9. \A r \in Queries : Due(r)' = IF r = h THEN Due(r) - 1 ELSE Due(r)
      BY <1>l, <2>1, <2>3, <2>5 DEF Due, Open
    <2>10. PendingNear'
      <3> SUFFICES ASSUME NEW r \in Queries PROVE Near(pending'[r], Due(r)', Slack(r)')
        BY DEF PendingNear
      <3>1. CASE r = h
        <4>1. pending'[r] = rreg - 1 /\ Due(r)' = Due(r) - 1
          BY <1>n, <2>1, <2>2, <2>9, <3>1 DEF TypeOK
        <4> QED
          BY <1>n, <2>6, <2>8, <3>1, <4>1, NearShifts
      <3>2. CASE r # h
        <4>1. pending'[r] = pending[r] /\ Due(r)' = Due(r) /\ Slack(r)' = Slack(r)
          BY <1>0, <2>1, <2>6, <2>7, <2>9, <3>2
        <4> QED
          BY <4>1 DEF CountInv, NearInv, PendingNear
      <3> QED
        BY <3>1, <3>2
    <2>11. BeginNear'
      <3> SUFFICES ASSUME apc = "begin" PROVE Near(areg, Due(aq)', Slack(aq)')
        BY <2>1 DEF BeginNear
      <3>1. aq \in Queries /\ Near(areg, Due(aq), Slack(aq))
        BY DEF CountInv, NearInv, BeginNear, Bounds
      <3>2. CASE aq = h
        <4>1. Due(aq)' = Due(aq) - 1 /\ Slack(aq)' = Slack(aq) + 1
          BY <2>1, <2>6, <2>7, <2>9, <3>1, <3>2
        <4> QED
          BY <1>n, <3>1, <4>1, NearShifts
      <3>3. CASE aq # h
        <4>1. Due(aq)' = Due(aq) /\ Slack(aq)' = Slack(aq)
          BY <2>1, <2>6, <2>7, <2>9, <3>1, <3>3
        <4> QED
          BY <3>1, <4>1
      <3> QED
        BY <3>2, <3>3
    <2>12. NearInv'
      BY <2>1, <2>10, <2>11 DEF NearInv, StopNear
    (* A query that is settled, or read, has no end left to execute.       *)
    <2>13. ASSUME NEW r \in Queries, Left(Outstanding, r) = 0
           PROVE  r # h /\ Left(Outstanding', r) = 0
      BY <2>2, <2>3, <2>5, <2>13
    <2>14. SettledDone'
      BY <1>0, <2>1, <2>13 DEF CountInv, SettleInv, SettledDone
    <2>15. ValueSettled'
      <3> SUFFICES ASSUME apc = "value", overlaps[aq] = 0 PROVE Left(Outstanding', aq) = 0
        BY <2>1 DEF ValueSettled
      <3>1. aq \in Queries /\ Left(Outstanding, aq) = 0
        BY DEF CountInv, SettleInv, ValueSettled, Bounds
      <3> QED
        BY <2>13, <3>1
    <2> QED
      BY <2>1, <2>12, <2>14, <2>15
         DEF CountInv, SettleInv, HeldStarted, BeginFresh, GetClosed, SettledBeginsAlone
  <1>17. CASE UNCHANGED vars
    <2>1. /\ Outstanding' = Outstanding
          /\ UNCHANGED <<pending, started, asyncs, leaked, settled, hurried, queue, apc, aq, areg, rpc, rreg, overlaps>>
      BY <1>17 DEF vars, Outstanding
    <2>2. NearInv' /\ SettledBeginsAlone' /\ SettledDone'
      BY <1>q, <1>s, <2>1
    <2> QED
      BY <2>1, <2>2 DEF CountInv, SettleInv, HeldStarted, BeginFresh, GetClosed, ValueSettled
  <1> QED
    BY <1>1, <1>2, <1>3, <1>4, <1>5, <1>6, <1>7, <1>8, <1>9, <1>10, <1>11, <1>12, <1>13,
       <1>14, <1>15, <1>16, <1>17
       DEF Next, AppProgress, RenderProgress
-----------------------------------------------------------------------------
(* A query whose bracket is closed and executed has nothing outstanding    *)
(* that would still change what it counted ...                             *)
Touches(c, q) == Begins(c, q) \/ Counts(c, q)

Enclosed(Q, slots) ==
  \A q \in Queries : slots[IdOf[q]] # q =>
    \A k \in 1 .. Len(Q) : Touches(Q[k], q) => \E j \in k .. Len(Q) : IsEnd(Q[j], q)

(* ... and every query ever begun will have counted its last bracket.      *)
Untouched(q) == counter[q] = {0} /\ \A k \in 1 .. Len(Outstanding) : ~Touches(Outstanding[k], q)
Counted == \A q \in Queries : Untouched(q) \/ inside[q] = Seen(counter[q], Outstanding, q, Len(Outstanding))

ValueInv == Enclosed(Outstanding, asyncs) /\ Counted

LEMMA EnclosedIssued ==
  ASSUME NEW Q \in Seq(CommandsOf), NEW e \in CommandsOf, NEW slots, NEW then, Enclosed(Q, slots),
         \A q \in Queries : then[IdOf[q]] # q => /\ Touches(e, q) => IsEnd(e, q)
                                                 /\ slots[IdOf[q]] = q => IsEnd(e, q)
  PROVE  Enclosed(Append(Q, e), then)
  <1>1. /\ Len(Q) \in Nat /\ Len(Append(Q, e)) = Len(Q) + 1 /\ Append(Q, e)[Len(Q) + 1] = e
        /\ \A j \in 1 .. Len(Q) : Append(Q, e)[j] = Q[j]
    BY AppendedSeq
  <1> SUFFICES ASSUME NEW q \in Queries, then[IdOf[q]] # q,
                      NEW k \in 1 .. Len(Q) + 1, Touches(Append(Q, e)[k], q)
               PROVE  \E j \in k .. Len(Q) + 1 : IsEnd(Append(Q, e)[j], q)
    BY <1>1 DEF Enclosed
  <1>2. Len(Q) + 1 \in k .. Len(Q) + 1 /\ (k \in 1 .. Len(Q) \/ k = Len(Q) + 1)
    BY <1>1
  <1>3. CASE IsEnd(e, q)
    BY <1>1, <1>2, <1>3
  <1>4. CASE ~IsEnd(e, q)
    <2>1. slots[IdOf[q]] # q /\ ~Touches(e, q)
      BY <1>4
    <2>2. k \in 1 .. Len(Q) /\ Touches(Q[k], q)
      BY <1>1, <1>2, <2>1
    <2>3. PICK j \in k .. Len(Q) : IsEnd(Q[j], q)
      BY <2>1, <2>2 DEF Enclosed
    <2>4. j \in 1 .. Len(Q) /\ j \in k .. Len(Q) + 1
      BY <1>1, <2>2
    <2> QED
      BY <1>1, <2>3, <2>4
  <1> QED
    BY <1>3, <1>4

LEMMA EnclosedRun ==
  ASSUME NEW Q \in Seq(CommandsOf), Q # <<>>, NEW slots, Enclosed(Q, slots)
  PROVE  Enclosed(Tail(Q), slots)
  <1>1. /\ Len(Q) \in Nat \ {0} /\ Len(Tail(Q)) = Len(Q) - 1
        /\ \A j \in 1 .. Len(Q) - 1 : Tail(Q)[j] = Q[j + 1]
    BY TailSeq
  <1> SUFFICES ASSUME NEW q \in Queries, slots[IdOf[q]] # q, NEW k \in 1 .. Len(Q) - 1, Touches(Tail(Q)[k], q)
               PROVE  \E j \in k .. Len(Q) - 1 : IsEnd(Tail(Q)[j], q)
    BY <1>1 DEF Enclosed
  <1>2. k + 1 \in 1 .. Len(Q) /\ Touches(Q[k + 1], q)
    BY <1>1
  <1>3. PICK j \in k + 1 .. Len(Q) : IsEnd(Q[j], q)
    BY <1>2 DEF Enclosed
  <1>4. j - 1 \in 1 .. Len(Q) - 1 /\ j - 1 \in k .. Len(Q) - 1 /\ (j - 1) + 1 = j
    BY <1>1
  <1> QED
    BY <1>1, <1>3, <1>4

LEMMA InitValueInv == Init => ValueInv
  <1> SUFFICES ASSUME Init PROVE ValueInv
    OBVIOUS
  <1>1. Outstanding = <<>> /\ Len(Outstanding) = 0
    BY DEF Init, Outstanding
  <1> QED
    BY <1>1 DEF Init, ValueInv, Enclosed, Counted, Untouched

LEMMA NextValueInv == QueryInv /\ ValueInv /\ [Next]_vars => ValueInv'
  <1> SUFFICES ASSUME TypeOK, Bounds, LookAhead, ValueInv, [Next]_vars PROVE ValueInv'
    BY DEF QueryInv
  <1> USE DEF object, app, render, history
  <1>0. /\ queue \in Seq(CommandsOf) /\ cmd \in CommandsOf /\ cmd' \in CommandsOf
        /\ Outstanding \in Seq(CommandsOf) /\ asyncs \in [Ids -> Names] /\ Len(queue) \in Nat
        /\ inside \in [Queries -> SUBSET (1 .. MaxCalls)]
        /\ NoQuery \notin Queries /\ \A q \in Queries : IdOf[q] \in Ids
    BY NextTypeOK, OutstandingTyped, QueryAssumption DEF TypeOK, Ids
  <1>a. ASSUME Outstanding' = Outstanding, UNCHANGED <<counter, asyncs, inside>> PROVE ValueInv'
    BY <1>a DEF ValueInv, Counted, Untouched
  (* Issuing a command.                                                    *)
  <1>c. ASSUME apc # "commit", apc' = "commit", queue' = queue, counter' = counter,
               \A r \in Queries : asyncs'[IdOf[r]] # r => /\ ~Touches(cmd', r)
                                                          /\ asyncs[IdOf[r]] = r => IsEnd(cmd', r),
               \A r \in Queries :
                 \/ ~Touches(cmd', r) /\ inside'[r] = inside[r]
                 \/ Begins(cmd', r) /\ inside'[r] = {}
                 \/ Counts(cmd', r) /\ ~Begins(cmd', r) /\ asyncs[IdOf[r]] = r /\ inside'[r] = inside[r] \cup cmd'.counted
        PROVE  ValueInv'
    <2>1. Outstanding = queue /\ Outstanding' = Append(queue, cmd') /\ Len(Outstanding') = Len(queue) + 1
          /\ Outstanding'[Len(queue) + 1] = cmd' /\ \A j \in 1 .. Len(queue) : Outstanding'[j] = queue[j]
      BY <1>0, <1>c, AppendedSeq DEF Outstanding
    <2>2. Enclosed(Outstanding', asyncs')
      <3>1. Enclosed(queue, asyncs)
        BY <2>1 DEF ValueInv
      <3> QED
        BY <1>0, <1>c, <2>1, <3>1, EnclosedIssued
    <2>3. ASSUME NEW r \in Queries
          PROVE  Untouched(r)' \/ inside'[r] = Seen(counter'[r], Outstanding', r, Len(Outstanding'))
      <3>1. /\ Begins(cmd', r) => Seen(counter[r], Outstanding', r, Len(queue) + 1) = {}
            /\ Counts(cmd', r) => Seen(counter[r], Outstanding', r, Len(queue) + 1)
                                     = Seen(counter[r], queue, r, Len(queue)) \cup cmd'.counted
            /\ ~Touches(cmd', r) => Seen(counter[r], Outstanding', r, Len(queue) + 1)
                                      = Seen(counter[r], queue, r, Len(queue))
        <4>1. Outstanding' = Append(queue, cmd')
          BY <2>1
        <4> QED
          BY <1>0, <4>1, SeenAfter DEF Touches
      <3>2. CASE ~Touches(cmd', r) /\ inside'[r] = inside[r]
        <4>1. CASE Untouched(r)
          <5>1. \A k \in 1 .. Len(queue) + 1 : k \in 1 .. Len(queue) \/ k = Len(queue) + 1
            BY <1>0
          <5>2. \A k \in 1 .. Len(Outstanding') : ~Touches(Outstanding'[k], r)
            BY <2>1, <3>2, <4>1, <5>1 DEF Untouched
          <5> QED
            BY <1>c, <4>1, <5>2 DEF Untouched
        <4>2. CASE inside[r] = Seen(counter[r], Outstanding, r, Len(Outstanding))
          BY <1>c, <2>1, <3>1, <3>2, <4>2
        <4> QED
          BY <4>1, <4>2 DEF ValueInv, Counted
      <3>3. CASE Begins(cmd', r) /\ inside'[r] = {}
        BY <1>c, <2>1, <3>1, <3>3
      <3>4. CASE Counts(cmd', r) /\ asyncs[IdOf[r]] = r /\ inside'[r] = inside[r] \cup cmd'.counted
        <4>1. inside[r] = Seen(counter[r], queue, r, Len(queue))
          BY <2>1, <3>4 DEF LookAhead, Opens
        <4> QED
          BY <1>c, <2>1, <3>1, <3>4, <4>1
      <3> QED
        BY <1>c, <3>2, <3>3, <3>4
    <2> QED
      BY <2>2, <2>3 DEF ValueInv, Counted
  (* Executing the oldest command.                                         *)
  <1>f. ASSUME queue # <<>>, queue' = Tail(queue), UNCHANGED <<asyncs, inside, cmd>>,
               apc' = "commit" <=> apc = "commit",
               \A q \in Queries : counter'[q] = Now(counter[q], Head(queue), q)
        PROVE  ValueInv'
    <2>1. Outstanding # <<>> /\ Outstanding' = Tail(Outstanding) /\ Head(Outstanding) = Head(queue)
      BY <1>f, OldestRuns
    <2>2. /\ Len(Outstanding) \in Nat \ {0} /\ Len(Outstanding') = Len(Outstanding) - 1 /\ Head(queue) = Outstanding[1]
          /\ \A j \in 1 .. Len(Outstanding) - 1 : Outstanding'[j] = Outstanding[j + 1]
      BY <1>0, <2>1, TailSeq
    <2>3. Enclosed(Outstanding', asyncs')
      BY <1>0, <1>f, <2>1, EnclosedRun DEF ValueInv
    <2>4. ASSUME NEW r \in Queries
          PROVE  Untouched(r)' \/ inside'[r] = Seen(counter'[r], Outstanding', r, Len(Outstanding'))
      <3>1. CASE Untouched(r)
        <4>1. ~Begins(Head(queue), r) /\ ~Counts(Head(queue), r)
          BY <2>2, <3>1 DEF Untouched, Touches
        <4>2. counter'[r] = counter[r]
          BY <1>f, <4>1 DEF Now
        <4>3. \A k \in 1 .. Len(Outstanding) - 1 : k + 1 \in 1 .. Len(Outstanding)
          BY <2>2
        <4>4. \A k \in 1 .. Len(Outstanding') : ~Touches(Outstanding'[k], r)
          BY <2>2, <3>1, <4>3 DEF Untouched
        <4> QED
          BY <3>1, <4>2, <4>4 DEF Untouched
      <3>2. CASE inside[r] = Seen(counter[r], Outstanding, r, Len(Outstanding))
        <4>1. Len(Outstanding) \in 1 .. Len(Outstanding)
          BY <2>2
        <4>2. Seen(Now(counter[r], Head(Outstanding), r), Tail(Outstanding), r, Len(Outstanding) - 1)
                = Seen(counter[r], Outstanding, r, Len(Outstanding))
          BY <1>0, <2>1, <4>1, SeenShifts
        <4> QED
          BY <1>f, <2>1, <2>2, <3>2, <4>2
      <3> QED
        BY <3>1, <3>2 DEF ValueInv, Counted
    <2> QED
      BY <2>3, <2>4 DEF ValueInv, Counted
  <1>1. ASSUME NEW q \in Queries, BeginStarted(q) \/ BeginRead(q) \/ EndRefused(q) \/ GetStarted(q) \/ GetLock(q)
        PROVE  ValueInv'
    <2>1. Outstanding' = Outstanding
      BY <1>1 DEF BeginStarted, BeginRead, EndRefused, GetStarted, GetLock, Called, Outstanding
    <2> QED
      BY <1>1, <1>a, <2>1 DEF BeginStarted, BeginRead, EndRefused, GetStarted, GetLock
  <1>2. ASSUME NEW q \in Queries, End(q)
        PROVE  ValueInv'
    <2>1. /\ apc # "commit" /\ apc' = "commit" /\ queue' = queue /\ counter' = counter /\ inside' = inside
          /\ cmd'.kind = "end" /\ cmd'.query = q /\ asyncs[IdOf[q]] = q
          /\ asyncs' = [asyncs EXCEPT ![IdOf[q]] = NoQuery]
      BY <1>2 DEF End, Called
    <2>2. \A r \in Queries : ~Touches(cmd', r)
      BY <2>1 DEF Touches, Begins, Counts
    <2>3. \A r \in Queries : asyncs'[IdOf[r]] # r /\ asyncs[IdOf[r]] = r => IsEnd(cmd', r)
      BY <1>0, <2>1 DEF IsEnd
    <2> QED
      BY <1>c, <2>1, <2>2, <2>3
  <1>3. CASE Draw
    <2>1. /\ apc # "commit" /\ apc' = "commit" /\ queue' = queue /\ counter' = counter /\ asyncs' = asyncs
          /\ cmd'.kind = "draw" /\ cmd'.slots = asyncs /\ cmd'.counted = {calls'}
          /\ \A r \in Queries : inside'[r] = IF asyncs[IdOf[r]] = r THEN inside[r] \cup {calls'} ELSE inside[r]
      BY <1>3 DEF Draw, Called
    <2>2. \A r \in Queries : ~Begins(cmd', r) /\ (Counts(cmd', r) <=> asyncs[IdOf[r]] = r)
      BY <2>1 DEF Begins, Counts
    <2> QED
      BY <1>c, <2>1, <2>2 DEF Touches
  <1>4. CASE BeginAccepted
    <2>1. /\ apc # "commit" /\ apc' = "commit" /\ queue' = queue /\ counter' = counter
          /\ cmd'.kind = "begin" /\ cmd'.query = aq /\ aq \in Queries
          /\ asyncs[IdOf[aq]] = NoQuery /\ asyncs' = [asyncs EXCEPT ![IdOf[aq]] = aq]
          /\ inside' = [inside EXCEPT ![aq] = {}]
      BY <1>4 DEF BeginAccepted, Bounds
    <2>2. \A r \in Queries : ~Counts(cmd', r) /\ (Begins(cmd', r) <=> r = aq)
      BY <2>1 DEF Begins, Counts
    <2>3. \A r \in Queries : asyncs'[IdOf[r]] # r => r # aq /\ asyncs[IdOf[r]] # r
      BY <1>0, <2>1
    <2>4. \A r \in Queries : inside'[r] = IF r = aq THEN {} ELSE inside[r]
      BY <1>0, <2>1
    <2> QED
      BY <1>c, <2>1, <2>2, <2>3, <2>4 DEF Touches
  <1>5. CASE BeginRefused \/ Commit
    <2>1. Outstanding' = Outstanding
      BY <1>5 DEF BeginRefused, Commit, Outstanding
    <2> QED
      BY <1>5, <1>a, <2>1 DEF BeginRefused, Commit
  <1>6. CASE Flush \/ WakeSpuriously \/ Timeout \/ Wait \/ Settle \/ GetValue
    <2>1. Outstanding' = Outstanding
      BY <1>6 DEF Flush, WakeSpuriously, Timeout, Wait, Settle, GetValue, Outstanding
    <2> QED
      BY <1>6, <1>a, <2>1 DEF Flush, WakeSpuriously, Timeout, Wait, Settle, GetValue
  <1>7. CASE StopRead \/ UNCHANGED vars
    BY <1>7, <1>a DEF StopRead, vars, Outstanding
  <1>8. CASE StartCounting
    <2>1. ASSUME NEW q \in Queries PROVE counter'[q] = Now(counter[q], Head(queue), q)
      BY <1>8 DEF StartCounting, Running, Now, Begins, Counts, TypeOK
    <2> QED
      BY <1>8, <1>f, <2>1 DEF StartCounting, Running
  <1>9. CASE ExecuteDraw
    <2>1. ASSUME NEW q \in Queries PROVE counter'[q] = Now(counter[q], Head(queue), q)
      BY <1>9 DEF ExecuteDraw, Running, Now, Begins, Counts
    <2> QED
      BY <1>9, <1>f, <2>1 DEF ExecuteDraw, Running
  <1>10. CASE StopWrite
    <2>1. ASSUME NEW q \in Queries PROVE counter'[q] = Now(counter[q], Head(queue), q)
      BY <1>10 DEF StopWrite, Bounds, Now, Begins, Counts
    <2>2. apc' = "commit" <=> apc = "commit"
      BY <1>10 DEF StopWrite, Woken
    <2> QED
      BY <1>10, <1>f, <2>1, <2>2 DEF StopWrite, Bounds
  <1> QED
    BY <1>1, <1>2, <1>3, <1>4, <1>5, <1>6, <1>7, <1>8, <1>9, <1>10
       DEF Next, AppProgress, RenderProgress
-----------------------------------------------------------------------------
LEMMA CountsArePending ==
  ASSUME TypeOK, Bounds, CountInv
  PROVE  PendingExact
  <1> SUFFICES ASSUME NEW q \in Queries PROVE pending[q] - Owed(q) \in -overlaps[q] .. overlaps[q]
    BY DEF PendingExact
  <1>1. Owed(q) = Due(q)
    BY ClosingLeft DEF Owed, Due, Open
  <1>2. Near(pending[q], Due(q), Slack(q))
    BY DEF CountInv, NearInv, PendingNear
  <1>3. pending[q] \in Int /\ overlaps[q] \in Nat /\ leaked[q] \in Nat /\ Left(Outstanding, q) \in Nat
    BY OutstandingTyped, LeftFinite, QueryAssumption DEF TypeOK
  <1>4. Due(q) \in Int
    BY <1>3 DEF Due, Open
  <1>5. Slack(q) = overlaps[q] \/ Slack(q) = overlaps[q] - 1
    BY <1>3 DEF Slack
  <1>6. ASSUME NEW a \in Int, NEW b \in Int, NEW n \in Nat, NEW k, k = n \/ k = n - 1, Near(a, b, k)
        PROVE  a - b \in -n .. n
    BY <1>6 DEF Near
  <1> QED
    BY <1>1, <1>2, <1>3, <1>4, <1>5, <1>6

LEMMA NothingLeft ==
  ASSUME NEW Q \in Seq(CommandsOf), NEW q, Left(Q, q) = 0
  PROVE  \A k \in 1 .. Len(Q) : ~IsEnd(Q[k], q)
  <1>1. EndsOf(Q, q) = {}
    BY LeftFinite, FS_EmptySet DEF Left
  <1> QED
    BY <1>1 DEF EndsOf, IsEnd

(* get_value runs when nothing of the query is outstanding, so that what   *)
(* it will have counted is what it has counted.                            *)
LEMMA ValuesAreExact ==
  ASSUME TypeOK, Bounds, CountInv, ValueInv
  PROVE  QueryExact
  <1> SUFFICES ASSUME apc = "value", overlaps[aq] = 0, counter[aq] # {0} PROVE counter[aq] = inside[aq]
    BY DEF QueryExact
  <1>1. aq \in Queries /\ ~started[aq] /\ Left(Outstanding, aq) = 0
    BY DEF Bounds, CountInv, SettleInv, GetClosed, ValueSettled
  <1>2. asyncs[IdOf[aq]] # aq
    BY <1>1 DEF CountInv, SettleInv, HeldStarted
  <1>3. Outstanding \in Seq(CommandsOf) /\ counter[aq] \subseteq 0 .. MaxCalls
    BY <1>1, OutstandingTyped DEF TypeOK
  <1>4. Len(Outstanding) \in Nat /\ \A k \in 1 .. Len(Outstanding) : ~IsEnd(Outstanding[k], aq)
    BY <1>1, <1>3, NothingLeft
  <1>5. \A k \in 1 .. Len(Outstanding) : \A j \in k .. Len(Outstanding) : j \in 1 .. Len(Outstanding)
    BY <1>4
  <1>6. \A k \in 1 .. Len(Outstanding) : ~Touches(Outstanding[k], aq)
    BY <1>1, <1>2, <1>4, <1>5 DEF ValueInv, Enclosed
  <1>7. inside[aq] = Seen(counter[aq], Outstanding, aq, Len(Outstanding))
    BY <1>1 DEF ValueInv, Counted, Untouched
  <1>8. Seen(counter[aq], Outstanding, aq, Len(Outstanding)) = counter[aq]
    BY <1>3, <1>6 DEF Seen, Touches
  <1> QED
    BY <1>7, <1>8

LEMMA ValueInvariance == Spec => [](QueryInv /\ CountInv /\ ValueInv)
  <1>1. Init => QueryInv /\ CountInv /\ ValueInv
    BY InitQueryInv, InitCountInv, InitValueInv
  <1>2. QueryInv /\ CountInv /\ ValueInv /\ [Next]_vars => QueryInv' /\ CountInv' /\ ValueInv'
    BY NextTypeOK, NextLookAhead, NextCountInv, NextValueInv DEF QueryInv
  <1> QED
    BY <1>1, <1>2, PTL DEF Spec

(* The count of pending writes of any query is the number of its brackets  *)
(* that are open or still being counted and of its refused begins, off by  *)
(* at most one for each begin that met a stop_counting of the query; so it *)
(* is right as long as none did, and a query that is queued a hundred      *)
(* times over without a meeting loses nothing.                             *)
THEOREM PendingIsExact == Spec => []PendingExact
  <1>1. QueryInv /\ CountInv => PendingExact
    BY CountsArePending DEF QueryInv
  <1> QED
    BY <1>1, ValueInvariance, PTL

(* They never meet for a query that is read or flushed before it begins    *)
(* again, for any queries, queue length and interleaving of the threads.   *)
THEOREM SettledNeverMeets == Spec => []SettledBeginsAlone
  <1>1. CountInv => SettledBeginsAlone
    BY DEF CountInv, SettleInv
  <1> QED
    BY <1>1, ValueInvariance, PTL

(* get_data hands out what was drawn inside the last bracket of a query of *)
(* which no begin met a stop_counting, though earlier brackets of it were  *)
(* still queued when it was begun.                                         *)
THEOREM QueriesAreExact == Spec => []QueryExact
  <1>1. QueryInv /\ CountInv /\ ValueInv => QueryExact
    BY ValuesAreExact DEF QueryInv
  <1> QED
    BY <1>1, ValueInvariance, PTL
=============================================================================
