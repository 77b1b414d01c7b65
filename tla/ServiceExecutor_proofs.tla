------------------------ MODULE ServiceExecutor_proofs ------------------------
(***************************************************************************)
(* Proofs about ServiceExecutor: for any requests, tips, hashes and        *)
(* limits, the queue is sound, nobody in it is overtaken or stranded, no   *)
(* slot leaks, and a hash buys one execution.                              *)
(***************************************************************************)
EXTENDS ServiceExecutor, FiniteSetTheorems, SequenceTheorems, TLAPS

\* Whoever works for a hash, or has, is the one who recorded it; and who is
\* paying has something to pay with.
PaidFor ==
    \A r \in Request :
        /\ HashOf[r] # Free /\ (stage[r] = "executing" \/ r \in served)
             => row[HashOf[r]] = r
        /\ stage[r] \in {"lookup", "confirming", "recording"} => HashOf[r] # Free

\* Whoever was admitted has read a count below the limit.
SeenBelow ==
    \A r \in Request : stage[r] \notin {"new", "done", "cut"} => seen[r] < MaxPerPeer

\* The queue and the slots, which every step must leave in order.
Books == QueueSound /\ NobodyStranded /\ NoSlotLeaks

IInv == TypeOK /\ Books /\ SeenBelow /\ PaidFor

-----------------------------------------------------------------------------
(* The queue                                                                 *)

\* An initial part of an interval is the interval of its own length.
LEMMA InitialPart ==
    ASSUME NEW n \in Nat, NEW D \in SUBSET (1..n),
           \A i, j \in 1..n : i <= j /\ j \in D => i \in D
    PROVE  Cardinality(D) \in 0..n /\ D = 1..Cardinality(D)
<1> DEFINE c == Cardinality(D)
<1>1. IsFiniteSet(1..n) /\ Cardinality(1..n) = n
  BY FS_Interval
<1>2. IsFiniteSet(D) /\ c \in Nat /\ c <= n
  BY <1>1, FS_Subset, FS_CardinalityType
<1>3. ASSUME NEW x \in D PROVE x <= c
  <2>1. 1..x \in SUBSET D
    BY <1>3
  <2>2. Cardinality(1..x) <= c
    BY <2>1, <1>2, FS_Subset
  <2>3. Cardinality(1..x) = x
    BY FS_Interval, x \in 1..n
  <2>. QED BY <2>2, <2>3, <1>2
<1>4. IsFiniteSet(1..c) /\ Cardinality(1..c) = c
  BY <1>2, FS_Interval
<1>5. D \in SUBSET (1..c)
  BY <1>3, <1>2
<1>6. D = 1..c
  BY <1>4, <1>5, FS_Subset
<1>. QED BY <1>2, <1>6

\* s is q with e behind its first k elements.
Inserted(S, q, e, k, s) ==
    /\ s \in Seq(S) /\ Len(s) = Len(q) + 1
    /\ \A i \in 1..k : s[i] = q[i]
    /\ s[k + 1] = e
    /\ \A i \in k + 2 .. Len(q) + 1 : s[i] = q[i - 1]

\* What InsertAt gives at each index.
LEMMA Insertion ==
    ASSUME NEW S, NEW q \in Seq(S), NEW e \in S, NEW k \in 0..Len(q)
    PROVE  Inserted(S, q, e, k, InsertAt(q, k + 1, e))
<1> DEFINE a == SubSeq(q, 1, k)
           b == SubSeq(q, k + 1, Len(q))
<1>1. Len(q) \in Nat
  BY LenProperties
<1>2. a \in Seq(S) /\ Len(a) = k /\ \A i \in 1..k : a[i] = q[i]
  BY <1>1
<1>3. b \in Seq(S) /\ Len(b) = Len(q) - k /\ \A i \in 1..(Len(q) - k) : b[i] = q[k + i]
  BY <1>1
<1>4. a \o <<e>> \in Seq(S) /\ Len(a \o <<e>>) = k + 1
      /\ (\A i \in 1..k : (a \o <<e>>)[i] = a[i]) /\ (a \o <<e>>)[k + 1] = e
  BY <1>1, <1>2
<1>5. InsertAt(q, k + 1, e) = (a \o <<e>>) \o b
  <2>1. (k + 1) - 1 = k
    OBVIOUS
  <2>. QED BY <2>1, Zenon DEF InsertAt
<1> DEFINE c == a \o <<e>>
<1>. HIDE DEF a, b, c
<1>6. c \in Seq(S) /\ Len(c) = k + 1 /\ (\A i \in 1..k : c[i] = q[i]) /\ c[k + 1] = e
  BY <1>2, <1>4 DEF c
<1>7. /\ c \o b \in Seq(S) /\ Len(c \o b) = Len(q) + 1
      /\ \A i \in 1 .. Len(q) + 1 : (c \o b)[i] = IF i <= k + 1 THEN c[i] ELSE b[i - (k + 1)]
  <2>1. /\ c \o b \in Seq(S) /\ Len(c \o b) = Len(c) + Len(b)
        /\ \A i \in 1 .. Len(c) + Len(b) : (c \o b)[i] = IF i <= Len(c) THEN c[i] ELSE b[i - Len(c)]
    <3>1. c \in Seq(S) /\ b \in Seq(S)
      BY <1>3, <1>6, Zenon
    <3>. QED BY ONLY <3>1, ConcatProperties
  <2>2. Len(c) = k + 1 /\ Len(c) + Len(b) = Len(q) + 1
    BY ONLY <1>1, <1>3, <1>6, k \in 0..Len(q)
  <2>. QED BY <2>1, <2>2, Zenon
<1>8. \A i \in k + 2 .. Len(q) + 1 : b[i - (k + 1)] = q[i - 1]
  BY <1>1, <1>3
<1>9. InsertAt(q, k + 1, e) = c \o b
  BY <1>5 DEF c
<1>10. ASSUME NEW i \in 1..k PROVE (c \o b)[i] = q[i]
  <2>1. i \in 1 .. Len(q) + 1 /\ i <= k + 1
    BY <1>1
  <2>. QED BY <1>6, <1>7, <2>1, Zenon
<1>11. (c \o b)[k + 1] = e
  <2>1. k + 1 \in 1 .. Len(q) + 1 /\ k + 1 <= k + 1
    BY <1>1
  <2>. QED BY <1>6, <1>7, <2>1, Zenon
<1>12. ASSUME NEW i \in k + 2 .. Len(q) + 1 PROVE (c \o b)[i] = q[i - 1]
  <2>1. i \in 1 .. Len(q) + 1 /\ ~(i <= k + 1)
    BY <1>1
  <2>. QED BY <1>7, <1>8, <2>1, Zenon
<1>13. Inserted(S, q, e, k, c \o b)
  BY <1>7, <1>10, <1>11, <1>12, Zenon DEF Inserted
<1>. QED BY <1>9, <1>13, Zenon

-----------------------------------------------------------------------------
(* What each kind of step does to queue and slots                            *)

\* A request that has a slot goes on with it.
LEMMA MoveKeeps ==
    ASSUME TypeOK, Books, NEW r \in Request, stage[r] \in Slotted,
           NEW s \in Slotted, Go(r, s), UNCHANGED <<activeExecutions, priorityQueue>>
    PROVE  Books'
<1>1. stage' = [stage EXCEPT ![r] = s] /\ "queued" \notin Slotted /\ stage \in [Request -> Stages]
  BY DEF Go, Slotted, TypeOK
<1>2. Running' = Running
  BY <1>1 DEF Running
<1>3. QueueSound'
  BY <1>1 DEF Books, QueueSound
<1>4. NobodyStranded'
  BY <1>1 DEF Books, NobodyStranded
<1>. QED BY <1>2, <1>3, <1>4 DEF Books, NoSlotLeaks

\* The sets of running requests are finite.
LEMMA RunningFinite ==
    IsFiniteSet(Running) /\ Cardinality(Running) \in Nat
<1>1. Running \in SUBSET Request
  BY DEF Running
<1>. QED BY <1>1, ExecutorAssumption, FS_Subset, FS_CardinalityType

\* A request that leaves the running ones takes its count with it, if there is
\* any left to take.
LEMMA SlotReturned ==
    ASSUME NoSlotLeaks, NEW r, Running' = Running \ {r},
           activeExecutions \in Nat, activeExecutions' \in Nat,
           activeExecutions' = IF activeExecutions > 0 THEN activeExecutions - 1 ELSE 0
    PROVE  NoSlotLeaks'
<1>1. /\ IsFiniteSet(Running \ {r})
      /\ Cardinality(Running') = IF r \in Running THEN Cardinality(Running) - 1
                                                  ELSE Cardinality(Running)
  BY RunningFinite, FS_RemoveElement
<1>2. Cardinality(Running') \in Nat
  BY <1>1, FS_CardinalityType
<1>. QED BY <1>1, <1>2, RunningFinite DEF NoSlotLeaks

\* A request takes a slot.
LEMMA BeginKeeps ==
    ASSUME TypeOK, Books, NEW r \in Request, stage[r] \in {"new", "woken"},
           Begin(r), UNCHANGED priorityQueue
    PROVE  Books'
<1>1. PICK s \in Slotted : stage' = [stage EXCEPT ![r] = s]
  BY DEF Begin, Paying, Go, Slotted
<1>2. stage \in [Request -> Stages] /\ r \notin Running /\ "queued" \notin Slotted
  BY DEF TypeOK, Running, Slotted
<1>3. Running' = Running \union {r}
  BY <1>1, <1>2 DEF Running
<1>4. Cardinality(Running') = Cardinality(Running) + 1
  BY <1>2, <1>3, RunningFinite, FS_AddElement
<1>5. NoSlotLeaks'
  BY <1>4, RunningFinite DEF Books, NoSlotLeaks, Begin, TypeOK
<1>6. NobodyStranded'
  BY <1>1, <1>2 DEF NobodyStranded
<1>7. QueueSound'
  BY <1>1, <1>2 DEF Books, QueueSound
<1>. QED BY <1>5, <1>6, <1>7 DEF Books

\* A request passes the finally block, and wakes the head of the queue.
LEMMA LeaveKeeps ==
    ASSUME TypeOK, Books, NEW r \in Request, stage[r] \in {"new", "refused", "served"},
           Leave(r)
    PROVE  Books' /\ stage' \in [Request -> Stages] /\ activeExecutions' \in Nat
           /\ priorityQueue' \in Seq(Request)
<1>1. /\ stage \in [Request -> Stages] /\ priorityQueue \in Seq(Request)
      /\ activeExecutions \in Nat
      /\ \A s \in Slotted \union {"woken"} : s \in Stages
      /\ {"queued", "woken", "new", "done"} \intersect Slotted = {}
      /\ {"refused", "served"} \subseteq Slotted
  BY DEF TypeOK, Slotted, Stages
<1>2. /\ activeExecutions' \in Nat
      /\ activeExecutions' = IF activeExecutions > 0 THEN activeExecutions - 1 ELSE 0
  BY <1>1 DEF Leave
<1>3. NoSlotLeaks' /\ QueueSound' /\ NobodyStranded' /\ stage' \in [Request -> Stages]
      /\ priorityQueue' \in Seq(Request)
  <2>1. CASE priorityQueue = <<>>
    <3>1. stage' = [stage EXCEPT ![r] = "done"] /\ priorityQueue' = priorityQueue
      BY <2>1 DEF Leave, Go
    <3>2. Running' = Running \ {r}
      BY <1>1, <3>1 DEF Running
    <3>3. NoSlotLeaks'
      BY <1>1, <1>2, <3>2, SlotReturned DEF Books
    <3>4. QueueSound'
      BY <1>1, <3>1 DEF Books, QueueSound
    <3>. QED BY <1>1, <2>1, <3>1, <3>3, <3>4 DEF NobodyStranded, Stages
  <2>2. CASE priorityQueue # <<>>
    <3> DEFINE h == Head(priorityQueue)
               n == Len(priorityQueue)
    <3>1. /\ stage' = [stage EXCEPT ![r] = "done", ![h] = "woken"]
          /\ priorityQueue' = Tail(priorityQueue)
      BY <2>2 DEF Leave
    <3>2. /\ h \in Request /\ n \in Nat \ {0} /\ h = priorityQueue[1]
          /\ Tail(priorityQueue) \in Seq(Request)
          /\ DOMAIN priorityQueue = 1..n /\ DOMAIN Tail(priorityQueue) = 1 .. n - 1
          /\ \A i \in 1 .. n - 1 : Tail(priorityQueue)[i] = priorityQueue[i + 1]
      BY <1>1, <2>2, HeadTailProperties, LenProperties
    <3>. HIDE DEF h, n
    <3>3. stage[h] = "queued" /\ h # r
      BY <1>1, <3>2 DEF Books, QueueSound
    <3>4. \A q \in Request : stage'[q] = IF q = h THEN "woken" ELSE IF q = r THEN "done" ELSE stage[q]
      BY <1>1, <3>1, <3>2, <3>3
    <3>5. Running' = Running \ {r}
      BY <1>1, <3>3, <3>4 DEF Running
    <3>6. NoSlotLeaks'
      BY <1>1, <1>2, <3>5, SlotReturned DEF Books
    <3>7. NobodyStranded'
      BY <3>2, <3>4 DEF NobodyStranded
    <3>8. ASSUME NEW q \in Request
          PROVE  stage'[q] = "queued" <=> \E i \in 1 .. n - 1 : priorityQueue[i + 1] = q
      <4>1. stage[q] = "queued" <=> \E i \in 1..n : priorityQueue[i] = q
        BY <3>2 DEF Books, QueueSound
      <4>2. \A i \in 2..n : priorityQueue[i] # h
        BY <3>2 DEF Books, QueueSound
      <4>3. (\E i \in 1 .. n - 1 : priorityQueue[i + 1] = q) <=> (\E i \in 2..n : priorityQueue[i] = q)
        <5>1. \A i \in 2..n : i - 1 \in 1 .. n - 1 /\ (i - 1) + 1 = i
          BY <3>2
        <5>2. \A i \in 1 .. n - 1 : i + 1 \in 2..n
          BY <3>2
        <5>. QED BY <5>1, <5>2
      <4>4. \A i \in 1..n : i = 1 \/ i \in 2..n
        BY <3>2
      <4>. QED BY <3>2, <3>3, <3>4, <4>1, <4>2, <4>3, <4>4, <1>1
    <3>9. \A i, j \in 1 .. n - 1 : i < j =>
            /\ priorityQueue[i + 1] # priorityQueue[j + 1]
            /\ Tip[priorityQueue[i + 1]] >= Tip[priorityQueue[j + 1]]
      BY <3>2 DEF Books, QueueSound
    <3>10. QueueSound'
      <4> DEFINE t == Tail(priorityQueue)
      <4>1. \A i \in 1 .. n - 1 : t[i] = priorityQueue[i + 1]
        BY <3>2
      <4>2. \A q \in Request : stage'[q] = "queued" <=> \E i \in 1 .. n - 1 : t[i] = q
        <5>1. ASSUME NEW q \in Request
              PROVE  (\E i \in 1 .. n - 1 : t[i] = q)
                       <=> \E i \in 1 .. n - 1 : priorityQueue[i + 1] = q
          BY <4>1, Zenon
        <5>. QED BY <3>8, <5>1, Zenon
      <4>3. \A i, j \in 1 .. n - 1 : i < j => t[i] # t[j] /\ Tip[t[i]] >= Tip[t[j]]
        BY <3>9, <4>1
      <4>4. priorityQueue' = t /\ DOMAIN t = 1 .. n - 1
        BY <3>1, <3>2
      <4>. HIDE DEF t
      <4>. QED BY <4>2, <4>3, <4>4 DEF QueueSound
    <3>11. stage' \in [Request -> Stages]
      BY <1>1, <3>1 DEF Stages
    <3>. QED BY <3>1, <3>2, <3>6, <3>7, <3>10, <3>11
  <2>. QED BY <2>1, <2>2
<1>. QED BY <1>2, <1>3 DEF Books

\* r is in the queue behind the k requests whose tip is as large as its own.
Placed(r, k) ==
    /\ Inserted(Request, priorityQueue, r, k, priorityQueue')
    /\ \A i \in 1..k : Tip[priorityQueue[i]] >= Tip[r]
    /\ \A i \in k + 1 .. Len(priorityQueue) : ~(Tip[priorityQueue[i]] >= Tip[r])

\* push and sort put a request behind those whose tip is as large.
LEMMA EnqueuePlaces ==
    ASSUME TypeOK, Books, NEW r \in Request, Enqueue(r)
    PROVE  \E k \in 0..Len(priorityQueue) : Placed(r, k)
<1> DEFINE q == priorityQueue
           n == Len(q)
           ahead == {i \in 1..n : Tip[q[i]] >= Tip[r]}
           k == Cardinality(ahead)
           s == InsertAt(q, k + 1, r)
<1>1. q \in Seq(Request) /\ n \in Nat /\ DOMAIN q = 1..n /\ \A i \in 1..n : q[i] \in Request
  BY LenProperties DEF TypeOK
<1>2. stage[r] = "new" /\ stage' = [stage EXCEPT ![r] = "queued"] /\ stage \in [Request -> Stages]
      /\ {"new", "queued"} \intersect Slotted = {}
  BY DEF Enqueue, Go, TypeOK, Slotted
<1>3. priorityQueue' = s
  BY <1>1 DEF Enqueue, Queued
<1>4. \A i, j \in 1..n : i < j => q[i] # q[j] /\ Tip[q[i]] >= Tip[q[j]]
  BY <1>1 DEF Books, QueueSound
<1>5. \A a \in Request : Tip[a] \in Nat
  BY ExecutorAssumption
<1>6. \A i, j \in 1..n : i <= j /\ j \in ahead => i \in ahead
  BY <1>1, <1>4, <1>5
<1>7. k \in 0..n /\ ahead = 1..k
  BY <1>1, <1>6, InitialPart
<1>8. Inserted(Request, q, r, k, s)
  <2>1. k \in 0..Len(q) /\ q \in Seq(Request) /\ r \in Request
    BY <1>1, <1>7
  <2>. HIDE DEF k, n, q
  <2>. QED BY <2>1, Insertion, Zenon
<1>9. (\A i \in 1..k : Tip[q[i]] >= Tip[r]) /\ \A i \in k + 1 .. n : ~(Tip[q[i]] >= Tip[r])
  <2>1. \A i \in k + 1 .. n : i \in 1..n /\ i \notin ahead
    <3>. HIDE DEF k, ahead, n
    <3>. QED BY <1>1, <1>7
  <2>2. \A i \in 1..k : i \in ahead
    BY <1>7
  <2>. QED BY <2>1, <2>2
<1>. HIDE DEF k, s, ahead
<1>. QED BY <1>3, <1>7, <1>8, <1>9 DEF Placed

\* A request joins the queue behind those whose tip is as large.
LEMMA EnqueueKeeps ==
    ASSUME TypeOK, Books, NEW r \in Request, Enqueue(r)
    PROVE  Books' /\ priorityQueue' \in Seq(Request)
<1> DEFINE q == priorityQueue
           n == Len(q)
           s == priorityQueue'
<1>1. q \in Seq(Request) /\ n \in Nat /\ DOMAIN q = 1..n /\ \A i \in 1..n : q[i] \in Request
  BY LenProperties DEF TypeOK
<1>2. stage[r] = "new" /\ stage' = [stage EXCEPT ![r] = "queued"] /\ stage \in [Request -> Stages]
      /\ {"new", "queued"} \intersect Slotted = {}
  BY DEF Enqueue, Go, TypeOK, Slotted
<1>3. \A i, j \in 1..n : i < j => q[i] # q[j] /\ Tip[q[i]] >= Tip[q[j]]
  BY <1>1 DEF Books, QueueSound
<1>4. \A a \in Request : Tip[a] \in Nat
  BY ExecutorAssumption
<1>5. PICK k \in 0..n : Placed(r, k)
  BY EnqueuePlaces
<1>6. /\ s \in Seq(Request) /\ Len(s) = n + 1
      /\ \A i \in 1..k : s[i] = q[i]
      /\ s[k + 1] = r
      /\ \A i \in k + 2 .. n + 1 : s[i] = q[i - 1]
  <2>. HIDE DEF q
  <2>. QED BY <1>5 DEF Placed, Inserted, q
<1>7. (\A i \in 1..k : Tip[q[i]] >= Tip[r]) /\ \A i \in k + 1 .. n : Tip[r] >= Tip[q[i]]
  <2>1. \A i \in k + 1 .. n : i \in 1..n
    BY <1>1
  <2>. QED BY <2>1, <1>1, <1>4, <1>5 DEF Placed
<1>. HIDE DEF s, n
<1>8. \A i \in 1..n : q[i] # r
  BY <1>1, <1>2 DEF Books, QueueSound
<1>9. ASSUME NEW i \in 1 .. n + 1, NEW j \in 1 .. n + 1, i < j
       PROVE  s[i] # s[j] /\ Tip[s[i]] >= Tip[s[j]]
  <2>1. CASE j <= k
    BY <1>1, <1>3, <1>5, <1>6, <1>9, <2>1
  <2>2. CASE j = k + 1
    BY <1>1, <1>5, <1>6, <1>7, <1>8, <1>9, <2>2
  <2>3. CASE j > k + 1 /\ i <= k
    <3>1. s[i] = q[i] /\ s[j] = q[j - 1] /\ i \in 1..n /\ j - 1 \in 1..n /\ i < j - 1
      BY <1>1, <1>5, <1>6, <1>9, <2>3
    <3>. QED BY <3>1, <1>3
  <2>4. CASE j > k + 1 /\ i = k + 1
    <3>1. s[i] = r /\ s[j] = q[j - 1] /\ j - 1 \in k + 1 .. n /\ j - 1 \in 1..n
      BY <1>1, <1>5, <1>6, <1>9, <2>4
    <3>. QED BY <3>1, <1>7, <1>8
  <2>5. CASE j > k + 1 /\ i > k + 1
    <3>1. s[i] = q[i - 1] /\ s[j] = q[j - 1] /\ i - 1 \in 1..n /\ j - 1 \in 1..n /\ i - 1 < j - 1
      BY <1>1, <1>5, <1>6, <1>9, <2>5
    <3>. QED BY <3>1, <1>3
  <2>. QED BY <1>1, <1>5, <1>9, <2>1, <2>2, <2>3, <2>4, <2>5
<1>10. ASSUME NEW a \in Request
       PROVE  (\E i \in 1 .. n + 1 : s[i] = a) <=> (a = r \/ \E i \in 1..n : q[i] = a)
  <2>1. ASSUME NEW i \in 1..n PROVE \E j \in 1 .. n + 1 : s[j] = q[i]
    <3>1. CASE i <= k
      BY <3>1, <1>1, <1>5, <1>6
    <3>2. CASE i > k
      <4>1. i + 1 \in k + 2 .. n + 1 /\ (i + 1) - 1 = i
        BY <3>2, <1>1, <1>5
      <4>2. i + 1 \in 1 .. n + 1
        BY <1>1
      <4>. QED BY <4>1, <4>2, <1>6
    <3>. QED BY <3>1, <3>2, <1>5
  <2>2. k + 1 \in 1 .. n + 1
    BY <1>1, <1>5
  <2>3. ASSUME NEW i \in 1 .. n + 1 PROVE s[i] = r \/ \E j \in 1..n : q[j] = s[i]
    <3>1. CASE i <= k
      BY <3>1, <1>1, <1>5, <1>6
    <3>2. CASE i = k + 1
      BY <3>2, <1>6
    <3>3. CASE i > k + 1
      <4>1. i - 1 \in 1..n /\ s[i] = q[i - 1]
        BY <3>3, <1>1, <1>5, <1>6
      <4>. QED BY <4>1
    <3>. QED BY <3>1, <3>2, <3>3, <1>1, <1>5
  <2>. QED BY <2>1, <2>2, <2>3, <1>6
<1>11. QueueSound'
  <2>1. DOMAIN s = 1 .. n + 1
    BY <1>1, <1>6, LenProperties
  <2>2. ASSUME NEW a \in Request
        PROVE  stage'[a] = "queued" <=> \E i \in 1 .. n + 1 : s[i] = a
    <3>1. stage[a] = "queued" <=> \E i \in 1..n : q[i] = a
      BY <1>1 DEF Books, QueueSound
    <3>. QED BY <3>1, <1>2, <1>10
  <2>. QED BY <1>9, <2>1, <2>2 DEF QueueSound, s
<1>12. Running' = Running /\ UNCHANGED activeExecutions
  BY <1>2 DEF Running, Enqueue
<1>13. NobodyStranded'
  <2>1. Running # {}
    <3>1. activeExecutions \in Nat \ {0}
      BY ExecutorAssumption DEF Enqueue, TypeOK
    <3>. QED BY <3>1, RunningFinite, FS_EmptySet DEF Books, NoSlotLeaks
  <2>. QED BY <2>1, <1>12 DEF NobodyStranded, Running
<1>. QED BY <1>6, <1>11, <1>12, <1>13 DEF Books, NoSlotLeaks, s

-----------------------------------------------------------------------------
(* Invariance                                                                *)


\* Initially nothing runs, waits or is paid.
LEMMA InitEstablishes == Init => IInv
<1>. SUFFICES ASSUME Init PROVE IInv
  OBVIOUS
<1>1. TypeOK
  BY ExecutorAssumption DEF Init, TypeOK, Stages
<1>2. Running = {} /\ DOMAIN priorityQueue = {}
  BY DEF Init, Running, Slotted
<1>3. Books
  BY <1>2, FS_EmptySet DEF Init, Books, QueueSound, NobodyStranded, NoSlotLeaks
<1>4. SeenBelow /\ PaidFor
  BY DEF Init, SeenBelow, PaidFor
<1>. QED BY <1>1, <1>3, <1>4 DEF IInv

\* The steps that go on with a slot, before the payment is settled.
LEMMA PayingKeeps ==
    ASSUME IInv, NEW r \in Request,
           Lookup(r) \/ Refuse(r) \/ Confirm(r) \/ Record(r) \/ RecordFails(r)
    PROVE  IInv'
<1> USE ExecutorAssumption
<1>1. PICK s \in {"confirming", "refused", "recording", "executing"} : Go(r, s)
  BY DEF Lookup, Refuse, Confirm, Record, RecordFails, Go
<1>2. /\ stage[r] \in {"lookup", "confirming", "recording"}
      /\ UNCHANGED <<activeExecutions, priorityQueue, seen, peerRateLimits, served>>
  BY DEF Lookup, Refuse, Confirm, Record, RecordFails
<1>3. Books'
  BY <1>1, <1>2, MoveKeeps DEF Slotted, IInv
<1>4. stage' = [stage EXCEPT ![r] = s] /\ stage \in [Request -> Stages] /\ s \in Stages
  BY <1>1 DEF Go, IInv, TypeOK, Stages, Slotted
<1>5. SeenBelow'
  BY <1>1, <1>2, <1>4 DEF IInv, SeenBelow
<1>6. /\ row' \in [Hash -> Request \union {Nobody}]
      /\ usedTxHashes' \in SUBSET Hash /\ faults' \in 0..MaxFaults
      /\ \A p \in Hash : row[p] # Nobody => row'[p] = row[p]
  <2>1. CASE Lookup(r) \/ Refuse(r)
    BY <2>1 DEF Lookup, Refuse, IInv, TypeOK
  <2>2. CASE Confirm(r)
    <3>1. HashOf[r] \in Hash
      BY <2>2 DEF Confirm, IInv, PaidFor
    <3>. QED BY <3>1, <2>2 DEF Confirm, IInv, TypeOK
  <2>3. CASE Record(r)
    BY <2>3 DEF Record, IInv, TypeOK
  <2>4. CASE RecordFails(r)
    <3>1. faults' \in 0..MaxFaults
      BY <2>4 DEF RecordFails, Fails, IInv, TypeOK
    <3>2. \/ row' = row
          \/ row[HashOf[r]] = Nobody /\ row' = [row EXCEPT ![HashOf[r]] = r]
      BY <2>4 DEF RecordFails
    <3>3. row \in [Hash -> Request \union {Nobody}] /\ usedTxHashes' \in SUBSET Hash
      BY <2>4 DEF RecordFails, IInv, TypeOK
    <3>. QED BY <3>1, <3>2, <3>3
  <2>. QED BY <2>1, <2>2, <2>3, <2>4
<1>7. TypeOK'
  BY <1>2, <1>4, <1>6 DEF IInv, TypeOK
<1>8. s = "executing" => HashOf[r] # Free /\ row'[HashOf[r]] = r
  <2>1. s = "executing" => Record(r) /\ row' = [row EXCEPT ![HashOf[r]] = r]
    BY <1>1, <1>4 DEF Lookup, Refuse, Confirm, Record, RecordFails, Go
  <2>2. stage[r] = "recording" => HashOf[r] # Free
    BY DEF IInv, PaidFor
  <2>. QED BY <2>1, <2>2 DEF Record, IInv, TypeOK
<1>9. PaidFor'
  <2>1. HashOf[r] # Free
    BY <1>2 DEF IInv, PaidFor
  <2>2. ASSUME NEW t \in Request, HashOf[t] # Free, row[HashOf[t]] = t
        PROVE  row'[HashOf[t]] = t
    BY <1>6, <2>2
  <2>. QED BY <1>1, <1>2, <1>4, <1>8, <2>1, <2>2 DEF IInv, PaidFor
<1>. QED BY <1>3, <1>5, <1>7, <1>9 DEF IInv

\* The tip is looked at.
LEMMA TippedKeeps ==
    ASSUME IInv, NEW r \in Request, Tipped(r)
    PROVE  IInv'
<1>1. PICK s \in {"executing", "refused", "lookup"} :
        /\ stage' = [stage EXCEPT ![r] = s]
        /\ (s = "executing" => HashOf[r] = Free) /\ (s = "lookup" => HashOf[r] # Free)
  BY DEF Tipped, Paying, Go
<1>2. /\ stage[r] = "tip"
      /\ UNCHANGED <<seen, activeExecutions, priorityQueue, peerRateLimits, usedTxHashes, row, served, faults>>
  BY DEF Tipped
<1>3. Books'
  BY <1>1, <1>2, MoveKeeps DEF Slotted, IInv, Go
<1>4. TypeOK'
  BY <1>1, <1>2 DEF IInv, TypeOK, Stages, Slotted
<1>5. SeenBelow' /\ PaidFor'
  BY <1>1, <1>2 DEF IInv, SeenBelow, PaidFor, TypeOK
<1>. QED BY <1>3, <1>4, <1>5 DEF IInv

\* The service runs, or fails.
LEMMA ExecuteKeeps ==
    ASSUME IInv, NEW r \in Request, Execute(r) \/ ExecuteFails(r)
    PROVE  IInv'
<1> USE ExecutorAssumption
<1>1. /\ stage[r] = "executing" /\ stage' = [stage EXCEPT ![r] = "served"]
      /\ served' = served \union {r}
      /\ UNCHANGED <<activeExecutions, priorityQueue, seen, usedTxHashes, row, faults>>
  BY DEF Execute, ExecuteFails, Go
<1>2. Books'
  BY <1>1, MoveKeeps DEF Slotted, IInv, Go
<1>3. seen[r] \in 0..MaxPerPeer /\ seen[r] < MaxPerPeer
  BY <1>1 DEF IInv, SeenBelow, TypeOK
<1>4. peerRateLimits' \in [Peer -> 0..MaxPerPeer]
  <2>1. seen[r] + 1 \in 0..MaxPerPeer
    BY <1>3
  <2>. QED BY <2>1 DEF Execute, ExecuteFails, IInv, TypeOK
<1>5. TypeOK'
  BY <1>1, <1>4 DEF IInv, TypeOK, Stages, Slotted
<1>6. SeenBelow'
  BY <1>1 DEF IInv, SeenBelow, TypeOK
<1>7. PaidFor'
  BY <1>1 DEF IInv, PaidFor, TypeOK
<1>. QED BY <1>2, <1>5, <1>6, <1>7 DEF IInv

\* A request is turned away, or ends.
LEMMA EndKeeps ==
    ASSUME IInv, NEW r \in Request, TurnAway(r) \/ Finish(r)
    PROVE  IInv'
<1>1. /\ stage[r] \in {"new", "refused", "served"} /\ Leave(r)
      /\ UNCHANGED <<seen, peerRateLimits, usedTxHashes, row, served, faults>>
  BY DEF TurnAway, Finish
<1>2. Books' /\ TypeOK'
  BY <1>1, LeaveKeeps DEF IInv, TypeOK
<1>3. ASSUME NEW t \in Request
      PROVE  stage'[t] = stage[t] \/ stage'[t] = "done" \/ (stage'[t] = "woken" /\ stage[t] = "queued")
  <2>1. priorityQueue # <<>> => 1 \in DOMAIN priorityQueue /\ Head(priorityQueue) = priorityQueue[1]
                               /\ Head(priorityQueue) \in Request
    BY DEF IInv, TypeOK
  <2>2. priorityQueue # <<>> => stage[Head(priorityQueue)] = "queued"
    BY <2>1 DEF IInv, Books, QueueSound
  <2>. QED BY <1>1, <2>2 DEF Leave, Go, IInv, TypeOK
<1>4. SeenBelow'
  BY <1>1, <1>3 DEF IInv, SeenBelow
<1>5. PaidFor'
  BY <1>1, <1>3 DEF IInv, PaidFor
<1>. QED BY <1>2, <1>4, <1>5 DEF IInv

\* A request takes a slot, at once or after waiting.
LEMMA StartKeeps ==
    ASSUME IInv, NEW r \in Request, Admit(r) \/ Resume(r)
    PROVE  IInv'
<1> USE ExecutorAssumption
<1>1. /\ stage[r] \in {"new", "woken"} /\ Begin(r)
      /\ UNCHANGED <<priorityQueue, peerRateLimits, usedTxHashes, row, served, faults>>
  BY DEF Admit, Resume, Begin
<1>2. Books'
  BY <1>1, BeginKeeps DEF IInv
<1>3. seen' \in [Request -> 0..MaxPerPeer] /\ seen'[r] < MaxPerPeer
      /\ \A t \in Request : t # r => seen'[t] = seen[t]
  <2>1. CASE Admit(r)
    <3>1. peerRateLimits[PeerOf[r]] \in 0..MaxPerPeer /\ peerRateLimits[PeerOf[r]] < MaxPerPeer
      BY <2>1 DEF Admit, IInv, TypeOK
    <3>. QED BY <3>1, <2>1 DEF Admit, IInv, TypeOK
  <2>2. CASE Resume(r)
    BY <2>2 DEF Resume, IInv, TypeOK, SeenBelow
  <2>. QED BY <2>1, <2>2
<1>4. PICK s \in {"tip", "executing", "refused", "lookup"} :
        /\ stage' = [stage EXCEPT ![r] = s]
        /\ (s = "executing" => HashOf[r] = Free) /\ (s = "lookup" => HashOf[r] # Free)
  BY <1>1 DEF Begin, Paying, Go
<1>5. TypeOK'
  BY <1>1, <1>3, <1>4 DEF Begin, IInv, TypeOK, Stages, Slotted
<1>6. SeenBelow'
  BY <1>3, <1>4 DEF IInv, SeenBelow, TypeOK
<1>7. PaidFor'
  BY <1>1, <1>4 DEF IInv, PaidFor, TypeOK
<1>. QED BY <1>2, <1>5, <1>6, <1>7 DEF IInv

\* A request joins the queue.
LEMMA WaitKeeps ==
    ASSUME IInv, NEW r \in Request, Enqueue(r)
    PROVE  IInv'
<1> USE ExecutorAssumption
<1>1. Books' /\ priorityQueue' \in Seq(Request)
  BY EnqueueKeeps DEF IInv
<1>2. stage' = [stage EXCEPT ![r] = "queued"]
      /\ UNCHANGED <<activeExecutions, peerRateLimits, usedTxHashes, row, served, faults>>
  BY DEF Enqueue, Go
<1>3. peerRateLimits[PeerOf[r]] \in 0..MaxPerPeer /\ peerRateLimits[PeerOf[r]] < MaxPerPeer
      /\ seen' = [seen EXCEPT ![r] = peerRateLimits[PeerOf[r]]]
  BY DEF Enqueue, IInv, TypeOK
<1>4. TypeOK'
  BY <1>1, <1>2, <1>3 DEF IInv, TypeOK, Stages
<1>5. SeenBelow' /\ PaidFor'
  BY <1>2, <1>3 DEF IInv, SeenBelow, PaidFor, TypeOK
<1>. QED BY <1>1, <1>4, <1>5 DEF IInv

\* A cache forgets.
LEMMA ExpireKeeps == ASSUME IInv, Expire PROVE IInv'
<1>1. UNCHANGED <<stage, seen, activeExecutions, priorityQueue, row, served, faults>>
  BY DEF Expire
<1>2. Books'
  BY <1>1 DEF IInv, Books, QueueSound, NobodyStranded, NoSlotLeaks, Running
<1>3. TypeOK'
  BY <1>1, ExecutorAssumption DEF Expire, IInv, TypeOK
<1>. QED BY <1>1, <1>2, <1>3 DEF IInv, SeenBelow, PaidFor

\* The process ends: nothing runs or waits, and the records remain.
LEMMA CrashKeeps == ASSUME IInv, Crash PROVE IInv'
<1>1. /\ stage' = [r \in Request |-> IF stage[r] \in {"new", "done"} THEN stage[r] ELSE "cut"]
      /\ activeExecutions' = 0 /\ priorityQueue' = <<>>
      /\ served' = served \union {r \in Request : stage[r] = "executing"}
      /\ UNCHANGED <<seen, row>>
  BY DEF Crash
<1>2. TypeOK'
  BY <1>1, ExecutorAssumption DEF Crash, Fails, IInv, TypeOK, Stages
<1>3. IsFiniteSet(Running') /\ Cardinality(Running') \in Nat
  <2>1. Running' \in SUBSET Request
    BY DEF Running
  <2>. QED BY <2>1, ExecutorAssumption, FS_Subset, FS_CardinalityType
<1>4. Books'
  <2>1. DOMAIN priorityQueue' = {}
    BY <1>1
  <2>. QED BY <1>1, <1>3, <2>1 DEF Books, QueueSound, NobodyStranded, NoSlotLeaks
<1>5. SeenBelow' /\ PaidFor'
  BY <1>1 DEF IInv, SeenBelow, PaidFor
<1>. QED BY <1>2, <1>4, <1>5 DEF IInv

\* Every step keeps the invariant.
THEOREM Invariance == Spec => []IInv
<1>1. Init => IInv
  BY InitEstablishes
<1>2. IInv /\ [Next]_vars => IInv'
  <2>. SUFFICES ASSUME IInv, [Next]_vars PROVE IInv'
    OBVIOUS
  <2>1. ASSUME NEW r \in Request, Step(r) PROVE IInv'
    BY <2>1, PayingKeeps, TippedKeeps, ExecuteKeeps, EndKeeps, StartKeeps DEF Step
  <2>2. ASSUME NEW r \in Request, TurnAway(r) PROVE IInv'
    BY <2>2, EndKeeps
  <2>3. ASSUME NEW r \in Request, Admit(r) PROVE IInv'
    BY <2>3, StartKeeps
  <2>4. ASSUME NEW r \in Request, Enqueue(r) PROVE IInv'
    BY <2>4, WaitKeeps
  <2>5. ASSUME NEW r \in Request, RecordFails(r) PROVE IInv'
    BY <2>5, PayingKeeps
  <2>6. CASE UNCHANGED vars
    BY <2>6 DEF vars, IInv, TypeOK, Books, QueueSound, NobodyStranded, NoSlotLeaks, Running,
                SeenBelow, PaidFor
  <2>. QED BY <2>1, <2>2, <2>3, <2>4, <2>5, <2>6, ExpireKeeps, CrashKeeps DEF Next
<1>. QED BY <1>1, <1>2, PTL DEF Spec

\* Every reachable state is typed; in particular no count passes the limit.
THEOREM TypeCorrect == Spec => []TypeOK
BY Invariance, PTL DEF IInv

\* The queue holds those who wait, once each, larger tips first.
THEOREM QueueSoundHolds == Spec => []QueueSound
<1>1. IInv => QueueSound
  BY DEF IInv, Books
<1>. QED BY <1>1, Invariance, PTL

\* Whoever leaves the queue leaves from its head, and whoever joins it passes
\* smaller tips only.
LEMMA OrderKept ==
    ASSUME IInv, Next, NEW r \in Request, NEW s \in Request,
           \/ Ahead(priorityQueue, r, s)
           \/ Waits(priorityQueue, r) /\ ~Waits(priorityQueue, s) /\ Tip[r] >= Tip[s],
           Waits(priorityQueue', r), Waits(priorityQueue', s)
    PROVE  Ahead(priorityQueue', r, s)
<1> DEFINE q == priorityQueue
           n == Len(q)
<1>1. q \in Seq(Request) /\ n \in Nat /\ DOMAIN q = 1..n
  BY LenProperties DEF IInv, TypeOK
<1>2. \A i, j \in 1..n : i < j => q[i] # q[j]
  BY <1>1 DEF IInv, Books, QueueSound
<1>3. CASE UNCHANGED priorityQueue
  BY <1>3
<1>4. ASSUME priorityQueue # <<>>, priorityQueue' = Tail(priorityQueue)
      PROVE  Ahead(priorityQueue', r, s)
  <2> DEFINE t == Tail(q)
  <2>1. n # 0 /\ t \in Seq(Request) /\ DOMAIN t = 1 .. n - 1
        /\ \A i \in 1 .. n - 1 : t[i] = q[i + 1]
    BY <1>1, <1>4, HeadTailProperties, LenProperties
  <2>. HIDE DEF t, n
  <2>2. PICK a \in 1 .. n - 1, b \in 1 .. n - 1 : t[a] = r /\ t[b] = s
    BY <1>4, <2>1 DEF Waits, t
  <2>3. a + 1 \in 1..n /\ b + 1 \in 1..n /\ q[a + 1] = r /\ q[b + 1] = s
    BY <1>1, <2>1, <2>2
  <2>4. PICK i \in 1..n, j \in 1..n : i < j /\ q[i] = r /\ q[j] = s
    BY <1>1, <2>3 DEF Ahead, Waits
  <2>5. i = a + 1 /\ j = b + 1
    BY <1>1, <1>2, <2>3, <2>4
  <2>6. a < b
    BY <2>4, <2>5
  <2>. QED BY <1>4, <2>1, <2>2, <2>6 DEF Ahead, t
<1>5. ASSUME NEW e \in Request, Enqueue(e) PROVE Ahead(priorityQueue', r, s)
  <2> DEFINE z == priorityQueue'
  <2>1. PICK k \in 0..n : Placed(e, k)
    BY <1>5, EnqueuePlaces DEF IInv
  <2>2. /\ z \in Seq(Request) /\ Len(z) = n + 1
        /\ \A i \in 1..k : z[i] = q[i]
        /\ z[k + 1] = e
        /\ \A i \in k + 2 .. n + 1 : z[i] = q[i - 1]
        /\ \A i \in k + 1 .. n : ~(Tip[q[i]] >= Tip[e])
    <3>. HIDE DEF q
    <3>. QED BY <2>1 DEF Placed, Inserted, q
  <2>. HIDE DEF z, n
  <2>3. DOMAIN z = 1 .. n + 1
    BY <1>1, <2>2, LenProperties
  <2>4. CASE Ahead(priorityQueue, r, s)
    <3>1. PICK i \in 1..n, j \in 1..n : i < j /\ q[i] = r /\ q[j] = s
      BY <1>1, <2>4 DEF Ahead
    <3> DEFINE up(x) == IF x <= k THEN x ELSE x + 1
    <3>2. \A x \in 1..n : up(x) \in 1 .. n + 1 /\ z[up(x)] = q[x]
      <4>1. ASSUME NEW x \in 1..n, x > k PROVE z[x + 1] = q[x]
        <5>1. x + 1 \in k + 2 .. n + 1 /\ (x + 1) - 1 = x
          BY <1>1, <2>1, <4>1
        <5>. QED BY <2>2, <5>1
      <4>. QED BY <1>1, <2>1, <2>2, <4>1
    <3>3. up(i) < up(j)
      BY <1>1, <2>1, <3>1
    <3>. HIDE DEF up
    <3>. QED BY <2>3, <3>1, <3>2, <3>3 DEF Ahead, z
  <2>5. CASE Waits(priorityQueue, r) /\ ~Waits(priorityQueue, s) /\ Tip[r] >= Tip[s]
    <3>1. PICK i \in 1..n : q[i] = r
      BY <1>1, <2>5 DEF Waits
    <3>2. \A j \in 1..n : q[j] # s
      BY <1>1, <2>5 DEF Waits
    <3>3. PICK j \in 1 .. n + 1 : z[j] = s
      BY <2>3 DEF Waits, z
    <3>4. j = k + 1 /\ s = e
      <4>1. CASE j <= k
        BY <1>1, <2>1, <2>2, <3>2, <3>3, <4>1
      <4>2. CASE j > k + 1
        <5>1. j \in k + 2 .. n + 1 /\ j - 1 \in 1..n
          BY <1>1, <2>1, <3>3, <4>2
        <5>. QED BY <2>2, <3>2, <3>3, <5>1
      <4>3. CASE j = k + 1
        BY <2>2, <3>3, <4>3
      <4>. QED BY <1>1, <2>1, <3>3, <4>1, <4>2, <4>3
    <3>5. i <= k
      <4>1. i \notin k + 1 .. n
        BY <2>2, <2>5, <3>1, <3>4
      <4>. QED BY <1>1, <2>1, <4>1
    <3>6. z[i] = r /\ i \in 1 .. n + 1 /\ i < j
      BY <1>1, <2>1, <2>2, <3>1, <3>4, <3>5
    <3>. QED BY <2>3, <3>3, <3>6 DEF Ahead, z
  <2>. QED BY <2>4, <2>5
<1>6. ASSUME NEW e \in Request, Leave(e) PROVE Ahead(priorityQueue', r, s)
  BY <1>3, <1>4, <1>6 DEF Leave
<1>7. CASE Crash
  BY <1>7 DEF Crash, Waits
<1>8. ASSUME NEW e \in Request, Step(e) \/ TurnAway(e) \/ Admit(e) \/ RecordFails(e)
      PROVE  UNCHANGED priorityQueue \/ Leave(e)
  BY <1>8 DEF Step, TurnAway, Admit, RecordFails, Resume, Tipped, Lookup, Refuse, Confirm, Record,
              Execute, ExecuteFails, Finish
<1>9. CASE Expire
  BY <1>3, <1>9 DEF Expire
<1>. QED BY <1>3, <1>5, <1>6, <1>7, <1>8, <1>9 DEF Next

\* Only a larger tip overtakes those who wait.
THEOREM NoOvertakingHolds == Spec => NoOvertaking
<1>1. IInv /\ [Next]_vars
        => [\A r, s \in Request :
               /\ \/ Ahead(priorityQueue, r, s)
                  \/ Waits(priorityQueue, r) /\ ~Waits(priorityQueue, s) /\ Tip[r] >= Tip[s]
               /\ Waits(priorityQueue', r) /\ Waits(priorityQueue', s)
               => Ahead(priorityQueue', r, s)]_vars
  BY OrderKept
<1>. QED BY <1>1, Invariance, PTL DEF Spec, NoOvertaking

\* Whoever waits has somebody before him who will wake the next.
THEOREM NobodyStrandedHolds == Spec => []NobodyStranded
<1>1. IInv => NobodyStranded
  BY DEF IInv, Books
<1>. QED BY <1>1, Invariance, PTL

\* The counter never says more than is running.
THEOREM NoSlotLeaksHolds == Spec => []NoSlotLeaks
<1>1. IInv => NoSlotLeaks
  BY DEF IInv, Books
<1>. QED BY <1>1, Invariance, PTL

\* A hash, as it is written, buys one execution: the cache, the query and the
\* unique index of SkynetPayment compare the same strings.
THEOREM OneUseHolds == Spec => []OneUse
<1>1. IInv => OneUse
  <2>1. IInv => \A r \in served : r \in Request
    BY DEF IInv, TypeOK
  <2>. QED BY <2>1 DEF IInv, PaidFor, OneUse
<1>. QED BY <1>1, Invariance, PTL
=============================================================================
