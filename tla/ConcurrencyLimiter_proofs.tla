----------------------- MODULE ConcurrencyLimiter_proofs -----------------------
(***************************************************************************)
(* Proofs about ConcurrencyLimiter, for queues of any length: the sifting  *)
(* loops restore the heap and lose no task, so that the array does what    *)
(* the set of waiters of PriorityGate does.                                *)
(***************************************************************************)
EXTENDS ConcurrencyLimiter, Induction, SequenceTheorems, FiniteSetTheorems

Hi(a, b) == IsHigherPriority(a, b)

\* No two places of the array hold tasks of the same number.
Distinct(q) == \A i, j \in DOMAIN q : q[i].order = q[j].order => i = j

\* The tasks in the array.
Elems(q) == {q[i] : i \in DOMAIN q}

\* Every task but the first is less urgent than its parent.
Heap(q) == \A i \in 2 .. Len(q) : Hi(q[i \div 2], q[i])

\* Arrays of tasks with numbers of their own.
Arrays == {q \in Seq(Task) : Distinct(q)}

\* r is a permutation of q.
Perm(q, r) == r \in Arrays /\ Len(r) = Len(q) /\ Elems(r) = Elems(q)

-----------------------------------------------------------------------------
(* The order of tasks, and places in the array.                              *)

\* Higher priority, then earlier arrival: a strict order, which is total on
\* tasks of different numbers.
LEMMA HiOrder ==
    /\ \A a, b \in Task : Hi(a, b) => ~Hi(b, a)
    /\ \A a, b, c \in Task : Hi(a, b) /\ Hi(b, c) => Hi(a, c)
    /\ \A a, b \in Task : a.order # b.order => Hi(a, b) \/ Hi(b, a)
<1>1. \A a \in Task : a.priority \in Int /\ a.order \in Nat
  <2>1. Priority \subseteq Int
    BY ConfigAssumption
  <2>. QED BY <2>1 DEF Task
<1>. QED BY <1>1 DEF Hi, IsHigherPriority

\* What an array is.
LEMMA ArrayFacts ==
    ASSUME NEW q \in Arrays
    PROVE  /\ q \in Seq(Task) /\ Len(q) \in Nat /\ DOMAIN q = 1 .. Len(q)
           /\ \A i \in 1 .. Len(q) : q[i] \in Task
           /\ \A i, j \in 1 .. Len(q) : i # j => q[i].order # q[j].order
<1>1. q \in Seq(Task)
  BY DEF Arrays
<1>2. Len(q) \in Nat /\ DOMAIN q = 1 .. Len(q) /\ \A i \in 1 .. Len(q) : q[i] \in Task
  BY <1>1, LenProperties, ElementOfSeq
<1>. QED BY <1>1, <1>2 DEF Arrays, Distinct

\* The parent of i, and its children.
LEMMA Halves ==
    /\ \A i \in Nat \ {0, 1} : i \div 2 \in Nat \ {0} /\ i \div 2 < i
    /\ \A i \in Nat, k \in Nat : i \div 2 = k <=> i = 2 * k \/ i = 2 * k + 1
OBVIOUS

\* r is q with the tasks at i and j exchanged.
Swapped(q, i, j, r) ==
    /\ r \in Seq(Task) /\ Len(r) = Len(q)
    /\ \A m \in 1 .. Len(q) : r[m] = IF m = j THEN q[i] ELSE IF m = i THEN q[j] ELSE q[m]

\* Exchanging two places changes nothing else.
LEMMA SwapPlaces ==
    ASSUME NEW q \in Seq(Task), NEW i \in 1 .. Len(q), NEW j \in 1 .. Len(q)
    PROVE  Swapped(q, i, j, Swap(q, i, j))
<1> DEFINE p == [q EXCEPT ![i] = q[j]]
           r == [p EXCEPT ![j] = q[i]]
<1>1. q[i] \in Task /\ q[j] \in Task
  BY ElementOfSeq
<1>2. p \in Seq(Task) /\ Len(p) = Len(q)
      /\ \A m \in 1 .. Len(q) : p[m] = IF m = i THEN q[j] ELSE q[m]
  BY <1>1, ExceptSeq
<1>3. r \in Seq(Task) /\ Len(r) = Len(q)
      /\ \A m \in 1 .. Len(q) : r[m] = IF m = j THEN q[i] ELSE p[m]
  <2>. HIDE DEF p
  <2>. QED BY <1>1, <1>2, ExceptSeq
<1>4. Swap(q, i, j) = r
  BY DEF Swap
<1>. HIDE DEF p, r
<1>. QED BY <1>2, <1>3, <1>4 DEF Swapped

\* Exchanging two places loses no task.
LEMMA SwapKeeps ==
    ASSUME NEW q \in Arrays, NEW i \in 1 .. Len(q), NEW j \in 1 .. Len(q)
    PROVE  Perm(q, Swap(q, i, j))
<1> DEFINE r == Swap(q, i, j)
<1>1. q \in Seq(Task) /\ Len(q) \in Nat /\ DOMAIN q = 1 .. Len(q)
  BY ArrayFacts
<1>2. /\ r \in Seq(Task) /\ Len(r) = Len(q)
      /\ \A m \in 1 .. Len(q) : r[m] = IF m = j THEN q[i] ELSE IF m = i THEN q[j] ELSE q[m]
  <2>1. Swapped(q, i, j, r)
    BY <1>1, SwapPlaces
  <2>. HIDE DEF r
  <2>. QED BY <2>1 DEF Swapped
<1>. HIDE DEF r
<1>3. DOMAIN r = 1 .. Len(q)
  BY <1>2, LenProperties
<1>4. Elems(r) = Elems(q)
  BY <1>1, <1>2, <1>3 DEF Elems
<1>5. Distinct(r)
  BY <1>1, <1>2, <1>3 DEF Distinct, Arrays
<1>6. Perm(q, r)
  BY <1>2, <1>4, <1>5 DEF Perm, Arrays
<1>. QED BY <1>6 DEF r

-----------------------------------------------------------------------------
(* Sifting up.                                                               *)

UpDomain == Seq(Task) \X Nat

\* One turn of the loop of _siftUp; g stands for the turns that follow.
UpBody(x, g) ==
    IF x[2] \in 2 .. Len(x[1]) /\ IsHigherPriority(x[1][x[2]], x[1][x[2] \div 2])
    THEN g[<<Swap(x[1], x[2], x[2] \div 2), x[2] \div 2>>] ELSE x[1]

\* A turn that exchanges goes on at a smaller place.
LEMMA UpTurn ==
    ASSUME NEW x \in UpDomain, x[2] \in 2 .. Len(x[1])
    PROVE  /\ x[2] \div 2 \in 1 .. Len(x[1]) /\ x[2] \div 2 < x[2]
           /\ <<Swap(x[1], x[2], x[2] \div 2), x[2] \div 2>> \in UpDomain
<1>1. x[1] \in Seq(Task) /\ x[2] \in Nat /\ Len(x[1]) \in Nat
  BY LenProperties DEF UpDomain
<1>2. x[2] \div 2 \in 1 .. Len(x[1]) /\ x[2] \div 2 < x[2] /\ x[2] \in 1 .. Len(x[1])
  BY <1>1
<1>3. Swap(x[1], x[2], x[2] \div 2) \in Seq(Task)
  BY <1>1, <1>2, SwapPlaces DEF Swapped
<1>. QED BY <1>2, <1>3 DEF UpDomain

\* The loop of _siftUp is defined at every array and place.
LEMMA UpEquation == \A x \in UpDomain : Up[x] = UpBody(x, Up)
<1> DEFINE V == Seq(Task)
           F == [UpDomain -> V]
           mu == [x \in UpDomain |-> x[2]]
           G == [x \in UpDomain |-> [g \in F |-> UpBody(x, g)]]
<1>1. V # {} /\ mu \in [UpDomain -> Nat]
  <2>1. <<>> \in V
    OBVIOUS
  <2>. QED BY <2>1 DEF UpDomain
<1>2. G \in [UpDomain -> [F -> V]]
  <2>1. ASSUME NEW x \in UpDomain, NEW g \in F PROVE UpBody(x, g) \in V
    BY UpTurn DEF UpBody, UpDomain
  <2>. QED BY <2>1
<1>3. LocalBody(UpDomain, V, mu, G)
  <2>1. ASSUME NEW x \in UpDomain, NEW g \in F, NEW h \in F,
               \A y \in UpDomain : mu[y] < mu[x] => g[y] = h[y]
        PROVE  UpBody(x, g) = UpBody(x, h)
    <3> DEFINE y == <<Swap(x[1], x[2], x[2] \div 2), x[2] \div 2>>
    <3>1. CASE x[2] \in 2 .. Len(x[1])
      <4>1. y \in UpDomain /\ x[2] \div 2 < x[2]
        BY <3>1, UpTurn
      <4>2. g[y] = h[y]
        BY <2>1, <4>1
      <4>. QED BY <4>2 DEF UpBody
    <3>. QED BY <3>1 DEF UpBody
  <2>. QED BY <1>1, <1>2, <2>1 DEF LocalBody
<1>4. PICK f : Solves(f, UpDomain, V, G)
  <2>. HIDE DEF V, mu, G
  <2>. QED BY <1>1, <1>3, Recursion
<1>5. f = [x \in UpDomain |-> UpBody(x, f)]
  BY <1>4 DEF Solves
<1>6. Up = CHOOSE g : g = [x \in UpDomain |-> UpBody(x, g)]
  BY Zenon DEF Up, UpBody, UpDomain
<1>7. Up = [x \in UpDomain |-> UpBody(x, Up)]
  BY <1>5, <1>6
<1>. QED BY <1>7

\* A heap, but for the task at k, which may have to go up.
HeapButUp(q, k) ==
    /\ q \in Arrays /\ k \in 1 .. Len(q)
    /\ \A i \in 2 .. Len(q) : i # k => Hi(q[i \div 2], q[i])
    /\ \A i \in 2 .. Len(q) : i \div 2 = k /\ k >= 2 => Hi(q[k \div 2], q[i])

\* An exchange with the parent leaves a heap but for the parent.
LEMMA UpStep ==
    ASSUME NEW q, NEW k, HeapButUp(q, k), k >= 2, Hi(q[k], q[k \div 2])
    PROVE  /\ HeapButUp(Swap(q, k, k \div 2), k \div 2)
           /\ Perm(q, Swap(q, k, k \div 2))
<1> DEFINE p == k \div 2
           r == Swap(q, k, p)
<1>1. q \in Arrays /\ q \in Seq(Task) /\ Len(q) \in Nat /\ k \in 2 .. Len(q)
      /\ \A i \in 1 .. Len(q) : q[i] \in Task
  BY ArrayFacts DEF HeapButUp
<1>2. p \in 1 .. Len(q) /\ p < k
  BY <1>1
<1>3. Perm(q, r) /\ r \in Arrays /\ Len(r) = Len(q)
  BY <1>1, <1>2, SwapKeeps DEF Perm
<1>4. \A m \in 1 .. Len(q) : r[m] = IF m = p THEN q[k] ELSE IF m = k THEN q[p] ELSE q[m]
  <2>1. k \in 1 .. Len(q)
    BY <1>1
  <2>. HIDE DEF p
  <2>2. q \in Seq(Task) /\ p \in 1 .. Len(q)
    BY <1>1, <1>2
  <2>3. Swapped(q, k, p, r)
    BY <2>1, <2>2, SwapPlaces
  <2>. HIDE DEF r
  <2>. QED BY <2>3 DEF Swapped
<1>5. Hi(q[k], q[p])
  OBVIOUS
<1>. HIDE DEF r
<1>6. ASSUME NEW i \in 2 .. Len(r), i # p PROVE Hi(r[i \div 2], r[i])
  <2>1. i \in 1 .. Len(q) /\ i \div 2 \in 1 .. Len(q) /\ i \div 2 < i
    BY <1>1, <1>3
  <2>2. CASE i = k
    BY <1>2, <1>4, <1>5, <2>1, <2>2
  <2>3. CASE i # k /\ i \div 2 = p
    <3>1. Hi(q[p], q[i])
      BY <1>3, <2>3 DEF HeapButUp
    <3>. QED BY <1>1, <1>2, <1>4, <1>5, <1>6, <2>1, <2>3, <3>1, HiOrder
  <2>4. CASE i # k /\ i \div 2 = k
    <3>1. Hi(q[p], q[i])
      BY <1>1, <1>3, <2>4 DEF HeapButUp
    <3>. QED BY <1>1, <1>2, <1>4, <1>6, <2>1, <2>4, <3>1
  <2>5. CASE i # k /\ i \div 2 # k /\ i \div 2 # p
    <3>1. Hi(q[i \div 2], q[i])
      BY <1>3, <2>5 DEF HeapButUp
    <3>. QED BY <1>4, <1>6, <2>1, <2>5, <3>1
  <2>. QED BY <2>2, <2>3, <2>4, <2>5
<1>7. ASSUME NEW i \in 2 .. Len(r), i \div 2 = p, p >= 2 PROVE Hi(r[p \div 2], r[i])
  <2>1. i \in 1 .. Len(q) /\ p \div 2 \in 1 .. Len(q) /\ p \div 2 < p /\ p < i
    BY <1>1, <1>2, <1>3, <1>7
  <2>2. Hi(q[p \div 2], q[p]) /\ r[p \div 2] = q[p \div 2]
    BY <1>1, <1>2, <1>4, <1>7, <2>1 DEF HeapButUp
  <2>3. CASE i = k
    BY <1>2, <1>4, <2>1, <2>2, <2>3
  <2>4. CASE i # k
    <3>1. Hi(q[p], q[i]) /\ r[i] = q[i]
      BY <1>3, <1>4, <1>7, <2>1, <2>4 DEF HeapButUp
    <3>. QED BY <1>1, <1>2, <2>1, <2>2, <3>1, HiOrder
  <2>. QED BY <2>3, <2>4
<1>8. HeapButUp(r, p)
  <2>. HIDE DEF p
  <2>. QED BY <1>2, <1>3, <1>6, <1>7 DEF HeapButUp
<1>. QED BY <1>3, <1>8 DEF r

\* _siftUp turns a heap but for one task into a heap of the same tasks.
LEMMA UpRestores ==
    ASSUME NEW q, NEW k, HeapButUp(q, k)
    PROVE  Perm(q, SiftUp(q, k)) /\ Heap(SiftUp(q, k))
<1> DEFINE Done(x) == Perm(x[1], Up[x]) /\ Heap(Up[x])
           B == {x \in UpDomain : HeapButUp(x[1], x[2]) /\ ~Done(x)}
           mu == [x \in B |-> x[2]]
<1>1. \A s, n : HeapButUp(s, n) => <<s, n>> \in UpDomain
  BY DEF HeapButUp, UpDomain, Arrays
<1>2. ASSUME B # {} PROVE FALSE
  <2>1. mu \in [B -> Nat]
    BY DEF UpDomain
  <2>2. PICK x \in B : \A y \in B : mu[x] <= mu[y]
    <3>. HIDE DEF B, mu
    <3>. QED BY <1>2, <2>1, LeastMember
  <2>3. \A y \in B : x[2] <= y[2]
    BY <2>2
  <2>4. PICK s, n : x = <<s, n>> /\ s \in Seq(Task) /\ n \in Nat
    BY DEF UpDomain
  <2>5. HeapButUp(s, n) /\ ~(Perm(s, Up[x]) /\ Heap(Up[x])) /\ x \in UpDomain
    BY <2>4
  <2>6. /\ s \in Arrays /\ n \in 1 .. Len(s) /\ Len(s) \in Nat
        /\ \A i \in 1 .. Len(s) : s[i] \in Task
        /\ \A i, j \in 1 .. Len(s) : i # j => s[i].order # s[j].order
    BY <2>5, ArrayFacts DEF HeapButUp
  <2>7. Up[x] = IF n \in 2 .. Len(s) /\ Hi(s[n], s[n \div 2])
                THEN Up[<<Swap(s, n, n \div 2), n \div 2>>] ELSE s
    BY <2>4, <2>5, UpEquation DEF UpBody, Hi
  <2>8. CASE n >= 2 /\ Hi(s[n], s[n \div 2])
    <3> DEFINE r == Swap(s, n, n \div 2)
               y == <<r, n \div 2>>
    <3>1. HeapButUp(r, n \div 2) /\ Perm(s, r)
      BY <2>5, <2>8, UpStep
    <3>2. n \div 2 < n /\ n \div 2 \in Nat
      BY <2>6
    <3>. HIDE DEF r
    <3>3. y \in UpDomain /\ ~(x[2] <= y[2])
      BY <1>1, <2>4, <3>1, <3>2
    <3>4. Done(y)
      BY <2>3, <3>1, <3>3
    <3>5. Up[x] = Up[y]
      BY <2>6, <2>7, <2>8 DEF r
    <3>. QED BY <2>5, <3>1, <3>4, <3>5 DEF Perm
  <2>9. CASE ~(n >= 2 /\ Hi(s[n], s[n \div 2]))
    <3>1. Up[x] = s
      BY <2>7, <2>9
    <3>2. Perm(s, s)
      BY <2>6 DEF Perm
    <3>3. ASSUME NEW i \in 2 .. Len(s) PROVE Hi(s[i \div 2], s[i])
      <4>1. CASE i # n
        BY <2>5, <4>1 DEF HeapButUp
      <4>2. CASE i = n
        <5>1. n \div 2 \in 1 .. Len(s) /\ n \div 2 # n
          BY <2>6, <4>2
        <5>. QED BY <2>6, <2>9, <4>2, <5>1, HiOrder
      <4>. QED BY <4>1, <4>2
    <3>. QED BY <2>5, <3>1, <3>2, <3>3 DEF Heap
  <2>. QED BY <2>8, <2>9
<1>3. <<q, k>> \in UpDomain /\ <<q, k>> \notin B
  BY <1>1, <1>2
<1>4. Done(<<q, k>>)
  BY <1>3
<1>. QED BY <1>4 DEF SiftUp

\* A turn that cannot go up leaves the array.
LEMMA UpIdle ==
    ASSUME NEW q \in Seq(Task), NEW k \in Nat, k >= 2 => ~Hi(q[k], q[k \div 2])
    PROVE  SiftUp(q, k) = q
<1>1. <<q, k>> \in UpDomain
  BY DEF UpDomain
<1>2. Len(q) \in Nat
  BY LenProperties
<1>3. Up[<<q, k>>] = UpBody(<<q, k>>, Up)
  BY <1>1, UpEquation
<1>4. UpBody(<<q, k>>, Up) = q
  BY <1>2 DEF UpBody, Hi
<1>. QED BY <1>3, <1>4 DEF SiftUp

-----------------------------------------------------------------------------
(* Sifting down.                                                             *)

DownDomain == Seq(Task) \X (Nat \ {0})

\* Where the loop goes on: nowhere, or at a child.
LEMMA LargestPlace ==
    ASSUME NEW s \in Seq(Task), NEW k \in Nat \ {0}, Largest(s, k) # k
    PROVE  /\ Largest(s, k) \in 1 .. Len(s) /\ k \in 1 .. Len(s)
           /\ Largest(s, k) > k /\ Largest(s, k) \div 2 = k
<1>1. Len(s) \in Nat /\ DOMAIN s = 1 .. Len(s)
  BY LenProperties
<1>2. Largest(s, k) \in DOMAIN s \cap {2 * k, 2 * k + 1}
  BY DEF Largest, Greater
<1>. QED BY <1>1, <1>2

\* The places below k.
Gap(x) == IF x[2] <= Len(x[1]) THEN Len(x[1]) - x[2] ELSE 0

DownNext(x) == <<Swap(x[1], x[2], Largest(x[1], x[2])), Largest(x[1], x[2])>>

\* The arguments of _siftDown.
LEMMA DownTypes ==
    ASSUME NEW x \in DownDomain
    PROVE  x[1] \in Seq(Task) /\ Len(x[1]) \in Nat /\ x[2] \in Nat \ {0} /\ Gap(x) \in Nat
<1>1. x[1] \in Seq(Task) /\ Len(x[1]) \in Nat /\ x[2] \in Nat \ {0}
  BY LenProperties DEF DownDomain
<1>. QED BY <1>1 DEF Gap

\* A turn that exchanges goes on with less below it.
LEMMA DownTurn ==
    ASSUME NEW x \in DownDomain, Largest(x[1], x[2]) # x[2]
    PROVE  DownNext(x) \in DownDomain /\ Gap(DownNext(x)) < Gap(x)
           /\ Len(DownNext(x)[1]) = Len(x[1])
<1> DEFINE l == Largest(x[1], x[2])
           r == Swap(x[1], x[2], l)
<1>1. x[1] \in Seq(Task) /\ Len(x[1]) \in Nat /\ x[2] \in Nat \ {0}
  BY DownTypes
<1>2. l \in 1 .. Len(x[1]) /\ x[2] \in 1 .. Len(x[1]) /\ l > x[2]
  BY <1>1, LargestPlace
<1>3. DownNext(x) = <<r, l>>
  BY DEF DownNext
<1>. HIDE DEF l
<1>4. r \in Seq(Task) /\ Len(r) = Len(x[1])
  BY <1>1, <1>2, SwapPlaces DEF Swapped
<1>. HIDE DEF r
<1>5. <<r, l>> \in DownDomain
  BY <1>1, <1>2, <1>4 DEF DownDomain
<1>6. Gap(<<r, l>>) < Gap(x)
  BY <1>1, <1>2, <1>4 DEF Gap
<1>. QED BY <1>3, <1>4, <1>5, <1>6

\* One turn of the loop of _siftDown; g stands for the turns that follow.
DownBody(x, g) == IF Largest(x[1], x[2]) = x[2] THEN x[1] ELSE g[DownNext(x)]

\* The loop of _siftDown is defined at every array and place.
LEMMA DownEquation == \A x \in DownDomain : Down[x] = DownBody(x, Down)
<1> DEFINE V == Seq(Task)
           F == [DownDomain -> V]
           mu == [x \in DownDomain |-> Gap(x)]
           G == [x \in DownDomain |-> [g \in F |-> DownBody(x, g)]]
<1>1. V # {} /\ mu \in [DownDomain -> Nat]
  <2>1. <<>> \in V
    OBVIOUS
  <2>. QED BY <2>1, DownTypes
<1>2. G \in [DownDomain -> [F -> V]]
  <2>1. ASSUME NEW x \in DownDomain, NEW g \in F PROVE DownBody(x, g) \in V
    BY DownTypes, DownTurn DEF DownBody
  <2>. QED BY <2>1
<1>3. LocalBody(DownDomain, V, mu, G)
  <2>1. ASSUME NEW x \in DownDomain, NEW g \in F, NEW h \in F,
               \A y \in DownDomain : mu[y] < mu[x] => g[y] = h[y]
        PROVE  DownBody(x, g) = DownBody(x, h)
    BY <2>1, DownTurn DEF DownBody
  <2>. QED BY <1>1, <1>2, <2>1 DEF LocalBody
<1>4. PICK f : Solves(f, DownDomain, V, G)
  <2>. HIDE DEF V, mu, G
  <2>. QED BY <1>1, <1>3, Recursion
<1>5. f = [x \in DownDomain |-> DownBody(x, f)]
  BY <1>4 DEF Solves
<1>6. Down = CHOOSE g : g = [x \in DownDomain |-> DownBody(x, g)]
  BY Zenon DEF Down, DownBody, DownNext, DownDomain
<1>7. Down = [x \in DownDomain |-> DownBody(x, Down)]
  BY <1>5, <1>6
<1>. QED BY <1>7

\* What _siftDown leaves is an array of the same length.
LEMMA DownKeepsType ==
    \A x \in DownDomain : Down[x] \in Seq(Task) /\ Len(Down[x]) = Len(x[1])
<1> DEFINE Done(x) == Down[x] \in Seq(Task) /\ Len(Down[x]) = Len(x[1])
           B == {x \in DownDomain : ~Done(x)}
           mu == [x \in B |-> Gap(x)]
<1>1. SUFFICES ASSUME B # {} PROVE FALSE
  OBVIOUS
<1>2. PICK x \in B : \A y \in B : Gap(x) <= Gap(y)
  <2>1. mu \in [B -> Nat]
    BY DownTypes
  <2>2. PICK x \in B : \A y \in B : mu[x] <= mu[y]
    <3>. HIDE DEF B, mu
    <3>. QED BY <1>1, <2>1, LeastMember
  <2>. QED BY <2>2
<1>3. x \in DownDomain /\ Down[x] = DownBody(x, Down) /\ x[1] \in Seq(Task)
  BY DownEquation, DownTypes
<1>4. CASE Largest(x[1], x[2]) = x[2]
  BY <1>3, <1>4 DEF DownBody
<1>5. CASE Largest(x[1], x[2]) # x[2]
  <2>1. DownNext(x) \in DownDomain /\ Gap(DownNext(x)) < Gap(x)
        /\ Len(DownNext(x)[1]) = Len(x[1])
    BY <1>3, <1>5, DownTurn
  <2>2. DownNext(x) \notin B
    <3>1. Gap(x) \in Nat /\ Gap(DownNext(x)) \in Nat
      BY <1>3, <2>1, DownTypes
    <3>. QED BY <1>2, <2>1, <3>1
  <2>3. Done(DownNext(x))
    BY <2>1, <2>2
  <2>. QED BY <1>3, <1>5, <2>1, <2>3 DEF DownBody
<1>. QED BY <1>4, <1>5

\* A heap, but for the task at k, which may have to go down.
HeapButDown(q, k) ==
    /\ q \in Arrays /\ k \in 1 .. Len(q)
    /\ \A i \in 2 .. Len(q) : i \div 2 # k => Hi(q[i \div 2], q[i])
    /\ \A i \in 2 .. Len(q) : i \div 2 = k /\ k >= 2 => Hi(q[k \div 2], q[i])

\* The place _siftDown goes on at holds the most urgent of the family.
LEMMA LargestWins ==
    ASSUME NEW s \in Arrays, NEW k \in 1 .. Len(s)
    PROVE  LET l == Largest(s, k)
           IN  /\ l # k => Hi(s[l], s[k])
               /\ \A i \in 2 .. Len(s) : i \div 2 = k /\ i # l => Hi(s[l], s[i])
<1> DEFINE m == Greater(s, k, 2 * k)
           l == Greater(s, m, 2 * k + 1)
<1>1. /\ Len(s) \in Nat /\ DOMAIN s = 1 .. Len(s) /\ k \in Nat
      /\ \A i \in 1 .. Len(s) : s[i] \in Task
      /\ \A i, j \in 1 .. Len(s) : i # j => s[i].order # s[j].order
  BY ArrayFacts
<1>2. /\ m \in 1 .. Len(s) /\ m \in {k, 2 * k}
      /\ m # k => Hi(s[m], s[k])
      /\ 2 * k \in 1 .. Len(s) /\ m # 2 * k => Hi(s[m], s[2 * k])
  <2>1. CASE 2 * k \in 1 .. Len(s) /\ Hi(s[2 * k], s[k])
    BY <1>1, <2>1 DEF Greater, Hi
  <2>2. CASE ~(2 * k \in 1 .. Len(s) /\ Hi(s[2 * k], s[k]))
    <3>1. m = k
      BY <1>1, <2>2 DEF Greater, Hi
    <3>2. k # 2 * k
      OBVIOUS
    <3>. QED BY <1>1, <2>2, <3>1, <3>2, HiOrder
  <2>. QED BY <2>1, <2>2
<1>. HIDE DEF m
<1>3. /\ l \in 1 .. Len(s) /\ l \in {k, 2 * k, 2 * k + 1}
      /\ l # m => Hi(s[l], s[m])
      /\ 2 * k + 1 \in 1 .. Len(s) /\ l # 2 * k + 1 => Hi(s[l], s[2 * k + 1])
  <2>1. CASE 2 * k + 1 \in 1 .. Len(s) /\ Hi(s[2 * k + 1], s[m])
    BY <1>1, <1>2, <2>1 DEF Greater, Hi
  <2>2. CASE ~(2 * k + 1 \in 1 .. Len(s) /\ Hi(s[2 * k + 1], s[m]))
    <3>1. l = m
      BY <1>1, <2>2 DEF Greater, Hi
    <3>2. m # 2 * k + 1
      BY <1>2
    <3>. QED BY <1>1, <1>2, <2>2, <3>1, <3>2, HiOrder
  <2>. QED BY <2>1, <2>2
<1>4. Largest(s, k) = l
  BY DEF Largest, m
<1>. HIDE DEF l
<1>5. l # k => Hi(s[l], s[k])
  BY <1>1, <1>2, <1>3, HiOrder
<1>6. ASSUME NEW i \in 2 .. Len(s), i \div 2 = k, i # l PROVE Hi(s[l], s[i])
  <2>1. i \in 1 .. Len(s) /\ (i = 2 * k \/ i = 2 * k + 1)
    BY <1>1, <1>6
  <2>2. CASE i = 2 * k + 1
    BY <1>3, <1>6, <2>1, <2>2
  <2>3. CASE i = 2 * k
    <3>1. CASE m = 2 * k
      BY <1>3, <1>6, <2>3, <3>1
    <3>2. CASE m # 2 * k
      BY <1>1, <1>2, <1>3, <2>1, <2>3, <3>2, HiOrder
    <3>. QED BY <3>1, <3>2
  <2>. QED BY <2>1, <2>2, <2>3
<1>. QED BY <1>4, <1>5, <1>6

\* An exchange with the most urgent child leaves a heap but for that child.
LEMMA DownStep ==
    ASSUME NEW q, NEW k, HeapButDown(q, k), Largest(q, k) # k
    PROVE  /\ HeapButDown(Swap(q, k, Largest(q, k)), Largest(q, k))
           /\ Perm(q, Swap(q, k, Largest(q, k)))
<1> DEFINE l == Largest(q, k)
           r == Swap(q, k, l)
<1>1. q \in Arrays /\ q \in Seq(Task) /\ Len(q) \in Nat /\ k \in 1 .. Len(q) /\ k \in Nat \ {0}
      /\ \A i \in 1 .. Len(q) : q[i] \in Task
  BY ArrayFacts DEF HeapButDown
<1>2. l \in 2 .. Len(q) /\ l > k /\ l \div 2 = k
  <2>1. l \in 1 .. Len(q) /\ l > k /\ l \div 2 = k
    BY <1>1, LargestPlace
  <2>. HIDE DEF l
  <2>. QED BY <1>1, <2>1
<1>3. /\ Hi(q[l], q[k])
      /\ \A i \in 2 .. Len(q) : i \div 2 = k /\ i # l => Hi(q[l], q[i])
  BY <1>1, LargestWins
<1>. HIDE DEF l
<1>4. Perm(q, r) /\ r \in Arrays /\ Len(r) = Len(q)
  BY <1>1, <1>2, SwapKeeps DEF Perm
<1>5. \A m \in 1 .. Len(q) : r[m] = IF m = l THEN q[k] ELSE IF m = k THEN q[l] ELSE q[m]
  <2>1. q \in Seq(Task) /\ k \in 1 .. Len(q) /\ l \in 1 .. Len(q)
    BY <1>1, <1>2
  <2>2. Swapped(q, k, l, r)
    BY <2>1, SwapPlaces
  <2>. HIDE DEF r
  <2>. QED BY <2>2 DEF Swapped
<1>. HIDE DEF r
<1>6. ASSUME NEW i \in 2 .. Len(r), i \div 2 # l PROVE Hi(r[i \div 2], r[i])
  <2>1. i \in 1 .. Len(q) /\ i \div 2 \in 1 .. Len(q) /\ i \div 2 < i
    BY <1>1, <1>4
  <2>2. CASE i = l
    BY <1>1, <1>2, <1>3, <1>5, <2>1, <2>2
  <2>3. CASE i # l /\ i \div 2 = k
    BY <1>1, <1>2, <1>3, <1>4, <1>5, <2>1, <2>3
  <2>4. CASE i = k
    <3>1. Hi(q[k \div 2], q[l]) /\ i \div 2 # k
      BY <1>1, <1>2, <1>4, <2>1, <2>4 DEF HeapButDown
    <3>. QED BY <1>1, <1>2, <1>5, <1>6, <2>1, <2>4, <3>1
  <2>5. CASE i # l /\ i # k /\ i \div 2 # k
    <3>1. Hi(q[i \div 2], q[i])
      BY <1>4, <2>5 DEF HeapButDown
    <3>. QED BY <1>5, <1>6, <2>1, <2>5, <3>1
  <2>. QED BY <2>2, <2>3, <2>4, <2>5
<1>7. ASSUME NEW i \in 2 .. Len(r), i \div 2 = l PROVE Hi(r[l \div 2], r[i])
  <2>1. i \in 1 .. Len(q) /\ l < i /\ i \div 2 # k
    BY <1>1, <1>2, <1>4, <1>7
  <2>2. Hi(q[l], q[i])
    BY <1>4, <1>7, <2>1 DEF HeapButDown
  <2>3. r[i] = q[i] /\ r[k] = q[l]
    BY <1>1, <1>2, <1>5, <2>1
  <2>. QED BY <1>2, <2>2, <2>3
<1>8. HeapButDown(r, l)
  BY <1>2, <1>4, <1>6, <1>7 DEF HeapButDown
<1>. QED BY <1>4, <1>8 DEF r, l

\* _siftDown turns a heap but for one task into a heap of the same tasks.
LEMMA DownRestores ==
    ASSUME NEW q, NEW k, HeapButDown(q, k)
    PROVE  Perm(q, SiftDown(q, k)) /\ Heap(SiftDown(q, k))
<1> DEFINE Done(x) == Perm(x[1], Down[x]) /\ Heap(Down[x])
           B == {x \in DownDomain : HeapButDown(x[1], x[2]) /\ ~Done(x)}
           mu == [x \in B |-> Gap(x)]
<1>1. \A s, n : HeapButDown(s, n) => <<s, n>> \in DownDomain
  <2>1. ASSUME NEW s, NEW n, HeapButDown(s, n) PROVE s \in Seq(Task) /\ n \in Nat \ {0}
    <3>1. s \in Arrays /\ n \in 1 .. Len(s)
      BY <2>1 DEF HeapButDown
    <3>. QED BY <3>1, ArrayFacts
  <2>. QED BY <2>1 DEF DownDomain
<1>2. ASSUME B # {} PROVE FALSE
  <2>1. PICK x \in B : \A y \in B : Gap(x) <= Gap(y)
    <3>1. mu \in [B -> Nat]
      BY DownTypes
    <3>2. PICK x \in B : \A y \in B : mu[x] <= mu[y]
      <4>. HIDE DEF B, mu
      <4>. QED BY <1>2, <3>1, LeastMember
    <3>. QED BY <3>2
  <2>2. PICK s, n : x = <<s, n>> /\ s \in Seq(Task) /\ n \in Nat \ {0}
    BY DEF DownDomain
  <2>3. HeapButDown(s, n) /\ ~(Perm(s, Down[x]) /\ Heap(Down[x])) /\ x \in DownDomain
    BY <2>2
  <2>4. s \in Arrays /\ n \in 1 .. Len(s)
    BY <2>3 DEF HeapButDown
  <2>5. Down[x] = IF Largest(s, n) = n THEN s ELSE Down[<<Swap(s, n, Largest(s, n)), Largest(s, n)>>]
    BY <2>2, <2>3, DownEquation DEF DownBody, DownNext
  <2>6. CASE Largest(s, n) # n
    <3> DEFINE y == <<Swap(s, n, Largest(s, n)), Largest(s, n)>>
    <3>1. HeapButDown(y[1], y[2]) /\ Perm(s, y[1])
      BY <2>3, <2>6, DownStep
    <3>2. y = DownNext(x)
      BY <2>2 DEF DownNext
    <3>. HIDE DEF y
    <3>3. y \in DownDomain /\ Gap(y) < Gap(x) /\ Gap(y) \in Nat /\ Gap(x) \in Nat
      BY <2>2, <2>3, <2>6, <3>2, DownTurn, DownTypes
    <3>4. y \notin B
      BY <2>1, <3>3
    <3>5. Done(y)
      BY <3>1, <3>3, <3>4
    <3>6. Down[x] = Down[y]
      BY <2>5, <2>6 DEF y
    <3>. QED BY <2>3, <3>1, <3>5, <3>6 DEF Perm
  <2>7. CASE Largest(s, n) = n
    <3>1. Down[x] = s /\ Perm(s, s)
      BY <2>4, <2>5, <2>7 DEF Perm
    <3>2. \A i \in 2 .. Len(s) : i \div 2 = n => Hi(s[n], s[i])
      <4>1. \A i \in 2 .. Len(s) : i \div 2 = n => i # n
        BY <2>2
      <4>. QED BY <2>4, <2>7, <4>1, LargestWins
    <3>3. Heap(s)
      BY <2>3, <3>2 DEF Heap, HeapButDown
    <3>. QED BY <2>3, <3>1, <3>3
  <2>. QED BY <2>6, <2>7
<1>3. <<q, k>> \in DownDomain /\ <<q, k>> \notin B
  BY <1>1, <1>2
<1>4. Done(<<q, k>>)
  BY <1>3
<1>. QED BY <1>4 DEF SiftDown

\* On a heap, _siftDown finds nothing to do.
LEMMA DownIdle ==
    ASSUME NEW q \in Arrays, Heap(q), NEW k \in 1 .. Len(q)
    PROVE  SiftDown(q, k) = q
<1>1. q \in Seq(Task) /\ Len(q) \in Nat /\ k \in Nat \ {0} /\ <<q, k>> \in DownDomain
      /\ \A i \in 1 .. Len(q) : q[i] \in Task
  BY ArrayFacts DEF DownDomain
<1>2. Largest(q, k) = k
  <2>. SUFFICES ASSUME Largest(q, k) # k PROVE FALSE
    OBVIOUS
  <2>1. PICK l : l = Largest(q, k)
    OBVIOUS
  <2>2. l \in 1 .. Len(q) /\ l > k /\ l \div 2 = k
    BY <1>1, <2>1, LargestPlace
  <2>3. Hi(q[l], q[k])
    BY <2>1, LargestWins
  <2>4. Hi(q[k], q[l])
    BY <1>1, <2>2 DEF Heap
  <2>. QED BY <1>1, <2>2, <2>3, <2>4, HiOrder
<1>3. Down[<<q, k>>] = DownBody(<<q, k>>, Down)
  BY <1>1, DownEquation
<1>. QED BY <1>2, <1>3 DEF SiftDown, DownBody

-----------------------------------------------------------------------------
(* The operations of the heap.                                               *)

\* The root is more urgent than every other task.
LEMMA RootWins ==
    ASSUME NEW q \in Arrays, Heap(q), NEW j \in 2 .. Len(q)
    PROVE  Hi(q[1], q[j])
<1> DEFINE B == {i \in 2 .. Len(q) : ~Hi(q[1], q[i])}
           mu == [i \in B |-> i]
<1>1. Len(q) \in Nat /\ \A i \in 1 .. Len(q) : q[i] \in Task
  BY ArrayFacts
<1>2. ASSUME B # {} PROVE FALSE
  <2>1. mu \in [B -> Nat]
    BY <1>1
  <2>2. PICK i \in B : \A m \in B : mu[i] <= mu[m]
    <3>. HIDE DEF B, mu
    <3>. QED BY <1>2, <2>1, LeastMember
  <2>3. i \in 2 .. Len(q) /\ i \div 2 \in 1 .. Len(q) /\ i \div 2 < i /\ Hi(q[i \div 2], q[i])
    BY <1>1 DEF Heap
  <2>4. i \div 2 = 1 \/ Hi(q[1], q[i \div 2])
    <3>1. i \div 2 \notin B
      BY <1>1, <2>2, <2>3
    <3>. QED BY <1>1, <2>3, <3>1
  <2>. QED BY <1>1, <2>3, <2>4, HiOrder
<1>. QED BY <1>2

\* The array without its last task.
LEMMA PoppedFacts ==
    ASSUME NEW q \in Seq(Task), q # <<>>
    PROVE  /\ Len(q) \in Nat \ {0} /\ Popped(q) \in Seq(Task) /\ Len(Popped(q)) = Len(q) - 1
           /\ \A i \in 1 .. Len(q) - 1 : Popped(q)[i] = q[i]
<1>1. Len(q) \in Nat \ {0} /\ \A i \in 1 .. Len(q) : q[i] \in Task
  BY EmptySeq, ElementOfSeq
<1> DEFINE n == Len(q) - 1
<1>2. 1 \in Int /\ n \in Int /\ \A i \in 1 .. n : q[i] \in Task
  BY <1>1
<1>3. /\ SubSeq(q, 1, n) \in Seq(Task)
      /\ Len(SubSeq(q, 1, n)) = IF 1 <= n THEN n - 1 + 1 ELSE 0
      /\ \A i \in 1 .. n - 1 + 1 : SubSeq(q, 1, n)[i] = q[1 + i - 1]
  <2>. HIDE DEF n
  <2>. QED BY <1>2, SubSeqProperties
<1>4. Popped(q) = SubSeq(q, 1, n)
  BY DEF Popped
<1>. HIDE DEF n
<1>5. Len(Popped(q)) = n /\ \A i \in 1 .. n : Popped(q)[i] = q[i]
  <2>1. n \in Nat
    BY <1>1 DEF n
  <2>. QED BY <1>3, <1>4, <2>1
<1>. QED BY <1>1, <1>3, <1>4, <1>5 DEF n

\* Without its last task, a heap is a heap of the others.
LEMMA LastRemoved ==
    ASSUME NEW q \in Arrays, Heap(q), q # <<>>
    PROVE  /\ Popped(q) \in Arrays /\ Len(Popped(q)) = Len(q) - 1 /\ Heap(Popped(q))
           /\ Elems(Popped(q)) = Elems(q) \ {q[Len(q)]}
<1> DEFINE r == Popped(q)
<1>1. /\ q \in Seq(Task) /\ DOMAIN q = 1 .. Len(q)
      /\ \A i, j \in 1 .. Len(q) : i # j => q[i].order # q[j].order
  BY ArrayFacts
<1>2. /\ Len(q) \in Nat \ {0} /\ r \in Seq(Task) /\ Len(r) = Len(q) - 1
      /\ \A i \in 1 .. Len(q) - 1 : r[i] = q[i]
  BY <1>1, PoppedFacts
<1>. HIDE DEF r
<1>3. DOMAIN r = 1 .. Len(q) - 1
  BY <1>2, LenProperties
<1>4. r \in Arrays
  BY <1>1, <1>2, <1>3 DEF Arrays, Distinct
<1>5. Heap(r)
  BY <1>2 DEF Heap
<1>6. \A i \in 1 .. Len(q) - 1 : q[i] # q[Len(q)]
  BY <1>1, <1>2
<1>7. Elems(r) = Elems(q) \ {q[Len(q)]}
  BY <1>1, <1>2, <1>3, <1>6 DEF Elems
<1>. QED BY <1>2, <1>4, <1>5, <1>7 DEF r

\* The last task moved to place i, over the task that was there.
Moved(q, i) == [Popped(q) EXCEPT ![i] = q[Len(q)]]

\* What that changes.
LEMMA MovedFacts ==
    ASSUME NEW q \in Arrays, NEW i \in 1 .. Len(q) - 1
    PROVE  /\ Moved(q, i) \in Arrays /\ Len(Moved(q, i)) = Len(q) - 1
           /\ \A j \in 1 .. Len(q) - 1 : Moved(q, i)[j] = IF j = i THEN q[Len(q)] ELSE q[j]
           /\ Elems(Moved(q, i)) = Elems(q) \ {q[i]}
<1> DEFINE r == Moved(q, i)
<1>1. /\ q \in Seq(Task) /\ Len(q) \in Nat /\ DOMAIN q = 1 .. Len(q)
      /\ \A j \in 1 .. Len(q) : q[j] \in Task
      /\ \A j, m \in 1 .. Len(q) : j # m => q[j].order # q[m].order
  BY ArrayFacts
<1>2. q # <<>> /\ Len(q) \in 1 .. Len(q) /\ Len(q) \in Nat
  BY <1>1, EmptySeq
<1>3. /\ Popped(q) \in Seq(Task) /\ Len(Popped(q)) = Len(q) - 1
      /\ \A j \in 1 .. Len(q) - 1 : Popped(q)[j] = q[j]
  BY <1>1, <1>2, PoppedFacts
<1>4. /\ r \in Seq(Task) /\ Len(r) = Len(q) - 1
      /\ \A j \in 1 .. Len(q) - 1 : r[j] = IF j = i THEN q[Len(q)] ELSE Popped(q)[j]
  <2>1. q[Len(q)] \in Task /\ i \in 1 .. Len(Popped(q))
    BY <1>1, <1>2, <1>3
  <2>. QED BY <1>3, <2>1, ExceptSeq DEF Moved
<1>. HIDE DEF r
<1>5. \A j \in 1 .. Len(q) - 1 : r[j] = IF j = i THEN q[Len(q)] ELSE q[j]
  BY <1>3, <1>4
<1>6. DOMAIN r = 1 .. Len(q) - 1
  BY <1>4, LenProperties
<1>7. r \in Arrays
  BY <1>1, <1>4, <1>5, <1>6 DEF Arrays, Distinct
<1>8. Elems(r) = Elems(q) \ {q[i]}
  <2>1. ASSUME NEW t \in Elems(r) PROVE t \in Elems(q) \ {q[i]}
    <3>1. PICK j \in 1 .. Len(q) - 1 : t = r[j]
      BY <1>6 DEF Elems
    <3>2. PICK m \in 1 .. Len(q) : t = q[m] /\ m # i
      BY <1>1, <1>2, <1>5, <3>1
    <3>. QED BY <1>1, <3>2 DEF Elems
  <2>2. ASSUME NEW t \in Elems(q) \ {q[i]} PROVE t \in Elems(r)
    <3>1. PICK m \in 1 .. Len(q) : t = q[m] /\ m # i
      BY <1>1 DEF Elems
    <3>2. CASE m = Len(q)
      BY <1>5, <1>6, <3>1, <3>2 DEF Elems
    <3>3. CASE m # Len(q)
      <4>1. m \in 1 .. Len(q) - 1
        BY <1>2, <3>3
      <4>. QED BY <1>5, <1>6, <3>1, <4>1 DEF Elems
    <3>. QED BY <3>2, <3>3
  <2>. QED BY <2>1, <2>2
<1>. QED BY <1>4, <1>5, <1>7, <1>8 DEF r

\* _heapRemoveTask leaves a heap of the tasks but the one at i.
LEMMA RemoveRestores ==
    ASSUME NEW q \in Arrays, Heap(q), NEW i \in 1 .. Len(q)
    PROVE  LET r == HeapRemoveTask(q, i)
           IN  /\ r \in Arrays /\ Heap(r) /\ Len(r) = Len(q) - 1
               /\ Elems(r) = Elems(q) \ {q[i]}
<1>1. /\ q \in Seq(Task) /\ Len(q) \in Nat /\ i \in Nat \ {0}
      /\ \A j \in 1 .. Len(q) : q[j] \in Task
      /\ \A j, m \in 1 .. Len(q) : j # m => q[j].order # q[m].order
  BY ArrayFacts
<1>2. CASE i = Len(q)
  <2>1. q # <<>>
    BY <1>1, EmptySeq
  <2>. QED BY <1>2, <2>1, LastRemoved DEF HeapRemoveTask
<1>3. CASE i # Len(q)
  <2> DEFINE r == Moved(q, i)
             n == Len(q) - 1
  <2>1. i \in 1 .. n /\ n \in Nat /\ n + 1 = Len(q)
    BY <1>1, <1>3
  <2>2. /\ r \in Arrays /\ Len(r) = n
        /\ \A j \in 1 .. n : r[j] = IF j = i THEN q[Len(q)] ELSE q[j]
        /\ Elems(r) = Elems(q) \ {q[i]}
    BY <2>1, MovedFacts
  <2>3. HeapRemoveTask(q, i) = SiftDown(SiftUp(r, i), i)
    BY <1>3 DEF HeapRemoveTask, Moved
  <2>. HIDE DEF r, n
  <2>4. \A j \in 2 .. n : Hi(q[j \div 2], q[j])
    BY <2>1 DEF Heap
  <2>5. \A j \in 2 .. n : j # i /\ j \div 2 # i => Hi(r[j \div 2], r[j])
    BY <2>1, <2>2, <2>4
  <2>6. ASSUME NEW j \in 2 .. n, j \div 2 = i, i >= 2
        PROVE  Hi(r[i \div 2], r[j]) /\ Hi(q[i \div 2], q[i]) /\ Hi(q[i], q[j])
               /\ r[i \div 2] = q[i \div 2] /\ r[j] = q[j]
    <3>1. Hi(q[i], q[j]) /\ Hi(q[i \div 2], q[i])
      BY <2>1, <2>4, <2>6
    <3>2. j \in 1 .. n /\ i \div 2 \in 1 .. n /\ j # i /\ i \div 2 # i
      BY <2>1, <2>6
    <3>3. Hi(q[i \div 2], q[j])
      <4>1. q[i \div 2] \in Task /\ q[i] \in Task /\ q[j] \in Task
        BY <1>1, <2>1, <3>2
      <4>. QED BY <3>1, <4>1, HiOrder
    <3>. QED BY <2>2, <3>1, <3>2, <3>3
  <2>7. CASE i >= 2 /\ Hi(r[i], r[i \div 2])
    <3>1. ASSUME NEW j \in 2 .. n, j # i, j \div 2 = i PROVE Hi(r[i], r[j])
      <4>1. r[i] \in Task /\ r[i \div 2] \in Task /\ r[j] \in Task
        <5>1. i \div 2 \in 1 .. n
          BY <2>1, <2>7
        <5>. QED BY <2>1, <2>2, <3>1, <5>1, ArrayFacts
      <4>2. Hi(r[i \div 2], r[j])
        BY <2>6, <2>7, <3>1
      <4>. QED BY <2>7, <4>1, <4>2, HiOrder
    <3>2. HeapButUp(r, i)
      BY <2>1, <2>2, <2>5, <2>6, <3>1 DEF HeapButUp
    <3>3. Perm(r, SiftUp(r, i)) /\ Heap(SiftUp(r, i))
      BY <3>2, UpRestores
    <3>4. SiftDown(SiftUp(r, i), i) = SiftUp(r, i)
      BY <2>1, <2>2, <3>3, DownIdle DEF Perm
    <3>. QED BY <2>2, <2>3, <3>3, <3>4 DEF Perm, n
  <2>8. CASE ~(i >= 2 /\ Hi(r[i], r[i \div 2]))
    <3>1. SiftUp(r, i) = r
      <4>1. r \in Seq(Task) /\ i \in Nat
        BY <1>1, <2>2, ArrayFacts
      <4>. QED BY <2>8, <4>1, UpIdle
    <3>2. i >= 2 => Hi(r[i \div 2], r[i])
      <4>. SUFFICES ASSUME i >= 2 PROVE Hi(r[i \div 2], r[i])
        OBVIOUS
      <4>1. i \div 2 \in 1 .. n /\ i \div 2 # i
        BY <2>1
      <4>. QED BY <2>1, <2>2, <2>8, <4>1, ArrayFacts, HiOrder
    <3>3. HeapButDown(r, i)
      <4>1. \A j \in 2 .. n : j \div 2 # i => Hi(r[j \div 2], r[j])
        BY <2>5, <3>2
      <4>2. \A j \in 2 .. n : j \div 2 = i /\ i >= 2 => Hi(r[i \div 2], r[j])
        BY <2>6
      <4>. QED BY <2>1, <2>2, <4>1, <4>2 DEF HeapButDown
    <3>4. Perm(r, SiftDown(r, i)) /\ Heap(SiftDown(r, i))
      BY <3>3, DownRestores
    <3>. QED BY <2>2, <2>3, <3>1, <3>4 DEF Perm, n
  <2>. QED BY <2>7, <2>8
<1>. QED BY <1>2, <1>3

\* _heapDequeue leaves a heap of the tasks but the root.
LEMMA DequeueRestores ==
    ASSUME NEW q \in Arrays, Heap(q), q # <<>>
    PROVE  LET r == HeapDequeue(q)
           IN  /\ r \in Arrays /\ Heap(r) /\ Len(r) = Len(q) - 1
               /\ Elems(r) = Elems(q) \ {q[1]}
<1>1. q \in Seq(Task) /\ Len(q) \in Nat \ {0} /\ DOMAIN q = 1 .. Len(q)
  BY ArrayFacts, EmptySeq
<1>2. CASE Len(q) = 1
  <2>1. <<>> \in Arrays /\ Heap(<<>>) /\ Len(<<>>) = 0 /\ Elems(<<>>) = {}
    BY DEF Arrays, Distinct, Heap, Elems
  <2>2. HeapDequeue(q) = <<>>
    BY <1>2 DEF HeapDequeue
  <2>3. Elems(q) = {q[1]}
    BY <1>1, <1>2 DEF Elems
  <2>. QED BY <1>2, <2>1, <2>2, <2>3
<1>3. CASE Len(q) # 1
  <2> DEFINE r == Moved(q, 1)
             n == Len(q) - 1
  <2>1. 1 \in 1 .. n /\ n \in Nat /\ n + 1 = Len(q)
    BY <1>1, <1>3
  <2>2. /\ r \in Arrays /\ Len(r) = n
        /\ \A j \in 1 .. n : r[j] = IF j = 1 THEN q[Len(q)] ELSE q[j]
        /\ Elems(r) = Elems(q) \ {q[1]}
    BY <2>1, MovedFacts
  <2>3. HeapDequeue(q) = SiftDown(r, 1)
    BY <1>3 DEF HeapDequeue, Moved
  <2>. HIDE DEF r, n
  <2>4. \A j \in 2 .. n : Hi(q[j \div 2], q[j])
    BY <2>1 DEF Heap
  <2>5. \A j \in 2 .. n : j \div 2 # 1 => Hi(r[j \div 2], r[j])
    BY <2>1, <2>2, <2>4
  <2>6. HeapButDown(r, 1)
    BY <2>1, <2>2, <2>5 DEF HeapButDown
  <2>7. Perm(r, SiftDown(r, 1)) /\ Heap(SiftDown(r, 1))
    BY <2>6, DownRestores
  <2>. QED BY <2>2, <2>3, <2>7 DEF Perm, n
<1>. QED BY <1>2, <1>3

\* _heapEnqueue leaves a heap of the tasks and the new one.
LEMMA EnqueueRestores ==
    ASSUME NEW q \in Arrays, Heap(q), NEW t \in Task, \A u \in Elems(q) : u.order # t.order
    PROVE  LET r == HeapEnqueue(q, t)
           IN  /\ r \in Arrays /\ Heap(r) /\ Len(r) = Len(q) + 1
               /\ Elems(r) = Elems(q) \cup {t}
<1> DEFINE a == Append(q, t)
           n == Len(q) + 1
<1>1. /\ q \in Seq(Task) /\ Len(q) \in Nat /\ DOMAIN q = 1 .. Len(q)
      /\ \A j, m \in 1 .. Len(q) : j # m => q[j].order # q[m].order
  BY ArrayFacts
<1>2. /\ a \in Seq(Task) /\ Len(a) = n /\ a[n] = t
      /\ \A j \in 1 .. Len(q) : a[j] = q[j]
  BY <1>1, AppendProperties
<1>. HIDE DEF a
<1>3. DOMAIN a = 1 .. n
  BY <1>2, LenProperties
<1>4. n \in Nat /\ Len(q) = n - 1 /\ n \in 1 .. n
  BY <1>1
<1>. HIDE DEF n
<1>5. Elems(a) = Elems(q) \cup {t}
  <2>1. ASSUME NEW j \in 1 .. n PROVE j = n \/ j \in 1 .. Len(q)
    BY <1>4
  <2>2. ASSUME NEW j \in 1 .. Len(q) PROVE j \in 1 .. n
    BY <1>4
  <2>. QED BY <1>1, <1>2, <1>3, <1>4, <2>1, <2>2 DEF Elems
<1>6. a \in Arrays
  <2>1. \A j \in 1 .. n : j = n \/ j \in 1 .. Len(q)
    BY <1>4
  <2>2. \A j \in 1 .. Len(q) : q[j].order # t.order
    BY <1>1 DEF Elems
  <2>. QED BY <1>1, <1>2, <1>3, <2>1, <2>2 DEF Arrays, Distinct
<1>7. \A j \in 2 .. n : j # n => Hi(a[j \div 2], a[j])
  <2>1. \A j \in 2 .. n : j # n => j \in 2 .. Len(q) /\ j \in 1 .. Len(q) /\ j \div 2 \in 1 .. Len(q)
    BY <1>4
  <2>. QED BY <1>2, <2>1 DEF Heap
<1>8. \A j \in 2 .. n : j \div 2 # n
  BY <1>4
<1>9. HeapButUp(a, n)
  BY <1>2, <1>4, <1>6, <1>7, <1>8 DEF HeapButUp
<1>10. Perm(a, SiftUp(a, n)) /\ Heap(SiftUp(a, n))
  BY <1>9, UpRestores
<1>11. HeapEnqueue(q, t) = SiftUp(a, n)
  BY DEF HeapEnqueue, a, n
<1>. QED BY <1>2, <1>5, <1>10, <1>11 DEF Perm, n

-----------------------------------------------------------------------------
(* Draining: the waiters that updateConfig starts.                           *)

DrainDomain == Seq(Task) \X Int

\* One turn of the loop of updateConfig; g stands for the turns that follow.
DrainBody(x, g) ==
    IF x[1] # <<>> /\ x[2] > 0 THEN g[<<HeapDequeue(x[1]), x[2] - 1>>] ELSE x[1]

\* _heapDequeue leaves an array that is one shorter, whatever it finds.
LEMMA DequeueTypes ==
    ASSUME NEW q \in Seq(Task), q # <<>>
    PROVE  HeapDequeue(q) \in Seq(Task) /\ Len(HeapDequeue(q)) = Len(q) - 1
<1>1. /\ Len(q) \in Nat \ {0} /\ Popped(q) \in Seq(Task) /\ Len(Popped(q)) = Len(q) - 1
      /\ q[Len(q)] \in Task
  BY PoppedFacts, ElementOfSeq
<1>2. CASE Len(q) = 1
  <2>1. <<>> \in Seq(Task) /\ Len(<<>>) = 0
    OBVIOUS
  <2>. QED BY <1>2, <2>1 DEF HeapDequeue
<1>3. CASE Len(q) # 1
  <2> DEFINE r == [Popped(q) EXCEPT ![1] = q[Len(q)]]
  <2>1. r \in Seq(Task) /\ Len(r) = Len(q) - 1
    <3>1. 1 \in 1 .. Len(Popped(q))
      BY <1>1, <1>3
    <3>. QED BY <1>1, <3>1, ExceptSeq
  <2>2. HeapDequeue(q) = Down[<<r, 1>>]
    BY <1>3 DEF HeapDequeue, SiftDown
  <2>. HIDE DEF r
  <2>3. <<r, 1>> \in DownDomain
    BY <2>1 DEF DownDomain
  <2>. QED BY <2>1, <2>2, <2>3, DownKeepsType
<1>. QED BY <1>2, <1>3

\* The loop of updateConfig is defined at every queue and number of slots.
LEMMA DrainEquation == \A x \in DrainDomain : Drain[x] = DrainBody(x, Drain)
<1> DEFINE V == Seq(Task)
           F == [DrainDomain -> V]
           mu == [x \in DrainDomain |-> Len(x[1])]
           G == [x \in DrainDomain |-> [g \in F |-> DrainBody(x, g)]]
<1>1. V # {} /\ mu \in [DrainDomain -> Nat]
  <2>1. <<>> \in V
    OBVIOUS
  <2>. QED BY <2>1, LenProperties DEF DrainDomain
<1>2. ASSUME NEW x \in DrainDomain, x[1] # <<>>
      PROVE  LET y == <<HeapDequeue(x[1]), x[2] - 1>>
             IN  y \in DrainDomain /\ mu[y] < mu[x]
  <2>1. x[1] \in Seq(Task) /\ x[2] \in Int /\ Len(x[1]) \in Nat
    BY LenProperties DEF DrainDomain
  <2>2. HeapDequeue(x[1]) \in Seq(Task) /\ Len(HeapDequeue(x[1])) = Len(x[1]) - 1
    BY <1>2, <2>1, DequeueTypes
  <2>3. <<HeapDequeue(x[1]), x[2] - 1>> \in DrainDomain
    BY <2>1, <2>2 DEF DrainDomain
  <2>. QED BY <2>1, <2>2, <2>3
<1>3. G \in [DrainDomain -> [F -> V]]
  <2>1. ASSUME NEW x \in DrainDomain, NEW g \in F PROVE DrainBody(x, g) \in V
    <3>1. x[1] \in Seq(Task)
      BY DEF DrainDomain
    <3>. QED BY <1>2, <3>1 DEF DrainBody
  <2>. QED BY <2>1
<1>4. LocalBody(DrainDomain, V, mu, G)
  <2>1. ASSUME NEW x \in DrainDomain, NEW g \in F, NEW h \in F,
               \A y \in DrainDomain : mu[y] < mu[x] => g[y] = h[y]
        PROVE  DrainBody(x, g) = DrainBody(x, h)
    <3>. HIDE DEF mu
    <3>. QED BY <1>2, <2>1 DEF DrainBody
  <2>. QED BY <1>1, <1>3, <2>1 DEF LocalBody
<1>5. PICK f : Solves(f, DrainDomain, V, G)
  <2>. HIDE DEF V, mu, G
  <2>. QED BY <1>1, <1>4, Recursion
<1>6. f = [x \in DrainDomain |-> DrainBody(x, f)]
  BY <1>5 DEF Solves
<1>7. Drain = CHOOSE g : g = [x \in DrainDomain |-> DrainBody(x, g)]
  BY Zenon DEF Drain, DrainBody, DrainDomain
<1>8. Drain = [x \in DrainDomain |-> DrainBody(x, Drain)]
  BY <1>6, <1>7
<1>. QED BY <1>8

\* r is the heap q without its most urgent tasks: n of them, or all.
DrainedBy(q, n, r) ==
    /\ r \in Arrays /\ Heap(r)
    /\ Elems(r) \subseteq Elems(q) /\ Len(r) <= Len(q)
    /\ \A a \in Elems(q) \ Elems(r), b \in Elems(r) : Hi(a, b)
    /\ r = <<>> \/ Len(q) - Len(r) >= n
    /\ r = q \/ Len(q) - Len(r) <= n

\* updateConfig starts the most urgent waiters, as many as there are slots.
LEMMA DrainStarts ==
    ASSUME NEW q \in Arrays, Heap(q), NEW n \in Int
    PROVE  DrainedBy(q, n, Drain[<<q, n>>])
<1> DEFINE Done(x) == DrainedBy(x[1], x[2], Drain[x])
           B == {x \in DrainDomain : x[1] \in Arrays /\ Heap(x[1]) /\ ~Done(x)}
           mu == [x \in B |-> Len(x[1])]
<1>1. ASSUME B # {} PROVE FALSE
  <2>1. PICK x \in B : \A y \in B : Len(x[1]) <= Len(y[1])
    <3>1. mu \in [B -> Nat]
      BY ArrayFacts
    <3>2. PICK x \in B : \A y \in B : mu[x] <= mu[y]
      <4>. HIDE DEF B, mu
      <4>. QED BY <1>1, <3>1, LeastMember
    <3>. QED BY <3>2
  <2>2. PICK s, k : x = <<s, k>> /\ s \in Seq(Task) /\ k \in Int
    BY DEF DrainDomain
  <2>3. x \in DrainDomain /\ s \in Arrays /\ Heap(s) /\ ~DrainedBy(s, k, Drain[x])
        /\ Len(s) \in Nat
    BY <2>2, ArrayFacts
  <2>4. Drain[x] = IF s # <<>> /\ k > 0 THEN Drain[<<HeapDequeue(s), k - 1>>] ELSE s
    BY <2>2, <2>3, DrainEquation DEF DrainBody
  <2>5. CASE s # <<>> /\ k > 0
    <3> DEFINE p == HeapDequeue(s)
               y == <<p, k - 1>>
               r == Drain[y]
    <3>1. /\ p \in Arrays /\ Heap(p) /\ Len(p) = Len(s) - 1
          /\ Elems(p) = Elems(s) \ {s[1]} /\ p \in Seq(Task)
      BY <2>3, <2>5, DequeueRestores, ArrayFacts
    <3>2. y \in DrainDomain
      BY <2>2, <3>1 DEF DrainDomain
    <3>. HIDE DEF p
    <3>3. y \notin B
      BY <2>1, <2>2, <2>3, <3>1
    <3>4. DrainedBy(p, k - 1, r)
      BY <3>1, <3>2, <3>3
    <3>5. Drain[x] = r
      BY <2>4, <2>5 DEF p
    <3>. HIDE DEF r
    <3>6. Len(r) \in Nat
      BY <3>4, ArrayFacts DEF DrainedBy
    <3>7. ASSUME NEW a \in Elems(s) \ Elems(r), NEW b \in Elems(r) PROVE Hi(a, b)
      <4>1. CASE a = s[1]
        <5>1. b \in Elems(p)
          BY <3>4 DEF DrainedBy
        <5>2. PICK j \in DOMAIN s : b = s[j] /\ j # 1
          BY <3>1, <5>1 DEF Elems
        <5>3. j \in 2 .. Len(s)
          <6>1. DOMAIN s = 1 .. Len(s) /\ Len(s) \in Nat
            BY <2>3, ArrayFacts
          <6>. QED BY <5>2, <6>1
        <5>. QED BY <2>3, <4>1, <5>2, <5>3, RootWins
      <4>2. CASE a # s[1]
        BY <3>1, <3>4, <4>2 DEF DrainedBy
      <4>. QED BY <4>1, <4>2
    <3>8. r = <<>> \/ Len(s) - Len(r) >= k
      BY <2>2, <2>3, <3>1, <3>4, <3>6 DEF DrainedBy
    <3>9. Len(s) - Len(r) <= k /\ Len(r) <= Len(s)
      <4>1. r = p \/ Len(p) - Len(r) <= k - 1
        BY <3>4 DEF DrainedBy
      <4>2. Len(r) <= Len(p)
        BY <3>4 DEF DrainedBy
      <4>. QED BY <2>2, <2>3, <2>5, <3>1, <3>6, <4>1, <4>2
    <3>10. r \in Arrays /\ Heap(r) /\ Elems(r) \subseteq Elems(s)
      BY <3>1, <3>4 DEF DrainedBy
    <3>11. DrainedBy(s, k, r)
      BY <3>7, <3>8, <3>9, <3>10 DEF DrainedBy
    <3>. QED BY <2>3, <3>5, <3>11
  <2>6. CASE ~(s # <<>> /\ k > 0)
    <3>1. Drain[x] = s
      BY <2>4, <2>6
    <3>2. DrainedBy(s, k, s)
      BY <2>2, <2>3, <2>6 DEF DrainedBy
    <3>. QED BY <2>3, <3>1, <3>2
  <2>. QED BY <2>5, <2>6
<1>2. <<q, n>> \in DrainDomain
  BY ArrayFacts DEF DrainDomain
<1>. QED BY <1>1, <1>2

-----------------------------------------------------------------------------
(* Counting.                                                                 *)

\* An array holds as many tasks as it is long.
LEMMA ElemsCount ==
    ASSUME NEW q \in Arrays
    PROVE  IsFiniteSet(Elems(q)) /\ Cardinality(Elems(q)) = Len(q)
<1> DEFINE I == 1 .. Len(q)
           f == [i \in I |-> q[i]]
<1>1. /\ Len(q) \in Nat /\ DOMAIN q = I
      /\ \A i, j \in I : i # j => q[i].order # q[j].order
  BY ArrayFacts
<1>2. f \in Bijection(I, Elems(q))
  <2>1. f \in [I -> Elems(q)]
    BY <1>1 DEF Elems
  <2>2. \A i, j \in I : f[i] = f[j] => i = j
    BY <1>1
  <2>3. \A t \in Elems(q) : \E i \in I : f[i] = t
    BY <1>1 DEF Elems
  <2>. QED BY <2>1, <2>2, <2>3 DEF Bijection, Injection, Surjection, IsInjective
<1>3. ExistsBijection(I, Elems(q))
  BY <1>2 DEF ExistsBijection
<1>4. IsFiniteSet(I) /\ Cardinality(I) = Len(q)
  <2>1. 1 \in Int /\ Len(q) \in Int
    BY <1>1
  <2>2. IsFiniteSet(1 .. Len(q))
        /\ Cardinality(1 .. Len(q)) = IF 1 > Len(q) THEN 0 ELSE Len(q) - 1 + 1
    BY <2>1, FS_Interval
  <2>. QED BY <1>1, <2>2
<1>. QED BY <1>3, <1>4, FS_Bijection

Orders(S) == {t.order : t \in S}

\* Tasks of an array are as many as their numbers.
LEMMA OrdersCount ==
    ASSUME NEW q \in Arrays, NEW D \in SUBSET Elems(q)
    PROVE  IsFiniteSet(D) /\ IsFiniteSet(Orders(D)) /\ Cardinality(Orders(D)) = Cardinality(D)
<1> DEFINE f == [t \in D |-> t.order]
<1>1. IsFiniteSet(D)
  BY ElemsCount, FS_Subset
<1>2. \A t, u \in D : t.order = u.order => t = u
  <2>1. /\ DOMAIN q = 1 .. Len(q)
        /\ \A i, j \in 1 .. Len(q) : i # j => q[i].order # q[j].order
    BY ArrayFacts
  <2>. QED BY <2>1 DEF Elems
<1>3. f \in Bijection(D, Orders(D))
  <2>1. f \in [D -> Orders(D)]
    BY DEF Orders
  <2>2. \A t, u \in D : f[t] = f[u] => t = u
    BY <1>2
  <2>3. \A o \in Orders(D) : \E t \in D : f[t] = o
    BY DEF Orders
  <2>. QED BY <2>1, <2>2, <2>3 DEF Bijection, Injection, Surjection, IsInjective
<1>4. ExistsBijection(D, Orders(D))
  BY <1>3 DEF ExistsBijection
<1>. QED BY <1>1, <1>4, FS_Bijection

\* The tasks that were ever admitted are finitely many.
LEMMA OrderFinite ==
    ASSUME NEW S \in SUBSET Order
    PROVE  IsFiniteSet(S) /\ Cardinality(S) \in 0 .. MaxTasks
<1>1. MaxTasks \in Nat /\ 0 \in Int /\ MaxTasks - 1 \in Int
  BY ConfigAssumption
<1>2. IsFiniteSet(Order) /\ Cardinality(Order) = MaxTasks
  <2>1. IsFiniteSet(0 .. MaxTasks - 1)
        /\ Cardinality(0 .. MaxTasks - 1)
             = IF 0 > MaxTasks - 1 THEN 0 ELSE MaxTasks - 1 - 0 + 1
    BY <1>1, FS_Interval
  <2>. QED BY <1>1, <2>1 DEF Order
<1>3. IsFiniteSet(S) /\ Cardinality(S) <= MaxTasks
  BY <1>2, FS_Subset
<1>4. Cardinality(S) \in Nat
  BY <1>3, FS_CardinalityType
<1>. QED BY <1>1, <1>3, <1>4

-----------------------------------------------------------------------------
(* The invariant.                                                            *)

States == {"new", "queued", "started", "settled"}

\* The types, with an array that is a heap of the tasks that are queued.
QueueInv ==
    /\ limits \in Limits /\ nextOrder \in 0 .. MaxTasks
    /\ state \in [Order -> States]
    /\ queue \in Arrays /\ Heap(queue)
    /\ Orders(Elems(queue)) = {o \in Order : state[o] = "queued"}

\* Numbers that were not given out yet are new.
Fresh == \A o \in Order : state[o] = "new" <=> o >= nextOrder

Inv ==
    /\ QueueInv
    /\ Fresh
    /\ active = Cardinality(Started)

\* The invariant says what the properties say.
LEMMA InvImplies == Inv => TypeOK /\ TasksAccounted /\ HeapOrdered
<1>. SUFFICES ASSUME Inv PROVE TypeOK /\ TasksAccounted /\ HeapOrdered
  OBVIOUS
<1>1. queue \in Seq(Task) /\ Distinct(queue) /\ Heap(queue)
  BY DEF Inv, QueueInv, Arrays
<1>2. active \in 0 .. MaxTasks
  <2>1. Started \in SUBSET Order
    BY DEF Started
  <2>. QED BY <2>1, OrderFinite DEF Inv
<1>3. Orders(Elems(queue)) = {queue[i].order : i \in DOMAIN queue}
  BY DEF Orders, Elems
<1>4. TypeOK
  BY <1>1, <1>2 DEF Inv, QueueInv, States, TypeOK
<1>5. TasksAccounted
  BY <1>1, <1>3 DEF Inv, QueueInv, TasksAccounted, Distinct
<1>6. HeapOrdered
  BY <1>1 DEF HeapOrdered, Heap, Hi
<1>. QED BY <1>4, <1>5, <1>6

\* The constructor establishes the invariant.
LEMMA InitInv == Init => Inv
<1>. SUFFICES ASSUME Init PROVE Inv
  OBVIOUS
<1>1. <<>> \in Arrays /\ Heap(<<>>) /\ Elems(<<>>) = {}
  BY DEF Arrays, Distinct, Heap, Elems
<1>2. MaxTasks \in Nat /\ Initial \in Limits
  BY ConfigAssumption DEF Limits
<1>3. Started = {}
  BY DEF Init, Started
<1>4. QueueInv
  BY <1>1, <1>2 DEF Init, QueueInv, States, Orders
<1>5. Fresh
  BY DEF Init, Fresh, Order
<1>6. Cardinality(Started) = 0
  BY <1>3, FS_EmptySet
<1>. QED BY <1>4, <1>5, <1>6 DEF Init, Inv

-----------------------------------------------------------------------------
(* Waiters that start.                                                       *)

\* The tasks numbered in S settle, and the k most urgent waiters, or all, which
\* are the set D, start beside the others.
Promoted(D, S, k) ==
    /\ D \subseteq Elems(queue)
    /\ queue' \in Arrays /\ Heap(queue') /\ Elems(queue') = Elems(queue) \ D
    /\ \A a \in D, b \in Elems(queue) \ D : Hi(a, b)
    /\ state' = [n \in Order |-> IF n \in Orders(D) THEN "started"
                                 ELSE IF n \in S THEN "settled" ELSE state[n]]
    /\ active' = Cardinality(Started \ S) + Cardinality(D)
    /\ D = Elems(queue) \/ Cardinality(D) >= k
    /\ D = {} \/ Cardinality(D) <= k
    /\ nextOrder' = nextOrder

\* The slots that the end of an operation offers to the waiters.
Freed == IF Cardinality(Started) <= limits.max THEN 1 ELSE 0

\* The limits are numbers.
LEMMA LimitsType ==
    /\ Configs \subseteq Limits
    /\ \A c \in Limits : c.max \in Nat \ {0} /\ c.maxQueue \in Nat
BY ConfigAssumption DEF Limits

\* A task that has settled leaves the others that run one fewer.
LEMMA StartedWithout ==
    ASSUME Inv, NEW o \in Started
    PROVE  Cardinality(Started \ {o}) = active - 1 /\ active \in Nat
<1>1. Started \in SUBSET Order
  BY DEF Started
<1>2. IsFiniteSet(Started) /\ Cardinality(Started) \in Nat
  BY <1>1, OrderFinite
<1>. QED BY <1>2, FS_RemoveElement DEF Inv

\* Numbers of waiters are numbers that are queued; different waiters have
\* different numbers.
LEMMA WaitersQueued ==
    ASSUME QueueInv
    PROVE  /\ \A t \in Elems(queue) : t \in Task /\ t.order \in Order /\ state[t.order] = "queued"
           /\ \A t, u \in Elems(queue) : t.order = u.order => t = u
<1>1. queue \in Arrays /\ Orders(Elems(queue)) = {o \in Order : state[o] = "queued"}
  BY DEF QueueInv
<1>2. /\ DOMAIN queue = 1 .. Len(queue)
      /\ \A i \in 1 .. Len(queue) : queue[i] \in Task
      /\ \A i, j \in 1 .. Len(queue) : i # j => queue[i].order # queue[j].order
  BY <1>1, ArrayFacts
<1>3. \A t \in Elems(queue) : t \in Task
  BY <1>2 DEF Elems
<1>4. \A t \in Elems(queue) : t.order \in Orders(Elems(queue))
  BY DEF Orders
<1>5. \A t, u \in Elems(queue) : t.order = u.order => t = u
  BY <1>2 DEF Elems
<1>. QED BY <1>1, <1>3, <1>4, <1>5

\* An operation that ends starts the most urgent waiter, if there is one and
\* there is room.
LEMMA CompleteEffect ==
    ASSUME Inv, NEW o \in Order, Complete(o)
    PROVE  \E D : Promoted(D, {o}, Freed)
<1>1. /\ queue \in Arrays /\ Heap(queue) /\ QueueInv /\ o \in Started
      /\ limits.max \in Nat /\ state \in [Order -> States] /\ nextOrder' = nextOrder
  BY LimitsType DEF Inv, QueueInv, Complete, Started
<1>2. /\ Cardinality(Started \ {o}) = active - 1 /\ active \in Nat
      /\ active = Cardinality(Started)
  BY <1>1, StartedWithout DEF Inv
<1>3. CASE queue # <<>> /\ active - 1 < limits.max
  <2> DEFINE D == {queue[1]}
  <2>1. /\ queue' = HeapDequeue(queue) /\ active' = active
        /\ state' = [state EXCEPT ![o] = "settled", ![queue[1].order] = "started"]
    BY <1>3 DEF Complete
  <2>2. queue' \in Arrays /\ Heap(queue') /\ Elems(queue') = Elems(queue) \ D
    BY <1>1, <1>3, <2>1, DequeueRestores
  <2>3. /\ Len(queue) \in Nat \ {0} /\ DOMAIN queue = 1 .. Len(queue)
    BY <1>1, <1>3, ArrayFacts, EmptySeq
  <2>4. queue[1] \in Elems(queue)
    BY <2>3 DEF Elems
  <2>5. \A b \in Elems(queue) \ D : Hi(queue[1], b)
    <3>1. ASSUME NEW b \in Elems(queue) \ D PROVE Hi(queue[1], b)
      <4>1. PICK j \in 1 .. Len(queue) : b = queue[j] /\ j # 1
        BY <2>3 DEF Elems
      <4>2. j \in 2 .. Len(queue)
        BY <2>3, <4>1
      <4>. QED BY <1>1, <4>1, <4>2, RootWins
    <3>. QED BY <3>1
  <2>6. Orders(D) = {queue[1].order}
    BY DEF Orders
  <2>7. queue[1].order \in Order
    BY <1>1, <2>4, WaitersQueued
  <2>8. state' = [n \in Order |-> IF n \in Orders(D) THEN "started"
                                  ELSE IF n \in {o} THEN "settled" ELSE state[n]]
    BY <1>1, <2>1, <2>6, <2>7
  <2>9. Cardinality(D) = 1
    BY FS_Singleton
  <2>10. Freed = 1
    BY <1>1, <1>2, <1>3 DEF Freed
  <2>11. /\ active' = Cardinality(Started \ {o}) + Cardinality(D)
         /\ Cardinality(D) >= Freed /\ Cardinality(D) <= Freed
    BY <1>1, <1>2, <2>1, <2>9, <2>10
  <2>12. D \subseteq Elems(queue) /\ \A a \in D, b \in Elems(queue) \ D : Hi(a, b)
    BY <2>4, <2>5
  <2>. HIDE DEF D
  <2>. QED BY <1>1, <2>2, <2>8, <2>11, <2>12 DEF Promoted
<1>4. CASE ~(queue # <<>> /\ active - 1 < limits.max)
  <2>1. /\ queue' = queue /\ active' = active - 1
        /\ state' = [state EXCEPT ![o] = "settled"]
    BY <1>4 DEF Complete
  <2>2. Orders({}) = {}
    BY DEF Orders
  <2>3. state' = [n \in Order |-> IF n \in Orders({}) THEN "started"
                                  ELSE IF n \in {o} THEN "settled" ELSE state[n]]
    BY <1>1, <2>1, <2>2
  <2>4. Cardinality({}) = 0
    BY FS_EmptySet
  <2>5. queue = <<>> => Elems(queue) = {}
    BY DEF Elems
  <2>6. {} = Elems(queue) \/ Cardinality({}) >= Freed
    BY <1>1, <1>2, <1>4, <2>4, <2>5 DEF Freed
  <2>7. active' = Cardinality(Started \ {o}) + Cardinality({})
    BY <1>2, <2>1, <2>4
  <2>8. Elems(queue') = Elems(queue) \ {} /\ queue' \in Arrays /\ Heap(queue')
    BY <1>1, <2>1
  <2>9. Promoted({}, {o}, Freed)
    BY <1>1, <2>3, <2>6, <2>7, <2>8 DEF Promoted
  <2>. QED BY <2>9
<1>. QED BY <1>3, <1>4

\* updateConfig starts the most urgent waiters that the new limit has room for.
LEMMA UpdateEffect ==
    ASSUME Inv, NEW c \in Configs, UpdateConfig(c)
    PROVE  \E D : Promoted(D, {}, c.max - Cardinality(Started))
<1> DEFINE left == Drain[<<queue, c.max - active>>]
           D == Elems(queue) \ Elems(left)
<1>1. /\ queue \in Arrays /\ Heap(queue) /\ QueueInv /\ c.max \in Nat
      /\ state \in [Order -> States] /\ nextOrder' = nextOrder
      /\ Orders(Elems(queue)) = {o \in Order : state[o] = "queued"}
  BY LimitsType DEF Inv, QueueInv, UpdateConfig
<1>2. active \in Nat /\ active = Cardinality(Started)
  <2>1. Started \in SUBSET Order
    BY DEF Started
  <2>. QED BY <2>1, OrderFinite DEF Inv
<1>3. DrainedBy(queue, c.max - active, left)
  <2>1. c.max - active \in Int
    BY <1>1, <1>2
  <2>. QED BY <1>1, <2>1, DrainStarts
<1>4. /\ queue' = left
      /\ active' = active + Len(queue) - Len(left)
      /\ state' = [o \in Order |->
                     IF state[o] = "queued" /\ \A i \in DOMAIN left : left[i].order # o
                     THEN "started" ELSE state[o]]
  BY DEF UpdateConfig
<1>. HIDE DEF left
<1>5. queue' \in Arrays /\ Heap(queue') /\ Elems(queue') = Elems(queue) \ D /\ D \subseteq Elems(queue)
  BY <1>3, <1>4 DEF DrainedBy
<1>6. \A a \in D, b \in Elems(queue) \ D : Hi(a, b)
  BY <1>3 DEF DrainedBy
<1>7. Cardinality(D) = Len(queue) - Len(left) /\ Len(queue) \in Nat /\ Len(left) \in Nat
      /\ Len(left) <= Len(queue)
  <2>1. left \in Arrays /\ Elems(left) \subseteq Elems(queue) /\ Len(left) <= Len(queue)
    BY <1>3 DEF DrainedBy
  <2>2. /\ IsFiniteSet(Elems(queue)) /\ Cardinality(Elems(queue)) = Len(queue)
        /\ Cardinality(Elems(left)) = Len(left)
    BY <1>1, <2>1, ElemsCount
  <2>3. Elems(queue) \cap Elems(left) = Elems(left)
    BY <2>1
  <2>4. Cardinality(D) = Cardinality(Elems(queue)) - Cardinality(Elems(queue) \cap Elems(left))
    BY <2>2, FS_Difference
  <2>. QED BY <1>1, <2>1, <2>2, <2>3, <2>4, ArrayFacts
<1>8. state' = [n \in Order |-> IF n \in Orders(D) THEN "started"
                                ELSE IF n \in {} THEN "settled" ELSE state[n]]
  <2>1. ASSUME NEW n \in Order
        PROVE  n \in Orders(D)
               <=> state[n] = "queued" /\ \A i \in DOMAIN left : left[i].order # n
    <3>1. ASSUME n \in Orders(D) PROVE state[n] = "queued" /\ \A i \in DOMAIN left : left[i].order # n
      <4>1. PICK t \in D : n = t.order
        BY <3>1 DEF Orders
      <4>2. state[n] = "queued"
        BY <1>1, <4>1, WaitersQueued
      <4>3. ASSUME NEW i \in DOMAIN left, left[i].order = n PROVE FALSE
        <5>1. left[i] \in Elems(left) /\ left[i] \in Elems(queue)
          BY <1>3 DEF DrainedBy, Elems
        <5>. QED BY <1>1, <4>1, <4>3, <5>1, WaitersQueued
      <4>. QED BY <4>2, <4>3
    <3>2. ASSUME state[n] = "queued", \A i \in DOMAIN left : left[i].order # n
          PROVE  n \in Orders(D)
      <4>1. PICK t \in Elems(queue) : n = t.order
        BY <1>1, <3>2 DEF Orders
      <4>2. t \notin Elems(left)
        BY <3>2, <4>1 DEF Elems
      <4>. QED BY <4>1, <4>2 DEF Orders
    <3>. QED BY <3>1, <3>2
  <2>. HIDE DEF D
  <2>. QED BY <1>4, <2>1
<1>9. active' = Cardinality(Started \ {}) + Cardinality(D)
  <2>1. Started \ {} = Started
    OBVIOUS
  <2>. HIDE DEF D
  <2>. QED BY <1>2, <1>4, <1>7, <2>1
<1>10. D = Elems(queue) \/ Cardinality(D) >= c.max - Cardinality(Started)
  <2>1. left = <<>> => D = Elems(queue)
    BY DEF Elems
  <2>2. left # <<>> => Len(queue) - Len(left) >= c.max - active
    BY <1>3 DEF DrainedBy
  <2>. HIDE DEF D
  <2>. QED BY <1>1, <1>2, <1>4, <1>7, <2>1, <2>2
<1>11. D = {} \/ Cardinality(D) <= c.max - Cardinality(Started)
  <2>1. left = queue => D = {}
    OBVIOUS
  <2>2. left # queue => Len(queue) - Len(left) <= c.max - active
    BY <1>3 DEF DrainedBy
  <2>. HIDE DEF D
  <2>. QED BY <1>1, <1>2, <1>4, <1>7, <2>1, <2>2
<1>. HIDE DEF D
<1>. QED BY <1>1, <1>5, <1>6, <1>8, <1>9, <1>10, <1>11 DEF Promoted

\* Waiters that start are counted and leave no gap in the books.
LEMMA PromotedInv ==
    ASSUME Inv, NEW S \in SUBSET Started, NEW D, NEW k, limits' \in Limits,
           Promoted(D, S, k)
    PROVE  Inv' /\ Started' = (Started \ S) \cup Orders(D)
<1>1. /\ QueueInv /\ Fresh /\ queue \in Arrays /\ state \in [Order -> States]
      /\ Orders(Elems(queue)) = {o \in Order : state[o] = "queued"}
      /\ Started = {o \in Order : state[o] = "started"}
  BY DEF Inv, QueueInv, Started
<1>2. /\ D \subseteq Elems(queue)
      /\ queue' \in Arrays /\ Heap(queue') /\ Elems(queue') = Elems(queue) \ D
      /\ state' = [n \in Order |-> IF n \in Orders(D) THEN "started"
                                   ELSE IF n \in S THEN "settled" ELSE state[n]]
      /\ active' = Cardinality(Started \ S) + Cardinality(D)
      /\ nextOrder' = nextOrder
  BY DEF Promoted
<1>3. \A n \in Orders(D) : n \in Order /\ state[n] = "queued"
  BY <1>1, <1>2, WaitersQueued DEF Orders
<1>4. \A n \in S : n \in Order /\ state[n] = "started"
  BY <1>1
<1>5. state' \in [Order -> States]
  BY <1>1, <1>2 DEF States
<1>6. Started' = (Started \ S) \cup Orders(D)
  <2>1. Started' = {o \in Order : state'[o] = "started"}
    BY DEF Started
  <2>. QED BY <1>1, <1>2, <1>3, <1>4, <2>1
<1>7. Orders(Elems(queue')) = {o \in Order : state'[o] = "queued"}
  <2>1. Orders(Elems(queue) \ D) = Orders(Elems(queue)) \ Orders(D)
    BY <1>1, <1>2, WaitersQueued DEF Orders
  <2>2. \A o \in Order : state'[o] = "queued" <=> state[o] = "queued" /\ o \notin Orders(D)
    BY <1>1, <1>2, <1>4
  <2>. QED BY <1>1, <1>2, <2>1, <2>2
<1>8. Fresh'
  <2>1. \A o \in Order : state'[o] = "new" <=> state[o] = "new"
    BY <1>1, <1>2, <1>3, <1>4
  <2>2. \A o \in Order : state'[o] = "new" <=> o >= nextOrder
    BY <1>1, <2>1 DEF Fresh
  <2>. QED BY <1>2, <2>2 DEF Fresh
<1>9. active' = Cardinality(Started')
  <2>1. Started \ S \in SUBSET Order
    BY <1>1
  <2>2. IsFiniteSet(Started \ S) /\ Cardinality(Started \ S) \in Nat
    BY <2>1, OrderFinite
  <2>3. IsFiniteSet(Orders(D)) /\ Cardinality(Orders(D)) = Cardinality(D)
    BY <1>1, <1>2, OrdersCount
  <2>4. (Started \ S) \cap Orders(D) = {}
    BY <1>1, <1>3
  <2>5. Cardinality((Started \ S) \cup Orders(D))
          = Cardinality(Started \ S) + Cardinality(Orders(D))
              - Cardinality((Started \ S) \cap Orders(D))
    BY <2>2, <2>3, FS_Union
  <2>6. Cardinality((Started \ S) \cap Orders(D)) = 0
    BY <2>4, FS_EmptySet
  <2>7. Cardinality(Orders(D)) \in Nat
    BY <2>3, FS_CardinalityType
  <2>. QED BY <1>2, <1>6, <2>2, <2>3, <2>5, <2>6, <2>7
<1>10. QueueInv'
  <2>1. nextOrder' \in 0 .. MaxTasks
    BY <1>2 DEF Inv, QueueInv
  <2>. QED BY <1>2, <1>5, <1>7, <2>1 DEF QueueInv
<1>. QED BY <1>6, <1>8, <1>9, <1>10 DEF Inv

\* What a call that is admitted does: it starts or joins the queue.
LEMMA RunEffect ==
    ASSUME Inv, NEW p \in Priority, Run(p)
    PROVE  LET t == [priority |-> p, order |-> nextOrder]
           IN  /\ t \in Task /\ nextOrder \in Order /\ state[nextOrder] = "new"
               /\ nextOrder' = nextOrder + 1 /\ limits' = limits
               /\ \/ /\ active < limits.max /\ active' = active + 1 /\ queue' = queue
                     /\ state' = [state EXCEPT ![nextOrder] = "started"]
                  \/ /\ active >= limits.max /\ active' = active
                     /\ Len(queue) < limits.maxQueue
                     /\ queue' \in Arrays /\ Heap(queue') /\ Len(queue') = Len(queue) + 1
                     /\ Elems(queue') = Elems(queue) \cup {t}
                     /\ state' = [state EXCEPT ![nextOrder] = "queued"]
<1> DEFINE t == [priority |-> p, order |-> nextOrder]
<1>1. /\ QueueInv /\ Fresh /\ queue \in Arrays /\ Heap(queue) /\ state \in [Order -> States]
      /\ limits.max \in Nat \ {0} /\ nextOrder \in Nat
      /\ Orders(Elems(queue)) = {o \in Order : state[o] = "queued"}
  BY LimitsType DEF Inv, QueueInv
<1>2. nextOrder < MaxTasks /\ nextOrder' = nextOrder + 1 /\ limits' = limits
  BY DEF Run
<1>3. nextOrder \in Order /\ state[nextOrder] = "new"
  <2>1. nextOrder \in Order
    BY <1>1, <1>2, ConfigAssumption DEF Order
  <2>. QED BY <1>1, <2>1 DEF Fresh
<1>4. t \in Task
  BY <1>1 DEF Task
<1>5. CASE /\ active < limits.max /\ active' = active + 1 /\ queue' = queue
           /\ state' = [state EXCEPT ![nextOrder] = "started"]
  BY <1>2, <1>3, <1>4, <1>5
<1>6. CASE /\ active >= limits.max /\ Len(queue) < limits.maxQueue /\ active' = active
           /\ queue' = HeapEnqueue(queue, t)
           /\ state' = [state EXCEPT ![nextOrder] = "queued"]
  <2>1. \A u \in Elems(queue) : u.order # t.order
    BY <1>1, <1>3, WaitersQueued
  <2>. HIDE DEF t
  <2>2. /\ queue' \in Arrays /\ Heap(queue') /\ Len(queue') = Len(queue) + 1
        /\ Elems(queue') = Elems(queue) \cup {t}
    BY <1>1, <1>4, <1>6, <2>1, EnqueueRestores
  <2>. QED BY <1>2, <1>3, <1>4, <1>6, <2>2 DEF t
<1>. QED BY <1>5, <1>6 DEF Run

\* What the abort or the deadline of a waiter does.
LEMMA DropEffect ==
    ASSUME Inv, NEW i \in DOMAIN queue, Drop(i)
    PROVE  /\ queue[i] \in Elems(queue)
           /\ queue' \in Arrays /\ Heap(queue') /\ Elems(queue') = Elems(queue) \ {queue[i]}
           /\ state' = [state EXCEPT ![queue[i].order] = "settled"]
           /\ limits' = limits /\ active' = active /\ nextOrder' = nextOrder
<1>1. queue \in Arrays /\ Heap(queue) /\ DOMAIN queue = 1 .. Len(queue)
  BY ArrayFacts DEF Inv, QueueInv
<1>2. queue' = HeapRemoveTask(queue, i)
  BY DEF Drop
<1>3. queue' \in Arrays /\ Heap(queue') /\ Elems(queue') = Elems(queue) \ {queue[i]}
  BY <1>1, <1>2, RemoveRestores
<1>. QED BY <1>3 DEF Drop, Elems

\* Every call, abort, deadline, end of an operation and change of the limits
\* keeps the invariant.
LEMMA NextInv == Inv /\ [Next]_vars => Inv'
<1>. SUFFICES ASSUME Inv, [Next]_vars PROVE Inv'
  OBVIOUS
<1>1. /\ QueueInv /\ Fresh /\ queue \in Arrays /\ Heap(queue) /\ state \in [Order -> States]
      /\ limits \in Limits /\ nextOrder \in 0 .. MaxTasks
      /\ Orders(Elems(queue)) = {o \in Order : state[o] = "queued"}
      /\ active = Cardinality(Started) /\ Started = {o \in Order : state[o] = "started"}
  BY DEF Inv, QueueInv, Started
<1>2. Order \subseteq Nat /\ MaxTasks \in Nat
  BY ConfigAssumption DEF Order
<1>3. IsFiniteSet(Started) /\ Cardinality(Started) \in Nat
  <2>1. Started \in SUBSET Order
    BY <1>1
  <2>. QED BY <2>1, OrderFinite
<1>4. CASE UNCHANGED vars
  BY <1>4 DEF vars, Inv, QueueInv, Fresh, Started
<1>5. ASSUME NEW p \in Priority, Run(p) PROVE Inv'
  <2> DEFINE t == [priority |-> p, order |-> nextOrder]
  <2>1. /\ t \in Task /\ nextOrder \in Order /\ state[nextOrder] = "new"
        /\ nextOrder' = nextOrder + 1 /\ limits' = limits
        /\ \/ /\ active < limits.max /\ active' = active + 1 /\ queue' = queue
              /\ state' = [state EXCEPT ![nextOrder] = "started"]
           \/ /\ active >= limits.max /\ active' = active
              /\ Len(queue) < limits.maxQueue
              /\ queue' \in Arrays /\ Heap(queue') /\ Len(queue') = Len(queue) + 1
              /\ Elems(queue') = Elems(queue) \cup {t}
              /\ state' = [state EXCEPT ![nextOrder] = "queued"]
    BY <1>5, RunEffect
  <2>2. nextOrder' \in 0 .. MaxTasks
    BY <1>1, <1>2, <2>1 DEF Order
  <2>3. Fresh'
    <3>1. \A o \in Order : o >= nextOrder + 1 <=> o >= nextOrder /\ o # nextOrder
      BY <1>1, <1>2
    <3>2. \A o \in Order : state'[o] = "new" <=> state[o] = "new" /\ o # nextOrder
      BY <1>1, <2>1
    <3>. QED BY <1>1, <2>1, <3>1, <3>2 DEF Fresh
  <2>4. state' \in [Order -> States]
    BY <1>1, <2>1 DEF States
  <2>5. t.order = nextOrder
    OBVIOUS
  <2>. HIDE DEF t
  <2>6. CASE /\ active < limits.max /\ active' = active + 1 /\ queue' = queue
             /\ state' = [state EXCEPT ![nextOrder] = "started"]
    <3>1. Started' = Started \cup {nextOrder} /\ nextOrder \notin Started
      BY <1>1, <2>1, <2>6 DEF Started
    <3>2. active' = Cardinality(Started')
      BY <1>1, <1>3, <2>6, <3>1, FS_AddElement
    <3>3. Orders(Elems(queue')) = {o \in Order : state'[o] = "queued"}
      BY <1>1, <2>1, <2>6
    <3>4. QueueInv'
      BY <1>1, <2>1, <2>2, <2>4, <2>6, <3>3 DEF QueueInv
    <3>. QED BY <2>3, <3>2, <3>4 DEF Inv
  <2>7. CASE /\ active >= limits.max /\ active' = active
             /\ queue' \in Arrays /\ Heap(queue')
             /\ Elems(queue') = Elems(queue) \cup {t}
             /\ state' = [state EXCEPT ![nextOrder] = "queued"]
    <3>1. Started' = Started
      BY <1>1, <2>1, <2>7 DEF Started
    <3>2. Orders(Elems(queue')) = Orders(Elems(queue)) \cup {nextOrder}
      BY <2>5, <2>7 DEF Orders
    <3>3. Orders(Elems(queue')) = {o \in Order : state'[o] = "queued"}
      BY <1>1, <2>1, <2>7, <3>2
    <3>4. QueueInv'
      BY <1>1, <2>1, <2>2, <2>4, <2>7, <3>3 DEF QueueInv
    <3>. QED BY <1>1, <2>3, <2>7, <3>1, <3>4 DEF Inv
  <2>. QED BY <2>1, <2>6, <2>7
<1>6. ASSUME NEW i \in DOMAIN queue, Drop(i) PROVE Inv'
  <2>1. /\ queue[i] \in Elems(queue)
        /\ queue' \in Arrays /\ Heap(queue') /\ Elems(queue') = Elems(queue) \ {queue[i]}
        /\ state' = [state EXCEPT ![queue[i].order] = "settled"]
        /\ limits' = limits /\ active' = active /\ nextOrder' = nextOrder
    BY <1>6, DropEffect
  <2>2. PICK t : t = queue[i]
    OBVIOUS
  <2>3. t \in Elems(queue) /\ t.order \in Order /\ state[t.order] = "queued"
    BY <1>1, <2>1, <2>2, WaitersQueued
  <2>4. state' = [state EXCEPT ![t.order] = "settled"] /\ Elems(queue') = Elems(queue) \ {t}
    BY <2>1, <2>2
  <2>5. state' \in [Order -> States]
    BY <1>1, <2>4 DEF States
  <2>6. Orders(Elems(queue')) = Orders(Elems(queue)) \ {t.order}
    BY <1>1, <2>3, <2>4, WaitersQueued DEF Orders
  <2>7. Orders(Elems(queue')) = {o \in Order : state'[o] = "queued"}
    BY <1>1, <2>3, <2>4, <2>6
  <2>8. Started' = Started
    BY <1>1, <2>3, <2>4 DEF Started
  <2>9. Fresh'
    BY <1>1, <2>1, <2>3, <2>4 DEF Fresh
  <2>10. QueueInv'
    BY <1>1, <2>1, <2>5, <2>7 DEF QueueInv
  <2>. QED BY <1>1, <2>1, <2>8, <2>9, <2>10 DEF Inv
<1>7. ASSUME NEW o \in Order, Complete(o) PROVE Inv'
  <2>1. PICK D : Promoted(D, {o}, Freed)
    BY <1>7, CompleteEffect
  <2>2. limits' = limits /\ {o} \in SUBSET Started
    BY <1>1, <1>7 DEF Complete
  <2>. QED BY <1>1, <2>1, <2>2, PromotedInv
<1>8. ASSUME NEW c \in Configs, UpdateConfig(c) PROVE Inv'
  <2>1. PICK D : Promoted(D, {}, c.max - Cardinality(Started))
    BY <1>8, UpdateEffect
  <2>2. limits' \in Limits /\ {} \in SUBSET Started
    BY <1>8, LimitsType DEF UpdateConfig
  <2>. QED BY <2>1, <2>2, PromotedInv
<1>9. ASSUME NEW c \in Configs, RefuseConfig(c) PROVE Inv'
  <2>1. UNCHANGED <<active, queue, nextOrder, state>>
    BY <1>9 DEF RefuseConfig
  <2>2. limits' \in Limits
    BY <1>1, <1>9, LimitsType DEF RefuseConfig, Limits
  <2>. QED BY <2>1, <2>2 DEF Inv, QueueInv, Fresh, Started
<1>. QED BY <1>4, <1>5, <1>6, <1>7, <1>8, <1>9 DEF Next

-----------------------------------------------------------------------------
(* The heap implements the set of waiters.                                   *)

\* Both modules order tasks alike.
LEMMA SameOrder == \A a, b \in Task : Hi(a, b) <=> Gate!Better(a, b)
<1>1. \A a \in Task : a.priority \in Int /\ a.order \in Nat
  <2>1. Priority \subseteq Int
    BY ConfigAssumption
  <2>. QED BY <2>1 DEF Task
<1>. QED BY <1>1 DEF Hi, IsHigherPriority, Gate!Better

\* Both modules count alike: the instance has a Cardinality of its own.
LEMMA SameCount == \A S : Gate!Cardinality(S) = Cardinality(S)
BY DEF Gate!Cardinality, Cardinality

\* The waiters that start are the k best, when there are k of them or all.
LEMMA BestOf ==
    ASSUME QueueInv, NEW D \in SUBSET Elems(queue), NEW k \in Int,
           \A a \in D, b \in Elems(queue) \ D : Hi(a, b),
           D = Elems(queue) \/ Cardinality(D) >= k,
           D = {} \/ Cardinality(D) <= k
    PROVE  Gate!Best(k, Elems(queue)) = D
<1> DEFINE w == Elems(queue)
           Ahead(t) == {u \in w : Gate!Better(u, t)}
<1>1. queue \in Arrays /\ \A t \in w : t \in Task
  BY WaitersQueued DEF QueueInv
<1>2. IsFiniteSet(w) /\ IsFiniteSet(D) /\ Cardinality(D) \in Nat
  <2>1. IsFiniteSet(w) /\ IsFiniteSet(D)
    BY <1>1, ElemsCount, FS_Subset
  <2>. QED BY <2>1, FS_CardinalityType
<1>3. \A t \in w : IsFiniteSet(Ahead(t)) /\ Cardinality(Ahead(t)) \in Nat
  <2>1. ASSUME NEW t \in w PROVE IsFiniteSet(Ahead(t))
    <3>1. Ahead(t) \in SUBSET w
      OBVIOUS
    <3>. QED BY <1>2, <3>1, FS_Subset
  <2>. QED BY <2>1, FS_CardinalityType
<1>4. ASSUME NEW t \in D PROVE Cardinality(Ahead(t)) < k
  <2>1. Ahead(t) \subseteq D \ {t}
    <3>1. ASSUME NEW u \in w, Gate!Better(u, t) PROVE u \in D \ {t}
      <4>1. Hi(u, t)
        BY <1>1, <3>1, SameOrder
      <4>2. ~Hi(t, u)
        BY <1>1, <4>1, HiOrder
      <4>. QED BY <4>1, <4>2
    <3>. QED BY <3>1
  <2>2. IsFiniteSet(D \ {t}) /\ Cardinality(D \ {t}) = Cardinality(D) - 1
    BY <1>2, FS_RemoveElement
  <2>3. Cardinality(Ahead(t)) <= Cardinality(D \ {t})
    <3>. HIDE DEF Ahead
    <3>. QED BY <2>1, <2>2, FS_Subset
  <2>4. Cardinality(Ahead(t)) \in Nat
    BY <1>3
  <2>. HIDE DEF Ahead
  <2>. QED BY <1>2, <2>2, <2>3, <2>4
<1>5. ASSUME NEW t \in w \ D PROVE ~(Cardinality(Ahead(t)) < k)
  <2>1. D \subseteq Ahead(t)
    BY <1>1, SameOrder
  <2>2. Cardinality(D) <= Cardinality(Ahead(t)) /\ Cardinality(Ahead(t)) \in Nat
    <3>1. IsFiniteSet(Ahead(t)) /\ Cardinality(Ahead(t)) \in Nat
      BY <1>3
    <3>. HIDE DEF Ahead
    <3>. QED BY <2>1, <3>1, FS_Subset
  <2>3. Cardinality(D) >= k
    OBVIOUS
  <2>. HIDE DEF Ahead
  <2>. QED BY <1>2, <2>2, <2>3
<1>6. Gate!Best(k, w) = {t \in w : Cardinality(Ahead(t)) < k}
  BY SameCount DEF Gate!Best
<1>. HIDE DEF Ahead
<1>. QED BY <1>4, <1>5, <1>6

\* Waiters that start do so as PriorityGate promotes them, most urgent first.
LEMMA PromotedGate ==
    ASSUME Inv, NEW S \in SUBSET Started, NEW D, NEW k \in Int, limits' \in Limits,
           Promoted(D, S, k)
    PROVE  /\ Gate!Promote(Elems(queue), Started \ S, k)
           /\ Gate!StartsMostUrgent
<1>1. QueueInv /\ \A o \in Started : state[o] = "started"
  BY DEF Inv, Started
<1>2. /\ D \in SUBSET Elems(queue) /\ Elems(queue') = Elems(queue) \ D
      /\ \A a \in D, b \in Elems(queue) \ D : Hi(a, b)
      /\ D = Elems(queue) \/ Cardinality(D) >= k
      /\ D = {} \/ Cardinality(D) <= k
  BY DEF Promoted
<1>3. Started' = (Started \ S) \cup Orders(D)
  BY PromotedInv
<1>4. Gate!Best(k, Elems(queue)) = D
  BY <1>1, <1>2, BestOf
<1>5. Gate!Promote(Elems(queue), Started \ S, k)
  BY <1>2, <1>3, <1>4 DEF Gate!Promote, Elems, Orders
<1>6. Gate!StartsMostUrgent
  <2>1. ASSUME NEW t \in Elems(queue), NEW u \in Elems(queue),
               t.order \in Started', u \in Elems(queue')
        PROVE  Gate!Better(t, u)
    <3>1. t.order \notin Started
      BY <1>1, WaitersQueued
    <3>2. t \in D
      BY <1>1, <1>2, <1>3, <2>1, <3>1, WaitersQueued DEF Orders
    <3>. QED BY <1>1, <1>2, <2>1, <3>2, SameOrder, WaitersQueued
  <2>. QED BY <2>1 DEF Gate!StartsMostUrgent, Elems
<1>. QED BY <1>5, <1>6

\* Every step of the limiter is a step of PriorityGate, and starts nobody
\* before a more urgent waiter.
LEMMA GateStep ==
    ASSUME Inv, Next
    PROVE  Gate!Next /\ Gate!StartsMostUrgent
<1>1. /\ QueueInv /\ queue \in Arrays /\ limits \in Limits
      /\ active = Cardinality(Started) /\ state \in [Order -> States]
      /\ Started = {o \in Order : state[o] = "started"}
  BY DEF Inv, QueueInv, Started
<1>2. \A t \in Elems(queue) : t.order \in Order /\ state[t.order] = "queued"
  BY <1>1, WaitersQueued
<1>3. ASSUME NEW p \in Priority, Run(p) PROVE Gate!Next /\ Gate!StartsMostUrgent
  <2> DEFINE t == [priority |-> p, order |-> nextOrder]
  <2>1. /\ t \in Task /\ nextOrder \in Order /\ state[nextOrder] = "new"
        /\ nextOrder' = nextOrder + 1 /\ limits' = limits
        /\ \/ /\ active < limits.max /\ active' = active + 1 /\ queue' = queue
              /\ state' = [state EXCEPT ![nextOrder] = "started"]
           \/ /\ active >= limits.max /\ active' = active
              /\ Len(queue) < limits.maxQueue
              /\ queue' \in Arrays /\ Heap(queue') /\ Len(queue') = Len(queue) + 1
              /\ Elems(queue') = Elems(queue) \cup {t}
              /\ state' = [state EXCEPT ![nextOrder] = "queued"]
    BY <1>3, RunEffect
  <2>2. nextOrder < MaxTasks
    BY <1>3 DEF Run
  <2>3. CASE /\ active < limits.max /\ queue' = queue
             /\ state' = [state EXCEPT ![nextOrder] = "started"]
    <3>1. Started' = Started \cup {nextOrder}
      BY <1>1, <2>1, <2>3 DEF Started
    <3>2. Gate!Arrive(p)
      BY <1>1, <2>1, <2>2, <2>3, <3>1, SameCount DEF Gate!Arrive
    <3>3. \A u \in Elems(queue) : u.order \notin Started'
      BY <1>1, <1>2, <2>1, <3>1
    <3>4. Gate!StartsMostUrgent
      BY <3>3 DEF Gate!StartsMostUrgent, Elems
    <3>. QED BY <3>2, <3>4 DEF Gate!Next
  <2>4. CASE /\ active >= limits.max /\ Len(queue) < limits.maxQueue
             /\ Elems(queue') = Elems(queue) \cup {t}
             /\ state' = [state EXCEPT ![nextOrder] = "queued"]
    <3>1. Started' = Started
      BY <1>1, <2>1, <2>4 DEF Started
    <3>2. Cardinality(Elems(queue)) = Len(queue)
      BY <1>1, ElemsCount
    <3>3. Gate!Arrive(p)
      BY <1>1, <2>1, <2>2, <2>4, <3>1, <3>2, SameCount DEF Gate!Arrive, Elems
    <3>4. \A u \in Elems(queue) : u.order \notin Started'
      BY <1>1, <1>2, <3>1
    <3>5. Gate!StartsMostUrgent
      BY <3>4 DEF Gate!StartsMostUrgent, Elems
    <3>. QED BY <3>3, <3>5 DEF Gate!Next
  <2>. QED BY <2>1, <2>3, <2>4
<1>4. ASSUME NEW i \in DOMAIN queue, Drop(i) PROVE Gate!Next /\ Gate!StartsMostUrgent
  <2>1. /\ queue[i] \in Elems(queue) /\ Elems(queue') = Elems(queue) \ {queue[i]}
        /\ state' = [state EXCEPT ![queue[i].order] = "settled"]
        /\ limits' = limits /\ nextOrder' = nextOrder
    BY <1>4, DropEffect
  <2>2. PICK t \in Elems(queue) : t = queue[i]
    BY <2>1
  <2>3. Started' = Started
    BY <1>1, <1>2, <2>1, <2>2 DEF Started
  <2>4. Gate!GiveUp(t)
    BY <2>1, <2>2, <2>3 DEF Gate!GiveUp, Elems
  <2>5. \A u \in Elems(queue) : u.order \notin Started'
    BY <1>1, <1>2, <2>3
  <2>6. Gate!StartsMostUrgent
    BY <2>5 DEF Gate!StartsMostUrgent, Elems
  <2>. QED BY <2>4, <2>6 DEF Gate!Next, Elems
<1>5. ASSUME NEW o \in Order, Complete(o) PROVE Gate!Next /\ Gate!StartsMostUrgent
  <2>1. PICK D : Promoted(D, {o}, Freed)
    BY <1>5, CompleteEffect
  <2>2. limits' = limits /\ o \in Started /\ nextOrder' = nextOrder
    BY <1>1, <1>5 DEF Complete
  <2>3. Freed \in Int /\ limits' \in Limits /\ {o} \in SUBSET Started
    BY <1>1, <2>2 DEF Freed
  <2>4. Gate!Promote(Elems(queue), Started \ {o}, Freed) /\ Gate!StartsMostUrgent
    BY <2>1, <2>3, PromotedGate DEF Gate!Promote
  <2>5. Gate!Finish(o)
    BY <2>2, <2>4, SameCount DEF Gate!Finish, Gate!Promote, Freed, Elems
  <2>. QED BY <2>2, <2>4, <2>5 DEF Gate!Next
<1>6. ASSUME NEW c \in Configs, UpdateConfig(c) PROVE Gate!Next /\ Gate!StartsMostUrgent
  <2>1. PICK D : Promoted(D, {}, c.max - Cardinality(Started))
    BY <1>6, UpdateEffect
  <2>2. limits' = c /\ nextOrder' = nextOrder /\ Started \ {} = Started
    BY <1>6 DEF UpdateConfig
  <2>3. /\ c.max - Cardinality(Started) \in Int
        /\ limits' \in Limits /\ {} \in SUBSET Started
    <3>1. Started \in SUBSET Order /\ c.max \in Nat /\ c \in Limits
      BY <1>1, LimitsType
    <3>. QED BY <2>2, <3>1, OrderFinite
  <2>4. /\ Gate!Promote(Elems(queue), Started \ {}, c.max - Cardinality(Started))
        /\ Gate!StartsMostUrgent
    BY <2>1, <2>3, PromotedGate DEF Gate!Promote
  <2>5. Gate!Configure(c)
    BY <2>2, <2>4, SameCount DEF Gate!Configure, Gate!Promote, Elems
  <2>. QED BY <2>4, <2>5 DEF Gate!Next
<1>7. ASSUME NEW c \in Configs, RefuseConfig(c) PROVE Gate!Next /\ Gate!StartsMostUrgent
  <2>1. Started' = Started
    BY <1>7 DEF RefuseConfig, Started
  <2>2. Gate!RefuseConfig(c)
    BY <1>7, <2>1 DEF RefuseConfig, Gate!RefuseConfig
  <2>3. \A u \in Elems(queue) : u.order \notin Started'
    BY <1>1, <1>2, <2>1
  <2>4. Gate!StartsMostUrgent
    BY <2>3 DEF Gate!StartsMostUrgent, Elems
  <2>. QED BY <2>2, <2>4 DEF Gate!Next
<1>. QED BY <1>3, <1>4, <1>5, <1>6, <1>7 DEF Next

\* A step that leaves waiters beside free slots refuses a configuration, or
\* found them so with the same limits.
LEMMA RoomStep ==
    ASSUME Inv, Next
    PROVE  \/ NeverIdle'
           \/ \E c \in Configs : RefuseConfig(c)
           \/ ~NeverIdle /\ UNCHANGED limits
<1> DEFINE Fine == NeverIdle' \/ (~NeverIdle /\ UNCHANGED limits)
<1>1. /\ limits.max \in Nat /\ active \in Nat /\ active = Cardinality(Started)
      /\ queue \in Arrays /\ limits \in Limits
  <2>1. Started \in SUBSET Order
    BY DEF Started
  <2>. QED BY <2>1, OrderFinite, LimitsType DEF Inv, QueueInv
<1>2. ASSUME NEW p \in Priority, Run(p) PROVE Fine
  BY <1>1, <1>2 DEF Run, NeverIdle
<1>3. ASSUME NEW i \in DOMAIN queue, Drop(i) PROVE Fine
  <2>1. queue # <<>>
    <3>. SUFFICES ASSUME queue = <<>> PROVE FALSE
      OBVIOUS
    <3>1. queue[i] \in Elems(queue)
      BY DEF Elems
    <3>. QED BY <3>1 DEF Elems
  <2>. QED BY <1>3, <2>1 DEF Drop, NeverIdle
<1>4. ASSUME NEW o \in Order, Complete(o) PROVE Fine
  <2>1. CASE queue # <<>> /\ active - 1 < limits.max
    <3>1. active' = active /\ limits' = limits
      BY <1>4, <2>1 DEF Complete
    <3>. QED BY <1>1, <2>1, <3>1 DEF NeverIdle
  <2>2. CASE ~(queue # <<>> /\ active - 1 < limits.max)
    <3>1. active' = active - 1 /\ limits' = limits /\ queue' = queue
      BY <1>4, <2>2 DEF Complete
    <3>. QED BY <1>1, <2>2, <3>1 DEF NeverIdle
  <2>. QED BY <2>1, <2>2
<1>5. ASSUME NEW c \in Configs, UpdateConfig(c) PROVE Fine
  <2> DEFINE left == Drain[<<queue, c.max - active>>]
  <2>1. c.max \in Nat /\ c.max - active \in Int /\ Heap(queue)
    BY <1>1, LimitsType DEF Inv, QueueInv
  <2>2. DrainedBy(queue, c.max - active, left)
    BY <1>1, <2>1, DrainStarts
  <2>3. queue' = left /\ active' = active + Len(queue) - Len(left) /\ limits' = c
    BY <1>5 DEF UpdateConfig
  <2>. HIDE DEF left
  <2>4. Len(queue) \in Nat /\ Len(left) \in Nat
    BY <1>1, <2>2, ArrayFacts DEF DrainedBy
  <2>5. left # <<>> => Len(queue) - Len(left) >= c.max - active
    BY <2>2 DEF DrainedBy
  <2>. QED BY <1>1, <2>1, <2>3, <2>4, <2>5 DEF NeverIdle
<1>. HIDE DEF Fine
<1>6. Fine \/ \E c \in Configs : RefuseConfig(c)
  BY <1>2, <1>3, <1>4, <1>5 DEF Next
<1>. QED BY <1>6 DEF Fine

-----------------------------------------------------------------------------
(* The theorems.                                                             *)

\* The invariant holds of every behaviour, for queues of any length.
THEOREM Invariance == Spec => []Inv
<1>1. Init => Inv
  BY InitInv
<1>2. Inv /\ [Next]_vars => Inv'
  BY NextInv
<1>. QED BY <1>1, <1>2, PTL DEF Spec

\* Every variable keeps its type, the array and the number of slots included,
\* whatever run, _release, updateConfig and the aborts do to them.
THEOREM TypeCorrect == Spec => []TypeOK
BY Invariance, InvImplies, PTL

\* No slot of the limiter leaks and no waiter is lost or doubled, whatever
\* _siftUp and _siftDown exchange.
THEOREM TasksAccountedHolds == Spec => []TasksAccounted
BY Invariance, InvImplies, PTL

\* _heapEnqueue, _heapDequeue and _heapRemoveTask leave a heap.
THEOREM HeapOrderedHolds == Spec => []HeapOrdered
BY Invariance, InvImplies, PTL

\* Waiters stand beside free slots only after an updateConfig that threw at its
\* maxQueue with max raised, and no longer than until the limits are set again.
THEOREM RoomIsFilledHolds == Spec => RoomIsFilled
<1>1. Inv /\ [Next]_vars
        => [\/ NeverIdle'
            \/ \E c \in Configs : RefuseConfig(c)
            \/ ~NeverIdle /\ UNCHANGED limits]_vars
  BY RoomStep
<1>. QED BY <1>1, Invariance, PTL DEF Spec, RoomIsFilled

\* No priority inversion: whoever _release or updateConfig starts goes before
\* all who stay in the array.
THEOREM NoInversionHolds == Spec => NoInversion
<1>1. Inv /\ [Next]_vars => [Gate!StartsMostUrgent]_vars
  BY GateStep
<1>. QED BY <1>1, Invariance, PTL DEF Spec, NoInversion

\* The limiter with its heap does what PriorityGate does with a set: every step
\* is a step of it, or changes nothing that it sees.
THEOREM Refinement == Spec => ImplementsGate
<1>1. Init => Gate!Init
  BY DEF Init, Gate!Init, Started
<1>2. Inv /\ [Next]_vars => [Gate!Next]_(Gate!vars)
  <2>1. UNCHANGED vars => UNCHANGED Gate!vars
    BY DEF vars, Gate!vars, Started
  <2>2. Inv /\ Next => Gate!Next
    BY GateStep
  <2>. QED BY <2>1, <2>2
<1>. QED BY <1>1, <1>2, Invariance, PTL DEF Spec, ImplementsGate, Gate!Spec

=============================================================================
