-------------------------- MODULE SelfModLock_proofs --------------------------
(***************************************************************************)
(* Proofs about SelfModLock: for any callers, timeouts and faults, no      *)
(* waiter is lost or overtaken, and operations that do not overlap exclude *)
(* each other and hand the lock on.                                        *)
(*                                                                         *)
(* The inductive invariant has two halves.  Sound holds whatever overlaps: *)
(* every thread is at a step of its operation, and queue, grant and timers *)
(* account for each waiter.  Calm is about operations that do not overlap: *)
(* file, cache and what the one thread at work has in hand agree.          *)
(***************************************************************************)
EXTENDS SelfModLock, SequenceTheorems, TLAPS

Steps == {"idle", "queued", "reading", "read", "opening", "writing", "written",
          "unlinking", "unlinked"}
Ops == {"none", "wait", "release", "update", "renew", "check"} \cup Acquiring
Writing == {"opening", "writing", "written"}
Unlinking == {"unlinking", "unlinked"}

\* A thread t at a step of an operation, with what it has in hand.
Fits(t, step, o, lock) ==
    /\ step = "idle" <=> o = "none"
    /\ step = "queued" <=> o = "wait"
    /\ step \in Writing =>
         /\ lock \in Lock
         /\ o \in Acquiring => lock.service = t
         /\ o # "update" => lock.pid = pid /\ lock.timestamp <= now
         /\ o \in Acquiring \cup {"update", "renew"}
    /\ step \in Unlinking => o = "release"
    /\ t = Interval => o \in {"none", "renew"}

\* Every thread is at a step of its operation, and who acquires, waits or
\* releases holds no lock.
Threads ==
    /\ \A t \in Thread : Fits(t, pc[t], op[t], val[t])
    /\ \A c \in holds : op[c] \notin Acquiring \cup {"wait", "release"} /\ since[c] <= now

\* What no waiter depends on.
RestTyped ==
    /\ file \in Lock \cup {Nothing, Torn}
    /\ cache \in [lock : Lock, at : Nat] \cup {Nothing}
    /\ keepAlive \in Caller \cup {Nothing} /\ ticking \in Caller \cup {Nothing}
    /\ disturbed \in BOOLEAN /\ faults \in 0 .. MaxFaults

Sound == TypeOK /\ Threads /\ WaitersAccounted

-----------------------------------------------------------------------------
(* As long as operations do not overlap *)

\* One thread at a time touches the file, and what it has read or written is
\* what the file holds.
Serial ==
    ~disturbed =>
        /\ \A s, t \in InFlight : s = t
        /\ \A t \in Thread : pc[t] \in {"read", "written"} => val[t] = file

His(c, lock) ==
    lock \in Lock /\ lock.service = c /\ lock.pid = pid /\ lock.timestamp >= since[c]

\* The lock of c is on record, and nobody is about to change that.
Kept(c) ==
    /\ file = Torn \/ His(c, file)
    /\ cache # Nothing /\ His(c, cache.lock)
    /\ \A t \in Thread :
         /\ pc[t] \in Writing => op[t] \notin Acquiring /\ His(c, val[t])
         /\ pc[t] \notin Unlinking

\* A lock within its timeout stays on record.
HoldersKeep ==
    ~disturbed => \A c \in holds : now - since[c] < LockTimeout => Kept(c)

\* The cache knows of no lock that the file has lost, unless a release is about
\* to empty it.
CacheTrue ==
    ~disturbed /\ faults = 0 /\ cache # Nothing /\ file = Nothing
        => \E t \in Thread : pc[t] = "unlinked"

\* A thread that will wake a waiter, or acquire a lock that is free.
Hands(t) ==
    \/ pc[t] = "unlinked"
    \/ op[t] \in Acquiring /\ pc[t] \in {"reading", "read", "opening"}

\* Somebody takes care of the waiters when the lock is free.
Handing ==
    ~disturbed /\ faults = 0 /\ file = Nothing /\ queue # <<>>
        => \E t \in Thread : Hands(t)

Calm == Serial /\ HoldersKeep /\ CacheTrue /\ Handing

IInv == Sound /\ Calm

-----------------------------------------------------------------------------
(* What a thread does when it goes on *)

\* Goto changes one thread, and keeps the types.
LEMMA GoesOn ==
    ASSUME Sound, NEW t \in Thread, NEW step \in Steps, NEW o \in Ops,
           NEW lock \in Lock \cup {Nothing, Torn}, Goto(t, step, o, lock),
           Fits(t, step, o, lock), UNCHANGED <<now, pid>>
    PROVE  /\ pc' \in [Thread -> Steps] /\ op' \in [Thread -> Ops]
           /\ val' \in [Thread -> Lock \cup {Nothing, Torn}]
           /\ \A x \in Thread : /\ pc'[x] = IF x = t THEN step ELSE pc[x]
                                /\ op'[x] = IF x = t THEN o ELSE op[x]
                                /\ val'[x] = IF x = t THEN lock ELSE val[x]
           /\ \A x \in Thread : Fits(x, pc[x], op[x], val[x])'
<1>1. /\ pc \in [Thread -> Steps] /\ op \in [Thread -> Ops]
      /\ val \in [Thread -> Lock \cup {Nothing, Torn}]
  BY DEF Sound, TypeOK, Steps, Ops
<1>2. /\ pc' \in [Thread -> Steps] /\ op' \in [Thread -> Ops]
      /\ val' \in [Thread -> Lock \cup {Nothing, Torn}]
  BY <1>1 DEF Goto
<1>3. \A x \in Thread : /\ pc'[x] = IF x = t THEN step ELSE pc[x]
                        /\ op'[x] = IF x = t THEN o ELSE op[x]
                        /\ val'[x] = IF x = t THEN lock ELSE val[x]
  BY <1>1 DEF Goto
<1>4. \A x \in Thread : Fits(x, pc[x], op[x], val[x])'
  BY <1>3 DEF Sound, Threads, Fits
<1>. QED BY <1>2, <1>3, <1>4

\* A thread that neither waits nor begins to, and takes no grant, leaves the
\* waiters as they were.
LEMMA LineKept ==
    ASSUME Sound, NEW t \in Thread, NEW step \in Steps, NEW o \in Ops, pc[t] # "queued", step # "queued",
           \A x \in Thread : /\ pc'[x] = IF x = t THEN step ELSE pc[x]
                             /\ op'[x] = IF x = t THEN o ELSE op[x],
           o = "grant" => op[t] = "grant",
           granting' = (granting /\ ~(op[t] = "grant" /\ o # "grant")),
           \A c \in Caller : pc[c] = "queued" => armed'[c] = armed[c],
           queue' = queue
    PROVE  WaitersAccounted'
<1>1. Caller \subseteq Thread /\ (t \in Caller \/ t = Interval)
  BY DEF Thread
<1>2. t = Interval => op[t] # "grant"
  BY DEF Sound, Threads, Fits
<1>3. \A c, d \in Caller : op'[c] = "grant" /\ op'[d] = "grant" => c = d
  BY <1>1 DEF Sound, WaitersAccounted
<1>4. granting' <=> \E c \in Caller : op'[c] = "grant"
  <2>1. granting <=> \E c \in Caller : op[c] = "grant"
    BY DEF Sound, WaitersAccounted
  <2>2. \A c, d \in Caller : op[c] = "grant" /\ op[d] = "grant" => c = d
    BY DEF Sound, WaitersAccounted
  <2>. QED BY <1>1, <1>2, <2>1, <2>2
<1>5. \A c \in Caller : pc'[c] = "queued" <=> \E i \in DOMAIN queue' : queue'[i] = c
  BY <1>1 DEF Sound, WaitersAccounted
<1>6. \A c \in Caller : pc'[c] = "queued" => armed'[c]
  BY <1>1 DEF Sound, WaitersAccounted
<1>. QED BY <1>3, <1>4, <1>5, <1>6 DEF Sound, WaitersAccounted

-----------------------------------------------------------------------------
(* The queue *)

InLine(q, d) == \E i \in DOMAIN q : q[i] = d
Once(q) == \A i, k \in DOMAIN q : q[i] = q[k] => i = k

\* A waiter put at the head or at the end of the queue.
LEMMA Joined ==
    ASSUME NEW S, NEW q \in Seq(S), Once(q), NEW c \in S, ~InLine(q, c),
           NEW r, r = <<c>> \o q \/ r = Append(q, c)
    PROVE  r \in Seq(S) /\ Once(r) /\ \A d : InLine(r, d) <=> d = c \/ InLine(q, d)
<1>1. CASE r = <<c>> \o q
  <2>1. /\ r \in Seq(S) /\ Len(r) = Len(q) + 1 /\ Len(q) \in Nat
        /\ r[1] = c /\ \A i \in 2 .. Len(q) + 1 : r[i] = q[i - 1]
    BY <1>1
  <2>2. DOMAIN r = 1 .. Len(q) + 1 /\ DOMAIN q = 1 .. Len(q)
    BY <2>1, LenProperties
  <2>3. ASSUME NEW i \in DOMAIN r PROVE i = 1 \/ (i - 1 \in DOMAIN q /\ r[i] = q[i - 1])
    BY <2>1, <2>2
  <2>4. ASSUME NEW i \in DOMAIN q PROVE i + 1 \in DOMAIN r /\ r[i + 1] = q[i] /\ q[i] # c
    BY <2>1, <2>2 DEF InLine
  <2>5. Once(r)
    <3>1. SUFFICES ASSUME NEW i \in DOMAIN r, NEW k \in DOMAIN r, r[i] = r[k] PROVE i = k
      BY DEF Once
    <3>2. i \in Int /\ k \in Int
      BY <2>2
    <3>. QED BY <2>1, <2>3, <2>4, <3>1, <3>2 DEF Once
  <2>6. ASSUME NEW d PROVE InLine(r, d) <=> d = c \/ InLine(q, d)
    <3>1. 1 \in DOMAIN r
      BY <2>1, <2>2
    <3>2. InLine(r, d) => d = c \/ InLine(q, d)
      BY <2>1, <2>3 DEF InLine
    <3>3. d = c \/ InLine(q, d) => InLine(r, d)
      BY <2>1, <2>4, <3>1 DEF InLine
    <3>. QED BY <3>2, <3>3
  <2>. QED BY <2>1, <2>5, <2>6
<1>2. CASE r = Append(q, c)
  <2>1. /\ r \in Seq(S) /\ Len(r) = Len(q) + 1 /\ Len(q) \in Nat
        /\ r[Len(q) + 1] = c /\ \A i \in 1 .. Len(q) : r[i] = q[i]
    BY <1>2
  <2>2. DOMAIN r = 1 .. Len(q) + 1 /\ DOMAIN q = 1 .. Len(q)
    BY <2>1, LenProperties
  <2>3. Once(r)
    BY <2>1, <2>2 DEF Once, InLine
  <2>4. \A d : InLine(r, d) <=> d = c \/ InLine(q, d)
    BY <2>1, <2>2 DEF InLine
  <2>. QED BY <2>1, <2>3, <2>4
<1>. QED BY <1>1, <1>2

\* A queue without the waiter at i.
LEMMA TakenOutAt ==
    ASSUME NEW S, NEW q \in Seq(S), NEW i \in DOMAIN q,
           NEW r, r = RemoveAt(q, i) \/ (i = 1 /\ r = Tail(q))
    PROVE  /\ r \in Seq(S) /\ Len(r) = Len(q) - 1
           /\ \A k \in 1 .. Len(q) - 1 : r[k] = IF k < i THEN q[k] ELSE q[k + 1]
<1>0. DOMAIN q = 1 .. Len(q) /\ Len(q) \in Nat /\ i \in 1 .. Len(q)
  BY LenProperties
<1>1. CASE r = RemoveAt(q, i)
  <2> DEFINE a == SubSeq(q, 1, i - 1)
             b == SubSeq(q, i + 1, Len(q))
  <2>1. a \in Seq(S) /\ Len(a) = i - 1 /\ \A k \in 1 .. i - 1 : a[k] = q[k]
    BY <1>0
  <2>2. b \in Seq(S) /\ Len(b) = Len(q) - i /\ \A k \in 1 .. Len(q) - i : b[k] = q[i + k]
    BY <1>0
  <2>3. r = a \o b
    BY <1>1 DEF RemoveAt
  <2>. HIDE DEF a, b
  <2>4. /\ a \o b \in Seq(S) /\ Len(a \o b) = Len(a) + Len(b)
        /\ \A k \in 1 .. Len(a) + Len(b) : (a \o b)[k] = IF k <= Len(a) THEN a[k] ELSE b[k - Len(a)]
    BY <2>1, <2>2, ConcatProperties
  <2>5. Len(a) + Len(b) = Len(q) - 1
    BY <1>0, <2>1, <2>2
  <2>6. \A k \in 1 .. Len(q) - 1 : k >= i => b[k - (i - 1)] = q[k + 1]
    <3>1. \A k \in 1 .. Len(q) - 1 : k >= i => k - (i - 1) \in 1 .. Len(q) - i /\ i + (k - (i - 1)) = k + 1
      BY <1>0
    <3>. QED BY <2>2, <3>1
  <2>7. \A k \in 1 .. Len(q) - 1 : (a \o b)[k] = IF k < i THEN q[k] ELSE q[k + 1]
    BY <1>0, <2>1, <2>4, <2>5, <2>6
  <2>. QED BY <2>3, <2>4, <2>5, <2>7, Zenon
<1>2. CASE i = 1 /\ r = Tail(q)
  <2>1. q # <<>>
    BY <1>0
  <2>. QED BY <1>0, <1>2, <2>1, HeadTailProperties
<1>. QED BY <1>1, <1>2

\* A waiter taken out of the queue.
LEMMA TakenOut ==
    ASSUME NEW S, NEW q \in Seq(S), Once(q), NEW i \in DOMAIN q,
           NEW r, r = RemoveAt(q, i) \/ (i = 1 /\ r = Tail(q))
    PROVE  r \in Seq(S) /\ Once(r) /\ \A d : InLine(r, d) <=> d # q[i] /\ InLine(q, d)
<1>1. DOMAIN q = 1 .. Len(q) /\ Len(q) \in Nat /\ i \in 1 .. Len(q)
  BY LenProperties
<1>2. /\ r \in Seq(S) /\ Len(r) = Len(q) - 1
      /\ \A k \in 1 .. Len(q) - 1 : r[k] = IF k < i THEN q[k] ELSE q[k + 1]
  BY TakenOutAt
<1>3. DOMAIN r = 1 .. Len(q) - 1
  BY <1>1, <1>2, LenProperties
<1>4. Once(r)
  <2>1. SUFFICES ASSUME NEW j \in DOMAIN r, NEW k \in DOMAIN r, r[j] = r[k] PROVE j = k
    BY DEF Once
  <2>2. \A x, y \in 1 .. Len(q) : q[x] = q[y] => x = y
    BY <1>1 DEF Once
  <2>3. /\ j \in Int /\ k \in Int /\ j \in 1 .. Len(q) /\ k \in 1 .. Len(q)
        /\ j + 1 \in 1 .. Len(q) /\ k + 1 \in 1 .. Len(q)
    BY <1>1, <1>3
  <2>. QED BY <1>1, <1>2, <1>3, <2>1, <2>2, <2>3
<1>5. ASSUME NEW d PROVE InLine(r, d) <=> d # q[i] /\ InLine(q, d)
  <2>1. ASSUME NEW k \in DOMAIN q, q[k] = d, k # i PROVE InLine(r, d)
    <3>1. CASE k < i
      BY <1>1, <1>2, <1>3, <2>1, <3>1 DEF InLine
    <3>2. CASE k > i
      <4>1. k - 1 \in DOMAIN r /\ r[k - 1] = q[k]
        BY <1>1, <1>2, <1>3, <3>2
      <4>. QED BY <2>1, <4>1 DEF InLine
    <3>. QED BY <1>1, <2>1, <3>1, <3>2
  <2>2. ASSUME NEW k \in DOMAIN r, r[k] = d PROVE d # q[i] /\ InLine(q, d)
    BY <1>1, <1>2, <1>3, <2>2 DEF InLine, Once
  <2>. QED BY <2>1, <2>2 DEF InLine
<1>. QED BY <1>2, <1>4, <1>5

\* A step of a thread that neither joins nor leaves the queue keeps everything
\* sound.
LEMMA StepSound ==
    ASSUME Sound, NEW t \in Thread, NEW step \in Steps, NEW o \in Ops,
           NEW lock \in Lock \cup {Nothing, Torn}, Goto(t, step, o, lock),
           Fits(t, step, o, lock), UNCHANGED <<now, pid, queue>>, RestTyped',
           pc[t] # "queued", step # "queued", o = "grant" => op[t] = "grant",
           granting' = (granting /\ ~(op[t] = "grant" /\ o # "grant")),
           armed' \in [Caller -> BOOLEAN],
           \A c \in Caller : pc[c] = "queued" => armed'[c] = armed[c],
           holds' \subseteq Caller, since' \in [Caller -> Nat],
           \A c \in holds' : (c # t => c \in holds) /\ since'[c] <= now,
           t \in holds' => o \notin Acquiring \cup {"release"}
    PROVE  Sound'
<1>1. /\ pc' \in [Thread -> Steps] /\ op' \in [Thread -> Ops]
      /\ val' \in [Thread -> Lock \cup {Nothing, Torn}]
      /\ \A x \in Thread : /\ pc'[x] = IF x = t THEN step ELSE pc[x]
                           /\ op'[x] = IF x = t THEN o ELSE op[x]
      /\ \A x \in Thread : Fits(x, pc[x], op[x], val[x])'
  BY GoesOn
<1>2. granting' \in BOOLEAN
  <2>1. granting \in BOOLEAN
    BY DEF Sound, TypeOK
  <2>. QED BY <2>1, Zenon
<1>3. TypeOK'
  BY <1>1, <1>2 DEF Sound, TypeOK, RestTyped, Steps, Ops
<1>4. WaitersAccounted'
  BY <1>1, LineKept
<1>5. holds' \subseteq Thread /\ "wait" \notin Acquiring /\ (o = "wait" => step = "queued")
  BY DEF Thread, Fits, Acquiring
<1>6. \A c \in holds' : op'[c] \notin Acquiring \cup {"wait", "release"} /\ since'[c] <= now'
  BY <1>1, <1>5 DEF Sound, Threads
<1>. QED BY <1>1, <1>3, <1>4, <1>6 DEF Sound, Threads

\* The same for a step that leaves the waiters alone, and takes no lock.
LEMMA MoveSound ==
    ASSUME Sound, NEW t \in Thread, NEW step \in Steps, NEW o \in Ops,
           NEW lock \in Lock \cup {Nothing, Torn}, Goto(t, step, o, lock),
           Fits(t, step, o, lock), UNCHANGED <<now, pid, queue, granting, armed>>, RestTyped',
           pc[t] # "queued", step # "queued", o = "grant" <=> op[t] = "grant",
           holds' \subseteq holds, t \in holds' => o \notin Acquiring \cup {"release"},
           \A c \in holds' : since'[c] = since[c], since' \in [Caller -> Nat]
    PROVE  Sound'
<1>1. granting' = (granting /\ ~(op[t] = "grant" /\ o # "grant"))
  <2>1. granting \in BOOLEAN /\ granting' = granting /\ ~(op[t] = "grant" /\ o # "grant")
    BY DEF Sound, TypeOK
  <2>. QED BY <2>1, Zenon
<1>2. armed' \in [Caller -> BOOLEAN] /\ holds' \subseteq Caller
  BY DEF Sound, TypeOK
<1>3. \A c \in holds' : c \in holds /\ since'[c] = since[c] /\ since'[c] <= now
  BY DEF Sound, Threads
<1>. QED BY <1>1, <1>2, <1>3, StepSound

\* Where a waiter can go.
LEMMA QueueSound ==
    ASSUME Sound
    PROVE  /\ queue \in Seq(Caller) /\ Once(queue)
           /\ \A c \in Caller : pc[c] = "queued" <=> InLine(queue, c)
           /\ \A i \in DOMAIN queue : queue[i] \in Caller /\ pc[queue[i]] = "queued"
<1>1. queue \in Seq(Caller) /\ Once(queue)
  BY DEF Sound, TypeOK, WaitersAccounted, Once
<1>2. \A c \in Caller : pc[c] = "queued" <=> InLine(queue, c)
  BY DEF Sound, WaitersAccounted, InLine
<1>3. \A i \in DOMAIN queue : queue[i] \in Caller
  BY <1>1, ElementOfSeq, LenProperties
<1>. QED BY <1>1, <1>2, <1>3 DEF InLine

\* A caller joins the queue, with its timer running, and gives up the grant if
\* it had it.
LEMMA JoinSound ==
    ASSUME Sound, NEW c \in Caller, pc[c] # "queued", c \notin holds,
           Goto(c, "queued", "wait", Nothing),
           queue' = <<c>> \o queue \/ queue' = Append(queue, c),
           granting' = (granting /\ op[c] # "grant"),
           armed' \in [Caller -> BOOLEAN], armed'[c], \A d \in Caller : d # c => armed'[d] = armed[d],
           UNCHANGED <<now, pid, holds, since>>, RestTyped'
    PROVE  Sound'
<1>1. c \in Thread /\ c # Interval /\ Caller \subseteq Thread
  BY ConstantsAssumption DEF Thread
<1>2. Fits(c, "queued", "wait", Nothing)
  BY <1>1 DEF Fits, Writing, Unlinking
<1>3. /\ pc' \in [Thread -> Steps] /\ op' \in [Thread -> Ops]
      /\ val' \in [Thread -> Lock \cup {Nothing, Torn}]
      /\ \A x \in Thread : /\ pc'[x] = IF x = c THEN "queued" ELSE pc[x]
                           /\ op'[x] = IF x = c THEN "wait" ELSE op[x]
      /\ \A x \in Thread : Fits(x, pc[x], op[x], val[x])'
  <2>1. "queued" \in Steps /\ "wait" \in Ops /\ Nothing \in Lock \cup {Nothing, Torn}
    BY DEF Steps, Ops
  <2>. QED BY <1>1, <1>2, <2>1, GoesOn
<1>4. queue' \in Seq(Caller) /\ Once(queue') /\ \A d : InLine(queue', d) <=> d = c \/ InLine(queue, d)
  BY QueueSound, Joined
<1>5. granting' \in BOOLEAN
  <2>1. granting \in BOOLEAN
    BY DEF Sound, TypeOK
  <2>. QED BY <2>1, Zenon
<1>6. TypeOK'
  BY <1>3, <1>4, <1>5 DEF Sound, TypeOK, RestTyped, Steps, Ops
<1>7. WaitersAccounted'
  <2>1. \A d \in Caller : pc'[d] = "queued" <=> InLine(queue', d)
    BY <1>1, <1>3, <1>4, QueueSound
  <2>2. \A d \in Caller : pc'[d] = "queued" => armed'[d]
    BY <1>1, <1>3 DEF Sound, WaitersAccounted, TypeOK
  <2>3. \A d, e \in Caller : op[d] = "grant" /\ op[e] = "grant" => d = e
    BY DEF Sound, WaitersAccounted
  <2>4. \A d \in Caller : op'[d] = "grant" <=> d # c /\ op[d] = "grant"
    BY <1>1, <1>3
  <2>5. granting' <=> \E d \in Caller : op'[d] = "grant"
    <3>1. granting <=> \E d \in Caller : op[d] = "grant"
      BY DEF Sound, WaitersAccounted
    <3>. QED BY <2>3, <2>4, <3>1
  <2>6. \A i, k \in DOMAIN queue' : queue'[i] = queue'[k] => i = k
    BY <1>4 DEF Once
  <2>7. \A d \in Caller : pc'[d] = "queued" <=> \E i \in DOMAIN queue' : queue'[i] = d
    BY <2>1 DEF InLine
  <2>. QED BY <2>2, <2>3, <2>4, <2>5, <2>6, <2>7 DEF WaitersAccounted
<1>8. \A d \in holds' : op'[d] \notin Acquiring \cup {"wait", "release"} /\ since'[d] <= now'
  BY <1>1, <1>3 DEF Sound, Threads, TypeOK
<1>. QED BY <1>3, <1>6, <1>7, <1>8 DEF Sound, Threads

\* acquire resolves false.
LEMMA LoseSound ==
    ASSUME Sound, NEW c \in Caller, NEW o \in Acquiring,
           o = op[c] \/ (o = "acquire" /\ op[c] = "none"), c \notin holds, Lose(c, o),
           UNCHANGED <<now, pid, holds, since>>, RestTyped'
    PROVE  Sound'
<1>1. c \in Thread /\ c # Interval
  BY ConstantsAssumption DEF Thread
<1>2. pc[c] # "queued" /\ o \in Ops
  BY <1>1 DEF Sound, Threads, Fits, Acquiring, Ops
<1>3. op[c] = "grant" <=> o = "grant"
  BY DEF Acquiring
<1>4. granting' = (granting /\ o # "grant")
  BY DEF Lose
<1>5. CASE o = "grant" /\ armed[c]
  <2>1. Goto(c, "queued", "wait", Nothing) /\ queue' = <<c>> \o queue /\ UNCHANGED armed
    BY <1>5 DEF Lose
  <2>2. armed' \in [Caller -> BOOLEAN] /\ armed'[c] /\ \A d \in Caller : d # c => armed'[d] = armed[d]
    BY <1>5, <2>1 DEF Sound, TypeOK
  <2>3. granting' = (granting /\ op[c] # "grant")
    BY <1>3, <1>4
  <2>. QED BY <1>2, <2>1, <2>2, <2>3, JoinSound
<1>6. CASE ~(o = "grant" /\ armed[c])
  <2>1. Goto(c, "idle", "none", Nothing) /\ UNCHANGED <<queue, armed>>
    BY <1>6 DEF Lose, Finish
  <2>2. Fits(c, "idle", "none", Nothing)
    BY <1>1 DEF Fits, Writing, Unlinking, Acquiring
  <2>3. granting' = (granting /\ ~(op[c] = "grant" /\ "none" # "grant"))
    BY <1>3, <1>4
  <2>4. /\ "idle" \in Steps /\ "none" \in Ops /\ Nothing \in Lock \cup {Nothing, Torn}
        /\ armed' \in [Caller -> BOOLEAN] /\ holds' \subseteq Caller /\ since' \in [Caller -> Nat]
        /\ \A d \in holds' : d \in holds /\ since'[d] <= now
    BY <2>1 DEF Steps, Ops, Sound, TypeOK, Threads
  <2>. QED BY <1>1, <1>2, <2>1, <2>2, <2>3, <2>4, StepSound
<1>. QED BY <1>5, <1>6

\* A caller that acquires starts to write its lock.
LEMMA NewLockFits ==
    ASSUME Sound, NEW c \in Caller, NEW o \in Acquiring
    PROVE  /\ NewLock(c) \in Lock /\ Fits(c, "opening", o, NewLock(c))
           /\ NewLock(c).service = c /\ NewLock(c).pid = pid /\ NewLock(c).timestamp = now
<1>1. now \in Nat /\ pid \in Nat
  BY ConstantsAssumption DEF Sound, TypeOK
<1>2. /\ NewLock(c) \in Lock /\ NewLock(c).service = c /\ NewLock(c).pid = pid
      /\ NewLock(c).timestamp = now
  BY <1>1 DEF NewLock, Lock
<1>3. c # Interval
  BY ConstantsAssumption
<1>. QED BY <1>1, <1>2, <1>3 DEF Fits, Writing, Unlinking, Acquiring

\* acquire decides on the lock that is on record.
LEMMA DecideSound ==
    ASSUME Sound, NEW c \in Caller, NEW o \in Acquiring, NEW lock,
           o = op[c] \/ (o = "acquire" /\ op[c] = "none"), c \notin holds, Decide(c, o, lock),
           UNCHANGED <<now, pid, holds, since>>, RestTyped'
    PROVE  Sound'
<1>1. c \in Thread /\ c # Interval
  BY ConstantsAssumption DEF Thread
<1>2. pc[c] # "queued" /\ o \in Ops /\ (op[c] = "grant" <=> o = "grant")
  BY <1>1 DEF Sound, Threads, Fits, Acquiring, Ops
<1>3. CASE Lose(c, o)
  BY <1>3, LoseSound
<1>4. CASE o = "acquire" /\ Enqueue(c)
  <2>1. /\ Goto(c, "queued", "wait", Nothing) /\ queue' = Append(queue, c)
        /\ armed' = [armed EXCEPT ![c] = TRUE] /\ UNCHANGED granting
    BY <1>4 DEF Enqueue
  <2>2. armed' \in [Caller -> BOOLEAN] /\ armed'[c] /\ \A d \in Caller : d # c => armed'[d] = armed[d]
    BY <2>1 DEF Sound, TypeOK
  <2>3. granting' = (granting /\ op[c] # "grant")
    <3>1. granting \in BOOLEAN /\ granting' = granting /\ op[c] # "grant"
      BY <1>2, <1>4, <2>1 DEF Sound, TypeOK
    <3>. QED BY <3>1, Zenon
  <2>. QED BY <1>2, <2>1, <2>2, <2>3, JoinSound
<1>5. CASE StartWrite(c, o, NewLock(c)) /\ UNCHANGED <<queue, granting, armed>>
  <2>1. Goto(c, "opening", o, NewLock(c))
    BY <1>5 DEF StartWrite
  <2>2. "opening" \in Steps /\ NewLock(c) \in Lock \cup {Nothing, Torn} /\ Fits(c, "opening", o, NewLock(c))
    BY NewLockFits DEF Steps
  <2>3. /\ holds' \subseteq holds /\ \A d \in holds' : since'[d] = since[d]
        /\ since' \in [Caller -> Nat] /\ c \notin holds'
    BY DEF Sound, TypeOK
  <2>. QED BY <1>1, <1>2, <1>5, <2>1, <2>2, <2>3, MoveSound
<1>. QED BY <1>3, <1>4, <1>5 DEF Decide

\* _processQueue takes the first waiter out, and thread t is done.
LEMMA WakeSound ==
    ASSUME Sound, NEW t, t \in Thread => pc[t] = "unlinked", ProcessQueue(t),
           UNCHANGED <<now, pid, armed, holds, since>>, RestTyped'
    PROVE  Sound'
<1> DEFINE first(x) == ~granting /\ queue # <<>> /\ x = queue[1]
<1>1. \A x \in Thread :
        /\ pc'[x] = IF first(x) THEN "reading" ELSE IF x = t THEN "idle" ELSE pc[x]
        /\ op'[x] = IF first(x) THEN "grant" ELSE IF x = t THEN "none" ELSE op[x]
        /\ val'[x] = val[x]
  BY DEF ProcessQueue
<1>2. /\ pc' \in [Thread -> Steps] /\ op' \in [Thread -> Ops]
      /\ val' \in [Thread -> Lock \cup {Nothing, Torn}]
  BY DEF ProcessQueue, Sound, TypeOK, Steps, Ops, Acquiring
<1>3. /\ granting \in BOOLEAN /\ queue \in Seq(Caller) /\ Once(queue)
      /\ DOMAIN queue = 1 .. Len(queue) /\ Len(queue) \in Nat
      /\ Caller \subseteq Thread /\ Interval \notin Caller
  BY QueueSound, LenProperties, ConstantsAssumption DEF Sound, TypeOK, Thread
<1>4. queue # <<>> => 1 \in DOMAIN queue /\ queue[1] \in Caller /\ pc[queue[1]] = "queued"
  BY <1>3, QueueSound
<1>5. \A x : first(x) => x \in Caller /\ pc[x] = "queued" /\ op[x] = "wait" /\ x # t
  BY <1>3, <1>4 DEF Sound, Threads, Fits
<1>6. \A x \in Thread : Fits(x, pc[x], op[x], val[x])'
  BY <1>1, <1>3, <1>5 DEF Sound, Threads, Fits, Writing, Unlinking, Acquiring
<1>7. /\ queue' \in Seq(Caller) /\ Once(queue')
      /\ \A d \in Caller : InLine(queue', d) <=> InLine(queue, d) /\ ~first(d)
  <2>1. CASE granting \/ queue = <<>>
    BY <1>3, <2>1 DEF ProcessQueue
  <2>2. CASE ~granting /\ queue # <<>>
    BY <1>3, <1>4, <2>2, TakenOut DEF ProcessQueue
  <2>. QED BY <2>1, <2>2
<1>8. granting' \in BOOLEAN
  BY <1>3 DEF ProcessQueue
<1>9. TypeOK'
  BY <1>2, <1>7, <1>8 DEF Sound, TypeOK, RestTyped, Steps, Ops
<1>10. WaitersAccounted'
  <2>1. \A d \in Caller : pc'[d] = "queued" <=> InLine(queue', d)
    BY <1>1, <1>3, <1>7, QueueSound
  <2>2. \A d \in Caller : pc'[d] = "queued" => armed'[d]
    BY <1>1, <1>3 DEF Sound, WaitersAccounted
  <2>3. /\ granting <=> \E d \in Caller : op[d] = "grant"
        /\ \A d, e \in Caller : op[d] = "grant" /\ op[e] = "grant" => d = e
    BY DEF Sound, WaitersAccounted
  <2>4. \A d \in Caller : op'[d] = "grant" <=> first(d) \/ op[d] = "grant"
    BY <1>1, <1>3 DEF Sound, Threads, Fits, Unlinking
  <2>5. granting' <=> \E d \in Caller : op'[d] = "grant"
    BY <1>4, <2>3, <2>4 DEF ProcessQueue
  <2>6. \A d, e \in Caller : op'[d] = "grant" /\ op'[e] = "grant" => d = e
    BY <2>3, <2>4
  <2>7. \A i, k \in DOMAIN queue' : queue'[i] = queue'[k] => i = k
    BY <1>7 DEF Once
  <2>8. \A d \in Caller : pc'[d] = "queued" <=> \E i \in DOMAIN queue' : queue'[i] = d
    BY <2>1 DEF InLine
  <2>. QED BY <2>2, <2>5, <2>6, <2>7, <2>8 DEF WaitersAccounted
<1>11. \A d \in holds' : op'[d] \notin Acquiring \cup {"wait", "release"} /\ since'[d] <= now'
  <2>1. \A d \in holds : op[d] \notin Acquiring \cup {"wait", "release"} /\ since[d] <= now /\ d \in Thread
    BY <1>3 DEF Sound, Threads, TypeOK
  <2>2. "none" \notin Acquiring \cup {"wait", "release"}
    BY DEF Acquiring
  <2>. QED BY <1>1, <1>5, <2>1, <2>2
<1>. QED BY <1>6, <1>9, <1>10, <1>11 DEF Sound, Threads

-----------------------------------------------------------------------------
(* Every step keeps things sound *)

\* What no waiter depends on keeps its type in every step.
LEMMA RestKept ==
    ASSUME Sound, History
    PROVE  disturbed' \in BOOLEAN /\ RestTyped
<1>1. disturbed' \in BOOLEAN
  <2>1. disturbed \in BOOLEAN
    BY DEF Sound, TypeOK
  <2>. QED BY <2>1, Zenon DEF History
<1>. QED BY <1>1 DEF Sound, TypeOK, RestTyped

\* updateLockInfo and renew write the lock on record back, or end.
LEMMA RewriteSound ==
    ASSUME Sound, NEW t \in Thread, NEW o \in {"update", "renew"}, NEW s,
           NEW lock \in Lock \cup {Nothing}, Rewrite(t, o, s, lock),
           pc[t] # "queued", op[t] \notin Acquiring, t = Interval => o = "renew",
           UNCHANGED <<now, pid, queue, granting, callers>>,
           keepAlive' \in Caller \cup {Nothing} => RestTyped'
    PROVE  Sound'
<1>1. RestTyped'
  BY DEF Rewrite, StopIfTick, Sound, TypeOK
<1>2. /\ holds' \subseteq holds /\ \A d \in holds' : since'[d] = since[d]
      /\ since' \in [Caller -> Nat] /\ UNCHANGED armed
      /\ op[t] # "grant" /\ now \in Nat
  BY ConstantsAssumption DEF callers, Sound, TypeOK, Acquiring
<1>3. CASE Finish(t)
  <2>1. Fits(t, "idle", "none", Nothing) /\ Goto(t, "idle", "none", Nothing)
        /\ "idle" \in Steps /\ "none" \in Ops /\ "none" \notin Acquiring
    BY <1>3 DEF Fits, Finish, Writing, Unlinking, Steps, Ops, Acquiring
  <2>. QED BY <1>1, <1>2, <2>1, MoveSound
<1>4. CASE /\ lock # Nothing /\ (o = "renew" => lock.pid = pid)
           /\ StartWrite(t, o, IF o = "renew" THEN [lock EXCEPT !.timestamp = now] ELSE lock)
  <2> DEFINE new == IF o = "renew" THEN [lock EXCEPT !.timestamp = now] ELSE lock
  <2>1. /\ lock \in Lock /\ new \in Lock
        /\ o = "renew" => new.pid = pid /\ new.timestamp <= now
    BY <1>2, <1>4 DEF Lock
  <2>2. Goto(t, "opening", o, new)
    BY <1>4 DEF StartWrite
  <2>. HIDE DEF new
  <2>3. Fits(t, "opening", o, new) /\ "opening" \in Steps /\ o \in Ops /\ o \notin Acquiring \cup {"grant", "release"}
    BY <2>1 DEF Fits, Writing, Unlinking, Steps, Ops, Acquiring
  <2>. QED BY <1>1, <1>2, <2>1, <2>2, <2>3, MoveSound
<1>. QED BY <1>3, <1>4 DEF Rewrite

\* A thread that starts to read, on behalf of an operation other than a grant.
LEMMA ReadSound ==
    ASSUME Sound, NEW t \in Thread, NEW o \in Ops \ {"none", "wait", "grant"}, pc[t] = "idle",
           t = Interval => o = "renew", StartRead(t, o),
           UNCHANGED <<now, pid, queue, granting, armed>>, RestTyped',
           holds' \subseteq holds, t \in holds' => o \notin Acquiring \cup {"release"},
           \A c \in holds' : since'[c] = since[c], since' \in [Caller -> Nat]
    PROVE  Sound'
<1>1. Fits(t, "reading", o, Nothing) /\ Goto(t, "reading", o, Nothing) /\ "reading" \in Steps
  BY DEF Fits, StartRead, Writing, Unlinking, Steps
<1>2. op[t] # "grant" /\ pc[t] # "queued" /\ o # "grant"
  BY DEF Sound, Threads, Fits
<1>. QED BY <1>1, <1>2, MoveSound

\* Acquire, until it first touches the file: types, threads and waiters stay sound.
LEMMA AcquireSound ==
    ASSUME Sound, History, NEW c \in Caller, Acquire(c)
    PROVE  Sound'
<1>1. RestTyped'
  BY RestKept DEF Acquire, RestTyped
<1>2. c \in Thread /\ c # Interval /\ op[c] = "none" /\ c \notin holds /\ "acquire" \in Acquiring
  BY ConstantsAssumption DEF Thread, Sound, Threads, Fits, Acquire, Acquiring
<1>3. CASE CacheHit
  <2>1. Decide(c, "acquire", cache.lock) /\ UNCHANGED <<now, pid, holds, since>>
    BY <1>3 DEF Acquire
  <2>. QED BY <1>1, <1>2, <2>1, DecideSound
<1>4. CASE ~CacheHit
  <2>1. "acquire" \in Ops \ {"none", "wait", "grant"}
    BY DEF Ops, Acquiring
  <2>2. StartRead(c, "acquire") /\ pc[c] = "idle" /\ UNCHANGED <<now, pid, queue, granting, armed, holds, since>>
    BY <1>4 DEF Acquire
  <2>3. since \in [Caller -> Nat]
    BY DEF Sound, TypeOK
  <2>. QED BY <1>1, <1>2, <2>1, <2>2, <2>3, ReadSound
<1>. QED BY <1>3, <1>4

\* Release, until it first touches the file: types, threads and waiters stay sound.
LEMMA ReleaseSound ==
    ASSUME Sound, History, NEW c \in Caller, Release(c)
    PROVE  Sound'
<1>1. RestTyped'
  BY RestKept DEF Release, RestTyped, memory
<1>2. c \in Thread /\ c # Interval /\ pc[c] = "idle" /\ op[c] = "none"
  BY ConstantsAssumption DEF Thread, Sound, Threads, Fits, Release
<1>3. /\ holds' = holds \ {c} /\ since' = [since EXCEPT ![c] = 0] /\ since' \in [Caller -> Nat]
      /\ holds' \subseteq holds /\ c \notin holds'
      /\ UNCHANGED <<now, pid, queue, granting, armed>>
  BY DEF Release, memory, Sound, TypeOK
<1>4. \A d \in holds' : since'[d] = since[d]
  BY <1>3 DEF Sound, TypeOK
<1>5. CASE StartRead(c, "release")
  <2>1. "release" \in Ops \ {"none", "wait", "grant"}
    BY DEF Ops, Acquiring
  <2>. QED BY <1>1, <1>2, <1>3, <1>4, <1>5, <2>1, ReadSound
<1>6. CASE StartUnlink(c)
  <2>1. Goto(c, "unlinking", "release", Nothing) /\ Fits(c, "unlinking", "release", Nothing)
        /\ "unlinking" \in Steps /\ "release" \in Ops
    BY <1>2, <1>6 DEF StartUnlink, Fits, Writing, Unlinking, Steps, Ops, Acquiring
  <2>. QED BY <1>1, <1>2, <1>3, <1>4, <2>1, MoveSound
<1>7. CASE UNCHANGED threads
  BY <1>1, <1>3, <1>4, <1>7 DEF threads, Sound, TypeOK, RestTyped, Threads, Fits, WaitersAccounted
<1>. QED BY <1>5, <1>6, <1>7 DEF Release

\* UpdateLockInfo and renew, until they first touch the file: types, threads and waiters stay sound.
LEMMA TouchSound ==
    ASSUME Sound, History, NEW c \in Caller, NEW o \in {"update", "renew"}, Touch(c, o)
    PROVE  Sound'
<1>1. c \in Thread /\ c # Interval /\ pc[c] = "idle" /\ op[c] = "none" /\ op[c] \notin Acquiring
  BY ConstantsAssumption DEF Thread, Sound, Threads, Fits, Touch, Acquiring
<1>2. keepAlive' \in Caller \cup {Nothing} => RestTyped'
  BY RestKept DEF Touch, RestTyped
<1>3. CASE CacheHit
  <2>1. cache.lock \in Lock
    BY <1>3 DEF CacheHit, Sound, TypeOK
  <2>2. Rewrite(c, o, c, cache.lock) /\ UNCHANGED <<now, pid, queue, granting, callers>>
    BY <1>3 DEF Touch
  <2>. QED BY <1>1, <1>2, <2>1, <2>2, RewriteSound
<1>4. CASE ~CacheHit
  <2>1. StartRead(c, o) /\ UNCHANGED <<now, pid, queue, granting, armed, holds, since, keepAlive>>
    BY <1>4 DEF Touch, callers
  <2>2. o \in Ops \ {"none", "wait", "grant"} /\ o \notin Acquiring \cup {"release"}
    BY DEF Ops, Acquiring
  <2>3. RestTyped' /\ since \in [Caller -> Nat]
    BY <1>2, <2>1 DEF Sound, TypeOK
  <2>. QED BY <1>1, <2>1, <2>2, <2>3, ReadSound
<1>. QED BY <1>3, <1>4

\* Check: types, threads and waiters stay sound.
LEMMA CheckSound ==
    ASSUME Sound, History, NEW c \in Caller, Check(c)
    PROVE  Sound'
<1>1. c \in Thread /\ c # Interval /\ pc[c] = "idle"
  BY ConstantsAssumption DEF Thread, Check
<1>2. RestTyped' /\ since \in [Caller -> Nat]
  BY RestKept DEF Check, RestTyped, memory, Sound, TypeOK
<1>3. "check" \in Ops \ {"none", "wait", "grant"} /\ "check" \notin Acquiring \cup {"release"}
  BY DEF Ops, Acquiring
<1>4. StartRead(c, "check") /\ UNCHANGED <<now, pid, queue, granting, armed, holds, since>>
  BY DEF Check, memory, callers
<1>. QED BY <1>1, <1>2, <1>3, <1>4, ReadSound

\* A tick of the keep-alive interval: types, threads and waiters stay sound.
LEMMA TickSound ==
    ASSUME Sound, History, Tick
    PROVE  Sound'
<1>1. Interval \in Thread /\ pc[Interval] = "idle" /\ op[Interval] = "none" /\ op[Interval] \notin Acquiring
      /\ Interval \notin holds
  BY ConstantsAssumption DEF Thread, Sound, TypeOK, Threads, Fits, Tick, Acquiring
<1>2. keepAlive' \in Caller \cup {Nothing} => RestTyped'
  BY RestKept DEF Tick, RestTyped
<1>3. CASE CacheHit
  <2>1. cache.lock \in Lock
    BY <1>3 DEF CacheHit, Sound, TypeOK
  <2>2. Rewrite(Interval, "renew", keepAlive, cache.lock) /\ UNCHANGED <<now, pid, queue, granting, callers>>
    BY <1>3 DEF Tick
  <2>. QED BY <1>1, <1>2, <2>1, <2>2, RewriteSound
<1>4. CASE ~CacheHit
  <2>1. StartRead(Interval, "renew") /\ UNCHANGED <<now, pid, queue, granting, armed, holds, since, keepAlive>>
    BY <1>4 DEF Tick, callers
  <2>2. "renew" \in Ops \ {"none", "wait", "grant"} /\ "renew" \notin Acquiring \cup {"release"}
    BY DEF Ops, Acquiring
  <2>3. RestTyped' /\ since \in [Caller -> Nat]
    BY <1>2, <2>1 DEF Sound, TypeOK
  <2>. QED BY <1>1, <2>1, <2>2, <2>3, ReadSound
<1>. QED BY <1>3, <1>4

\* A waiter leaves the queue for its last attempt, or gives up.
LEMMA LeaveSound ==
    ASSUME Sound, NEW c \in Caller, pc[c] = "queued",
           NEW i \in DOMAIN queue, queue[i] = c, queue' = RemoveAt(queue, i),
           NEW step \in Steps \ {"queued"}, NEW o \in {"none", "last"},
           NEW lock \in Lock \cup {Nothing, Torn}, Goto(c, step, o, lock), Fits(c, step, o, lock),
           armed' = [armed EXCEPT ![c] = FALSE],
           UNCHANGED <<now, pid, granting, holds, since>>, RestTyped'
    PROVE  Sound'
<1>1. c \in Thread /\ Caller \subseteq Thread
  BY DEF Thread
<1>2. o \in Ops /\ op[c] = "wait"
  BY <1>1 DEF Ops, Acquiring, Sound, Threads, Fits
<1>3. /\ pc' \in [Thread -> Steps] /\ op' \in [Thread -> Ops]
      /\ val' \in [Thread -> Lock \cup {Nothing, Torn}]
      /\ \A x \in Thread : /\ pc'[x] = IF x = c THEN step ELSE pc[x]
                           /\ op'[x] = IF x = c THEN o ELSE op[x]
      /\ \A x \in Thread : Fits(x, pc[x], op[x], val[x])'
  BY <1>1, <1>2, GoesOn
<1>4. queue' \in Seq(Caller) /\ Once(queue') /\ \A d : InLine(queue', d) <=> d # c /\ InLine(queue, d)
  BY QueueSound, TakenOut
<1>5. TypeOK'
  BY <1>3, <1>4 DEF Sound, TypeOK, RestTyped, Steps, Ops
<1>6. WaitersAccounted'
  <2>1. \A d \in Caller : pc'[d] = "queued" <=> InLine(queue', d)
    BY <1>1, <1>3, <1>4, QueueSound
  <2>2. \A d \in Caller : pc'[d] = "queued" => armed'[d]
    BY <1>1, <1>3 DEF Sound, WaitersAccounted, TypeOK
  <2>3. \A d \in Caller : op'[d] = "grant" <=> op[d] = "grant"
    BY <1>1, <1>2, <1>3
  <2>4. \A j, k \in DOMAIN queue' : queue'[j] = queue'[k] => j = k
    BY <1>4 DEF Once
  <2>5. \A d \in Caller : pc'[d] = "queued" <=> \E k \in DOMAIN queue' : queue'[k] = d
    BY <2>1 DEF InLine
  <2>6. granting' <=> \E d \in Caller : op'[d] = "grant"
    BY <2>3 DEF Sound, WaitersAccounted
  <2>7. \A d, e \in Caller : op'[d] = "grant" /\ op'[e] = "grant" => d = e
    BY <2>3 DEF Sound, WaitersAccounted
  <2>. QED BY <2>2, <2>4, <2>5, <2>6, <2>7 DEF WaitersAccounted
<1>7. \A d \in holds' : op'[d] \notin Acquiring \cup {"wait", "release"} /\ since'[d] <= now'
  BY <1>1, <1>2, <1>3 DEF Sound, Threads, TypeOK
<1>. QED BY <1>3, <1>5, <1>6, <1>7 DEF Sound, Threads

\* A waiter's timer: types, threads and waiters stay sound.
LEMMA TimerSound ==
    ASSUME Sound, History, NEW c \in Caller, TimerFires(c)
    PROVE  Sound'
<1>1. RestTyped'
  BY RestKept DEF TimerFires, RestTyped
<1>2. c \in Thread /\ c # Interval
  BY ConstantsAssumption DEF Thread
<1>3. /\ armed' = [armed EXCEPT ![c] = FALSE]
      /\ UNCHANGED <<now, pid, granting, holds, since>>
  BY DEF TimerFires
<1>4. CASE pc[c] = "queued"
  <2>1. PICK i \in DOMAIN queue : queue[i] = c /\ queue' = RemoveAt(queue, i)
    BY <1>4 DEF TimerFires
  <2>2. CASE StartRead(c, "last")
    <3>1. /\ Goto(c, "reading", "last", Nothing) /\ Fits(c, "reading", "last", Nothing)
          /\ "reading" \in Steps \ {"queued"}
      BY <1>2, <2>2 DEF StartRead, Fits, Writing, Unlinking, Steps
    <3>. QED BY <1>1, <1>3, <1>4, <2>1, <3>1, LeaveSound
  <2>3. CASE Finish(c)
    <3>1. /\ Goto(c, "idle", "none", Nothing) /\ Fits(c, "idle", "none", Nothing)
          /\ "idle" \in Steps \ {"queued"}
      BY <1>2, <2>3 DEF Finish, Fits, Writing, Unlinking, Steps
    <3>. QED BY <1>1, <1>3, <1>4, <2>1, <3>1, LeaveSound
  <2>4. CASE StartWrite(c, "last", NewLock(c))
    <3>1. "last" \in Acquiring /\ "opening" \in Steps \ {"queued"}
      BY DEF Acquiring, Steps
    <3>2. /\ Goto(c, "opening", "last", NewLock(c)) /\ Fits(c, "opening", "last", NewLock(c))
          /\ NewLock(c) \in Lock \cup {Nothing, Torn}
      BY <2>4, <3>1, NewLockFits DEF StartWrite
    <3>. QED BY <1>1, <1>3, <1>4, <2>1, <3>1, <3>2, LeaveSound
  <2>. QED BY <1>4, <2>2, <2>3, <2>4 DEF TimerFires
<1>5. CASE pc[c] # "queued"
  <2>1. UNCHANGED <<queue, threads>>
    BY <1>5 DEF TimerFires
  <2>2. TypeOK'
    BY <1>1, <1>3, <2>1 DEF Sound, TypeOK, RestTyped, threads
  <2>3. WaitersAccounted'
    BY <1>3, <1>5, <2>1 DEF Sound, TypeOK, WaitersAccounted, threads
  <2>. QED BY <1>3, <2>1, <2>2, <2>3 DEF Sound, Threads, threads, Fits
<1>. QED BY <1>4, <1>5

\* Reading the file: types, threads and waiters stay sound.
LEMMA ReadFileSound ==
    ASSUME Sound, History, NEW t \in Thread, ReadFile(t)
    PROVE  Sound'
<1>1. RestTyped' /\ since \in [Caller -> Nat] /\ file \in Lock \cup {Nothing, Torn}
  BY RestKept DEF ReadFile, RestTyped, memory, callers, Sound, TypeOK
<1>2. /\ Goto(t, "read", op[t], file) /\ pc[t] = "reading" /\ op[t] \in Ops
      /\ UNCHANGED <<now, pid, queue, granting, armed, holds, since>>
  BY DEF ReadFile, memory, callers, Sound, TypeOK, Ops
<1>3. Fits(t, "read", op[t], file) /\ "read" \in Steps
  BY <1>2 DEF Sound, Threads, Fits, Writing, Unlinking, Steps
<1>4. t \in holds => op[t] \notin Acquiring \cup {"release"}
  BY DEF Sound, Threads
<1>. QED BY <1>1, <1>2, <1>3, <1>4, MoveSound

\* An operation that ends without having acquired or granted anything.
LEMMA FinishSound ==
    ASSUME Sound, NEW t \in Thread, pc[t] # "queued", op[t] # "grant", Finish(t),
           UNCHANGED <<now, pid, queue, granting, armed, holds, since>>, RestTyped'
    PROVE  Sound'
<1>1. Goto(t, "idle", "none", Nothing) /\ Fits(t, "idle", "none", Nothing)
      /\ "idle" \in Steps /\ "none" \in Ops /\ "none" \notin Acquiring \cup {"release"}
  BY DEF Finish, Fits, Writing, Unlinking, Steps, Ops, Acquiring
<1>2. since \in [Caller -> Nat]
  BY DEF Sound, TypeOK
<1>. QED BY <1>1, <1>2, MoveSound

\* A thread of an operation that acquires is a caller's, and holds nothing.
LEMMA Acquirer ==
    ASSUME Sound, NEW t \in Thread, op[t] \in Acquiring
    PROVE  t \in Caller /\ t \notin holds /\ pc[t] # "queued"
BY DEF Sound, Threads, Fits, Thread, Acquiring

\* A file that JSON.parse refuses: types, threads and waiters stay sound.
LEMMA ParseFailsSound ==
    ASSUME Sound, History, NEW t \in Thread, ParseFails(t)
    PROVE  Sound'
<1>1. keepAlive' \in Caller \cup {Nothing}
  BY DEF ParseFails, StopIfTick, Sound, TypeOK
<1>2. RestTyped'
  BY <1>1, RestKept DEF ParseFails, RestTyped
<1>3. UNCHANGED <<now, pid, holds, since>>
  BY DEF ParseFails
<1>4. CASE op[t] \in Acquiring
  BY <1>2, <1>3, <1>4, Acquirer, LoseSound DEF ParseFails
<1>5. CASE op[t] \notin Acquiring
  <2>1. Finish(t) /\ UNCHANGED <<queue, granting, armed>> /\ pc[t] # "queued" /\ op[t] # "grant"
    BY <1>5 DEF ParseFails, Acquiring
  <2>. QED BY <1>2, <1>3, <2>1, FinishSound
<1>. QED BY <1>4, <1>5

\* What follows getCachedLock: types, threads and waiters stay sound.
LEMMA AfterReadSound ==
    ASSUME Sound, History, NEW t \in Thread, AfterRead(t)
    PROVE  Sound'
<1>1. /\ val[t] \in Lock \cup {Nothing} /\ now \in Nat /\ pc[t] = "read"
      /\ UNCHANGED <<now, pid, file, ticking, holds, since, faults>>
  BY ConstantsAssumption DEF AfterRead, Sound, TypeOK
<1>2. cache' \in [lock : Lock, at : Nat] \cup {Nothing}
  BY <1>1 DEF AfterRead, CacheAfterRead, Cached, Sound, TypeOK
<1>3. keepAlive' \in Caller \cup {Nothing} => RestTyped'
  BY <1>1, <1>2, RestKept DEF RestTyped
<1>4. CASE op[t] \in Acquiring /\ Decide(t, op[t], val[t]) /\ UNCHANGED keepAlive
  <2>1. RestTyped'
    BY <1>3, <1>4 DEF Sound, TypeOK
  <2>. QED BY <1>1, <1>4, <2>1, Acquirer, DecideSound
<1>5. CASE /\ op[t] \in {"update", "renew"} /\ UNCHANGED <<queue, granting, armed>>
           /\ Rewrite(t, op[t], IF t = Interval THEN ticking ELSE t, val[t])
  <2>1. op[t] \notin Acquiring /\ (t = Interval => op[t] = "renew")
    BY <1>5 DEF Acquiring, Sound, Threads, Fits
  <2>. QED BY <1>1, <1>3, <1>5, <2>1, RewriteSound DEF callers
<1>6. CASE op[t] \in {"release", "check"} /\ Finish(t) /\ UNCHANGED <<queue, granting, armed, keepAlive>>
  <2>1. RestTyped'
    BY <1>3, <1>6 DEF Sound, TypeOK
  <2>. QED BY <1>1, <1>6, <2>1, FinishSound
<1>7. CASE op[t] = "release" /\ StartUnlink(t) /\ UNCHANGED <<queue, granting, armed, keepAlive>>
  <2>1. RestTyped' /\ since \in [Caller -> Nat] /\ t \notin holds
    BY <1>3, <1>7 DEF Sound, TypeOK, Threads
  <2>2. Goto(t, "unlinking", "release", Nothing) /\ Fits(t, "unlinking", "release", Nothing)
        /\ "unlinking" \in Steps /\ "release" \in Ops
    BY <1>7 DEF StartUnlink, Sound, Threads, Fits, Writing, Unlinking, Steps, Ops, Acquiring
  <2>. QED BY <1>1, <1>7, <2>1, <2>2, MoveSound
<1>. QED BY <1>4, <1>5, <1>6, <1>7 DEF AfterRead

\* Truncating the file: types, threads and waiters stay sound.
LEMMA OpenFileSound ==
    ASSUME Sound, History, NEW t \in Thread, OpenFile(t)
    PROVE  Sound'
<1>1. RestTyped' /\ since \in [Caller -> Nat]
  BY RestKept DEF OpenFile, RestTyped, memory, callers, Sound, TypeOK
<1>2. /\ Goto(t, "writing", op[t], val[t]) /\ pc[t] = "opening" /\ op[t] \in Ops
      /\ val[t] \in Lock \cup {Nothing, Torn}
      /\ UNCHANGED <<now, pid, queue, granting, armed, holds, since>>
  BY DEF OpenFile, memory, callers, Sound, TypeOK, Ops
<1>3. Fits(t, "writing", op[t], val[t]) /\ "writing" \in Steps
  BY <1>2 DEF Sound, Threads, Fits, Writing, Unlinking, Steps
<1>4. t \in holds => op[t] \notin Acquiring \cup {"release"}
  BY DEF Sound, Threads
<1>. QED BY <1>1, <1>2, <1>3, <1>4, MoveSound

\* Writing the file: types, threads and waiters stay sound.
LEMMA WriteFileSound ==
    ASSUME Sound, History, NEW t \in Thread, WriteFile(t)
    PROVE  Sound'
<1>1. RestTyped' /\ since \in [Caller -> Nat]
  BY RestKept DEF WriteFile, RestTyped, memory, callers, Sound, TypeOK
<1>2. /\ Goto(t, "written", op[t], val[t]) /\ pc[t] = "writing" /\ op[t] \in Ops
      /\ val[t] \in Lock \cup {Nothing, Torn}
      /\ UNCHANGED <<now, pid, queue, granting, armed, holds, since>>
  BY DEF WriteFile, memory, callers, Sound, TypeOK, Ops
<1>3. Fits(t, "written", op[t], val[t]) /\ "written" \in Steps
  BY <1>2 DEF Sound, Threads, Fits, Writing, Unlinking, Steps
<1>4. t \in holds => op[t] \notin Acquiring \cup {"release"}
  BY DEF Sound, Threads
<1>. QED BY <1>1, <1>2, <1>3, <1>4, MoveSound

\* What follows a write: types, threads and waiters stay sound.
LEMMA AfterWriteSound ==
    ASSUME Sound, History, NEW t \in Thread, AfterWrite(t)
    PROVE  Sound'
<1>1. /\ pc[t] = "written" /\ val[t] \in Lock /\ now \in Nat
      /\ op[t] # "update" => val[t].timestamp <= now
      /\ UNCHANGED <<now, pid, file, queue, ticking, faults>> /\ cache' = Cached(val[t])
  BY ConstantsAssumption DEF AfterWrite, Sound, TypeOK, Threads, Fits, Writing
<1>2. cache' \in [lock : Lock, at : Nat] \cup {Nothing}
  BY <1>1 DEF Cached
<1>3. keepAlive' \in Caller \cup {Nothing} => RestTyped'
  BY <1>1, <1>2, RestKept DEF RestTyped
<1>4. Goto(t, "idle", "none", Nothing) /\ Fits(t, "idle", "none", Nothing)
      /\ "idle" \in Steps /\ "none" \in Ops /\ "none" \notin Acquiring \cup {"release"}
  BY DEF AfterWrite, Finish, Fits, Writing, Unlinking, Steps, Ops, Acquiring
<1>5. Written(t) /\ val[t].timestamp \in Nat /\ "update" \notin Acquiring /\ "grant" \in Acquiring
  BY <1>1 DEF AfterWrite, Acquiring, Lock
<1>6. CASE op[t] \in Acquiring
  <2>1. t \in Caller
    BY <1>6, Acquirer
  <2>2. /\ holds' = holds \cup {t} /\ since' = [since EXCEPT ![t] = val[t].timestamp]
        /\ armed' = [armed EXCEPT ![t] = FALSE] /\ granting' = (granting /\ op[t] # "grant")
        /\ keepAlive' \in Caller \cup {Nothing}
    BY <1>5, <1>6, <2>1 DEF Written, Sound, TypeOK
  <2>3. val[t].timestamp <= now
    BY <1>1, <1>5, <1>6
  <2>4. /\ armed' \in [Caller -> BOOLEAN] /\ holds' \subseteq Caller /\ since' \in [Caller -> Nat]
        /\ \A c \in Caller : pc[c] = "queued" => armed'[c] = armed[c]
        /\ \A c \in holds' : (c # t => c \in holds) /\ since'[c] <= now
    BY <1>1, <1>5, <2>1, <2>2, <2>3 DEF Sound, TypeOK, Threads
  <2>5. granting' = (granting /\ ~(op[t] = "grant" /\ "none" # "grant"))
    BY <2>2
  <2>. QED BY <1>1, <1>3, <1>4, <2>2, <2>4, <2>5, StepSound
<1>7. CASE op[t] \notin Acquiring
  <2>1. /\ UNCHANGED <<holds, armed, granting, keepAlive>> /\ op[t] # "grant"
        /\ since' = [c \in Caller |-> IF op[t] = "renew" /\ c \in holds /\ c = val[t].service
                                      THEN val[t].timestamp ELSE since[c]]
    BY <1>5, <1>7 DEF Written
  <2>2. keepAlive' \in Caller \cup {Nothing} /\ armed' \in [Caller -> BOOLEAN] /\ holds' \subseteq Caller
    BY <2>1 DEF Sound, TypeOK
  <2>3. since' \in [Caller -> Nat]
    BY <1>5, <2>1 DEF Sound, TypeOK
  <2>4. \A c \in holds' : c \in holds /\ since'[c] <= now
    BY <1>1, <2>1, <2>2 DEF Sound, Threads
  <2>5. granting' = (granting /\ ~(op[t] = "grant" /\ "none" # "grant"))
    <3>1. granting \in BOOLEAN /\ granting' = granting /\ op[t] # "grant"
      BY <2>1 DEF Sound, TypeOK
    <3>. QED BY <3>1, Zenon
  <2>6. \A c \in Caller : pc[c] = "queued" => armed'[c] = armed[c]
    BY <2>1
  <2>. QED BY <1>1, <1>3, <1>4, <2>2, <2>3, <2>4, <2>5, <2>6, StepSound
<1>. QED BY <1>6, <1>7

\* The unlink of release: types, threads and waiters stay sound.
LEMMA UnlinkSound ==
    ASSUME Sound, History, NEW t \in Thread, Unlink(t)
    PROVE  Sound'
<1>1. RestTyped' /\ since \in [Caller -> Nat]
  BY RestKept DEF Unlink, RestTyped, memory, callers, Sound, TypeOK
<1>2. /\ pc[t] = "unlinking" /\ op[t] = "release" /\ t \notin holds
      /\ UNCHANGED <<now, pid, queue, granting, armed, holds, since>>
  BY DEF Unlink, memory, callers, Sound, Threads, Fits, Unlinking
<1>3. CASE Finish(t)
  BY <1>1, <1>2, <1>3, FinishSound
<1>4. CASE Goto(t, "unlinked", op[t], Nothing)
  <2>1. Fits(t, "unlinked", op[t], Nothing) /\ "unlinked" \in Steps /\ op[t] \in Ops
    BY <1>2 DEF Sound, Threads, Fits, Writing, Unlinking, Steps, Ops
  <2>. QED BY <1>1, <1>2, <1>4, <2>1, MoveSound
<1>. QED BY <1>3, <1>4 DEF Unlink

\* What follows the unlink of release: types, threads and waiters stay sound.
LEMMA AfterUnlinkSound ==
    ASSUME Sound, History, NEW t \in Thread, AfterUnlink(t)
    PROVE  Sound'
<1>1. RestTyped'
  BY RestKept DEF AfterUnlink, RestTyped
<1>. QED BY <1>1, WakeSound DEF AfterUnlink, callers

\* ForceClear: types, threads and waiters stay sound.
LEMMA ForceClearSound ==
    ASSUME Sound, History, ForceClear
    PROVE  Sound'
<1>1. RestTyped' /\ Nothing \notin Thread
  BY RestKept, ConstantsAssumption DEF ForceClear, RestTyped, Thread
<1>. QED BY <1>1, WakeSound DEF ForceClear, callers

\* A write that fails: types, threads and waiters stay sound.
LEMMA WriteFailsSound ==
    ASSUME Sound, History, NEW t \in Thread, WriteFails(t)
    PROVE  Sound'
<1>1. keepAlive' \in Caller \cup {Nothing} /\ faults' \in 0 .. MaxFaults
  BY ConstantsAssumption DEF WriteFails, StopIfTick, Sound, TypeOK
<1>2. RestTyped'
  BY <1>1, RestKept DEF WriteFails, RestTyped
<1>3. UNCHANGED <<now, pid, holds, since>>
  BY DEF WriteFails
<1>4. CASE op[t] \in Acquiring
  BY <1>2, <1>3, <1>4, Acquirer, LoseSound DEF WriteFails
<1>5. CASE op[t] \notin Acquiring
  <2>1. Finish(t) /\ UNCHANGED <<queue, granting, armed>> /\ pc[t] # "queued" /\ op[t] # "grant"
    BY <1>5 DEF WriteFails, Acquiring
  <2>. QED BY <1>2, <1>3, <2>1, FinishSound
<1>. QED BY <1>4, <1>5

\* A restart: types, threads and waiters stay sound.
LEMMA CrashSound ==
    ASSUME Sound, History, Crash
    PROVE  Sound'
<1>1. faults' \in 0 .. MaxFaults /\ pid' \in Nat \ {0}
  BY ConstantsAssumption DEF Crash, Sound, TypeOK
<1>2. TypeOK'
  <2>1. /\ now' \in 0 .. MaxTime /\ file' \in Lock \cup {Nothing, Torn} /\ disturbed' \in BOOLEAN
        /\ cache' \in [lock : Lock, at : Nat] \cup {Nothing} /\ granting' \in BOOLEAN
        /\ keepAlive' \in Caller \cup {Nothing} /\ ticking' \in Caller \cup {Nothing}
        /\ holds' \in SUBSET Caller
    BY RestKept DEF Crash, Sound, TypeOK
  <2>2. queue' \in Seq(Caller)
    BY DEF Crash
  <2>3. /\ pc' \in [Thread -> Steps] /\ op' \in [Thread -> Ops]
        /\ val' \in [Thread -> Lock \cup {Nothing, Torn}]
    BY DEF Crash, Steps, Ops
  <2>4. armed' \in [Caller -> BOOLEAN] /\ since' \in [Caller -> Nat]
    BY DEF Crash
  <2>. QED BY <1>1, <2>1, <2>2, <2>3, <2>4 DEF TypeOK, Steps, Ops
<1>3. \A t \in Thread : Fits(t, pc[t], op[t], val[t])'
  BY DEF Crash, Fits, Writing, Unlinking
<1>4. WaitersAccounted'
  BY DEF Crash, WaitersAccounted, Thread
<1>. QED BY <1>2, <1>3, <1>4 DEF Crash, Sound, Threads

\* The clock: types, threads and waiters stay sound.
LEMMA ClockSound ==
    ASSUME Sound, History, ClockTicks
    PROVE  Sound'
<1>1. now' \in 0 .. MaxTime /\ now <= now' /\ now \in Nat /\ now' \in Nat
  BY ConstantsAssumption DEF ClockTicks, Sound, TypeOK
<1>2. UNCHANGED <<pid, file, cache, queue, granting, keepAlive, ticking, pc, op, val, armed, holds, since, faults>>
  BY DEF ClockTicks, memory, threads, callers
<1>3. TypeOK'
  BY <1>1, <1>2, RestKept DEF Sound, TypeOK
<1>4. \A t \in Thread : val[t] \in Lock => val[t].timestamp \in Nat
  BY DEF Lock
<1>5. \A t \in Thread : Fits(t, pc[t], op[t], val[t])'
  BY <1>1, <1>2, <1>4 DEF Sound, Threads, Fits
<1>6. \A c \in holds' : op'[c] \notin Acquiring \cup {"wait", "release"} /\ since'[c] <= now'
  BY <1>1, <1>2 DEF Sound, Threads, TypeOK
<1>7. WaitersAccounted'
  BY <1>2 DEF Sound, WaitersAccounted
<1>. QED BY <1>3, <1>5, <1>6, <1>7 DEF Sound, Threads

\* The end of keepAlive: types, threads and waiters stay sound.
LEMMA KeepAliveEndsSound ==
    ASSUME Sound, History, KeepAliveEnds
    PROVE  Sound'
<1>1. UNCHANGED <<now, pid, file, cache, queue, granting, ticking, pc, op, val, armed, holds, since, faults>>
  BY DEF KeepAliveEnds, threads, callers
<1>2. TypeOK'
  BY <1>1, RestKept DEF KeepAliveEnds, Sound, TypeOK
<1>3. Threads' /\ WaitersAccounted'
  BY <1>1 DEF Sound, Threads, Fits, WaitersAccounted
<1>. QED BY <1>2, <1>3 DEF Sound

\* No step of the lock loses a waiter.
LEMMA NextSound ==
    ASSUME Sound, Next
    PROVE  Sound'
<1>1. Move /\ History
  BY DEF Next
<1>2. ASSUME NEW t \in Thread, FileStep(t) PROVE Sound'
  BY <1>1, <1>2, ReadFileSound, ParseFailsSound, AfterReadSound, OpenFileSound, WriteFileSound,
     AfterWriteSound, UnlinkSound, AfterUnlinkSound DEF FileStep
<1>. QED BY <1>1, <1>2, TickSound, KeepAliveEndsSound, CrashSound, ForceClearSound, ClockSound,
            AcquireSound, TimerSound, ReleaseSound, CheckSound, TouchSound, WriteFailsSound DEF Move

-----------------------------------------------------------------------------
(* As long as operations do not overlap: steps that leave the file alone *)

\* Only thread t goes on.
Only(t) == \A x \in Thread : x # t => pc'[x] = pc[x] /\ op'[x] = op[x] /\ val'[x] = val[x]

\* Goto changes t only.
LEMMA OnlyGoto ==
    ASSUME NEW t, NEW step, NEW o, NEW lock, Sound, Goto(t, step, o, lock)
    PROVE  Only(t) /\ (t \in Thread => pc'[t] = step /\ op'[t] = o /\ val'[t] = lock)
BY DEF Only, Goto, Sound, TypeOK

\* Nobody else is at the file when t is, or comes to be.
LEMMA Alone ==
    ASSUME Serial, History, ~disturbed', NEW t \in Thread, Only(t),
           pc[t] \notin {"idle", "queued"} \/ pc'[t] \notin {"idle", "queued"}
    PROVE  \A x \in Thread : x # t => pc[x] \in {"idle", "queued"} /\ pc'[x] \in {"idle", "queued"}
<1>1. ~disturbed /\ \A x, y \in Thread : x # y => ~({x, y} \subseteq InFlight')
  BY DEF History
<1>2. \A x, y \in InFlight : x = y
  BY <1>1 DEF Serial
<1>. QED BY <1>1, <1>2 DEF Only, InFlight

\* A lock of a holder within its timeout is valid.
LEMMA HisValid ==
    ASSUME Sound, NEW c \in holds, now - since[c] < LockTimeout, NEW lock, His(c, lock)
    PROVE  Valid(lock) /\ lock \notin {Nothing, Torn}
<1>1. now \in Nat /\ since[c] \in Nat /\ LockTimeout \in Nat
  BY ConstantsAssumption DEF Sound, TypeOK
<1>2. lock.timestamp \in Nat
  BY DEF His, Lock
<1>. QED BY <1>1, <1>2, ConstantsAssumption DEF His, Valid, Lock

\* A step of t that leaves the file as it is.
LEMMA QuietStep ==
    ASSUME Sound, Calm, History, NEW t \in Thread, Only(t), UNCHANGED <<now, pid, file>>,
           faults' = faults \/ faults' # 0, pc[t] # "unlinked",
           holds' \subseteq holds, \A c \in holds' : since'[c] = since[c],
           ~disturbed' =>
             /\ cache' = cache \/ (file \notin {Nothing, Torn} /\ cache' = Cached(file))
             /\ pc'[t] \in {"read", "written"} => val'[t] = file
             /\ \A c \in holds' : now - since[c] < LockTimeout /\ Kept(c) =>
                  /\ pc'[t] \in Writing => op'[t] \notin Acquiring /\ His(c, val'[t])
                  /\ pc'[t] \notin Unlinking
             /\ faults' = 0 /\ file = Nothing /\ queue' # <<>> =>
                  /\ queue # <<>> \/ cache # Nothing
                  /\ Hands(t) => Hands(t)'
    PROVE  Calm'
<1>1. SUFFICES ASSUME ~disturbed' PROVE Calm'
  BY DEF Calm, Serial, HoldersKeep, CacheTrue, Handing
<1>2. ~disturbed
  BY <1>1 DEF History
<1>3. Serial'
  <2>1. \A x, y \in InFlight' : x = y
    BY <1>1 DEF History, InFlight
  <2>2. \A x \in Thread : pc'[x] \in {"read", "written"} => val'[x] = file'
    BY <1>1, <1>2 DEF Calm, Serial, Only
  <2>. QED BY <2>1, <2>2 DEF Serial
<1>4. HoldersKeep'
  <2>1. SUFFICES ASSUME NEW c \in holds', now - since[c] < LockTimeout PROVE Kept(c)'
    BY DEF HoldersKeep
  <2>2. c \in holds /\ Kept(c)
    BY <1>2, <2>1 DEF Calm, HoldersKeep
  <2>3. since'[c] = since[c] /\ pid' = pid /\ file' = file
    BY <2>1
  <2>4. file' = Torn \/ His(c, file)'
    BY <2>2, <2>3 DEF Kept, His
  <2>5. ASSUME NEW x \in Thread
        PROVE  /\ pc'[x] \in Writing => op'[x] \notin Acquiring /\ His(c, val[x])'
               /\ pc'[x] \notin Unlinking
    BY <1>1, <2>1, <2>2 DEF Kept, His, Only
  <2>6. CASE cache' = cache
    <3>1. cache' # Nothing /\ His(c, cache.lock)'
      BY <2>2, <2>3, <2>6 DEF Kept, His
    <3>. QED BY <2>4, <2>5, <3>1 DEF Kept
  <2>7. CASE file \notin {Nothing, Torn} /\ cache' = Cached(file)
    <3>1. His(c, file) /\ file \in Lock /\ now \in Nat
      BY <2>2, <2>7 DEF Kept, Sound, TypeOK, His
    <3>2. cache' \in [lock : Lock, at : Nat] /\ cache'.lock = file
      BY <2>7, <3>1 DEF Cached
    <3>3. cache' # Nothing
      BY <3>2, ConstantsAssumption DEF Lock
    <3>4. His(c, cache.lock)'
      BY <2>3, <3>1, <3>2 DEF His
    <3>. QED BY <2>4, <2>5, <3>3, <3>4 DEF Kept
  <2>. QED BY <1>1, <2>6, <2>7
<1>5. CacheTrue'
  <2>1. SUFFICES ASSUME faults' = 0, cache' # Nothing, file' = Nothing
                 PROVE  \E x \in Thread : pc'[x] = "unlinked"
    BY DEF CacheTrue
  <2>2. faults = 0 /\ cache # Nothing /\ file = Nothing
    BY <1>1, <2>1
  <2>3. PICK x \in Thread : pc[x] = "unlinked"
    BY <1>2, <2>2 DEF Calm, CacheTrue
  <2>. QED BY <2>3 DEF Only
<1>6. Handing'
  <2>1. SUFFICES ASSUME faults' = 0, file' = Nothing, queue' # <<>>
                 PROVE  \E x \in Thread : Hands(x)'
    BY DEF Handing
  <2>2. faults = 0 /\ file = Nothing
    BY <2>1
  <2>3. PICK x \in Thread : Hands(x)
    BY <1>1, <1>2, <2>1, <2>2 DEF Calm, CacheTrue, Handing, Hands
  <2>. QED BY <1>1, <2>1, <2>3 DEF Only, Hands
<1>. QED BY <1>3, <1>4, <1>5, <1>6 DEF Calm

\* A step that changes nothing the lock's agreement depends on.
LEMMA CalmKept ==
    ASSUME Calm, UNCHANGED <<now, pid, file, cache, queue, pc, op, val, holds, since, faults>>,
           disturbed => disturbed'
    PROVE  Calm'
<1>1. Serial' /\ CacheTrue'
  BY DEF Calm, Serial, CacheTrue, InFlight
<1>2. Handing'
  BY DEF Calm, Handing, Hands
<1>3. \A c : Kept(c)' <=> Kept(c)
  BY DEF Kept, His
<1>4. HoldersKeep'
  BY <1>3 DEF Calm, HoldersKeep
<1>. QED BY <1>1, <1>2, <1>4 DEF Calm

\* Reading the file: operations that do not overlap still agree.
LEMMA ReadFileCalm ==
    ASSUME Sound, Calm, History, NEW t \in Thread, ReadFile(t)
    PROVE  Calm'
<1>1. Only(t) /\ pc'[t] = "read" /\ op'[t] = op[t] /\ val'[t] = file
  BY OnlyGoto DEF ReadFile
<1>. QED BY <1>1, QuietStep DEF ReadFile, memory, callers, Writing, Unlinking, Hands

\* A write that fails: operations that do not overlap still agree.
LEMMA WriteFailsCalm ==
    ASSUME Sound, Calm, History, NEW t \in Thread, WriteFails(t)
    PROVE  Calm'
<1>1. Only(t) /\ pc'[t] \in {"idle", "queued"}
  BY OnlyGoto DEF WriteFails, Lose, Finish
<1>2. faults' # 0
  BY DEF WriteFails, Sound, TypeOK
<1>. QED BY <1>1, <1>2, QuietStep DEF WriteFails, Writing, Unlinking

\* A file that JSON.parse refuses: operations that do not overlap still agree.
LEMMA ParseFailsCalm ==
    ASSUME Sound, Calm, History, NEW t \in Thread, ParseFails(t)
    PROVE  Calm'
<1>1. Only(t) /\ pc'[t] \in {"idle", "queued"}
  BY OnlyGoto DEF ParseFails, Lose, Finish
<1>2. ~disturbed' => file = Torn
  BY DEF ParseFails, Calm, Serial, History
<1>. QED BY <1>1, <1>2, ConstantsAssumption, QuietStep DEF ParseFails, Writing, Unlinking

\* acquire decides on the lock on record: it does not write over a holder's.
LEMMA DecideCalm ==
    ASSUME Sound, Calm, History, NEW t \in Thread, NEW o \in Acquiring, NEW lock,
           Decide(t, o, lock), UNCHANGED <<now, pid, file, holds, since, faults>>, pc[t] # "unlinked",
           ~disturbed' =>
             /\ cache' = cache \/ (file \notin {Nothing, Torn} /\ cache' = Cached(file))
             /\ \A c \in holds : now - since[c] < LockTimeout /\ Kept(c) => His(c, lock)
             /\ file = Nothing /\ faults = 0 /\ lock # Nothing => cache # Nothing /\ ~Hands(t)
    PROVE  Calm'
<1>1. CASE lock # Nothing /\ Valid(lock)
  <2>1. Only(t) /\ pc'[t] \in {"idle", "queued"}
    BY <1>1, OnlyGoto DEF Decide, Enqueue, Lose, Finish
  <2>. QED BY <1>1, <2>1, QuietStep DEF Writing, Unlinking
<1>2. CASE ~(lock # Nothing /\ Valid(lock))
  <2>1. StartWrite(t, o, NewLock(t)) /\ queue' = queue
    BY <1>2 DEF Decide
  <2>2. Only(t) /\ pc'[t] = "opening" /\ op'[t] = o
    BY <2>1, OnlyGoto DEF StartWrite
  <2>3. ~disturbed' => \A c \in holds : ~(now - since[c] < LockTimeout /\ Kept(c))
    BY <1>2, HisValid
  <2>4. Hands(t)'
    BY <2>2 DEF Hands
  <2>. QED BY <2>1, <2>2, <2>3, <2>4, QuietStep DEF Unlinking
<1>. QED BY <1>1, <1>2

\* A holder's lock, written back, is still the holder's.
LEMMA RewriteCalm ==
    ASSUME Sound, Calm, History, NEW t \in Thread, NEW o \in {"update", "renew"}, NEW s, NEW lock,
           Rewrite(t, o, s, lock), UNCHANGED <<now, pid, file, queue, holds, since, faults>>,
           pc[t] # "unlinked", op[t] \notin Acquiring,
           ~disturbed' =>
             /\ cache' = cache \/ (file \notin {Nothing, Torn} /\ cache' = Cached(file))
             /\ \A c \in holds : now - since[c] < LockTimeout /\ Kept(c) => His(c, lock)
    PROVE  Calm'
<1>1. ~Hands(t) /\ o \notin Acquiring
  BY DEF Hands, Acquiring
<1>2. CASE Finish(t)
  <2>1. Only(t) /\ pc'[t] = "idle"
    BY <1>2, OnlyGoto DEF Finish
  <2>. QED BY <1>1, <2>1, QuietStep DEF Writing, Unlinking
<1>3. CASE ~Finish(t)
  <2> DEFINE l == IF o = "renew" THEN [lock EXCEPT !.timestamp = now] ELSE lock
  <2>1. StartWrite(t, o, l)
    BY <1>3 DEF Rewrite
  <2>2. Only(t) /\ pc'[t] = "opening" /\ op'[t] = o /\ val'[t] = l
    BY <2>1, OnlyGoto DEF StartWrite
  <2>3. ASSUME NEW c \in holds, His(c, lock) PROVE His(c, l)
    <3>1. since[c] \in Nat /\ since[c] <= now /\ now \in Nat
      BY DEF Sound, Threads, TypeOK
    <3>. QED BY <2>3, <3>1 DEF His, Lock
  <2>. HIDE DEF l
  <2>. QED BY <1>1, <2>2, <2>3, QuietStep DEF Unlinking
<1>. QED BY <1>2, <1>3

\* Acquire, until it first touches the file: operations that do not overlap still agree.
LEMMA AcquireCalm ==
    ASSUME Sound, Calm, History, NEW t \in Caller, Acquire(t)
    PROVE  Calm'
<1>1. t \in Thread /\ "acquire" \in Acquiring /\ ~Hands(t) /\ pc[t] # "unlinked"
  <2>1. t \in Thread
    BY DEF Thread
  <2>. QED BY <2>1 DEF Acquire, Acquiring, Hands
<1>2. CASE CacheHit
  <2>1. Decide(t, "acquire", cache.lock) /\ cache # Nothing
    BY <1>2 DEF Acquire, CacheHit
  <2>2. \A c \in holds : Kept(c) => His(c, cache.lock)
    BY DEF Kept
  <2>. QED BY <1>1, <2>1, <2>2, DecideCalm DEF Acquire
<1>3. CASE ~CacheHit
  <2>1. StartRead(t, "acquire") /\ queue' = queue
    BY <1>3 DEF Acquire
  <2>2. Only(t) /\ pc'[t] = "reading"
    BY <1>1, <2>1, OnlyGoto DEF StartRead
  <2>. QED BY <1>1, <2>2, <2>1, QuietStep DEF Acquire, Writing, Unlinking
<1>. QED BY <1>2, <1>3

\* A waiter's timer: operations that do not overlap still agree.
LEMMA TimerCalm ==
    ASSUME Sound, Calm, History, NEW t \in Caller, TimerFires(t)
    PROVE  Calm'
<1>1. t \in Thread
  BY DEF Thread
<1>2. CASE pc[t] = "queued"
  <2>1. /\ \E i \in DOMAIN queue : queue[i] = t
        /\ IF ~CacheHit THEN StartRead(t, "last")
           ELSE IF Valid(cache.lock) THEN Finish(t) ELSE StartWrite(t, "last", NewLock(t))
    BY <1>2 DEF TimerFires
  <2>2. queue # <<>> /\ ~Hands(t)
    BY <1>2, <2>1 DEF Hands
  <2>3. CASE StartRead(t, "last") \/ Finish(t)
    <3>1. Only(t) /\ pc'[t] \in {"idle", "reading"}
      BY <1>1, <2>3, OnlyGoto DEF StartRead, Finish
    <3>. QED BY <1>1, <1>2, <2>2, <3>1, QuietStep DEF TimerFires, Writing, Unlinking
  <2>4. CASE ~Valid(cache.lock) /\ StartWrite(t, "last", NewLock(t))
    <3>1. Only(t) /\ pc'[t] = "opening"
      BY <1>1, <2>4, OnlyGoto DEF StartWrite
    <3>2. \A c \in holds : ~(now - since[c] < LockTimeout /\ Kept(c))
      BY <2>4, HisValid DEF Kept
    <3>. QED BY <1>1, <1>2, <2>2, <3>1, <3>2, QuietStep DEF TimerFires
  <2>. QED BY <2>1, <2>3, <2>4
<1>3. CASE pc[t] # "queued"
  <2>1. UNCHANGED <<queue, pc, op, val>>
    BY <1>3 DEF TimerFires, threads
  <2>. QED BY <2>1, CalmKept DEF TimerFires, History
<1>. QED BY <1>2, <1>3

\* Release, until it first touches the file: operations that do not overlap still agree.
LEMMA ReleaseCalm ==
    ASSUME Sound, Calm, History, NEW t \in Caller, Release(t)
    PROVE  Calm'
<1>1. t \in Thread /\ ~Hands(t) /\ pc[t] # "unlinked"
  <2>1. t \in Thread
    BY DEF Thread
  <2>2. op[t] \notin Acquiring
    BY DEF Release, Sound, Threads
  <2>. QED BY <2>1, <2>2 DEF Release, Hands
<1>2. /\ holds' = holds \ {t} /\ \A c \in holds' : since'[c] = since[c]
      /\ UNCHANGED <<now, pid, file, cache, queue, faults>>
  BY DEF Release, memory, Sound, TypeOK
<1>3. CASE StartRead(t, "release") \/ UNCHANGED threads
  <2>1. Only(t) /\ pc'[t] \in {"idle", "reading"}
    <3>1. CASE StartRead(t, "release")
      BY <1>1, <3>1, OnlyGoto DEF StartRead
    <3>2. CASE UNCHANGED threads
      BY <3>2 DEF Only, threads, Release
    <3>. QED BY <1>3, <3>1, <3>2
  <2>. QED BY <1>1, <1>2, <2>1, QuietStep DEF Writing, Unlinking
<1>4. CASE cache.lock.service = t /\ StartUnlink(t)
  <2>1. Only(t) /\ pc'[t] = "unlinking"
    BY <1>1, <1>4, OnlyGoto DEF StartUnlink
  <2>2. \A c \in holds' : ~Kept(c)
    BY <1>2, <1>4 DEF Kept, His
  <2>. QED BY <1>1, <1>2, <2>1, <2>2, QuietStep DEF Writing
<1>. QED BY <1>3, <1>4 DEF Release

\* UpdateLockInfo and renew, until they first touch the file: operations that do not overlap still agree.
LEMMA TouchCalm ==
    ASSUME Sound, Calm, History, NEW t \in Caller, NEW o \in {"update", "renew"}, Touch(t, o)
    PROVE  Calm'
<1>1. t \in Thread /\ op[t] \notin Acquiring /\ pc[t] # "unlinked" /\ ~Hands(t)
  <2>1. t \in Thread
    BY DEF Thread
  <2>2. op[t] \notin Acquiring
    BY DEF Touch, Sound, Threads
  <2>. QED BY <2>1, <2>2 DEF Touch, Hands
<1>2. CASE CacheHit
  <2>1. Rewrite(t, o, t, cache.lock) /\ \A c \in holds : Kept(c) => His(c, cache.lock)
    BY <1>2 DEF Touch, Kept
  <2>. QED BY <1>1, <2>1, RewriteCalm DEF Touch, callers
<1>3. CASE ~CacheHit
  <2>1. Only(t) /\ pc'[t] = "reading"
    BY <1>1, <1>3, OnlyGoto DEF Touch, StartRead
  <2>. QED BY <1>1, <2>1, QuietStep DEF Touch, callers, Writing, Unlinking
<1>. QED BY <1>2, <1>3

\* Check: operations that do not overlap still agree.
LEMMA CheckCalm ==
    ASSUME Sound, Calm, History, NEW t \in Caller, Check(t)
    PROVE  Calm'
<1>1. t \in Thread /\ Only(t) /\ pc'[t] = "reading" /\ op[t] \notin Acquiring
  <2>1. t \in Thread
    BY DEF Thread
  <2>2. op[t] = "none"
    BY <2>1 DEF Check, Sound, Threads, Fits
  <2>. QED BY <2>1, <2>2, OnlyGoto DEF Check, StartRead, Acquiring
<1>. QED BY <1>1, QuietStep DEF Check, memory, callers, Writing, Unlinking, Hands

\* A tick of the keep-alive interval: operations that do not overlap still agree.
LEMMA TickCalm ==
    ASSUME Sound, Calm, History, Tick
    PROVE  Calm'
<1>1. /\ Interval \in Thread /\ op[Interval] \notin Acquiring
      /\ pc[Interval] # "unlinked" /\ ~Hands(Interval)
  <2>1. Interval \in Thread
    BY DEF Thread
  <2>2. op[Interval] = "none"
    BY <2>1 DEF Tick, Sound, Threads, Fits
  <2>. QED BY <2>1, <2>2 DEF Tick, Acquiring, Hands
<1>2. CASE CacheHit
  <2>1. Rewrite(Interval, "renew", keepAlive, cache.lock) /\ \A c \in holds : Kept(c) => His(c, cache.lock)
    BY <1>2 DEF Tick, Kept
  <2>. QED BY <1>1, <2>1, RewriteCalm DEF Tick, callers
<1>3. CASE ~CacheHit
  <2>1. Only(Interval) /\ pc'[Interval] = "reading"
    BY <1>1, <1>3, OnlyGoto DEF Tick, StartRead
  <2>. QED BY <1>1, <2>1, QuietStep DEF Tick, callers, Writing, Unlinking
<1>. QED BY <1>2, <1>3

\* The end of keepAlive: operations that do not overlap still agree.
LEMMA KeepAliveEndsCalm ==
    ASSUME Calm, History, KeepAliveEnds
    PROVE  Calm'
BY CalmKept DEF KeepAliveEnds, History, threads, callers

\* What follows getCachedLock: operations that do not overlap still agree.
LEMMA AfterReadCalm ==
    ASSUME Sound, Calm, History, NEW t \in Thread, AfterRead(t)
    PROVE  Calm'
<1>1. /\ pc[t] = "read" /\ UNCHANGED <<now, pid, file, holds, since, faults>>
      /\ val[t] \in Lock \cup {Nothing}
  BY DEF AfterRead, Sound, TypeOK
<1>2. ~disturbed' => val[t] = file
  BY <1>1 DEF Calm, Serial, History
<1>3. ~disturbed' => cache' = cache \/ (file \notin {Nothing, Torn} /\ cache' = Cached(file))
  BY <1>1, <1>2 DEF AfterRead, CacheAfterRead
<1>4. ~disturbed' => \A c \in holds : Kept(c) => His(c, val[t])
  BY <1>2 DEF AfterRead, Kept
<1>5. CASE op[t] \in Acquiring
  <2>1. Decide(t, op[t], val[t])
    BY <1>5 DEF AfterRead, Acquiring
  <2>. QED BY <1>1, <1>2, <1>3, <1>4, <1>5, <2>1, DecideCalm
<1>6. CASE op[t] \in {"update", "renew"}
  <2>1. PICK s : Rewrite(t, op[t], s, val[t])
    BY <1>6 DEF AfterRead, Acquiring
  <2>2. queue' = queue /\ op[t] \notin Acquiring
    BY <1>6 DEF AfterRead, Acquiring
  <2>. QED BY <1>1, <1>3, <1>4, <1>6, <2>1, <2>2, RewriteCalm
<1>7. CASE op[t] \in {"release", "check"} /\ Finish(t)
  <2>1. Only(t) /\ pc'[t] = "idle" /\ queue' = queue /\ ~Hands(t)
    BY <1>1, <1>7, OnlyGoto DEF AfterRead, Finish, Acquiring, Hands
  <2>. QED BY <1>1, <1>3, <2>1, QuietStep DEF Writing, Unlinking
<1>8. CASE op[t] = "release" /\ val[t] # Nothing /\ val[t].service = t /\ StartUnlink(t)
  <2>1. Only(t) /\ pc'[t] = "unlinking" /\ queue' = queue /\ ~Hands(t)
    BY <1>1, <1>8, OnlyGoto DEF AfterRead, StartUnlink, Acquiring, Hands
  <2>2. t \notin holds
    BY <1>8 DEF Sound, Threads
  <2>3. ~disturbed' => \A c \in holds : ~Kept(c)
    BY <1>4, <1>8, <2>2 DEF His
  <2>. QED BY <1>1, <1>3, <2>1, <2>3, QuietStep DEF Writing
<1>. QED BY <1>5, <1>6, <1>7, <1>8 DEF AfterRead, Acquiring

-----------------------------------------------------------------------------
(* As long as operations do not overlap: steps that change the file *)

\* Truncating the file: operations that do not overlap still agree.
LEMMA OpenFileCalm ==
    ASSUME Sound, Calm, History, NEW t \in Thread, OpenFile(t)
    PROVE  Calm'
<1>1. /\ Only(t) /\ pc[t] = "opening" /\ pc'[t] = "writing" /\ op'[t] = op[t] /\ val'[t] = val[t]
      /\ file' = Torn /\ UNCHANGED <<now, pid, cache, holds, since>> /\ Torn # Nothing
  BY OnlyGoto, ConstantsAssumption DEF OpenFile, memory, callers
<1>2. SUFFICES ASSUME ~disturbed' PROVE Calm'
  BY DEF Calm, Serial, HoldersKeep, CacheTrue, Handing
<1>3. ~disturbed /\ \A x \in Thread : x # t => pc'[x] \in {"idle", "queued"}
  BY <1>1, <1>2, Alone DEF Calm, History
<1>4. Serial'
  BY <1>1, <1>3 DEF Serial, InFlight
<1>5. ASSUME NEW c \in holds', now - since[c] < LockTimeout PROVE Kept(c)'
  <2>1. Kept(c)
    BY <1>1, <1>3, <1>5 DEF Calm, HoldersKeep
  <2>2. op[t] \notin Acquiring /\ His(c, val[t]) /\ cache # Nothing /\ His(c, cache.lock)
    BY <1>1, <2>1 DEF Kept, Writing
  <2>3. \A x \in Thread : /\ pc'[x] \in Writing => op'[x] \notin Acquiring /\ His(c, val'[x])
                          /\ pc'[x] \notin Unlinking
    BY <1>1, <1>3, <2>2 DEF Writing, Unlinking
  <2>. QED BY <1>1, <2>2, <2>3 DEF Kept, His
<1>6. HoldersKeep'
  BY <1>1, <1>5 DEF HoldersKeep
<1>. QED BY <1>1, <1>4, <1>6 DEF Calm, CacheTrue, Handing

\* Writing the file: operations that do not overlap still agree.
LEMMA WriteFileCalm ==
    ASSUME Sound, Calm, History, NEW t \in Thread, WriteFile(t)
    PROVE  Calm'
<1>1. /\ Only(t) /\ pc[t] = "writing" /\ pc'[t] = "written" /\ op'[t] = op[t] /\ val'[t] = val[t]
      /\ file' = val[t] /\ UNCHANGED <<now, pid, cache, holds, since>>
  BY OnlyGoto DEF WriteFile, memory, callers
<1>2. file' # Nothing
  BY <1>1, ConstantsAssumption DEF Sound, Threads, Fits, Writing, Lock
<1>3. SUFFICES ASSUME ~disturbed' PROVE Calm'
  BY DEF Calm, Serial, HoldersKeep, CacheTrue, Handing
<1>4. ~disturbed /\ \A x \in Thread : x # t => pc'[x] \in {"idle", "queued"}
  BY <1>1, <1>3, Alone DEF Calm, History
<1>5. Serial'
  BY <1>1, <1>4 DEF Serial, InFlight
<1>6. ASSUME NEW c \in holds', now - since[c] < LockTimeout PROVE Kept(c)'
  <2>1. Kept(c)
    BY <1>1, <1>4, <1>6 DEF Calm, HoldersKeep
  <2>2. op[t] \notin Acquiring /\ His(c, val[t]) /\ cache # Nothing /\ His(c, cache.lock)
    BY <1>1, <2>1 DEF Kept, Writing
  <2>3. \A x \in Thread : /\ pc'[x] \in Writing => op'[x] \notin Acquiring /\ His(c, val'[x])
                          /\ pc'[x] \notin Unlinking
    BY <1>1, <1>4, <2>2 DEF Writing, Unlinking
  <2>. QED BY <1>1, <2>2, <2>3 DEF Kept, His
<1>7. HoldersKeep'
  BY <1>1, <1>6 DEF HoldersKeep
<1>. QED BY <1>2, <1>5, <1>7 DEF Calm, CacheTrue, Handing

\* A lock just written is its holder's, and no other is within its timeout.
LEMMA AfterWriteCalm ==
    ASSUME Sound, Calm, History, NEW t \in Thread, AfterWrite(t)
    PROVE  Calm'
<1> DEFINE h == val[t].service
<1>1. /\ Only(t) /\ pc[t] = "written" /\ pc'[t] = "idle" /\ Written(t)
      /\ UNCHANGED <<now, pid, file, queue, faults>> /\ cache' = Cached(val[t])
  BY OnlyGoto DEF AfterWrite, Finish
<1>2. /\ val[t] \in Lock /\ val[t] \notin {Nothing, Torn}
      /\ op[t] \in Acquiring => h = t
      /\ op[t] # "update" => val[t].pid = pid
      /\ op[t] \in Acquiring \cup {"update", "renew"} /\ "update" \notin Acquiring
  BY <1>1, ConstantsAssumption DEF Sound, Threads, Fits, Writing, Lock, Acquiring
<1>3. ~disturbed' => val[t] = file
  BY <1>1 DEF Calm, Serial, History
<1>4. CASE op[t] = "update"
  <2>1. UNCHANGED holds /\ \A c \in holds' : since'[c] = since[c]
    BY <1>1, <1>2, <1>4 DEF Written, Sound, TypeOK
  <2>. QED BY <1>1, <1>2, <1>3, <1>4, <2>1, QuietStep DEF Writing, Unlinking
<1>5. CASE op[t] # "update"
  <2>1. /\ h \in Caller /\ \A c \in holds' : c # h => c \in holds /\ since'[c] = since[c]
        /\ h \in holds' => since'[h] = val[t].timestamp
    <3>1. h \in Caller /\ since \in [Caller -> Nat] /\ holds \subseteq Caller
      BY <1>2 DEF Lock, Sound, TypeOK
    <3>2. CASE op[t] \in Acquiring
      <4>1. holds' = holds \cup {h} /\ since' = [since EXCEPT ![h] = val[t].timestamp]
        BY <1>1, <1>2, <3>2 DEF Written
      <4>. QED BY <3>1, <4>1
    <3>3. CASE op[t] \notin Acquiring
      <4>1. /\ holds' = holds
            /\ since' = [c \in Caller |-> IF op[t] = "renew" /\ c \in holds /\ c = h
                                          THEN val[t].timestamp ELSE since[c]]
        BY <1>1, <3>3 DEF Written
      <4>. QED BY <1>2, <1>5, <3>1, <3>3, <4>1
    <3>. QED BY <3>2, <3>3
  <2>2. SUFFICES ASSUME ~disturbed' PROVE Calm'
    BY DEF Calm, Serial, HoldersKeep, CacheTrue, Handing
  <2>3. ~disturbed /\ \A x \in Thread : pc'[x] \in {"idle", "queued"}
    BY <1>1, <2>2, Alone DEF Calm, History
  <2>4. Serial'
    BY <2>3 DEF Serial, InFlight
  <2>5. ASSUME NEW c \in holds', now - since'[c] < LockTimeout PROVE Kept(c)'
    <3>1. c = h
      <4>1. ASSUME c # h PROVE FALSE
        <5>1. c \in holds /\ since'[c] = since[c]
          BY <2>1, <4>1
        <5>2. Kept(c)
          BY <2>3, <2>5, <5>1 DEF Calm, HoldersKeep
        <5>. QED BY <1>1, <4>1, <5>2 DEF Kept, Writing, His
      <4>. QED BY <4>1
    <3>2. since'[c] = val[t].timestamp /\ val[t].timestamp \in Nat /\ now \in Nat
      BY <1>2, <2>1, <2>5, <3>1 DEF Sound, TypeOK, Lock
    <3>3. file' = val[t] /\ cache' \in [lock : Lock, at : Nat] /\ cache'.lock = val[t]
      BY <1>1, <1>2, <1>3, <2>2, <3>2 DEF Cached
    <3>4. cache' # Nothing
      BY <3>3, ConstantsAssumption DEF Lock
    <3>5. His(c, file)' /\ His(c, cache.lock)'
      BY <1>1, <1>2, <1>5, <3>1, <3>2, <3>3 DEF His
    <3>. QED BY <2>3, <3>4, <3>5 DEF Kept, Writing, Unlinking
  <2>6. HoldersKeep'
    BY <1>1, <2>5 DEF HoldersKeep
  <2>7. file' # Nothing
    BY <1>1, <1>2, <1>3, <2>2
  <2>. QED BY <2>4, <2>6, <2>7 DEF Calm, CacheTrue, Handing
<1>. QED BY <1>4, <1>5

\* The unlink of release: operations that do not overlap still agree.
LEMMA UnlinkCalm ==
    ASSUME Sound, Calm, History, NEW t \in Thread, Unlink(t)
    PROVE  Calm'
<1>1. /\ Only(t) /\ pc[t] = "unlinking" /\ pc'[t] \in {"idle", "unlinked"}
      /\ file # Nothing => pc'[t] = "unlinked"
      /\ file' = Nothing /\ UNCHANGED <<now, pid, cache, queue, holds, since, faults>>
  BY OnlyGoto DEF Unlink, Finish, memory, callers
<1>2. op[t] = "release" /\ ~Hands(t)
  BY <1>1 DEF Sound, Threads, Fits, Unlinking, Hands, Acquiring
<1>3. SUFFICES ASSUME ~disturbed' PROVE Calm'
  BY DEF Calm, Serial, HoldersKeep, CacheTrue, Handing
<1>4. /\ ~disturbed
      /\ \A x \in Thread : x # t => pc[x] \in {"idle", "queued"} /\ pc'[x] \in {"idle", "queued"}
  BY <1>1, <1>3, Alone DEF Calm, History
<1>5. Serial'
  BY <1>1, <1>4 DEF Serial, InFlight
<1>6. HoldersKeep'
  <2>1. \A c \in holds' : since'[c] = since[c] /\ c \in holds /\ now' = now
    BY <1>1
  <2>2. \A c : ~Kept(c)
    BY <1>1 DEF Kept, Unlinking
  <2>. QED BY <1>4, <2>1, <2>2 DEF Calm, HoldersKeep
<1>7. CASE file # Nothing
  <2>1. pc'[t] = "unlinked" /\ Hands(t)'
    BY <1>1, <1>7 DEF Hands
  <2>. QED BY <1>5, <1>6, <2>1 DEF Calm, CacheTrue, Handing
<1>8. CASE file = Nothing
  <2>1. ~\E x \in Thread : Hands(x) \/ pc[x] = "unlinked"
    BY <1>1, <1>2, <1>4 DEF Hands
  <2>2. CacheTrue' /\ Handing'
    BY <1>1, <1>3, <1>4, <1>8, <2>1 DEF Calm, CacheTrue, Handing
  <2>. QED BY <1>5, <1>6, <2>2 DEF Calm
<1>. QED BY <1>7, <1>8

\* As long as operations do not overlap, nobody is being granted the lock when
\* a release comes to wake a waiter.
LEMMA NobodyGranted ==
    ASSUME Sound, NEW t \in Thread, pc[t] \in Unlinking,
           \A x \in Thread : x # t => pc[x] \in {"idle", "queued"}
    PROVE  ~granting
<1>1. \A x \in Thread : op[x] # "grant"
  BY DEF Sound, Threads, Fits
<1>. QED BY <1>1 DEF Sound, WaitersAccounted, Thread

\* A release wakes the first waiter.
LEMMA AfterUnlinkCalm ==
    ASSUME Sound, Calm, History, NEW t \in Thread, AfterUnlink(t)
    PROVE  Calm'
<1>1. /\ pc[t] = "unlinked" /\ cache' = Nothing
      /\ UNCHANGED <<now, pid, file, holds, since, faults>>
  BY DEF AfterUnlink, callers
<1>2. SUFFICES ASSUME ~disturbed' PROVE Calm'
  BY DEF Calm, Serial, HoldersKeep, CacheTrue, Handing
<1>3. ~disturbed /\ \A x, y \in Thread : x # y => ~({x, y} \subseteq InFlight')
  BY <1>2 DEF History
<1>4. \A x \in Thread : x # t => pc[x] \in {"idle", "queued"}
  BY <1>1, <1>3 DEF Calm, Serial, InFlight
<1>5. ~granting
  BY <1>1, <1>4, NobodyGranted DEF Unlinking
<1>6. \A x \in Thread : /\ pc'[x] = IF queue # <<>> /\ x = queue[1] THEN "reading"
                                    ELSE IF x = t THEN "idle" ELSE pc[x]
                        /\ op'[x] = IF queue # <<>> /\ x = queue[1] THEN "grant"
                                    ELSE IF x = t THEN "none" ELSE op[x]
  BY <1>5 DEF AfterUnlink, ProcessQueue
<1>7. Serial'
  <2>1. \A x, y \in InFlight' : x = y
    BY <1>3 DEF InFlight
  <2>2. \A x \in Thread : pc'[x] \notin {"read", "written"}
    BY <1>4, <1>6
  <2>. QED BY <2>1, <2>2 DEF Serial
<1>8. HoldersKeep'
  <2>1. \A c : ~Kept(c)
    BY <1>1 DEF Kept, Unlinking
  <2>. QED BY <1>1, <1>3, <2>1 DEF Calm, HoldersKeep
<1>9. Handing'
  <2>1. CASE queue = <<>>
    BY <1>5, <2>1 DEF AfterUnlink, ProcessQueue, Handing
  <2>2. CASE queue # <<>>
    <3>1. queue[1] \in Thread
      <4>1. Len(queue) \in Nat /\ Len(queue) # 0
        BY <2>2 DEF Sound, TypeOK
      <4>. QED BY <4>1 DEF Sound, TypeOK, Thread
    <3>2. PICK h \in Thread : h = queue[1]
      BY <3>1
    <3>3. pc'[h] = "reading" /\ op'[h] = "grant"
      BY <1>6, <2>2, <3>2
    <3>4. Hands(h)'
      BY <3>3 DEF Hands, Acquiring
    <3>. QED BY <3>4 DEF Handing
  <2>. QED BY <2>1, <2>2
<1>. QED BY <1>1, <1>7, <1>8, <1>9 DEF Calm, CacheTrue

\* A lock that is cleared is one that is being released, and nobody waits.
LEMMA ForceClearCalm ==
    ASSUME Sound, Calm, History, ForceClear
    PROVE  Calm'
<1>1. /\ file # Nothing /\ file' = Nothing /\ cache' = Nothing
      /\ UNCHANGED <<now, pid, val, holds, since, faults>> /\ Nothing \notin Thread
  BY ConstantsAssumption DEF ForceClear, ProcessQueue, callers, Thread
<1>2. SUFFICES ASSUME ~disturbed' PROVE Calm'
  BY DEF Calm, Serial, HoldersKeep, CacheTrue, Handing
<1>3. ~disturbed /\ \A x, y \in Thread : x # y => ~({x, y} \subseteq InFlight')
  BY <1>2 DEF History
<1>4. PICK t \in Thread : pc[t] = "unlinking"
  BY <1>1, <1>2 DEF History
<1>5. \A x \in Thread : x # t => pc[x] \in {"idle", "queued"}
  BY <1>3, <1>4 DEF Calm, Serial, InFlight
<1>6. ~granting
  BY <1>4, <1>5, NobodyGranted DEF Unlinking
<1>7. queue = <<>>
  <2>1. ASSUME queue # <<>> PROVE FALSE
    <3>1. 1 \in DOMAIN queue /\ queue[1] \in Caller
      <4>1. Len(queue) \in Nat /\ Len(queue) # 0 /\ queue \in Seq(Caller)
        BY <2>1 DEF Sound, TypeOK
      <4>. QED BY <4>1
    <3>2. queue[1] \in Thread /\ pc[queue[1]] = "queued"
      BY <3>1 DEF Sound, WaitersAccounted, Thread
    <3>3. pc'[queue[1]] = "reading" /\ pc'[t] = "unlinking" /\ t # queue[1]
      BY <1>1, <1>4, <1>6, <2>1, <3>2 DEF ForceClear, ProcessQueue
    <3>. QED BY <1>3, <1>4, <3>2, <3>3 DEF InFlight
  <2>. QED BY <2>1
<1>8. queue' = <<>> /\ \A x \in Thread : pc'[x] = pc[x]
  BY <1>1, <1>6, <1>7 DEF ForceClear, ProcessQueue
<1>9. Serial'
  BY <1>4, <1>5, <1>8 DEF Serial, InFlight
<1>10. HoldersKeep'
  <2>1. \A c : ~Kept(c)
    BY <1>4 DEF Kept, Unlinking
  <2>. QED BY <1>1, <1>3, <2>1 DEF Calm, HoldersKeep
<1>. QED BY <1>1, <1>8, <1>9, <1>10 DEF Calm, CacheTrue, Handing

\* A crash leaves no holder, and no thread in the middle of anything.
LEMMA CrashCalm ==
    ASSUME Sound, Crash
    PROVE  Calm'
<1>1. faults' # 0 /\ holds' = {} /\ \A t \in Thread : pc'[t] = "idle"
  BY DEF Crash, Sound, TypeOK
<1>. QED BY <1>1 DEF Calm, Serial, HoldersKeep, CacheTrue, Handing, InFlight

\* The clock: operations that do not overlap still agree.
LEMMA ClockCalm ==
    ASSUME Sound, Calm, History, ClockTicks
    PROVE  Calm'
<1>1. UNCHANGED <<pid, file, cache, queue, pc, op, val, holds, since, faults>> /\ (disturbed => disturbed')
  BY DEF ClockTicks, History, memory, threads, callers
<1>2. Serial' /\ CacheTrue' /\ Handing'
  BY <1>1 DEF Calm, Serial, CacheTrue, Handing, Hands, InFlight
<1>3. \A c : Kept(c)' <=> Kept(c)
  BY <1>1 DEF Kept, His
<1>4. \A c \in holds : now' - since[c] < LockTimeout => now - since[c] < LockTimeout
  BY ConstantsAssumption DEF Sound, TypeOK, ClockTicks
<1>5. HoldersKeep'
  BY <1>1, <1>3, <1>4 DEF Calm, HoldersKeep
<1>. QED BY <1>2, <1>5 DEF Calm

\* No step of operations that do not overlap breaks what they agree on.
LEMMA NextCalm ==
    ASSUME Sound, Calm, Next
    PROVE  Calm'
<1>1. Move /\ History
  BY DEF Next
<1>2. ASSUME NEW t \in Thread, FileStep(t) PROVE Calm'
  BY <1>1, <1>2, ReadFileCalm, ParseFailsCalm, AfterReadCalm, OpenFileCalm, WriteFileCalm,
     AfterWriteCalm, UnlinkCalm, AfterUnlinkCalm DEF FileStep
<1>. QED BY <1>1, <1>2, TickCalm, KeepAliveEndsCalm, CrashCalm, ForceClearCalm, ClockCalm,
            AcquireCalm, TimerCalm, ReleaseCalm, CheckCalm, TouchCalm, WriteFailsCalm DEF Move

-----------------------------------------------------------------------------
(* The order of the queue *)

\* c is before d in the queue q.
Ahead(q, c, d) == \E i, k \in DOMAIN q : i < k /\ q[i] = c /\ q[k] = d

\* No waiter overtakes another in this step.
InOrder == \A c, d \in Caller : Before(c, d) /\ {c, d} \subseteq Waiting' => Before(c, d)'

\* The order of a queue survives who joins it and who leaves it.
LEMMA AheadKept ==
    ASSUME NEW S, NEW q \in Seq(S), NEW c, NEW d, Ahead(q, c, d)
    PROVE  /\ \A w \in S : Ahead(Append(q, w), c, d) /\ Ahead(<<w>> \o q, c, d)
           /\ \A i \in DOMAIN q : q[i] # c /\ q[i] # d => Ahead(RemoveAt(q, i), c, d)
           /\ q[1] # c => Ahead(Tail(q), c, d)
<1>1. PICK j \in DOMAIN q, k \in DOMAIN q : j < k /\ q[j] = c /\ q[k] = d
  BY DEF Ahead
<1>2. DOMAIN q = 1 .. Len(q) /\ Len(q) \in Nat
  BY LenProperties
<1>3. ASSUME NEW w \in S PROVE Ahead(Append(q, w), c, d)
  <2>1. /\ Append(q, w) \in Seq(S) /\ Len(Append(q, w)) = Len(q) + 1
        /\ \A i \in 1 .. Len(q) : Append(q, w)[i] = q[i]
    OBVIOUS
  <2>2. DOMAIN Append(q, w) = 1 .. Len(q) + 1
    BY <2>1, LenProperties
  <2>. QED BY <1>1, <1>2, <2>1, <2>2 DEF Ahead
<1>4. ASSUME NEW w \in S PROVE Ahead(<<w>> \o q, c, d)
  <2> DEFINE r == <<w>> \o q
  <2>1. /\ r \in Seq(S) /\ Len(r) = Len(q) + 1
        /\ \A i \in 2 .. Len(q) + 1 : r[i] = q[i - 1]
    OBVIOUS
  <2>. HIDE DEF r
  <2>2. DOMAIN r = 1 .. Len(q) + 1
    BY <2>1, LenProperties
  <2>3. /\ j + 1 \in DOMAIN r /\ k + 1 \in DOMAIN r /\ j + 1 < k + 1
        /\ r[j + 1] = q[j] /\ r[k + 1] = q[k]
    BY <1>1, <1>2, <2>1, <2>2
  <2>4. Ahead(r, c, d)
    BY <1>1, <2>3 DEF Ahead
  <2>. QED BY <2>4 DEF r
<1>5. ASSUME NEW i \in DOMAIN q, NEW r, r = RemoveAt(q, i) \/ (i = 1 /\ r = Tail(q)), i # j, i # k
      PROVE  Ahead(r, c, d)
  <2>1. r \in Seq(S) /\ Len(r) = Len(q) - 1 /\ \A n \in 1 .. Len(q) - 1 : r[n] = IF n < i THEN q[n] ELSE q[n + 1]
    BY <1>5, TakenOutAt
  <2>2. DOMAIN r = 1 .. Len(q) - 1
    BY <1>2, <2>1, LenProperties
  <2> DEFINE at(n) == IF n < i THEN n ELSE n - 1
  <2>3. ASSUME NEW n \in DOMAIN q, n # i PROVE at(n) \in DOMAIN r /\ r[at(n)] = q[n]
    BY <1>2, <2>1, <2>2, <2>3
  <2>4. at(j) < at(k)
    BY <1>1, <1>2, <1>5
  <2>5. at(j) \in DOMAIN r /\ at(k) \in DOMAIN r /\ r[at(j)] = c /\ r[at(k)] = d
    BY <1>1, <1>5, <2>3
  <2>. HIDE DEF at
  <2>. QED BY <2>4, <2>5 DEF Ahead
<1>6. \A i \in DOMAIN q : q[i] # c /\ q[i] # d => Ahead(RemoveAt(q, i), c, d)
  BY <1>1, <1>5
<1>7. q[1] # c => Ahead(Tail(q), c, d)
  <2>1. 1 \in DOMAIN q /\ k # 1
    BY <1>1, <1>2
  <2>. QED BY <1>1, <1>5, <2>1
<1>. QED BY <1>3, <1>4, <1>6, <1>7

\* Who is in line, and where.
LEMMA InLineFacts ==
    ASSUME Sound
    PROVE  /\ queue \in Seq(Caller)
           /\ \A c, d \in Caller : Before(c, d) <=> /\ c # d /\ {c, d} \subseteq Waiting
                                                    /\ op[c] = "grant" \/ Ahead(queue, c, d)
           /\ \A c, d \in Caller : Ahead(queue, c, d) => pc[c] = "queued" /\ pc[d] = "queued"
           /\ \A c \in Caller : ~(pc[c] = "queued" /\ op[c] = "grant")
           /\ \A c, d \in Caller : op[c] = "grant" /\ op[d] = "grant" => c = d
<1>1. queue \in Seq(Caller) /\ \A c, d \in Caller : op[c] = "grant" /\ op[d] = "grant" => c = d
  BY DEF Sound, TypeOK, WaitersAccounted
<1>2. \A c, d \in Caller : Ahead(queue, c, d) => pc[c] = "queued" /\ pc[d] = "queued"
  BY QueueSound DEF Ahead, InLine
<1>3. \A c \in Caller : ~(pc[c] = "queued" /\ op[c] = "grant")
  BY DEF Sound, Threads, Fits, Thread
<1>. QED BY <1>1, <1>2, <1>3 DEF Before, Ahead

\* How the line is after the step.
LEMMA BeforeNext ==
    ASSUME NEW c \in Caller, NEW d \in Caller, c # d, {c, d} \subseteq Waiting',
           op'[c] = "grant" \/ Ahead(queue', c, d)
    PROVE  Before(c, d)'
BY DEF Before, Ahead

\* Only t's place in its operation changes.
OnlyStep(t) == \A x \in Thread : x # t => pc'[x] = pc[x] /\ op'[x] = op[x]

\* A thread that neither joins the queue nor is taken out of it by a grant.
LEMMA StaysInOrder ==
    ASSUME Sound, NEW t \in Thread, OnlyStep(t), queue' = queue,
           pc'[t] # "queued", op'[t] = "grant" => op[t] = "grant"
    PROVE  InOrder
<1>1. SUFFICES ASSUME NEW c \in Caller, NEW d \in Caller, Before(c, d), {c, d} \subseteq Waiting'
               PROVE  Before(c, d)'
  BY DEF InOrder
<1>2. c \in Thread /\ c # d /\ (op[c] = "grant" \/ Ahead(queue, c, d))
  BY <1>1, InLineFacts DEF Thread
<1>3. CASE op[c] = "grant"
  <2>1. pc[c] # "queued" /\ (pc'[c] = "queued" \/ op'[c] = "grant")
    BY <1>1, <1>3, InLineFacts DEF Waiting
  <2>2. op'[c] = "grant"
    BY <1>2, <1>3, <2>1 DEF OnlyStep
  <2>. QED BY <1>1, <1>2, <2>2, BeforeNext
<1>4. CASE Ahead(queue, c, d)
  BY <1>1, <1>2, <1>4, BeforeNext
<1>. QED BY <1>2, <1>3, <1>4

\* A caller joins at the end, or goes back to the head when its grant failed.
LEMMA JoinsInOrder ==
    ASSUME Sound, NEW t \in Caller, OnlyStep(t), pc[t] # "queued",
           \/ op[t] # "grant" /\ queue' = Append(queue, t)
           \/ op[t] = "grant" /\ queue' = <<t>> \o queue
    PROVE  InOrder
<1>1. SUFFICES ASSUME NEW c \in Caller, NEW d \in Caller, Before(c, d), {c, d} \subseteq Waiting'
               PROVE  Before(c, d)'
  BY DEF InOrder
<1>2. /\ c \in Thread /\ d \in Thread /\ c # d /\ {c, d} \subseteq Waiting
      /\ op[c] = "grant" \/ Ahead(queue, c, d)
  BY <1>1, InLineFacts DEF Thread
<1>3. CASE Ahead(queue, c, d)
  <2>1. queue \in Seq(Caller)
    BY InLineFacts
  <2>2. Ahead(Append(queue, t), c, d) /\ Ahead(<<t>> \o queue, c, d)
    BY <1>3, <2>1, AheadKept
  <2>3. Ahead(queue', c, d)
    BY <2>2, Zenon
  <2>. QED BY <1>1, <1>2, <2>3, BeforeNext
<1>4. CASE op[c] = "grant" /\ c # t
  <2>1. op'[c] = "grant"
    BY <1>2, <1>4 DEF OnlyStep
  <2>. QED BY <1>1, <1>2, <2>1, BeforeNext
<1>5. CASE op[c] = "grant" /\ c = t
  <2>1. queue' = <<t>> \o queue /\ pc[d] = "queued"
    BY <1>2, <1>5, InLineFacts DEF Waiting
  <2>2. PICK k \in DOMAIN queue : queue[k] = d
    BY <2>1, QueueSound DEF InLine
  <2>3. /\ queue' \in Seq(Caller) /\ Len(queue') = Len(queue) + 1 /\ Len(queue) \in Nat
        /\ queue'[1] = t /\ \A i \in 2 .. Len(queue) + 1 : queue'[i] = queue[i - 1]
    BY <2>1, InLineFacts
  <2>4. DOMAIN queue' = 1 .. Len(queue) + 1 /\ DOMAIN queue = 1 .. Len(queue)
    BY <2>3, InLineFacts, LenProperties
  <2>5. 1 \in DOMAIN queue' /\ k + 1 \in DOMAIN queue' /\ 1 < k + 1 /\ queue'[k + 1] = d
    BY <2>2, <2>3, <2>4
  <2>6. Ahead(queue', c, d)
    BY <1>5, <2>3, <2>5 DEF Ahead
  <2>. QED BY <1>1, <1>2, <2>6, BeforeNext
<1>. QED BY <1>2, <1>3, <1>4, <1>5

\* A waiter leaves the queue.
LEMMA LeavesInOrder ==
    ASSUME Sound, NEW t \in Caller, OnlyStep(t), pc'[t] # "queued", op'[t] # "grant",
           NEW i \in DOMAIN queue, queue[i] = t, queue' = RemoveAt(queue, i)
    PROVE  InOrder
<1>1. SUFFICES ASSUME NEW c \in Caller, NEW d \in Caller, Before(c, d), {c, d} \subseteq Waiting'
               PROVE  Before(c, d)'
  BY DEF InOrder
<1>2. /\ c \in Thread /\ c # d /\ c # t /\ d # t
      /\ op[c] = "grant" \/ Ahead(queue, c, d)
  BY <1>1, InLineFacts DEF Thread, Waiting
<1>3. CASE Ahead(queue, c, d)
  <2>1. Ahead(queue', c, d)
    BY <1>2, <1>3, InLineFacts, AheadKept
  <2>. QED BY <1>1, <1>2, <2>1, BeforeNext
<1>4. CASE op[c] = "grant"
  <2>1. op'[c] = "grant"
    BY <1>2, <1>4 DEF OnlyStep
  <2>. QED BY <1>1, <1>2, <2>1, BeforeNext
<1>. QED BY <1>2, <1>3, <1>4

\* _processQueue takes out who is first.
LEMMA WakesInOrder ==
    ASSUME Sound, NEW t, t \in Thread => pc[t] = "unlinked", ProcessQueue(t)
    PROVE  InOrder
<1>1. SUFFICES ASSUME NEW c \in Caller, NEW d \in Caller, Before(c, d), {c, d} \subseteq Waiting'
               PROVE  Before(c, d)'
  BY DEF InOrder
<1>2. /\ c \in Thread /\ d \in Thread /\ c # d
      /\ op[c] = "grant" \/ Ahead(queue, c, d)
  BY <1>1, InLineFacts DEF Thread
<1>3. op'[c] = IF ~granting /\ queue # <<>> /\ c = queue[1] THEN "grant"
               ELSE IF c = t THEN "none" ELSE op[c]
  BY <1>2 DEF ProcessQueue
<1>4. CASE op[c] = "grant"
  <2>1. c # t
    BY <1>2, <1>4 DEF Sound, Threads, Fits, Unlinking
  <2>2. op'[c] = "grant"
    BY <1>3, <1>4, <2>1
  <2>. QED BY <1>1, <1>2, <2>2, BeforeNext
<1>5. CASE Ahead(queue, c, d)
  <2>1. CASE granting \/ queue = <<>>
    <3>1. queue' = queue
      BY <2>1 DEF ProcessQueue
    <3>. QED BY <1>1, <1>2, <1>5, <3>1, BeforeNext
  <2>2. CASE ~granting /\ queue # <<>> /\ queue[1] = c
    <3>1. op'[c] = "grant"
      BY <1>3, <2>2
    <3>. QED BY <1>1, <1>2, <3>1, BeforeNext
  <2>3. CASE ~granting /\ queue # <<>> /\ queue[1] # c
    <3>1. queue' = Tail(queue)
      BY <2>3 DEF ProcessQueue
    <3>2. Ahead(queue', c, d)
      BY <1>5, <2>3, <3>1, InLineFacts, AheadKept
    <3>. QED BY <1>1, <1>2, <3>2, BeforeNext
  <2>. QED BY <2>1, <2>2, <2>3
<1>. QED BY <1>2, <1>4, <1>5

\* Where Goto takes t.
LEMMA GotoStep ==
    ASSUME Sound, NEW t \in Thread, NEW step, NEW o, NEW lock, Goto(t, step, o, lock)
    PROVE  OnlyStep(t) /\ pc'[t] = step /\ op'[t] = o
BY DEF Goto, OnlyStep, Sound, TypeOK

\* acquire resolves false: a waiter whose grant failed is first again.
LEMMA LoseInOrder ==
    ASSUME Sound, NEW t \in Caller, NEW o \in Acquiring, pc[t] # "queued",
           o = op[t] \/ (o = "acquire" /\ op[t] = "none"), Lose(t, o)
    PROVE  InOrder
<1>1. t \in Thread
  BY DEF Thread
<1>2. CASE o = "grant" /\ armed[t]
  <2>1. OnlyStep(t) /\ op[t] = "grant" /\ queue' = <<t>> \o queue
    BY <1>1, <1>2, GotoStep DEF Lose
  <2>. QED BY <2>1, JoinsInOrder
<1>3. CASE ~(o = "grant" /\ armed[t])
  <2>1. OnlyStep(t) /\ pc'[t] = "idle" /\ op'[t] = "none" /\ queue' = queue
    BY <1>1, <1>3, GotoStep DEF Lose, Finish
  <2>. QED BY <1>1, <2>1, StaysInOrder
<1>. QED BY <1>2, <1>3

\* acquire, when it has the lock on record: who waits is last.
LEMMA DecideInOrder ==
    ASSUME Sound, NEW t \in Caller, NEW o \in Acquiring, NEW lock, pc[t] # "queued",
           o = op[t] \/ (o = "acquire" /\ op[t] = "none"), Decide(t, o, lock)
    PROVE  InOrder
<1>1. t \in Thread
  BY DEF Thread
<1>2. CASE Lose(t, o)
  BY <1>2, LoseInOrder
<1>3. CASE o = "acquire" /\ Enqueue(t)
  <2>1. OnlyStep(t) /\ op[t] # "grant" /\ queue' = Append(queue, t)
    BY <1>1, <1>3, GotoStep DEF Enqueue
  <2>. QED BY <2>1, JoinsInOrder
<1>4. CASE StartWrite(t, o, NewLock(t)) /\ queue' = queue
  <2>1. OnlyStep(t) /\ pc'[t] = "opening" /\ op'[t] = o
    BY <1>1, <1>4, GotoStep DEF StartWrite
  <2>. QED BY <1>1, <1>4, <2>1, StaysInOrder
<1>. QED BY <1>2, <1>3, <1>4 DEF Decide

\* updateLockInfo and renew do not touch the queue.
LEMMA RewriteInOrder ==
    ASSUME Sound, NEW t \in Thread, NEW o \in {"update", "renew"}, NEW s, NEW lock,
           Rewrite(t, o, s, lock), queue' = queue
    PROVE  InOrder
<1>1. OnlyStep(t) /\ pc'[t] \in {"idle", "opening"} /\ op'[t] \in {"none", "update", "renew"}
  BY GotoStep DEF Rewrite, StartWrite, Finish
<1>. QED BY <1>1, StaysInOrder

\* Calls, and the timer of a waiter.
LEMMA CallsInOrder ==
    ASSUME Sound, NEW t \in Caller,
           \/ Acquire(t) \/ TimerFires(t) \/ Release(t) \/ Check(t)
           \/ \E o \in {"update", "renew"} : Touch(t, o)
    PROVE  InOrder
<1>1. t \in Thread /\ (pc[t] = "idle" => op[t] = "none")
  BY DEF Thread, Sound, Threads, Fits
<1>2. CASE Acquire(t)
  <2>1. CASE CacheHit
    BY <1>1, <1>2, <2>1, DecideInOrder DEF Acquire, Acquiring
  <2>2. CASE ~CacheHit
    <3>1. OnlyStep(t) /\ pc'[t] = "reading" /\ op'[t] = "acquire" /\ queue' = queue
      BY <1>1, <1>2, <2>2, GotoStep DEF Acquire, StartRead
    <3>. QED BY <1>1, <3>1, StaysInOrder
  <2>. QED BY <2>1, <2>2
<1>3. CASE TimerFires(t)
  <2>1. CASE pc[t] = "queued"
    <3>1. PICK i \in DOMAIN queue : queue[i] = t /\ queue' = RemoveAt(queue, i)
      BY <1>3, <2>1 DEF TimerFires
    <3>2. OnlyStep(t) /\ pc'[t] \in {"idle", "reading", "opening"} /\ op'[t] \in {"none", "last"}
      BY <1>1, <1>3, <2>1, GotoStep DEF TimerFires, StartRead, StartWrite, Finish
    <3>. QED BY <3>1, <3>2, LeavesInOrder
  <2>2. CASE pc[t] # "queued"
    <3>1. OnlyStep(t) /\ pc'[t] = pc[t] /\ op'[t] = op[t] /\ queue' = queue
      BY <1>3, <2>2 DEF TimerFires, threads, OnlyStep
    <3>. QED BY <1>1, <2>2, <3>1, StaysInOrder
  <2>. QED BY <2>1, <2>2
<1>4. CASE Release(t) \/ Check(t)
  <2>1. /\ OnlyStep(t) /\ queue' = queue
        /\ pc'[t] \in {"idle", "reading", "unlinking"} /\ op'[t] \in {"none", "release", "check"}
    <3>1. CASE StartRead(t, "release") \/ StartRead(t, "check") \/ StartUnlink(t)
      BY <1>1, <1>4, <3>1, GotoStep DEF Release, Check, memory, StartRead, StartUnlink
    <3>2. CASE UNCHANGED threads
      BY <1>1, <1>4, <3>2 DEF Release, Check, memory, threads, OnlyStep
    <3>. QED BY <1>4, <3>1, <3>2 DEF Release, Check
  <2>. QED BY <1>1, <2>1, StaysInOrder
<1>5. CASE \E o \in {"update", "renew"} : Touch(t, o)
  <2>1. PICK o \in {"update", "renew"} : Touch(t, o)
    BY <1>5
  <2>2. CASE CacheHit
    BY <1>1, <2>1, <2>2, RewriteInOrder DEF Touch
  <2>3. CASE ~CacheHit
    <3>1. OnlyStep(t) /\ pc'[t] = "reading" /\ op'[t] = o /\ queue' = queue
      BY <1>1, <2>1, <2>3, GotoStep DEF Touch, StartRead
    <3>. QED BY <1>1, <2>1, <3>1, StaysInOrder
  <2>. QED BY <2>2, <2>3
<1>. QED BY <1>2, <1>3, <1>4, <1>5

\* The two halves of a file operation.
LEMMA FileInOrder ==
    ASSUME Sound, NEW t \in Thread, FileStep(t) \/ WriteFails(t)
    PROVE  InOrder
<1>1. op[t] \in Acquiring => t \in Caller /\ pc[t] # "queued"
  BY Acquirer DEF Sound, Threads, Fits, Acquiring
<1>2. CASE ReadFile(t) \/ OpenFile(t) \/ WriteFile(t)
  <2>1. OnlyStep(t) /\ pc'[t] # "queued" /\ op'[t] = op[t] /\ queue' = queue
    BY <1>2, GotoStep DEF ReadFile, OpenFile, WriteFile, memory
  <2>. QED BY <2>1, StaysInOrder
<1>3. CASE ParseFails(t) \/ WriteFails(t)
  <2>1. CASE op[t] \in Acquiring
    BY <1>1, <1>3, <2>1, LoseInOrder DEF ParseFails, WriteFails
  <2>2. CASE op[t] \notin Acquiring
    <3>1. OnlyStep(t) /\ pc'[t] = "idle" /\ op'[t] = "none" /\ queue' = queue
      BY <1>3, <2>2, GotoStep DEF ParseFails, WriteFails, Finish
    <3>. QED BY <3>1, StaysInOrder
  <2>. QED BY <2>1, <2>2
<1>4. CASE AfterRead(t)
  <2>1. CASE op[t] \in Acquiring
    <3>1. Decide(t, op[t], val[t])
      BY <1>4, <2>1 DEF AfterRead, Acquiring
    <3>. QED BY <1>1, <2>1, <3>1, DecideInOrder
  <2>2. CASE op[t] \in {"update", "renew"}
    <3>1. queue' = queue /\ \E s : Rewrite(t, op[t], s, val[t])
      BY <1>4, <2>2 DEF AfterRead, Acquiring
    <3>. QED BY <2>2, <3>1, RewriteInOrder
  <2>3. CASE op[t] \in {"release", "check"}
    <3>1. (StartUnlink(t) \/ Finish(t)) /\ queue' = queue
      BY <1>4, <2>3 DEF AfterRead, Acquiring
    <3>2. OnlyStep(t) /\ pc'[t] \in {"idle", "unlinking"} /\ op'[t] \in {"none", "release"}
      BY <3>1, GotoStep DEF StartUnlink, Finish
    <3>. QED BY <3>1, <3>2, StaysInOrder
  <2>. QED BY <1>4, <2>1, <2>2, <2>3 DEF AfterRead, Acquiring
<1>5. CASE AfterWrite(t) \/ Unlink(t)
  <2>1. OnlyStep(t) /\ pc'[t] \in {"idle", "unlinked"} /\ op'[t] \in {"none", op[t]} /\ queue' = queue
    BY <1>5, GotoStep DEF AfterWrite, Unlink, Finish, memory
  <2>. QED BY <2>1, StaysInOrder
<1>6. CASE AfterUnlink(t)
  BY <1>6, WakesInOrder DEF AfterUnlink
<1>. QED BY <1>2, <1>3, <1>4, <1>5, <1>6 DEF FileStep

\* Timers, failures, the operator and the clock.
LEMMA RestInOrder ==
    ASSUME Sound, Tick \/ KeepAliveEnds \/ Crash \/ ForceClear \/ ClockTicks
    PROVE  InOrder
<1>1. Interval \in Thread /\ pc[Interval] # "queued"
  <2>1. Interval \in Thread
    BY DEF Thread
  <2>. QED BY <2>1 DEF Sound, Threads, Fits
<1>2. CASE Tick
  <2>1. CASE CacheHit
    BY <1>1, <1>2, <2>1, RewriteInOrder DEF Tick
  <2>2. CASE ~CacheHit
    <3>1. OnlyStep(Interval) /\ pc'[Interval] = "reading" /\ op'[Interval] = "renew" /\ queue' = queue
      BY <1>1, <1>2, <2>2, GotoStep DEF Tick, StartRead
    <3>. QED BY <1>1, <3>1, StaysInOrder
  <2>. QED BY <2>1, <2>2
<1>3. CASE KeepAliveEnds \/ ClockTicks
  <2>1. UNCHANGED <<pc, op, queue>>
    BY <1>3 DEF KeepAliveEnds, ClockTicks, threads, memory
  <2>2. OnlyStep(Interval) /\ pc'[Interval] # "queued" /\ op'[Interval] = op[Interval]
    BY <1>1, <2>1 DEF OnlyStep
  <2>. QED BY <1>1, <2>1, <2>2, StaysInOrder
<1>4. CASE Crash
  <2>1. \A c \in Caller : pc'[c] = "idle" /\ op'[c] = "none"
    BY <1>4 DEF Crash, Thread
  <2>. QED BY <2>1 DEF InOrder, Waiting
<1>5. CASE ForceClear
  <2>1. ProcessQueue(Nothing) /\ Nothing \notin Thread
    BY <1>5, ConstantsAssumption DEF ForceClear, Thread
  <2>. QED BY <2>1, WakesInOrder
<1>. QED BY <1>2, <1>3, <1>4, <1>5

-----------------------------------------------------------------------------
(* The theorems *)

\* The invariant holds at the start.
LEMMA InitIInv ==
    ASSUME Init
    PROVE  IInv
<1>1. TypeOK
  <2>1. /\ now \in 0 .. MaxTime /\ faults \in 0 .. MaxFaults /\ queue \in Seq(Caller)
    BY ConstantsAssumption DEF Init
  <2>2. /\ pc \in [Thread -> Steps] /\ op \in [Thread -> Ops]
        /\ val \in [Thread -> Lock \cup {Nothing, Torn}]
    BY DEF Init, Steps, Ops
  <2>3. armed \in [Caller -> BOOLEAN] /\ since \in [Caller -> Nat] /\ holds \in SUBSET Caller
    BY DEF Init
  <2>4. /\ pid \in Nat \ {0} /\ file \in Lock \cup {Nothing, Torn}
        /\ cache \in [lock : Lock, at : Nat] \cup {Nothing}
        /\ keepAlive \in Caller \cup {Nothing} /\ ticking \in Caller \cup {Nothing}
    BY DEF Init
  <2>5. granting \in BOOLEAN /\ disturbed \in BOOLEAN
    BY DEF Init
  <2>. QED BY <2>1, <2>2, <2>3, <2>4, <2>5 DEF TypeOK, Steps, Ops
<1>2. Threads
  BY DEF Init, Threads, Fits, Writing, Unlinking
<1>3. WaitersAccounted
  BY DEF Init, WaitersAccounted, Thread
<1>4. Calm
  BY DEF Init, Calm, Serial, HoldersKeep, CacheTrue, Handing, InFlight
<1>. QED BY <1>1, <1>2, <1>3, <1>4 DEF IInv, Sound

\* Every step keeps the invariant.
LEMMA NextIInv ==
    ASSUME IInv, [Next]_vars
    PROVE  IInv'
<1>1. CASE Next
  BY <1>1, NextSound, NextCalm DEF IInv
<1>2. CASE UNCHANGED vars
  <2>1. UNCHANGED <<now, pid, file, cache, queue, granting, keepAlive, ticking, pc, op, val, armed,
                    holds, since, disturbed, faults>>
    BY <1>2 DEF vars, memory, threads, callers
  <2>2. TypeOK'
    BY <2>1 DEF IInv, Sound, TypeOK
  <2>3. Threads' /\ WaitersAccounted'
    BY <2>1 DEF IInv, Sound, Threads, Fits, WaitersAccounted
  <2>4. Calm'
    BY <2>1, CalmKept DEF IInv
  <2>. QED BY <2>2, <2>3, <2>4 DEF IInv, Sound
<1>. QED BY <1>1, <1>2

\* The inductive invariant holds in every state.
THEOREM Invariance == Spec => []IInv
<1>1. Init => IInv
  BY InitIInv
<1>2. IInv /\ [Next]_vars => IInv'
  BY NextIInv
<1>. QED BY <1>1, <1>2, PTL DEF Spec

\* Every variable has its type, whatever the callers, timeouts and faults.
THEOREM TypeCorrect == Spec => []TypeOK
<1>1. IInv => TypeOK
  BY DEF IInv, Sound
<1>. QED BY <1>1, Invariance, PTL

\* The wait queue, the grant under way and the waiters' timers never lose or
\* double a waiter (_enqueueWaiter and _processQueue), however operations
\* overlap, writes fail and the process restarts.
THEOREM NoWaiterLost == Spec => []WaitersAccounted
<1>1. IInv => WaitersAccounted
  BY DEF IInv, Sound
<1>. QED BY <1>1, Invariance, PTL

\* acquire excludes: while operations have not overlapped, the file and the
\* cached copy keep a holder's lock for its timeout, counted from its last
\* renewal (renew, the keep-alive), and no second acquire resolves true -
\* across expiries, restarts and torn writes.
THEOREM Exclusion == Spec => []ExcludesWhenSerial
<1>1. IInv => ExcludesWhenSerial
  <2>1. SUFFICES ASSUME IInv, ~disturbed, NEW c \in holds, NEW d \in holds, c # d
                 PROVE  \E h \in {c, d} : now - since[h] >= LockTimeout
    BY DEF ExcludesWhenSerial
  <2>2. now - since[c] < LockTimeout => His(c, cache.lock)
    BY <2>1 DEF IInv, Calm, HoldersKeep, Kept
  <2>3. now - since[d] < LockTimeout => His(d, cache.lock)
    BY <2>1 DEF IInv, Calm, HoldersKeep, Kept
  <2>4. /\ now \in Nat /\ since[c] \in Nat /\ since[d] \in Nat /\ LockTimeout \in Nat
    BY <2>1, ConstantsAssumption DEF IInv, Sound, TypeOK
  <2>. QED BY <2>1, <2>2, <2>3, <2>4 DEF His
<1>. QED BY <1>1, Invariance, PTL

\* release hands the lock on: while operations have not overlapped and no write
\* has failed, nobody waits for a lock that is free and that nobody is taking.
THEOREM HandsOn == Spec => []HandedOn
<1>1. IInv => HandedOn
  <2>1. SUFFICES ASSUME IInv, ~disturbed, faults = 0, InFlight = {}, queue # <<>>, file = Nothing
                 PROVE  FALSE
    BY DEF HandedOn
  <2>2. PICK t \in Thread : Hands(t)
    BY <2>1 DEF IInv, Calm, Handing
  <2>3. t \in InFlight
    BY <2>2 DEF Hands, InFlight
  <2>. QED BY <2>1, <2>3
<1>. QED BY <1>1, Invariance, PTL
\* The wait queue is first come, first served: however operations overlap, no
\* waiter overtakes another - the one whose grant failed goes back in front.
THEOREM FirstComeFirstServed == Spec => NoOvertaking
<1>1. IInv /\ [Next]_vars
        => [\A c, d \in Caller : Before(c, d) /\ {c, d} \subseteq Waiting' => Before(c, d)']_vars
  <2>1. SUFFICES ASSUME IInv, Next PROVE InOrder
    BY DEF InOrder
  <2>2. Sound /\ Move
    BY <2>1 DEF IInv, Next
  <2>. QED BY <2>2, CallsInOrder, FileInOrder, RestInOrder DEF Move
<1>. QED BY <1>1, Invariance, PTL DEF Spec, NoOvertaking

=============================================================================
