----------------------------- MODULE SelfModLock -----------------------------
(***************************************************************************)
(* services/selfModLock.js: the lock file that keeps self-modification,    *)
(* plugin development, bug fixing and deployment apart.                    *)
(*                                                                         *)
(* One process at a time runs (a restart gives it a new pid); what it      *)
(* keeps in memory - the node-cache copy of the lock, the wait queue, the  *)
(* keep-alive timer - a crash loses, and the file it leaves behind.  Every *)
(* operation is an async function: it is cut at each file operation into   *)
(* the moment the file is touched and the moment the function goes on, and *)
(* other operations run in between.                                        *)
(***************************************************************************)
EXTENDS Integers, Sequences, FiniteSets, SequencesExt

CONSTANTS
    Caller,         \* the services; one call at a time of each
    Waits,          \* the callers that pass options.wait
    KeepsAlive,     \* the callers that pass options.keepAlive
    Extras,         \* the operations in use besides acquire and release
    Interval,       \* the thread of the keep-alive interval
    Nothing,        \* no lock file; an empty cache; no keep-alive
    Torn,           \* a file that JSON.parse refuses: truncated, not yet written
    LockTimeout,    \* lockTimeout, in ticks
    CacheTTL,       \* stdTTL of the cache, in ticks
    MaxTime,        \* bound: the clock stops here
    MaxFaults       \* bound: crashes and failed writes, together

ASSUME ConstantsAssumption ==
    /\ Waits \subseteq Caller /\ KeepsAlive \subseteq Caller
    /\ Extras \subseteq {"check", "update", "renew", "forceClear"}
    /\ LockTimeout \in Nat \ {0} /\ CacheTTL \in Nat
    /\ MaxTime \in Nat /\ MaxFaults \in Nat
    /\ Interval \notin Caller
    /\ Nothing # Torn /\ {Nothing, Torn} \cap (Caller \cup {Interval}) = {}
    /\ {Nothing, Torn} \cap [service : Caller, pid : Nat, timestamp : Nat] = {}
    /\ Nothing \notin [lock : [service : Caller, pid : Nat, timestamp : Nat], at : Nat]

Thread == Caller \cup {Interval}
Lock   == [service : Caller, pid : Nat, timestamp : Nat]

VARIABLES
    now,        \* the clock
    pid,        \* pid of the running process
    file,       \* the lock file
    cache,      \* the cached lock and when it was cached, or Nothing
    queue,      \* _waitQueue
    granting,   \* _processingQueue
    keepAlive,  \* the service the keep-alive interval renews for, or Nothing
    ticking,    \* the service that the last tick of an interval renewed for
    pc,         \* pc[t]: the next step of thread t
    op,         \* op[t]: the operation it is in
    val,        \* val[t]: the lock it has read, or is about to write
    armed,      \* armed[c]: the waiter timer of c has neither fired nor been cleared
    holds,      \* callers whose acquire resolved true and who have not released
    since,      \* since[c]: when c acquired the lock it holds, or last renewed it
    disturbed,  \* two operations overlapped, or the lock was cleared (history)
    faults

memory  == <<cache, queue, granting, keepAlive>>
threads == <<pc, op, val>>
callers == <<armed, holds, since>>
vars    == <<now, pid, file, memory, ticking, threads, callers, disturbed, faults>>

Init ==
    /\ now = 0 /\ pid = 1 /\ file = Nothing
    /\ cache = Nothing /\ queue = <<>> /\ granting = FALSE /\ keepAlive = Nothing /\ ticking = Nothing
    /\ pc = [t \in Thread |-> "idle"] /\ op = [t \in Thread |-> "none"]
    /\ val = [t \in Thread |-> Nothing] /\ armed = [c \in Caller |-> FALSE]
    /\ holds = {} /\ since = [c \in Caller |-> 0]
    /\ disturbed = FALSE /\ faults = 0

-----------------------------------------------------------------------------
(* Helpers.                                                                  *)

NewLock(c) == [service |-> c, pid |-> pid, timestamp |-> now]

\* The lock's process is alive and its timeout has not passed.
Valid(lock) == lock.pid = pid /\ now - lock.timestamp < LockTimeout

CacheHit == cache # Nothing /\ now - cache.at <= CacheTTL
Cached(lock) == [lock |-> lock, at |-> now]

\* Mutant: getCachedLock caches what it read even when there was no lock.
CacheAlways(lock) == Cached(lock)

\* What getCachedLock leaves in the cache after a read.
CacheAfterRead(lock) == IF lock = Nothing THEN cache ELSE Cached(lock)

\* Threads in the middle of a file operation.
InFlight == {t \in Thread : pc[t] \notin {"idle", "queued"}}

Acquiring == {"acquire", "grant", "last"}

\* The waiters in line: the one being granted the lock, then the queue.
Waiting == {c \in Caller : pc[c] = "queued" \/ op[c] = "grant"}

\* Thread t goes on to a step of operation o, with a lock in hand or Nothing.
Goto(t, step, o, lock) ==
    /\ pc' = [pc EXCEPT ![t] = step]
    /\ op' = [op EXCEPT ![t] = o]
    /\ val' = [val EXCEPT ![t] = lock]

Finish(t)              == Goto(t, "idle", "none", Nothing)
StartRead(t, o)        == Goto(t, "reading", o, Nothing)
StartUnlink(t)         == Goto(t, "unlinking", "release", Nothing)
StartWrite(t, o, lock) == Goto(t, "opening", o, lock)

-----------------------------------------------------------------------------
(* Parts of the operations that follow getCachedLock.                        *)

\* Mutant: a waiter that lost goes to the end of the queue.
LoseToTheTail(c, o) ==
    /\ IF o = "grant" /\ armed[c]
       THEN Goto(c, "queued", "wait", Nothing) /\ queue' = Append(queue, c)
       ELSE Finish(c) /\ UNCHANGED queue
    /\ granting' = (granting /\ o # "grant")
    /\ UNCHANGED armed

\* Mutant: a waiter that lost waits on although its timer has fired.
LoseForgetsTimer(c, o) ==
    /\ IF o = "grant"
       THEN Goto(c, "queued", "wait", Nothing) /\ queue' = <<c>> \o queue
       ELSE Finish(c) /\ UNCHANGED queue
    /\ granting' = (granting /\ o # "grant")
    /\ UNCHANGED armed

\* acquire resolves false.  A waiter that was being granted the lock goes back
\* to the head of the queue while its timer runs, and gives up otherwise.
Lose(c, o) ==
    /\ IF o = "grant" /\ armed[c]
       THEN Goto(c, "queued", "wait", Nothing) /\ queue' = <<c>> \o queue
       ELSE Finish(c) /\ UNCHANGED queue
    /\ granting' = (granting /\ o # "grant")
    /\ UNCHANGED armed

\* _enqueueWaiter.
Enqueue(c) ==
    /\ Goto(c, "queued", "wait", Nothing)
    /\ queue' = Append(queue, c)
    /\ armed' = [armed EXCEPT ![c] = TRUE]
    /\ UNCHANGED granting

\* acquire, once it has the lock that is on record (or Nothing).
Decide(c, o, lock) ==
    IF lock # Nothing /\ Valid(lock)
    THEN IF o = "acquire" /\ c \in Waits THEN Enqueue(c) ELSE Lose(c, o)
    ELSE StartWrite(c, o, NewLock(c)) /\ UNCHANGED <<queue, granting, armed>>

\* The keep-alive interval stops when its renewal fails, whichever service it
\* is running for by then.
StopIfTick(t) == keepAlive' = IF t = Interval THEN Nothing ELSE keepAlive

\* updateLockInfo and renew, for service s, write the lock on record back when
\* s is its holder; renew also asks that its process is alive, and dates it anew.
Rewrite(t, o, s, lock) ==
    IF /\ lock # Nothing /\ lock.service = s
       /\ o = "renew" => lock.pid = pid
    THEN /\ StartWrite(t, o, IF o = "renew" THEN [lock EXCEPT !.timestamp = now] ELSE lock)
         /\ UNCHANGED keepAlive
    ELSE Finish(t) /\ StopIfTick(t)

-----------------------------------------------------------------------------
(* Operations: what a call does before it first touches the file.            *)

Acquire(c) ==
    /\ pc[c] = "idle" /\ c \notin holds
    /\ IF CacheHit THEN Decide(c, "acquire", cache.lock)
       ELSE StartRead(c, "acquire") /\ UNCHANGED <<queue, granting, armed>>
    /\ UNCHANGED <<now, pid, file, cache, keepAlive, ticking, holds, since, faults>>

\* The waiter's timer fires: out of the queue, one last acquire - unless
\* _processQueue has it.
TimerFires(c) ==
    /\ armed[c]
    /\ \/ /\ pc[c] = "queued"
          /\ \E i \in DOMAIN queue : queue[i] = c /\ queue' = RemoveAt(queue, i)
          /\ IF ~CacheHit THEN StartRead(c, "last")
             ELSE IF Valid(cache.lock) THEN Finish(c) ELSE StartWrite(c, "last", NewLock(c))
       \/ /\ pc[c] # "queued"
          /\ UNCHANGED <<queue, threads>>
    /\ armed' = [armed EXCEPT ![c] = FALSE]
    /\ UNCHANGED <<now, pid, file, cache, granting, keepAlive, ticking, holds, since, faults>>

Release(c) ==
    /\ pc[c] = "idle" /\ c \in holds
    /\ holds' = holds \ {c} /\ since' = [since EXCEPT ![c] = 0]
    /\ IF ~CacheHit THEN StartRead(c, "release")
       ELSE IF cache.lock.service = c THEN StartUnlink(c) ELSE UNCHANGED threads
    /\ UNCHANGED <<now, pid, file, memory, ticking, armed, faults>>

\* updateLockInfo and renew, by a caller that holds the lock (or did).
Touch(c, o) ==
    /\ o \in Extras
    /\ pc[c] = "idle" /\ c \in holds
    /\ IF CacheHit THEN Rewrite(c, o, c, cache.lock) ELSE StartRead(c, o) /\ UNCHANGED keepAlive
    /\ UNCHANGED <<now, pid, file, cache, queue, granting, ticking, callers, faults>>

\* check: what it reads goes to the cache; from the cache it changes nothing.
Check(c) ==
    /\ "check" \in Extras
    /\ pc[c] = "idle" /\ ~CacheHit
    /\ StartRead(c, "check")
    /\ UNCHANGED <<now, pid, file, memory, ticking, callers, faults>>

\* A tick of the keep-alive interval: renew(service).
Tick ==
    /\ keepAlive # Nothing /\ pc[Interval] = "idle"
    /\ ticking' = keepAlive
    /\ IF CacheHit THEN Rewrite(Interval, "renew", keepAlive, cache.lock)
       ELSE StartRead(Interval, "renew") /\ UNCHANGED keepAlive
    /\ UNCHANGED <<now, pid, file, cache, queue, granting, callers, faults>>

\* maxDurationMs has passed.
KeepAliveEnds ==
    /\ keepAlive # Nothing
    /\ keepAlive' = Nothing
    /\ UNCHANGED <<now, pid, file, cache, queue, granting, ticking, threads, callers, faults>>

-----------------------------------------------------------------------------
(* File operations, each cut in two: the file is touched, the code goes on.  *)

ReadFile(t) ==
    /\ pc[t] = "reading"
    /\ Goto(t, "read", op[t], file)
    /\ UNCHANGED <<now, pid, file, memory, ticking, callers, faults>>

\* The rest of getCachedLock: JSON.parse of a torn file throws, and the
\* operation that asked ends; a lock goes to the cache, and the operation on.
ParseFails(t) ==
    /\ pc[t] = "read" /\ val[t] = Torn
    /\ IF op[t] \in Acquiring THEN Lose(t, op[t]) /\ UNCHANGED keepAlive
       ELSE Finish(t) /\ StopIfTick(t) /\ UNCHANGED <<queue, granting, armed>>
    /\ UNCHANGED <<now, pid, file, cache, ticking, holds, since, faults>>

AfterRead(t) ==
    /\ pc[t] = "read" /\ val[t] # Torn
    /\ cache' = CacheAfterRead(val[t])
    /\ \/ /\ op[t] \in Acquiring
          /\ Decide(t, op[t], val[t])
          /\ UNCHANGED keepAlive
       \/ /\ op[t] \in {"update", "renew"}
          /\ Rewrite(t, op[t], IF t = Interval THEN ticking ELSE t, val[t])
          /\ UNCHANGED <<queue, granting, armed>>
       \/ /\ op[t] = "release"
          /\ IF val[t] # Nothing /\ val[t].service = t THEN StartUnlink(t) ELSE Finish(t)
          /\ UNCHANGED <<queue, granting, armed, keepAlive>>
       \/ /\ op[t] = "check"
          /\ Finish(t)
          /\ UNCHANGED <<queue, granting, armed, keepAlive>>
    /\ UNCHANGED <<now, pid, file, ticking, holds, since, faults>>

\* writeFile opens the file and truncates it, then writes it.
OpenFile(t) ==
    /\ pc[t] = "opening"
    /\ file' = Torn
    /\ Goto(t, "writing", op[t], val[t])
    /\ UNCHANGED <<now, pid, memory, ticking, callers, faults>>

WriteFile(t) ==
    /\ pc[t] = "writing"
    /\ file' = val[t]
    /\ Goto(t, "written", op[t], val[t])
    /\ UNCHANGED <<now, pid, memory, ticking, callers, faults>>

\* What follows a write: an acquire resolves true; a renewal extends the hold
\* of the lock's service.
Written(t) ==
    \/ /\ op[t] \in Acquiring
       /\ holds' = holds \cup {t}
       /\ since' = [since EXCEPT ![t] = val[t].timestamp]
       /\ armed' = [armed EXCEPT ![t] = FALSE]
       /\ granting' = (granting /\ op[t] # "grant")
       /\ keepAlive' = IF t \in KeepsAlive THEN t ELSE keepAlive
    \/ /\ op[t] \notin Acquiring
       /\ since' = [c \in Caller |-> IF op[t] = "renew" /\ c \in holds /\ c = val[t].service
                                     THEN val[t].timestamp ELSE since[c]]
       /\ UNCHANGED <<holds, armed, granting, keepAlive>>

\* Mutant: a renewal leaves the old lock in the cache.
AfterWriteUncached(t) ==
    /\ pc[t] = "written"
    /\ cache' = IF op[t] = "renew" THEN cache ELSE Cached(val[t])
    /\ Finish(t)
    /\ Written(t)
    /\ UNCHANGED <<now, pid, file, queue, ticking, faults>>

\* After a write the lock is cached.
AfterWrite(t) ==
    /\ pc[t] = "written"
    /\ cache' = Cached(val[t])
    /\ Finish(t)
    /\ Written(t)
    /\ UNCHANGED <<now, pid, file, queue, ticking, faults>>

\* unlink of a file that is not there throws ENOENT: release ends without a
\* word, and without clearing the cache or waking anyone.
Unlink(t) ==
    /\ pc[t] = "unlinking"
    /\ IF file = Nothing THEN Finish(t) ELSE Goto(t, "unlinked", op[t], Nothing)
    /\ file' = Nothing
    /\ UNCHANGED <<now, pid, memory, ticking, callers, faults>>

\* _processQueue, when the cache has just been emptied: the first waiter, if
\* any, acquires, and thread t (of a release, or none) is done.
ProcessQueue(t) ==
    LET steps(f, rest, first) ==
            [x \in Thread |-> IF ~granting /\ queue # <<>> /\ x = queue[1] THEN first
                              ELSE IF x = t THEN rest ELSE f[x]]
    IN  /\ granting' = (granting \/ queue # <<>>)
        /\ queue' = IF granting \/ queue = <<>> THEN queue ELSE Tail(queue)
        /\ pc' = steps(pc, "idle", "reading") /\ op' = steps(op, "none", "grant")
        /\ UNCHANGED val

\* Mutant: release does not process the queue.
AfterUnlinkWakesNobody(t) ==
    /\ pc[t] = "unlinked"
    /\ cache' = Nothing /\ keepAlive' = Nothing
    /\ Finish(t)
    /\ UNCHANGED <<now, pid, file, queue, granting, ticking, callers, faults>>

AfterUnlink(t) ==
    /\ pc[t] = "unlinked"
    /\ cache' = Nothing /\ keepAlive' = Nothing
    /\ ProcessQueue(t)
    /\ UNCHANGED <<now, pid, file, ticking, callers, faults>>

-----------------------------------------------------------------------------
(* Failures, the operator and the clock.                                     *)

\* writeFile throws (retryOperation does not retry errors of the file system);
\* the file is as far as it got.
WriteFails(t) ==
    /\ pc[t] \in {"opening", "writing"}
    /\ faults < MaxFaults /\ faults' = faults + 1
    /\ IF op[t] \in Acquiring THEN Lose(t, op[t]) /\ UNCHANGED keepAlive
       ELSE Finish(t) /\ StopIfTick(t) /\ UNCHANGED <<queue, granting, armed>>
    /\ UNCHANGED <<now, pid, file, cache, ticking, holds, since>>

\* The process dies and another takes its place.
Crash ==
    /\ faults < MaxFaults /\ faults' = faults + 1
    /\ pid' = pid + 1
    /\ cache' = Nothing /\ queue' = <<>> /\ granting' = FALSE /\ keepAlive' = Nothing
    /\ ticking' = Nothing
    /\ pc' = [t \in Thread |-> "idle"] /\ op' = [t \in Thread |-> "none"]
    /\ val' = [t \in Thread |-> Nothing] /\ armed' = [c \in Caller |-> FALSE]
    /\ holds' = {} /\ since' = [c \in Caller |-> 0]
    /\ UNCHANGED <<now, file>>

\* forceClear, whose unlink and what follows it are taken as one step.
ForceClear ==
    /\ "forceClear" \in Extras /\ file # Nothing
    /\ file' = Nothing
    /\ cache' = Nothing
    /\ ProcessQueue(Nothing)
    /\ UNCHANGED <<now, pid, keepAlive, ticking, callers, faults>>

ClockTicks ==
    /\ now < MaxTime
    /\ now' = now + 1
    /\ UNCHANGED <<pid, file, memory, ticking, threads, callers, faults>>

-----------------------------------------------------------------------------

FileStep(t) ==
    \/ ReadFile(t) \/ ParseFails(t) \/ AfterRead(t)
    \/ OpenFile(t) \/ WriteFile(t) \/ AfterWrite(t)
    \/ Unlink(t) \/ AfterUnlink(t)

Move ==
    \/ Tick \/ KeepAliveEnds \/ Crash \/ ForceClear \/ ClockTicks
    \/ \E c \in Caller :
        \/ Acquire(c) \/ TimerFires(c) \/ Release(c) \/ Check(c)
        \/ \E o \in {"update", "renew"} : Touch(c, o)
    \/ \E t \in Thread : FileStep(t) \/ WriteFails(t)

\* The history variable follows the others.
History ==
    disturbed' = \/ disturbed
                 \/ \E s, t \in Thread : s # t /\ {s, t} \subseteq InFlight'
                 \/ file # Nothing /\ file' = Nothing /\ \A t \in Thread : pc[t] # "unlinking"

Next == Move /\ History

Fairness == /\ \A t \in Thread : WF_vars(FileStep(t) /\ History)
            /\ \A c \in Caller : WF_vars(TimerFires(c) /\ History)

Spec     == Init /\ [][Next]_vars
FairSpec == Spec /\ Fairness

-----------------------------------------------------------------------------
(* Properties.                                                               *)

\* Every variable has its type.
TypeOK ==
    /\ now \in 0 .. MaxTime /\ pid \in Nat \ {0} /\ file \in Lock \cup {Nothing, Torn}
    /\ cache \in [lock : Lock, at : Nat] \cup {Nothing}
    /\ queue \in Seq(Caller) /\ granting \in BOOLEAN
    /\ keepAlive \in Caller \cup {Nothing} /\ ticking \in Caller \cup {Nothing}
    /\ pc \in [Thread -> {"idle", "queued", "reading", "read", "opening", "writing",
                          "written", "unlinking", "unlinked"}]
    /\ op \in [Thread -> {"none", "wait", "release", "update", "renew", "check"} \cup Acquiring]
    /\ val \in [Thread -> Lock \cup {Nothing, Torn}]
    /\ armed \in [Caller -> BOOLEAN]
    /\ holds \in SUBSET Caller /\ since \in [Caller -> Nat]
    /\ disturbed \in BOOLEAN /\ faults \in 0 .. MaxFaults

\* No waiter is lost between the queue, the grant under way and its timer: it
\* is in the queue exactly once with its timer running, or is the one waiter
\* that _processQueue has taken out.
WaitersAccounted ==
    /\ \A i, k \in DOMAIN queue : queue[i] = queue[k] => i = k
    /\ \A c \in Caller : pc[c] = "queued" <=> \E i \in DOMAIN queue : queue[i] = c
    /\ \A c \in Caller : pc[c] = "queued" => armed[c]
    /\ granting <=> \E c \in Caller : op[c] = "grant"
    /\ \A c, d \in Caller : op[c] = "grant" /\ op[d] = "grant" => c = d

\* c is in line before d.
Before(c, d) ==
    /\ c # d /\ {c, d} \subseteq Waiting
    /\ \/ op[c] = "grant"
       \/ \E i, k \in DOMAIN queue : i < k /\ queue[i] = c /\ queue[k] = d

\* The queue is first come, first served: as long as two waiters are in line,
\* none overtakes the other, the one whose grant failed included.
NoOvertaking ==
    [][\A c, d \in Caller : Before(c, d) /\ {c, d} \subseteq Waiting' => Before(c, d)']_vars

\* Operations that do not overlap exclude each other: as long as none has (and
\* nothing was force-cleared), two callers never hold locks that are both
\* within their timeout, counted from the last time they were acquired or
\* renewed - across expiries, renewals, restarts, torn writes and cached
\* copies.  Two acquires that overlap are not covered: both read a free lock,
\* and both get it.
ExcludesWhenSerial ==
    ~disturbed => \A c, d \in holds :
        c # d => \E h \in {c, d} : now - since[h] >= LockTimeout

\* A release hands the lock on: as long as operations do not overlap and no
\* write fails, no waiter sits in the queue while the lock is free and nobody
\* is taking it.
HandedOn == ~disturbed /\ faults = 0 /\ InFlight = {} /\ queue # <<>> => file # Nothing

\* "The wait is always bounded" (options.wait, line 39).
WaitEnds == \A c \in Caller : c \in Waiting ~> c \notin Waiting

=============================================================================
