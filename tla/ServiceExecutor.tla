--------------------------- MODULE ServiceExecutor ---------------------------
(***************************************************************************)
(* skynetServiceExecutor.js: services that a peer may buy.  A request that *)
(* finds MAX_CONCURRENT executions waits in priorityQueue, those with a    *)
(* larger tip first; whoever leaves wakes the first in the queue.  Each    *)
(* action is the code between two awaits.                                  *)
(*                                                                         *)
(* The tip is also passed to verifyPayment, as if it were the hash of a    *)
(* transaction; the answer is only logged, so that the tip counts paid or  *)
(* not.  Statistics are left out.                                          *)
(*                                                                         *)
(* A hash is the string of the request.  The cache, the query and the      *)
(* unique index compare strings; the chain reads the digits of a hash in   *)
(* either case, so that two of them may name one transaction.              *)
(***************************************************************************)
EXTENDS Integers, Sequences, FiniteSets, SequencesExt

CONSTANTS
    Request,       \* the service_request messages
    Hash,          \* the hashes of transactions, as requests write them
    Free,          \* stands for the hash where the service has no price
    HashOf,        \* the hash that each request pays with
    Tip,           \* parseFloat(priorityTip), 0 if there is none
    Peer,          \* rate limit keys: a peer and a service
    PeerOf,        \* the key of each request
    MaxConcurrent, \* MAX_CONCURRENT
    MaxPerPeer,    \* rateLimit.maxPerPeer
    MaxFaults,     \* bound: database calls that fail, and crashes
    Nobody         \* no request

ASSUME ExecutorAssumption ==
    /\ IsFiniteSet(Request) /\ Nobody \notin Request
    /\ Free \notin Hash
    /\ HashOf \in [Request -> Hash \union {Free}]
    /\ Tip \in [Request -> Nat]
    /\ PeerOf \in [Request -> Peer]
    /\ MaxConcurrent \in Nat \ {0}
    /\ MaxPerPeer \in Nat /\ MaxFaults \in Nat

VARIABLES
    stage,            \* where each request is
    seen,             \* currentCount: what it read from peerRateLimits
    activeExecutions,
    priorityQueue,
    peerRateLimits,   \* executions counted in the current window
    usedTxHashes,     \* the cache of hashes
    row,              \* SkynetPayment: whose request recorded a hash
    served,           \* history: requests whose service was started
    faults            \* failures so far

vars == <<stage, seen, activeExecutions, priorityQueue, peerRateLimits,
          usedTxHashes, row, served, faults>>

Slotted == {"tip", "lookup", "confirming", "recording", "executing", "refused", "served"}
Stages == {"new", "queued", "woken", "done", "cut"} \union Slotted

\* The requests that have counted themselves in activeExecutions and are
\* not yet in their finally block.
Running == {r \in Request : stage[r] \in Slotted}

Init ==
    /\ stage = [r \in Request |-> "new"]
    /\ seen = [r \in Request |-> 0]
    /\ activeExecutions = 0
    /\ priorityQueue = <<>>
    /\ peerRateLimits = [k \in Peer |-> 0]
    /\ usedTxHashes = {}
    /\ row = [h \in Hash |-> Nobody]
    /\ served = {}
    /\ faults = 0

Go(r, s) == stage' = [stage EXCEPT ![r] = s]
Fails == faults < MaxFaults /\ faults' = faults + 1

QueuedLast(r) == Append(priorityQueue, r)

\* BUG: a newcomer goes before those whose tip is the same.
QueuedFirst(r) ==
    LET ahead == {i \in DOMAIN priorityQueue : Tip[priorityQueue[i]] > Tip[r]}
    IN  InsertAt(priorityQueue, Cardinality(ahead) + 1, r)

\* push and sort by falling priority; the sort is stable.
Queued(r) ==
    LET ahead == {i \in DOMAIN priorityQueue : Tip[priorityQueue[i]] >= Tip[r]}
    IN  InsertAt(priorityQueue, Cardinality(ahead) + 1, r)

LeaveWakesNobody(r) ==
    /\ activeExecutions' = IF activeExecutions > 0 THEN activeExecutions - 1 ELSE 0
    /\ Go(r, "done") /\ UNCHANGED priorityQueue

LeaveKeepsSlot(r) ==
    /\ activeExecutions' =
         IF activeExecutions > 0 /\ priorityQueue = <<>> THEN activeExecutions - 1 ELSE activeExecutions
    /\ IF priorityQueue = <<>>
       THEN Go(r, "done") /\ UNCHANGED priorityQueue
       ELSE /\ stage' = [stage EXCEPT ![r] = "done", ![Head(priorityQueue)] = "woken"]
            /\ priorityQueue' = Tail(priorityQueue)

\* The finally block.
Leave(r) ==
    /\ activeExecutions' = IF activeExecutions > 0 THEN activeExecutions - 1 ELSE 0
    /\ IF priorityQueue = <<>>
       THEN Go(r, "done") /\ UNCHANGED priorityQueue
       ELSE /\ stage' = [stage EXCEPT ![r] = "done", ![Head(priorityQueue)] = "woken"]
            /\ priorityQueue' = Tail(priorityQueue)

\* Where the payment leads: a service has a price or not, and the cache of
\* hashes is asked first.
Paying(r) ==
    IF HashOf[r] = Free THEN "executing"
    ELSE IF HashOf[r] \in usedTxHashes THEN "refused" ELSE "lookup"

\* The request takes a slot; one with a tip has it looked at.
Begin(r) ==
    /\ activeExecutions' = activeExecutions + 1
    /\ Go(r, IF Tip[r] > 0 THEN "tip" ELSE Paying(r))
    /\ UNCHANGED <<peerRateLimits, usedTxHashes, row, served, faults>>

\* The service is unknown or disabled, or the rate limit is reached, or its
\* configuration could not be read.  The request has no slot, and passes
\* through the finally block all the same.
TurnAway(r) ==
    /\ stage[r] = "new"
    /\ Leave(r)
    /\ UNCHANGED <<seen, peerRateLimits, usedTxHashes, row, served, faults>>

AdmitUncounted(r) ==
    /\ stage[r] = "new"
    /\ activeExecutions < MaxConcurrent
    /\ seen' = [seen EXCEPT ![r] = peerRateLimits[PeerOf[r]]]
    /\ Begin(r) /\ UNCHANGED priorityQueue

Admit(r) ==
    /\ stage[r] = "new"
    /\ peerRateLimits[PeerOf[r]] < MaxPerPeer
    /\ activeExecutions < MaxConcurrent
    /\ seen' = [seen EXCEPT ![r] = peerRateLimits[PeerOf[r]]]
    /\ Begin(r) /\ UNCHANGED priorityQueue

Enqueue(r) ==
    /\ stage[r] = "new"
    /\ peerRateLimits[PeerOf[r]] < MaxPerPeer
    /\ activeExecutions >= MaxConcurrent
    /\ seen' = [seen EXCEPT ![r] = peerRateLimits[PeerOf[r]]]
    /\ Go(r, "queued")
    /\ priorityQueue' = Queued(r)
    /\ UNCHANGED <<activeExecutions, peerRateLimits, usedTxHashes, row, served, faults>>

\* resolve() has run; the waiter continues in a segment of its own.
Resume(r) ==
    /\ stage[r] = "woken"
    /\ Begin(r) /\ UNCHANGED <<seen, priorityQueue>>

Tipped(r) ==
    /\ stage[r] = "tip"
    /\ Go(r, Paying(r))
    /\ UNCHANGED <<seen, activeExecutions, priorityQueue, peerRateLimits, usedTxHashes, row, served, faults>>

Lookup(r) ==
    /\ stage[r] = "lookup"
    /\ Go(r, IF row[HashOf[r]] = Nobody THEN "confirming" ELSE "refused")
    /\ UNCHANGED <<seen, activeExecutions, priorityQueue, peerRateLimits, usedTxHashes, row, served, faults>>

\* No hash, a call that fails, a transaction that is missing, too young, or
\* does not pay us enough.
Refuse(r) ==
    /\ stage[r] \in {"lookup", "confirming"}
    /\ Go(r, "refused")
    /\ UNCHANGED <<seen, activeExecutions, priorityQueue, peerRateLimits, usedTxHashes, row, served, faults>>

\* The chain confirms; the hash enters the cache before the record is made.
Confirm(r) ==
    /\ stage[r] = "confirming"
    /\ usedTxHashes' = usedTxHashes \union {HashOf[r]}
    /\ Go(r, "recording")
    /\ UNCHANGED <<seen, activeExecutions, priorityQueue, peerRateLimits, row, served, faults>>

RecordAnyway(r) ==
    /\ stage[r] = "recording"
    /\ row' = [row EXCEPT ![HashOf[r]] = r] /\ Go(r, "executing")
    /\ UNCHANGED <<seen, activeExecutions, priorityQueue, peerRateLimits, usedTxHashes, served, faults>>

\* SkynetPayment.create; txHash is unique.
Record(r) ==
    /\ stage[r] = "recording"
    /\ IF row[HashOf[r]] = Nobody
       THEN row' = [row EXCEPT ![HashOf[r]] = r] /\ Go(r, "executing")
       ELSE Go(r, "refused") /\ UNCHANGED row
    /\ UNCHANGED <<seen, activeExecutions, priorityQueue, peerRateLimits, usedTxHashes, served, faults>>

\* The insert fails, with or without having been made.
RecordFails(r) ==
    /\ stage[r] = "recording"
    /\ Fails
    /\ \/ UNCHANGED row
       \/ row[HashOf[r]] = Nobody /\ row' = [row EXCEPT ![HashOf[r]] = r]
    /\ Go(r, "refused")
    /\ UNCHANGED <<seen, activeExecutions, priorityQueue, peerRateLimits, usedTxHashes, served>>

\* The plugin works, and the count that was read long ago is written back.
Execute(r) ==
    /\ stage[r] = "executing"
    /\ served' = served \union {r}
    /\ peerRateLimits' = [peerRateLimits EXCEPT ![PeerOf[r]] = seen[r] + 1]
    /\ Go(r, "served")
    /\ UNCHANGED <<seen, activeExecutions, priorityQueue, usedTxHashes, row, faults>>

\* The plugin is missing or throws.
ExecuteFails(r) ==
    /\ stage[r] = "executing"
    /\ served' = served \union {r}
    /\ Go(r, "served")
    /\ UNCHANGED <<seen, activeExecutions, priorityQueue, peerRateLimits, usedTxHashes, row, faults>>

FinishServed(r) ==
    /\ stage[r] = "served"
    /\ Leave(r)
    /\ UNCHANGED <<seen, peerRateLimits, usedTxHashes, row, served, faults>>

\* The answer is sent, whatever it is.
Finish(r) ==
    /\ stage[r] \in {"refused", "served"}
    /\ Leave(r)
    /\ UNCHANGED <<seen, peerRateLimits, usedTxHashes, row, served, faults>>

\* The caches forget: hashes after an hour, counts after their window.
Expire ==
    /\ \/ \E h \in usedTxHashes :
            usedTxHashes' = usedTxHashes \ {h} /\ UNCHANGED peerRateLimits
       \/ \E k \in Peer :
            /\ peerRateLimits[k] > 0
            /\ peerRateLimits' = [peerRateLimits EXCEPT ![k] = 0]
            /\ UNCHANGED usedTxHashes
    /\ UNCHANGED <<stage, seen, activeExecutions, priorityQueue, row, served, faults>>

\* The process ends and starts again: only the database remains.  A service may
\* have done its work.
Crash ==
    /\ Fails
    /\ stage' = [r \in Request |-> IF stage[r] \in {"new", "done"} THEN stage[r] ELSE "cut"]
    /\ activeExecutions' = 0
    /\ priorityQueue' = <<>>
    /\ peerRateLimits' = [k \in Peer |-> 0]
    /\ usedTxHashes' = {}
    /\ served' = served \union {r \in Request : stage[r] = "executing"}
    /\ UNCHANGED <<seen, row>>

\* What the event loop, the database, the chain and the plugins owe a request.
Step(r) ==
    \/ Resume(r) \/ Tipped(r) \/ Lookup(r) \/ Refuse(r) \/ Confirm(r) \/ Record(r)
    \/ Execute(r) \/ ExecuteFails(r) \/ Finish(r)

Next ==
    \/ \E r \in Request :
         Step(r) \/ TurnAway(r) \/ Admit(r) \/ Enqueue(r) \/ RecordFails(r)
    \/ Expire
    \/ Crash

Spec == Init /\ [][Next]_vars
FairSpec == Spec /\ \A r \in Request : WF_vars(Step(r))

-----------------------------------------------------------------------------
(* Properties *)

\* Every variable keeps to its values.
TypeOK ==
    /\ stage \in [Request -> Stages]
    /\ seen \in [Request -> 0..MaxPerPeer]
    /\ activeExecutions \in Nat
    /\ priorityQueue \in Seq(Request)
    /\ peerRateLimits \in [Peer -> 0..MaxPerPeer]
    /\ usedTxHashes \in SUBSET Hash
    /\ row \in [Hash -> Request \union {Nobody}]
    /\ served \in SUBSET Request
    /\ faults \in 0..MaxFaults

\* The queue holds the requests that wait, each once and larger tips first,
\* whoever was woken, turned away or cut off meanwhile.
QueueSound ==
    /\ \A r \in Request :
         stage[r] = "queued" <=> \E i \in DOMAIN priorityQueue : priorityQueue[i] = r
    /\ \A i, j \in DOMAIN priorityQueue : i < j =>
         /\ priorityQueue[i] # priorityQueue[j]
         /\ Tip[priorityQueue[i]] >= Tip[priorityQueue[j]]

Waits(q, r) == \E i \in DOMAIN q : q[i] = r
Ahead(q, r, s) == \E i, j \in DOMAIN q : i < j /\ q[i] = r /\ q[j] = s

\* Only a larger tip overtakes: whoever waits stays ahead of those behind him,
\* and of those who come later with no larger tip, until he is woken.
NoOvertaking ==
    [][\A r, s \in Request :
          /\ \/ Ahead(priorityQueue, r, s)
             \/ Waits(priorityQueue, r) /\ ~Waits(priorityQueue, s) /\ Tip[r] >= Tip[s]
          /\ Waits(priorityQueue', r) /\ Waits(priorityQueue', s)
          => Ahead(priorityQueue', r, s)]_vars

\* A waiting request is never left alone: somebody still has to pass the
\* finally block, and wakes the next.  The counter that sends requests to the
\* queue is decremented by some that never incremented it.
NobodyStranded ==
    priorityQueue # <<>> => \E r \in Request : stage[r] \in Slotted \union {"woken"}

\* No slot leaks: the counter never says more than is running, whichever way
\* requests fail, are refused or turned away.
NoSlotLeaks == activeExecutions <= Cardinality(Running)

\* One hash, as it is written, buys one execution, although two requests may
\* both have found it unused, caches forget, and the process restarts.  Two
\* strings for one transaction are two hashes to the code, and buy two.
OneUse ==
    \A r, s \in served : HashOf[r] = HashOf[s] /\ HashOf[r] # Free => r = s

\* Every request that waits is answered, unless the process ends.
Answered == \A r \in Request : stage[r] = "queued" ~> stage[r] \in {"done", "cut"}

-----------------------------------------------------------------------------
(* What the code does not keep *)

\* No more than MAX_CONCURRENT executions run.  A request that was turned
\* away gives back a slot that it never had, and wakes one more.
CapKept == Cardinality(Running) <= MaxConcurrent
=============================================================================
