-------------------------- MODULE ConcurrencyLimiter --------------------------
(***************************************************************************)
(* utils/concurrencyLimiter.js: the in-process semaphore with a bounded    *)
(* priority queue that transcoding, speech and scraping go through.        *)
(*                                                                         *)
(* The queue is the binary heap of the code, kept in an array; a task is   *)
(* its priority and its insertion number.  Every method runs to its end    *)
(* without yielding; what is concurrent is the order of the calls, of the  *)
(* ends of the operations and of aborts and deadlines.  A run that is      *)
(* refused (queue full, signal aborted before, bad deadline) changes       *)
(* nothing but the counters of stats(), which are left out; an             *)
(* updateConfig that is refused for its maxQueue has set max by then.      *)
(***************************************************************************)
EXTENDS Integers, Sequences, FiniteSets

CONSTANTS
    Priority,    \* the priorities that callers pass
    Configs,     \* the configurations [max, maxQueue] that updateConfig sets
    Initial,     \* the one given to the constructor, which reset restores
    MaxTasks     \* bound: tasks ever admitted

ASSUME ConfigAssumption ==
    /\ Priority \subseteq Int
    /\ Configs \subseteq [max : Nat \ {0}, maxQueue : Nat]
    /\ Initial \in Configs
    /\ MaxTasks \in Nat

Limits == [max : Nat \ {0}, maxQueue : Nat]
Task   == [priority : Priority, order : Nat]
Order  == 0 .. MaxTasks - 1

VARIABLES
    limits,      \* max and maxQueue
    active,      \* tasks that hold a slot
    queue,       \* the heap
    nextOrder,   \* _nextOrder
    state        \* state[o]: the state of the task inserted as number o

vars == <<limits, active, queue, nextOrder, state>>

-----------------------------------------------------------------------------
(* The heap, in an array numbered from 1: the parent of i is i \div 2.       *)

IsHigherPriority(a, b) ==
    IF a.priority # b.priority THEN a.priority > b.priority ELSE a.order < b.order

Swap(q, i, j) == [q EXCEPT ![i] = q[j], ![j] = q[i]]

\* The array x[1], once its task at x[2] has gone up as far as it goes.
Up[x \in Seq(Task) \X Nat] ==
    LET s == x[1]  k == x[2]
    IN  IF k \in 2 .. Len(s) /\ IsHigherPriority(s[k], s[k \div 2])
        THEN Up[<<Swap(s, k, k \div 2), k \div 2>>] ELSE s

SiftUp(q, i) == Up[<<q, i>>]

Greater(s, i, j) == IF j \in DOMAIN s /\ IsHigherPriority(s[j], s[i]) THEN j ELSE i

\* The place, of k and its children, of the most urgent task there.
Largest(s, k) == Greater(s, Greater(s, k, 2 * k), 2 * k + 1)

\* The array x[1], once its task at x[2] has gone down as far as it goes.
Down[x \in Seq(Task) \X (Nat \ {0})] ==
    LET s == x[1]  k == x[2]  l == Largest(s, k)
    IN  IF l = k THEN s ELSE Down[<<Swap(s, k, l), l>>]

SiftDown(q, i) == Down[<<q, i>>]

HeapEnqueue(q, task) == SiftUp(Append(q, task), Len(q) + 1)

Popped(q) == SubSeq(q, 1, Len(q) - 1)

\* Mutant: what replaces the root is not sifted down.
HeapDequeueUnsifted(q) ==
    IF Len(q) = 1 THEN <<>> ELSE [Popped(q) EXCEPT ![1] = q[Len(q)]]

\* The heap without its root.
HeapDequeue(q) ==
    IF Len(q) = 1 THEN <<>> ELSE SiftDown([Popped(q) EXCEPT ![1] = q[Len(q)]], 1)

\* Mutant: what replaces the task removed is only sifted down.
HeapRemoveDown(q, i) ==
    IF i = Len(q) THEN Popped(q)
    ELSE SiftDown([Popped(q) EXCEPT ![i] = q[Len(q)]], i)

\* The heap without the task at i: the last one takes its place, and is sifted
\* up and down from there.
HeapRemoveTask(q, i) ==
    IF i = Len(q) THEN Popped(q)
    ELSE SiftDown(SiftUp([Popped(q) EXCEPT ![i] = q[Len(q)]], i), i)

\* What is left of the queue x[1] when x[2] waiters, or all, have started.
Drain[x \in Seq(Task) \X Int] ==
    IF x[1] # <<>> /\ x[2] > 0 THEN Drain[<<HeapDequeue(x[1]), x[2] - 1>>] ELSE x[1]

-----------------------------------------------------------------------------

Init ==
    /\ limits = Initial
    /\ active = 0 /\ queue = <<>> /\ nextOrder = 0
    /\ state = [o \in Order |-> "new"]

\* Mutant: the queue is one task longer than its bound.
RunOffByOne(p) ==
    LET task == [priority |-> p, order |-> nextOrder]
    IN  /\ nextOrder < MaxTasks /\ nextOrder' = nextOrder + 1
        /\ \/ /\ active < limits.max
              /\ active' = active + 1
              /\ state' = [state EXCEPT ![nextOrder] = "started"]
              /\ UNCHANGED queue
           \/ /\ active >= limits.max /\ Len(queue) <= limits.maxQueue
              /\ queue' = HeapEnqueue(queue, task)
              /\ state' = [state EXCEPT ![nextOrder] = "queued"]
              /\ UNCHANGED active
        /\ UNCHANGED limits

\* run, when it is not refused.
Run(p) ==
    LET task == [priority |-> p, order |-> nextOrder]
    IN  /\ nextOrder < MaxTasks /\ nextOrder' = nextOrder + 1
        /\ \/ /\ active < limits.max
              /\ active' = active + 1
              /\ state' = [state EXCEPT ![nextOrder] = "started"]
              /\ UNCHANGED queue
           \/ /\ active >= limits.max /\ Len(queue) < limits.maxQueue
              /\ queue' = HeapEnqueue(queue, task)
              /\ state' = [state EXCEPT ![nextOrder] = "queued"]
              /\ UNCHANGED active
        /\ UNCHANGED limits

\* Mutant: a waiter that gives up frees a slot.
DropFreesSlot(i) ==
    /\ state' = [state EXCEPT ![queue[i].order] = "settled"]
    /\ queue' = HeapRemoveTask(queue, i)
    /\ active' = active - 1
    /\ UNCHANGED <<limits, nextOrder>>

\* The signal of the task at i is aborted, or its queueTimeoutMs passes.  Once
\* a task has started, neither does anything.
Drop(i) ==
    /\ state' = [state EXCEPT ![queue[i].order] = "settled"]
    /\ queue' = HeapRemoveTask(queue, i)
    /\ UNCHANGED <<limits, active, nextOrder>>

\* Mutant: a task that is done frees its slot and starts nobody.
CompleteStartsNobody(o) ==
    /\ state[o] = "started"
    /\ active' = active - 1
    /\ state' = [state EXCEPT ![o] = "settled"]
    /\ UNCHANGED <<limits, queue, nextOrder>>

\* Mutant: the waiter that is started is not counted.
CompleteUncounted(o) ==
    /\ state[o] = "started"
    /\ active' = active - 1
    /\ IF queue # <<>> /\ active - 1 < limits.max
       THEN /\ queue' = HeapDequeue(queue)
            /\ state' = [state EXCEPT ![o] = "settled", ![queue[1].order] = "started"]
       ELSE state' = [state EXCEPT ![o] = "settled"] /\ UNCHANGED queue
    /\ UNCHANGED <<limits, nextOrder>>

\* The operation resolves or rejects: _release frees the slot and starts one
\* waiter, if that is below the limit, and the task is settled.
Complete(o) ==
    /\ state[o] = "started"
    /\ IF queue # <<>> /\ active - 1 < limits.max
       THEN /\ queue' = HeapDequeue(queue)
            /\ state' = [state EXCEPT ![o] = "settled", ![queue[1].order] = "started"]
            /\ UNCHANGED active
       ELSE /\ active' = active - 1
            /\ state' = [state EXCEPT ![o] = "settled"]
            /\ UNCHANGED queue
    /\ UNCHANGED <<limits, nextOrder>>

\* Mutant: updateConfig starts one waiter at most.
UpdateConfigStartsOne(c) ==
    /\ limits' = c
    /\ IF queue # <<>> /\ active < c.max
       THEN /\ queue' = HeapDequeue(queue)
            /\ state' = [state EXCEPT ![queue[1].order] = "started"]
            /\ active' = active + 1
       ELSE UNCHANGED <<queue, state, active>>
    /\ UNCHANGED nextOrder

\* updateConfig and reset: waiters start while there are slots.
UpdateConfig(c) ==
    LET left == Drain[<<queue, c.max - active>>]
    IN  /\ limits' = c
        /\ queue' = left
        /\ active' = active + Len(queue) - Len(left)
        /\ state' = [o \in Order |->
                        IF state[o] = "queued" /\ \A i \in DOMAIN left : left[i].order # o
                        THEN "started" ELSE state[o]]
        /\ UNCHANGED nextOrder

\* updateConfig with a maxQueue that it refuses: it throws with max already
\* set, and before it starts anybody.
RefuseConfig(c) ==
    /\ limits' = [limits EXCEPT !.max = c.max]
    /\ UNCHANGED <<active, queue, nextOrder, state>>

Next ==
    \/ \E p \in Priority : Run(p)
    \/ \E i \in DOMAIN queue : Drop(i)
    \/ \E o \in Order : Complete(o)
    \/ \E c \in Configs : UpdateConfig(c) \/ RefuseConfig(c)

\* Every operation that was started ends.
Fairness == \A o \in Order : WF_vars(Complete(o))

Spec     == Init /\ [][Next]_vars
FairSpec == Spec /\ Fairness

-----------------------------------------------------------------------------
(* Properties.                                                               *)

\* Every variable has its type.
TypeOK ==
    /\ limits \in Limits
    /\ active \in 0 .. MaxTasks /\ queue \in Seq(Task) /\ nextOrder \in 0 .. MaxTasks
    /\ state \in [Order -> {"new", "queued", "started", "settled"}]

Started == {o \in Order : state[o] = "started"}

\* No slot leaks and no task is lost: the tasks in the heap are those that are
\* queued, each once, and active counts those that run - whatever aborts,
\* deadlines and changes of the limits come between.
TasksAccounted ==
    /\ active = Cardinality(Started)
    /\ \A i, j \in DOMAIN queue : queue[i].order = queue[j].order => i = j
    /\ {queue[i].order : i \in DOMAIN queue} = {o \in Order : state[o] = "queued"}

\* The array stays a heap, also after a removal from its middle.
HeapOrdered == \A i \in 2 .. Len(queue) : IsHigherPriority(queue[i \div 2], queue[i])

\* Nobody waits while there is room to run.
NeverIdle == queue # <<>> => active >= limits.max

\* Room beside waiters is opened by a refused updateConfig only, which raises
\* max and starts nobody, and lasts no longer than until the limits are set
\* again: every other call, abort, deadline and end of an operation leaves
\* nobody waiting for room that is there.
RoomIsFilled ==
    [][\/ NeverIdle'
       \/ \E c \in Configs : RefuseConfig(c)
       \/ ~NeverIdle /\ UNCHANGED limits]_vars

\* A task that waits is started, aborted or timed out in the end.
Answered == \A o \in Order : state[o] = "queued" ~> state[o] # "queued"

\* The heap does what the set of waiters of PriorityGate does: bounds, order of
\* starting, and what a new limit lets in.
Gate == INSTANCE PriorityGate WITH
            waiting <- {queue[i] : i \in DOMAIN queue},
            running <- Started,
            arrived <- nextOrder

ImplementsGate == Gate!Spec

\* No priority inversion, in the array: whoever is started goes before all who
\* stay queued.
NoInversion == [][Gate!StartsMostUrgent]_vars

=============================================================================
