----------------------------- MODULE PriorityGate -----------------------------
(***************************************************************************)
(* What utils/concurrencyLimiter.js promises the routes that put heavy     *)
(* work through it: a bounded number of tasks runs, a bounded number       *)
(* waits, and where there is room the most urgent waiter starts.  Only a   *)
(* configuration that is refused halfway opens room without filling it.    *)
(* Waiters form a set here; ConcurrencyLimiter keeps them in a heap.       *)
(***************************************************************************)
EXTENDS Integers, FiniteSets

CONSTANTS
    Priority,    \* the priorities that callers pass
    Configs,     \* the configurations [max, maxQueue] that updateConfig sets
    Initial,     \* the one given to the constructor
    MaxTasks     \* bound: tasks ever admitted

VARIABLES
    limits,      \* the configuration in force
    waiting,     \* the tasks that wait: [priority, order of arrival]
    running,     \* the order numbers of the tasks that run
    arrived      \* tasks admitted so far

vars == <<limits, waiting, running, arrived>>

Task == [priority : Priority, order : Nat]

\* a is more urgent than b: higher priority, earlier arrival among equals.
Better(a, b) ==
    \/ a.priority > b.priority
    \/ a.priority = b.priority /\ a.order < b.order

\* The k most urgent tasks of S.
Best(k, S) == {t \in S : Cardinality({u \in S : Better(u, t)}) < k}

\* Of the waiters w, the k most urgent start beside the tasks r.
Promote(w, r, k) ==
    LET chosen == Best(k, w)
    IN  /\ waiting' = w \ chosen
        /\ running' = r \cup {t.order : t \in chosen}

Init ==
    /\ limits = Initial
    /\ waiting = {} /\ running = {} /\ arrived = 0

\* A task is admitted: it starts if there is room, and waits otherwise, if
\* there is room to wait.
Arrive(p) ==
    /\ arrived < MaxTasks /\ arrived' = arrived + 1
    /\ \/ /\ Cardinality(running) < limits.max
          /\ running' = running \cup {arrived}
          /\ UNCHANGED waiting
       \/ /\ Cardinality(running) >= limits.max
          /\ Cardinality(waiting) < limits.maxQueue
          /\ waiting' = waiting \cup {[priority |-> p, order |-> arrived]}
          /\ UNCHANGED running
    /\ UNCHANGED limits

\* A waiter is aborted or runs out of time.
GiveUp(t) ==
    /\ waiting' = waiting \ {t}
    /\ UNCHANGED <<limits, running, arrived>>

\* A task is done, and one waiter takes the room it leaves.
Finish(o) ==
    /\ Promote(waiting, running \ {o}, IF Cardinality(running) <= limits.max THEN 1 ELSE 0)
    /\ UNCHANGED <<limits, arrived>>

\* The limits change, and the room there is now is filled.
Configure(c) ==
    /\ limits' = c
    /\ Promote(waiting, running, c.max - Cardinality(running))
    /\ UNCHANGED arrived

\* A new configuration is refused halfway: the number that may run has changed
\* and nobody starts.
RefuseConfig(c) ==
    /\ limits' = [limits EXCEPT !.max = c.max]
    /\ UNCHANGED <<waiting, running, arrived>>

Next ==
    \/ \E p \in Priority : Arrive(p)
    \/ \E t \in waiting : GiveUp(t)
    \/ \E o \in running : Finish(o)
    \/ \E c \in Configs : Configure(c) \/ RefuseConfig(c)

Spec == Init /\ [][Next]_vars

-----------------------------------------------------------------------------

\* Nobody waits while there is room to run.
NeverIdle == waiting # {} => Cardinality(running) >= limits.max

\* Room beside waiters is opened by a refused configuration only, and lasts no
\* longer than until the limits are set again.
RoomIsFilled ==
    \/ NeverIdle'
    \/ \E c \in Configs : RefuseConfig(c)
    \/ ~NeverIdle /\ UNCHANGED limits

\* No priority inversion: a waiter that starts in a step is more urgent than
\* every one that goes on waiting.
StartsMostUrgent ==
    \A t, u \in waiting :
        t.order \in running' /\ u \in waiting' => Better(t, u)

=============================================================================
