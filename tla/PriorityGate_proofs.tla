------------------------- MODULE PriorityGate_proofs -------------------------
(***************************************************************************)
(* Proofs about PriorityGate: whatever the priorities, the limits and the  *)
(* number of tasks, room beside waiters is filled unless a configuration   *)
(* was refused halfway, and whoever starts is more urgent than all who go  *)
(* on waiting.                                                             *)
(***************************************************************************)
EXTENDS PriorityGate, FiniteSetTheorems, TLAPS

\* What the constructor and updateConfig guarantee of the limits, and run of
\* the priorities.
Assumptions ==
    /\ Priority \subseteq Int
    /\ Configs \subseteq [max : Nat \ {0}, maxQueue : Nat]
    /\ Initial \in Configs

\* Distinct waiters have distinct numbers.
Distinct(S) == \A t, u \in S : t.order = u.order => t = u

TypeInv ==
    /\ limits \in [max : Nat \ {0}, maxQueue : Nat]
    /\ arrived \in Nat
    /\ running \in SUBSET (0 .. arrived - 1)
    /\ waiting \in SUBSET Task /\ IsFiniteSet(waiting) /\ Distinct(waiting)
    /\ \A t \in waiting : t.order < arrived /\ t.order \notin running

-----------------------------------------------------------------------------
(* The k most urgent of a set.                                               *)

\* Those of S that are more urgent than t.
Ahead(t, S) == {u \in S : Better(u, t)}

\* Whoever is ahead of someone ahead of t is ahead of t.
LEMMA AheadShrinks ==
    ASSUME Assumptions, NEW S \in SUBSET Task, NEW t \in S, NEW u \in Ahead(t, S)
    PROVE  Ahead(u, S) \subseteq Ahead(t, S) /\ Ahead(u, S) # Ahead(t, S)
<1>1. \A v \in Task : v.priority \in Int /\ v.order \in Nat
  BY DEF Task, Assumptions
<1>2. u \in S /\ Better(u, t) /\ ~Better(u, u)
  BY <1>1 DEF Ahead, Better
<1>3. ASSUME NEW v \in S, Better(v, u) PROVE Better(v, t)
  BY <1>1, <1>2, <1>3 DEF Better
<1>. QED BY <1>2, <1>3 DEF Ahead

\* A finite set has its k most urgent members, unless all of it is among them.
LEMMA BestFillsUp ==
    ASSUME Assumptions, NEW S \in SUBSET Task, IsFiniteSet(S), NEW k \in Int,
           S \ Best(k, S) # {}
    PROVE  Cardinality(Best(k, S)) >= k
<1> DEFINE Left == S \ Best(k, S)
           R == StrictSubsetOrdering(S)
           A == {Ahead(t, S) : t \in Left}
<1>1. A \subseteq FiniteSubsetsOf(S) /\ A # {}
  <2>1. \A t \in Left : Ahead(t, S) \subseteq S
    BY DEF Ahead
  <2>2. \A U \in SUBSET S : IsFiniteSet(U)
    BY FS_Subset
  <2>. QED BY <2>1, <2>2 DEF FiniteSubsetsOf
<1>2. IsWellFoundedOn(R, FiniteSubsetsOf(S))
  BY FS_StrictSubsetOrderingWellFounded
<1>3. PICK a \in A : \A b \in A : ~(<<b, a>> \in R)
  <2>. HIDE DEF A, R
  <2>. QED BY <1>1, <1>2, WFMin
<1>4. PICK t \in Left : a = Ahead(t, S)
  OBVIOUS
<1>5. Ahead(t, S) \subseteq Best(k, S)
  <2>. SUFFICES ASSUME NEW u \in Ahead(t, S), u \notin Best(k, S) PROVE FALSE
    OBVIOUS
  <2>1. u \in Left /\ Ahead(u, S) \in A
    BY DEF Ahead
  <2>2. Ahead(u, S) \subseteq Ahead(t, S) /\ Ahead(u, S) # Ahead(t, S)
    BY AheadShrinks
  <2>3. <<Ahead(u, S), Ahead(t, S)>> \in R
    BY <2>2 DEF StrictSubsetOrdering, Ahead
  <2>. QED BY <1>3, <1>4, <2>1, <2>3
<1>6. Best(k, S) \subseteq S /\ IsFiniteSet(Best(k, S))
  <2>1. Best(k, S) \in SUBSET S
    BY DEF Best
  <2>. QED BY <2>1, FS_Subset
<1>7. Cardinality(Ahead(t, S)) <= Cardinality(Best(k, S)) /\ IsFiniteSet(Ahead(t, S))
  BY <1>5, <1>6, FS_Subset
<1>8. ~(Cardinality(Ahead(t, S)) < k)
  BY <1>4 DEF Best, Ahead
<1>9. Cardinality(Ahead(t, S)) \in Int /\ Cardinality(Best(k, S)) \in Int
  BY <1>6, <1>7, FS_CardinalityType
<1>. QED BY <1>7, <1>8, <1>9

\* Whoever is among the best is more urgent than whoever is not.
LEMMA BestIsBest ==
    ASSUME Assumptions, NEW S \in SUBSET Task, IsFiniteSet(S), Distinct(S), NEW k \in Int,
           NEW t \in Best(k, S), NEW u \in S \ Best(k, S)
    PROVE  Better(t, u)
<1>1. \A v \in Task : v.priority \in Int /\ v.order \in Nat
  BY DEF Task, Assumptions
<1>2. t \in S /\ t # u /\ Cardinality(Ahead(t, S)) < k /\ ~(Cardinality(Ahead(u, S)) < k)
  BY DEF Best, Ahead
<1>3. SUFFICES ASSUME ~Better(t, u) PROVE FALSE
  OBVIOUS
<1>4. t.order # u.order
  BY <1>2 DEF Distinct
<1>5. Better(u, t)
  BY <1>1, <1>2, <1>3, <1>4 DEF Better
<1>6. Ahead(u, S) \subseteq Ahead(t, S)
  BY <1>2, <1>5, AheadShrinks DEF Ahead
<1>7. Ahead(t, S) \in SUBSET S /\ IsFiniteSet(Ahead(t, S))
  <2>1. Ahead(t, S) \in SUBSET S
    BY DEF Ahead
  <2>. QED BY <2>1, FS_Subset
<1>8. Cardinality(Ahead(u, S)) <= Cardinality(Ahead(t, S)) /\ IsFiniteSet(Ahead(u, S))
  BY <1>6, <1>7, FS_Subset
<1>9. Cardinality(Ahead(u, S)) \in Int /\ Cardinality(Ahead(t, S)) \in Int
  BY <1>7, <1>8, FS_CardinalityType
<1>. QED BY <1>2, <1>8, <1>9

-----------------------------------------------------------------------------
(* Promotion.                                                                *)

\* Numbers below n are finitely many.
LEMMA FiniteBelow ==
    ASSUME NEW n \in Nat, NEW r \in SUBSET (0 .. n - 1)
    PROVE  IsFiniteSet(r) /\ Cardinality(r) \in Nat
<1>1. IsFiniteSet(0 .. n - 1)
  <2>1. 0 \in Int /\ n - 1 \in Int
    OBVIOUS
  <2>. QED BY <2>1, FS_Interval
<1>2. IsFiniteSet(r)
  BY <1>1, FS_Subset
<1>. QED BY <1>2, FS_CardinalityType

\* Tasks that start are as many as their numbers.
LEMMA CountOrders ==
    ASSUME NEW C, IsFiniteSet(C), Distinct(C)
    PROVE  LET O == {t.order : t \in C}
           IN  IsFiniteSet(O) /\ Cardinality(O) = Cardinality(C)
<1> DEFINE O == {t.order : t \in C}
           f == [t \in C |-> t.order]
<1>1. f \in Bijection(C, O)
  <2>1. f \in [C -> O]
    OBVIOUS
  <2>2. \A t, u \in C : f[t] = f[u] => t = u
    BY DEF Distinct
  <2>3. \A o \in O : \E t \in C : f[t] = o
    OBVIOUS
  <2>. QED BY <2>1, <2>2, <2>3 DEF Bijection, Injection, Surjection, IsInjective
<1>2. ExistsBijection(C, O)
  BY <1>1 DEF ExistsBijection
<1>. QED BY <1>2, FS_Bijection

\* After a promotion of k waiters k more run, or nobody waits; numbers stay
\* distinct.
LEMMA PromoteFills ==
    ASSUME Assumptions, NEW n \in Nat, NEW r \in SUBSET (0 .. n - 1), NEW k \in Int,
           NEW w \in SUBSET Task, IsFiniteSet(w), Distinct(w),
           \A t \in w : t.order < n /\ t.order \notin r,
           Promote(w, r, k)
    PROVE  /\ running' \in SUBSET (0 .. n - 1)
           /\ waiting' \in SUBSET Task /\ IsFiniteSet(waiting') /\ Distinct(waiting')
           /\ \A t \in waiting' : t.order < n /\ t.order \notin running'
           /\ waiting' # {} => Cardinality(running') >= Cardinality(r) + k
<1> DEFINE C == Best(k, w)
           O == {t.order : t \in C}
<1>1. waiting' = w \ C /\ running' = r \cup O
  BY DEF Promote
<1>2. C \subseteq w /\ IsFiniteSet(C) /\ Distinct(C)
  <2>1. C \in SUBSET w
    BY DEF Best
  <2>2. IsFiniteSet(C)
    BY <2>1, FS_Subset
  <2>. QED BY <2>1, <2>2 DEF Distinct
<1>3. \A t \in w : t.order \in 0 .. n - 1
  BY DEF Task
<1>4. running' \in SUBSET (0 .. n - 1)
  BY <1>1, <1>2, <1>3
<1>5. waiting' \in SUBSET Task /\ IsFiniteSet(waiting') /\ Distinct(waiting')
  <2>1. waiting' \in SUBSET w
    BY <1>1
  <2>2. IsFiniteSet(waiting')
    BY <2>1, FS_Subset
  <2>. QED BY <2>1, <2>2 DEF Distinct
<1>6. \A t \in waiting' : t.order < n /\ t.order \notin running'
  BY <1>1, <1>2 DEF Distinct
<1>7. ASSUME waiting' # {} PROVE Cardinality(running') >= Cardinality(r) + k
  <2>1. IsFiniteSet(r)
    BY FiniteBelow
  <2>2. Cardinality(r) \in Nat
    BY <2>1, FS_CardinalityType
  <2>3. Cardinality(C) >= k
    BY <1>1, <1>7, BestFillsUp
  <2>4. IsFiniteSet(O) /\ Cardinality(O) = Cardinality(C)
    BY <1>2, CountOrders
  <2>5. r \cap O = {}
    BY <1>2
  <2>6. Cardinality(r \cup O) = Cardinality(r) + Cardinality(O) - Cardinality(r \cap O)
    BY <2>1, <2>4, FS_Union
  <2>7. Cardinality(r \cap O) = 0
    BY <2>5, FS_EmptySet
  <2>8. Cardinality(C) \in Int
    BY <1>2, FS_CardinalityType
  <2>. HIDE DEF C, O
  <2>. QED BY <1>1, <2>2, <2>3, <2>4, <2>6, <2>7, <2>8
<1>. QED BY <1>4, <1>5, <1>6, <1>7

-----------------------------------------------------------------------------
(* The invariant.                                                            *)

\* The constructor establishes the types.
LEMMA InitInv == ASSUME Assumptions, Init PROVE TypeInv
BY FS_EmptySet DEF Assumptions, Init, TypeInv, Distinct

\* Every call, end of an operation and change of the limits keeps the types,
\* and fills the room that it finds or leaves as far as it promises.
LEMMA NextInv ==
    ASSUME Assumptions, TypeInv, Next
    PROVE  TypeInv' /\ RoomIsFilled
<1> USE DEF TypeInv
<1>0. IsFiniteSet(running) /\ Cardinality(running) \in Nat /\ limits.max \in Nat
  BY FiniteBelow
<1>1. ASSUME NEW p \in Priority, Arrive(p) PROVE TypeInv' /\ RoomIsFilled
  <2>1. limits' = limits /\ arrived' = arrived + 1
    BY <1>1 DEF Arrive
  <2>2. CASE /\ Cardinality(running) < limits.max
             /\ running' = running \cup {arrived} /\ waiting' = waiting
    <3>1. TypeInv'
      <4>1. running' \in SUBSET (0 .. arrived' - 1)
        BY <2>1, <2>2
      <4>2. \A t \in waiting' : t.order < arrived' /\ t.order \notin running'
        BY <2>1, <2>2 DEF Task
      <4>. QED BY <2>1, <2>2, <4>1, <4>2 DEF Distinct
    <3>2. NeverIdle => waiting = {}
      BY <1>0, <2>2 DEF NeverIdle
    <3>3. RoomIsFilled
      BY <2>1, <2>2, <3>2 DEF RoomIsFilled, NeverIdle
    <3>. QED BY <3>1, <3>3
  <2>3. CASE /\ Cardinality(running) >= limits.max
             /\ waiting' = waiting \cup {[priority |-> p, order |-> arrived]}
             /\ running' = running
    <3> DEFINE t == [priority |-> p, order |-> arrived]
    <3>1. t \in Task /\ t.order = arrived
      BY DEF Task
    <3>2. IsFiniteSet(waiting')
      BY <2>3, FS_AddElement
    <3>3. Distinct(waiting')
      BY <2>3, <3>1 DEF Distinct, Task
    <3>4. \A u \in waiting' : u.order < arrived' /\ u.order \notin running'
      BY <2>1, <2>3, <3>1 DEF Task
    <3>5. RoomIsFilled
      BY <2>1, <2>3 DEF RoomIsFilled, NeverIdle
    <3>. QED BY <2>1, <2>3, <3>1, <3>2, <3>3, <3>4, <3>5
  <2>. QED BY <1>1, <2>2, <2>3 DEF Arrive
<1>2. ASSUME NEW t \in waiting, GiveUp(t) PROVE TypeInv' /\ RoomIsFilled
  <2>1. waiting' = waiting \ {t} /\ UNCHANGED <<limits, running, arrived>>
    BY <1>2 DEF GiveUp
  <2>2. IsFiniteSet(waiting')
    BY <2>1, FS_RemoveElement
  <2>3. RoomIsFilled
    BY <2>1 DEF RoomIsFilled, NeverIdle
  <2>. QED BY <2>1, <2>2, <2>3 DEF Distinct
<1>3. ASSUME NEW o \in running, Finish(o) PROVE TypeInv' /\ RoomIsFilled
  <2> DEFINE k == IF Cardinality(running) <= limits.max THEN 1 ELSE 0
  <2>1. Promote(waiting, running \ {o}, k) /\ UNCHANGED <<limits, arrived>> /\ k \in Int
    BY <1>3 DEF Finish
  <2>2. /\ running \ {o} \in SUBSET (0 .. arrived - 1)
        /\ \A t \in waiting : t.order < arrived /\ t.order \notin running \ {o}
    OBVIOUS
  <2>3. Cardinality(running \ {o}) = Cardinality(running) - 1
    BY <1>0, FS_RemoveElement
  <2>4. k >= 0 /\ (Cardinality(running) <= limits.max => k = 1)
    OBVIOUS
  <2>. HIDE DEF k
  <2>5. /\ TypeInv'
        /\ waiting' # {} => Cardinality(running') >= Cardinality(running \ {o}) + k
    BY <2>1, <2>2, PromoteFills
  <2>6. waiting' # {} => waiting # {}
    BY <2>1 DEF Promote
  <2>7. Cardinality(running') \in Nat
    BY <2>5, FiniteBelow
  <2>8. NeverIdle => NeverIdle'
    BY <1>0, <2>1, <2>3, <2>4, <2>5, <2>6, <2>7 DEF NeverIdle
  <2>. QED BY <2>1, <2>5, <2>8 DEF RoomIsFilled
<1>4. ASSUME NEW c \in Configs, Configure(c) PROVE TypeInv' /\ RoomIsFilled
  <2> DEFINE k == c.max - Cardinality(running)
  <2>1. limits' = c /\ arrived' = arrived /\ Promote(waiting, running, k)
    BY <1>4 DEF Configure
  <2>2. c \in [max : Nat \ {0}, maxQueue : Nat] /\ k \in Int /\ Cardinality(running) + k = c.max
    BY <1>0 DEF Assumptions
  <2>. HIDE DEF k
  <2>3. TypeInv' /\ (waiting' # {} => Cardinality(running') >= Cardinality(running) + k)
    BY <2>1, <2>2, PromoteFills
  <2>. QED BY <2>1, <2>2, <2>3 DEF RoomIsFilled, NeverIdle
<1>5. ASSUME NEW c \in Configs, RefuseConfig(c) PROVE TypeInv' /\ RoomIsFilled
  <2>1. c \in [max : Nat \ {0}, maxQueue : Nat]
    BY DEF Assumptions
  <2>. QED BY <1>5, <2>1 DEF RefuseConfig, RoomIsFilled, Distinct
<1>. QED BY <1>1, <1>2, <1>3, <1>4, <1>5 DEF Next

\* The types hold of every behaviour.
LEMMA Invariance == ASSUME Assumptions PROVE Spec => []TypeInv
<1>1. Init => TypeInv
  BY InitInv
<1>2. TypeInv /\ UNCHANGED vars => TypeInv'
  BY DEF vars, TypeInv, Distinct
<1>3. TypeInv /\ [Next]_vars => TypeInv'
  BY <1>2, NextInv
<1>. QED BY <1>1, <1>3, PTL DEF Spec

\* Room beside waiters is opened by a refused configuration only and lasts no
\* longer than until the next one is set: the promise that _release and
\* updateConfig keep by starting waiters.
THEOREM RoomIsFilledHolds == ASSUME Assumptions PROVE Spec => [][RoomIsFilled]_vars
<1>1. TypeInv /\ [Next]_vars => [RoomIsFilled]_vars
  BY NextInv
<1>. QED BY <1>1, Invariance, PTL DEF Spec

\* No priority inversion, whichever waiters _release or updateConfig start.
THEOREM StartsMostUrgentHolds == ASSUME Assumptions PROVE Spec => [][StartsMostUrgent]_vars
<1>1. ASSUME TypeInv, Next PROVE StartsMostUrgent
  <2> USE <1>1 DEF TypeInv
  <2>1. ASSUME NEW r, r \subseteq running, NEW k \in Int, Promote(waiting, r, k)
        PROVE  StartsMostUrgent
    <3> DEFINE C == Best(k, waiting)
    <3>1. waiting' = waiting \ C /\ running' = r \cup {t.order : t \in C} /\ C \subseteq waiting
      BY <2>1 DEF Promote, Best
    <3>2. ASSUME NEW t \in waiting, NEW u \in waiting, t.order \in running', u \in waiting'
          PROVE  Better(t, u)
      <4>1. t \in C
        BY <2>1, <3>1, <3>2 DEF Distinct
      <4>. QED BY <3>1, <3>2, <4>1, BestIsBest
    <3>. QED BY <3>2 DEF StartsMostUrgent
  <2>2. ASSUME NEW p \in Priority, Arrive(p) PROVE StartsMostUrgent
    BY <2>2 DEF Arrive, StartsMostUrgent
  <2>3. ASSUME NEW t \in waiting, GiveUp(t) PROVE StartsMostUrgent
    BY <2>3 DEF GiveUp, StartsMostUrgent
  <2>4. ASSUME NEW o \in running, Finish(o) PROVE StartsMostUrgent
    BY <2>1, <2>4 DEF Finish
  <2>5. ASSUME NEW c \in Configs, Configure(c) PROVE StartsMostUrgent
    <3>1. Cardinality(running) \in Nat /\ c.max \in Nat
      BY FiniteBelow DEF Assumptions
    <3>2. c.max - Cardinality(running) \in Int
      BY <3>1
    <3>. QED BY <2>1, <2>5, <3>2 DEF Configure
  <2>6. ASSUME NEW c \in Configs, RefuseConfig(c) PROVE StartsMostUrgent
    BY <2>6 DEF RefuseConfig, StartsMostUrgent
  <2>. QED BY <1>1, <2>2, <2>3, <2>4, <2>5, <2>6 DEF Next
<1>. QED BY <1>1, Invariance, PTL DEF Spec

=============================================================================
