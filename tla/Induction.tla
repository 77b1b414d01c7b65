------------------------------ MODULE Induction ------------------------------
(***************************************************************************)
(* Induction over data in the form the provers can use: as facts about     *)
(* sets and functions, without an operator for a parameter.                *)
(*                                                                         *)
(* A property of all the points of a set is proved from a counterexample   *)
(* of least measure (LeastNumber).  A recursive definition                 *)
(* f[x \in D] == ... f ... is CHOOSE f : f = [x \in D |-> ... f ...]; it   *)
(* satisfies its equation if some function does, which Recursion says of   *)
(* every body that looks at f only where a measure is smaller.             *)
(***************************************************************************)
EXTENDS Integers, FiniteSets, Functions, WellFoundedInduction, FiniteSetTheorems, TLAPS

\* A set of natural numbers that is not empty has a least member.
LEMMA LeastNumber ==
    ASSUME NEW T \in SUBSET Nat, T # {}
    PROVE  \E n \in T : \A m \in T : n <= m
<1>1. IsWellFoundedOn(OpToRel(<, Nat), Nat)
  BY NatLessThanWellFounded
<1>2. PICK n \in T : \A m \in T : ~(<<m, n>> \in OpToRel(<, Nat))
  BY <1>1, WFMin
<1>3. \A m \in T : ~(m < n)
  BY <1>2 DEF OpToRel
<1>. QED BY <1>3

\* A set that is not empty has a member of least measure.
LEMMA LeastMember ==
    ASSUME NEW B, B # {}, NEW mu \in [B -> Nat]
    PROVE  \E x \in B : \A y \in B : mu[x] <= mu[y]
<1> DEFINE T == {mu[x] : x \in B}
<1>1. T \in SUBSET Nat /\ T # {}
  OBVIOUS
<1>2. PICK n \in T : \A m \in T : n <= m
  <2>. HIDE DEF T
  <2>. QED BY <1>1, LeastNumber
<1>. QED BY <1>2

\* A body G of a recursion: its value at x, for the function g.  It is local
\* in the measure mu: it depends on g only where mu is smaller than at x.
LocalBody(D, V, mu, G) ==
    /\ mu \in [D -> Nat]
    /\ G \in [D -> [[D -> V] -> V]]
    /\ \A x \in D : \A g, h \in [D -> V] :
         (\A y \in D : mu[y] < mu[x] => g[y] = h[y]) => G[x][g] = G[x][h]

Solves(f, D, V, G) == f \in [D -> V] /\ \A x \in D : f[x] = G[x][f]

\* A local body has a function that satisfies its equation.
LEMMA Recursion ==
    ASSUME NEW D, NEW V, V # {}, NEW mu, NEW G, LocalBody(D, V, mu, G)
    PROVE  \E f : Solves(f, D, V, G)
<1>. mu \in [D -> Nat] /\ G \in [D -> [[D -> V] -> V]]
  BY DEF LocalBody
<1>. PICK v \in V : TRUE
  OBVIOUS
<1> DEFINE F == [D -> V]
           Good(g, n) == \A x \in D : mu[x] < n => g[x] = G[x][g]
<1>1. ASSUME NEW n \in Nat PROVE \E g \in F : Good(g, n)
  <2> DEFINE T == {k \in Nat : ~ \E g \in F : Good(g, k)}
  <2>1. SUFFICES ASSUME T # {} PROVE FALSE
    OBVIOUS
  <2>2. PICK k \in T : \A m \in T : k <= m
    <3>1. T \in SUBSET Nat
      OBVIOUS
    <3>. HIDE DEF T
    <3>. QED BY <2>1, <3>1, LeastNumber
  <2>3. k # 0
    <3>1. [x \in D |-> v] \in F /\ Good([x \in D |-> v], 0)
      OBVIOUS
    <3>. QED BY <3>1
  <2>4. k - 1 \in Nat /\ k - 1 \notin T
    BY <2>2, <2>3
  <2>5. PICK g \in F : Good(g, k - 1)
    BY <2>4
  <2> DEFINE h == [x \in D |-> G[x][g]]
  <2>6. h \in F
    OBVIOUS
  <2>7. ASSUME NEW x \in D, mu[x] < k PROVE h[x] = G[x][h]
    <3>1. ASSUME NEW y \in D, mu[y] < mu[x] PROVE g[y] = h[y]
      <4>1. mu[y] \in Nat /\ mu[x] \in Nat
        OBVIOUS
      <4>2. mu[y] < k - 1
        BY <2>7, <3>1, <4>1
      <4>. QED BY <2>5, <4>2
    <3>2. G[x][g] = G[x][h]
      <4>. HIDE DEF h
      <4>. QED BY <2>6, <3>1 DEF LocalBody
    <3>. QED BY <3>2
  <2>8. Good(h, k)
    BY <2>7
  <2>. QED BY <2>6, <2>8
<1>2. ASSUME NEW n \in Nat, NEW g \in F, NEW h \in F, Good(g, n), Good(h, n),
             NEW z \in D, mu[z] < n
      PROVE  g[z] = h[z]
  <2> DEFINE B == {x \in D : mu[x] < n /\ g[x] # h[x]}
             T == {mu[x] : x \in B}
  <2>1. SUFFICES ASSUME g[z] # h[z] PROVE FALSE
    OBVIOUS
  <2>2. T \in SUBSET Nat /\ T # {}
    BY <1>2, <2>1
  <2>3. PICK k \in T : \A m \in T : k <= m
    <3>. HIDE DEF T
    <3>. QED BY <2>2, LeastNumber
  <2>4. PICK x \in B : k = mu[x]
    OBVIOUS
  <2>5. ASSUME NEW y \in D, mu[y] < mu[x] PROVE g[y] = h[y]
    <3>1. mu[y] \in Nat /\ mu[x] \in Nat
      OBVIOUS
    <3>2. ~(k <= mu[y]) /\ mu[y] < n
      BY <2>4, <2>5, <3>1
    <3>3. mu[y] \notin T
      <4>. HIDE DEF T
      <4>. QED BY <2>3, <3>2
    <3>. QED BY <3>2, <3>3
  <2>6. G[x][g] = G[x][h]
    BY <2>4, <2>5 DEF LocalBody
  <2>. QED BY <1>2, <2>4, <2>6
<1> DEFINE c(n) == CHOOSE g \in F : Good(g, n)
           f == [x \in D |-> c(mu[x] + 1)[x]]
<1>3. ASSUME NEW n \in Nat PROVE c(n) \in F /\ Good(c(n), n)
  BY <1>1
<1>4. f \in F
  <2>1. ASSUME NEW x \in D PROVE c(mu[x] + 1)[x] \in V
    <3>1. c(mu[x] + 1) \in F
      <4>1. mu[x] + 1 \in Nat
        OBVIOUS
      <4>. HIDE DEF c, F
      <4>. QED BY <1>3, <4>1
    <3>. HIDE DEF c
    <3>. QED BY <3>1
  <2>. HIDE DEF c
  <2>. QED BY <2>1
<1>5. ASSUME NEW x \in D PROVE f[x] = G[x][f]
  <2>1. mu[x] \in Nat /\ mu[x] + 1 \in Nat
    OBVIOUS
  <2>2. PICK g \in F : g = c(mu[x] + 1) /\ Good(g, mu[x] + 1)
    BY <1>3, <2>1
  <2>3. ASSUME NEW y \in D, mu[y] < mu[x] PROVE g[y] = f[y]
    <3>1. mu[y] \in Nat /\ mu[y] + 1 \in Nat /\ mu[y] < mu[y] + 1
      OBVIOUS
    <3>2. PICK h \in F : h = c(mu[y] + 1) /\ Good(h, mu[y] + 1)
      BY <1>3, <3>1
    <3>3. Good(g, mu[y] + 1)
      <4>1. ASSUME NEW w \in D, mu[w] < mu[y] + 1 PROVE mu[w] < mu[x] + 1
        <5>1. mu[w] \in Nat
          OBVIOUS
        <5>. QED BY <2>1, <2>3, <3>1, <4>1, <5>1
      <4>. QED BY <2>2, <4>1
    <3>4. g[y] = h[y]
      <4>. HIDE DEF Good, F
      <4>. QED BY <1>2, <3>1, <3>2, <3>3
    <3>. QED BY <3>2, <3>4
  <2>4. G[x][g] = G[x][f]
    <3>. HIDE DEF f
    <3>. QED BY <1>4, <2>3 DEF LocalBody
  <2>5. g[x] = G[x][g]
    BY <2>1, <2>2
  <2>6. f[x] = g[x]
    BY <2>2
  <2>. QED BY <2>4, <2>5, <2>6
<1>. HIDE DEF f
<1>. QED BY <1>4, <1>5 DEF Solves

-----------------------------------------------------------------------------
(* Sums over finite sets.                                                    *)

Pick(s) == CHOOSE x \in s : TRUE

\* One step of a sum over s; g stands for the sums over smaller sets.
SumBody(f, s, g) == IF s = {} THEN 0 ELSE f[Pick(s)] + g[s \ {Pick(s)}]

\* The sums over the subsets of S.
Sums(f, S) == CHOOSE g : g = [s \in SUBSET S |-> SumBody(f, s, g)]

IntegersOn(f, S) == IsFiniteSet(S) /\ \A x \in S : f[x] \in Int

\* The sum of the community modules, over S, is the last of these.
LEMMA SumIsLast == \A f, S : SumFunctionOnSet(f, S) = Sums(f, S)[S]
BY DEF SumFunctionOnSet, FoldFunctionOnSet, MapThenFoldSet, Sums, SumBody, Pick

\* Without the element picked, a finite set is smaller.
LEMMA PickFacts ==
    ASSUME NEW S, IsFiniteSet(S), NEW s \in SUBSET S
    PROVE  /\ Cardinality(s) \in Nat
           /\ s # {} => /\ Pick(s) \in s /\ s \ {Pick(s)} \in SUBSET S
                        /\ Cardinality(s \ {Pick(s)}) < Cardinality(s)
                        /\ Cardinality(s \ {Pick(s)}) \in Nat
<1>1. IsFiniteSet(s) /\ Cardinality(s) \in Nat
  BY FS_Subset, FS_CardinalityType
<1>2. ASSUME s # {} PROVE Pick(s) \in s
  BY <1>2 DEF Pick
<1>3. ASSUME s # {}
      PROVE  Cardinality(s \ {Pick(s)}) = Cardinality(s) - 1 /\ IsFiniteSet(s \ {Pick(s)})
  BY <1>1, <1>2, <1>3, FS_RemoveElement
<1>4. ASSUME s # {} PROVE Cardinality(s \ {Pick(s)}) \in Nat
  BY <1>3, <1>4, FS_CardinalityType
<1>. QED BY <1>1, <1>2, <1>3, <1>4

\* The sums satisfy their equation.
LEMMA SumEquation ==
    ASSUME NEW f, NEW S, IntegersOn(f, S)
    PROVE  \A s \in SUBSET S : Sums(f, S)[s] = SumBody(f, s, Sums(f, S))
<1> DEFINE D == SUBSET S
           F == [D -> Int]
           mu == [s \in D |-> Cardinality(s)]
           G == [s \in D |-> [g \in F |-> SumBody(f, s, g)]]
<1>1. IsFiniteSet(S) /\ \A x \in S : f[x] \in Int
  BY DEF IntegersOn
<1>2. mu \in [D -> Nat]
  BY <1>1, PickFacts
<1>3. G \in [D -> [F -> Int]]
  <2>1. ASSUME NEW s \in D, NEW g \in F PROVE SumBody(f, s, g) \in Int
    <3>1. s # {} => Pick(s) \in s /\ s \ {Pick(s)} \in D
      BY <1>1, PickFacts
    <3>2. s # {} => f[Pick(s)] \in Int /\ g[s \ {Pick(s)}] \in Int
      BY <1>1, <3>1
    <3>. QED BY <3>2 DEF SumBody
  <2>. QED BY <2>1
<1>4. LocalBody(D, Int, mu, G)
  <2>1. ASSUME NEW s \in D, NEW g \in F, NEW h \in F,
               \A y \in D : mu[y] < mu[s] => g[y] = h[y]
        PROVE  SumBody(f, s, g) = SumBody(f, s, h)
    BY <1>1, <2>1, PickFacts DEF SumBody
  <2>. QED BY <1>2, <1>3, <2>1 DEF LocalBody
<1>5. PICK g : Solves(g, D, Int, G)
  <2>1. Int # {}
    OBVIOUS
  <2>. HIDE DEF D, mu, G
  <2>. QED BY <1>4, <2>1, Recursion
<1>6. g = [s \in D |-> SumBody(f, s, g)]
  BY <1>5 DEF Solves
<1>7. Sums(f, S) = [s \in D |-> SumBody(f, s, Sums(f, S))]
  BY <1>6 DEF Sums
<1>. QED BY <1>7

\* A sum of integers is an integer.
LEMMA SumsType ==
    ASSUME NEW f, NEW S, IntegersOn(f, S)
    PROVE  \A s \in SUBSET S : Sums(f, S)[s] \in Int
<1> DEFINE B == {s \in SUBSET S : Sums(f, S)[s] \notin Int}
           mu == [s \in B |-> Cardinality(s)]
<1>1. IsFiniteSet(S) /\ \A x \in S : f[x] \in Int
  BY DEF IntegersOn
<1>2. SUFFICES ASSUME B # {} PROVE FALSE
  OBVIOUS
<1>3. PICK s \in B : \A y \in B : mu[s] <= mu[y]
  <2>1. mu \in [B -> Nat]
    BY <1>1, PickFacts
  <2>. HIDE DEF B, mu
  <2>. QED BY <1>2, <2>1, LeastMember
<1>4. Sums(f, S)[s] = SumBody(f, s, Sums(f, S))
  BY SumEquation
<1>5. s # {}
  BY <1>4 DEF SumBody
<1>6. Sums(f, S)[s \ {Pick(s)}] \in Int /\ f[Pick(s)] \in Int
  <2>1. s \in SUBSET S
    OBVIOUS
  <2>2. /\ Pick(s) \in s /\ s \ {Pick(s)} \in SUBSET S
        /\ Cardinality(s \ {Pick(s)}) < Cardinality(s)
        /\ Cardinality(s) \in Nat /\ Cardinality(s \ {Pick(s)}) \in Nat
    BY <1>1, <1>5, <2>1, PickFacts
  <2>3. s \ {Pick(s)} \notin B
    <3>1. \A y \in B : Cardinality(s) <= Cardinality(y)
      BY <1>3
    <3>. HIDE DEF B
    <3>. QED BY <2>2, <3>1
  <2>. QED BY <1>1, <2>1, <2>2, <2>3
<1>. QED BY <1>4, <1>5, <1>6 DEF SumBody

\* The sum of integers over a finite set is one.
LEMMA SumType ==
    ASSUME NEW f, NEW S, IntegersOn(f, S)
    PROVE  SumFunctionOnSet(f, S) \in Int
BY SumsType, SumIsLast

\* A change of one value changes the sum by as much, if it is summed at all.
LEMMA SumChange ==
    ASSUME NEW f, NEW g, NEW S, NEW c, IntegersOn(f, S), IntegersOn(g, S),
           \A x \in S : x # c => g[x] = f[x]
    PROVE  SumFunctionOnSet(g, S)
             = SumFunctionOnSet(f, S) + (IF c \in S THEN g[c] - f[c] ELSE 0)
<1> DEFINE a == Sums(f, S)
           b == Sums(g, S)
           d(s) == IF c \in s THEN g[c] - f[c] ELSE 0
           B == {s \in SUBSET S : b[s] # a[s] + d(s)}
           mu == [s \in B |-> Cardinality(s)]
<1>1. IsFiniteSet(S) /\ \A x \in S : f[x] \in Int /\ g[x] \in Int
  BY DEF IntegersOn
<1>2. ASSUME B # {} PROVE FALSE
  <2>1. PICK s \in B : \A y \in B : mu[s] <= mu[y]
    <3>1. mu \in [B -> Nat]
      BY <1>1, PickFacts
    <3>. HIDE DEF B, mu
    <3>. QED BY <1>2, <3>1, LeastMember
  <2>2. a[s] = SumBody(f, s, a) /\ b[s] = SumBody(g, s, b)
    BY SumEquation
  <2>3. s # {}
    BY <2>2 DEF SumBody
  <2>4. PICK x : x = Pick(s)
    OBVIOUS
  <2>5. x \in s /\ x \in S /\ s \ {x} \in SUBSET S /\ s \ {x} \notin B
    <3>1. s \in SUBSET S
      OBVIOUS
    <3>2. /\ Pick(s) \in s /\ s \ {Pick(s)} \in SUBSET S
          /\ Cardinality(s \ {Pick(s)}) < Cardinality(s)
          /\ Cardinality(s) \in Nat /\ Cardinality(s \ {Pick(s)}) \in Nat
      BY <1>1, <2>3, <3>1, PickFacts
    <3>3. \A y \in B : Cardinality(s) <= Cardinality(y)
      BY <2>1
    <3>. HIDE DEF B
    <3>. QED BY <2>4, <3>1, <3>2, <3>3
  <2>6. a[s \ {x}] \in Int /\ b[s \ {x}] \in Int
    BY <2>5, SumsType
  <2>7. a[s] = f[x] + a[s \ {x}] /\ b[s] = g[x] + b[s \ {x}]
    BY <2>2, <2>3, <2>4 DEF SumBody
  <2>8. b[s \ {x}] = a[s \ {x}] + d(s \ {x})
    BY <2>5
  <2>. HIDE DEF a, b
  <2>9. CASE x = c
    <3>1. b[s] = a[s] + d(s)
      BY <1>1, <2>5, <2>6, <2>7, <2>8, <2>9
    <3>. QED BY <3>1
  <2>10. CASE x # c
    <3>1. d(s \ {x}) = d(s) /\ g[x] = f[x] /\ d(s) \in Int
      BY <1>1, <2>5, <2>10
    <3>2. b[s] = a[s] + d(s)
      BY <1>1, <2>5, <2>6, <2>7, <2>8, <3>1
    <3>. QED BY <3>2
  <2>. QED BY <2>9, <2>10
<1>3. b[S] = a[S] + d(S)
  BY <1>2
<1>. QED BY <1>3, SumIsLast

\* A sum of nothing but zeros is zero.
LEMMA SumZero ==
    ASSUME NEW f, NEW S, IsFiniteSet(S), \A x \in S : f[x] = 0
    PROVE  SumFunctionOnSet(f, S) = 0
<1> DEFINE a == Sums(f, S)
           B == {s \in SUBSET S : a[s] # 0}
           mu == [s \in B |-> Cardinality(s)]
<1>1. IntegersOn(f, S)
  BY DEF IntegersOn
<1>2. ASSUME B # {} PROVE FALSE
  <2>1. PICK s \in B : \A y \in B : mu[s] <= mu[y]
    <3>1. mu \in [B -> Nat]
      BY PickFacts
    <3>. HIDE DEF B, mu
    <3>. QED BY <1>2, <3>1, LeastMember
  <2>2. a[s] = SumBody(f, s, a)
    BY <1>1, SumEquation
  <2>3. s # {}
    BY <2>2 DEF SumBody
  <2>4. a[s \ {Pick(s)}] = 0 /\ f[Pick(s)] = 0
    <3>1. s \in SUBSET S
      OBVIOUS
    <3>2. /\ Pick(s) \in s /\ s \ {Pick(s)} \in SUBSET S
          /\ Cardinality(s \ {Pick(s)}) < Cardinality(s)
          /\ Cardinality(s) \in Nat /\ Cardinality(s \ {Pick(s)}) \in Nat
      BY <2>3, <3>1, PickFacts
    <3>3. s \ {Pick(s)} \notin B
      <4>1. \A y \in B : Cardinality(s) <= Cardinality(y)
        BY <2>1
      <4>. HIDE DEF B
      <4>. QED BY <3>2, <4>1
    <3>. QED BY <3>1, <3>2, <3>3
  <2>. QED BY <2>2, <2>3, <2>4 DEF SumBody
<1>3. a[S] = 0
  BY <1>2
<1>. QED BY <1>3, SumIsLast

=============================================================================
