----------------------------- MODULE Induction -----------------------------
(***************************************************************************)
(* Induction over the natural numbers, and the functions that loops         *)
(* compute, stated of sets and functions instead of operators, so that the  *)
(* other proof modules can cite them by name.                               *)
(***************************************************************************)
EXTENDS Integers, FiniteSets, FiniteSetTheorems, TLAPS

\* A set of natural numbers that is not empty has a least element.
LEMMA LeastElement ==
  ASSUME NEW S \in SUBSET Nat, S # {}
  PROVE  \E m \in S : \A n \in S : m <= n
<1> DEFINE T == {0 .. m : m \in S}
<1>1. T # {} /\ \A x \in T : x \in SUBSET Nat /\ IsFiniteSet(x)
  <2>1. \A m \in S : 0 .. m \in SUBSET Nat /\ IsFiniteSet(0 .. m)
    BY FS_Interval
  <2> QED BY <2>1
<1>2. T \subseteq FiniteSubsetsOf(Nat)
  BY <1>1, Zenon DEF FiniteSubsetsOf
<1>3. IsWellFoundedOn(StrictSubsetOrdering(Nat), FiniteSubsetsOf(Nat))
  BY FS_StrictSubsetOrderingWellFounded
<1>4. PICK x \in T : \A y \in T : ~ (<<y, x>> \in StrictSubsetOrdering(Nat))
  <2> HIDE DEF T
  <2> QED BY <1>1, <1>2, <1>3, WFMin
<1>5. PICK m \in S : x = 0 .. m
  OBVIOUS
<1>6. ASSUME NEW n \in S, n < m PROVE FALSE
  <2>1. 0 .. n \in T /\ 0 .. n \subseteq 0 .. m /\ 0 .. n # 0 .. m /\ 0 .. m \subseteq Nat
    BY <1>6
  <2> QED BY <2>1, <1>4, <1>5 DEF StrictSubsetOrdering
<1> QED BY <1>6

\* Induction: a set of natural numbers that contains n whenever it contains
\* every number below n has them all.
LEMMA SetInduction ==
  ASSUME NEW S, \A n \in Nat : (\A m \in 0 .. n - 1 : m \in S) => n \in S
  PROVE  Nat \subseteq S
<1> DEFINE Bad == {n \in Nat : n \notin S}
<1>1. ASSUME Bad # {} PROVE FALSE
  <2>1. PICK n \in Bad : \A k \in Bad : n <= k
    <3>1. Bad \in SUBSET Nat
      OBVIOUS
    <3> QED BY <3>1, <1>1, LeastElement
  <2>2. \A m \in 0 .. n - 1 : m \in S
    BY <2>1
  <2> QED BY <2>1, <2>2
<1> QED BY <1>1

\* f is what a loop computes from each state s \in S: out[s] if it is done there,
\* and what it computes from next[s] otherwise.
LoopResult(f, S, Done, next, out) ==
  /\ f = [s \in S |-> f[s]]
  /\ \A s \in S : f[s] = IF s \in Done THEN out[s] ELSE f[next[s]]

\* A loop: from state s it goes on to next[s], until it is done, and then its
\* result is out[s].  If each step lowers a measure, the function that the
\* recursive definition of its result asks for exists.
LEMMA LoopFunction ==
  ASSUME NEW S, NEW Done, NEW next \in [S -> S], NEW Out, NEW out \in [S -> Out],
         NEW measure \in [S -> Nat],
         \A s \in S : s \notin Done => measure[next[s]] < measure[s]
  PROVE  \E f : LoopResult(f, S, Done, next, out)
<1> DEFINE Below(n) == {s \in S : measure[s] < n}
           Good(f, n) == f = [s \in Below(n) |-> IF s \in Done THEN out[s] ELSE f[next[s]]]
           Ns == {n \in Nat : \E f : Good(f, n)}
           Same == {n \in Nat : \A f, g : \A k, l \in Nat : Good(f, k) /\ Good(g, l) =>
                       \A s \in S : measure[s] = n /\ n < k /\ n < l => f[s] = g[s]}
<1>a. ASSUME NEW f, NEW n \in Nat, Good(f, n), NEW s \in S, measure[s] < n
      PROVE  f[s] = IF s \in Done THEN out[s] ELSE f[next[s]]
  <2>1. s \in Below(n)
    BY <1>a
  <2> HIDE DEF Below
  <2> QED BY <1>a, <2>1
<1>1. Nat \subseteq Same
  <2>1. SUFFICES ASSUME NEW n \in Nat, \A m \in 0 .. n - 1 : m \in Same PROVE n \in Same
    BY SetInduction
  <2>2. SUFFICES ASSUME NEW f, NEW g, NEW k \in Nat, NEW l \in Nat, Good(f, k), Good(g, l),
                        NEW s \in S, measure[s] = n, n < k, n < l
                 PROVE  f[s] = g[s]
    <3> HIDE DEF Good
    <3> QED OBVIOUS
  <2>4. /\ f[s] = IF s \in Done THEN out[s] ELSE f[next[s]]
        /\ g[s] = IF s \in Done THEN out[s] ELSE g[next[s]]
    <3> HIDE DEF Good
    <3> QED BY <2>2, <1>a
  <2>5. CASE s \in Done
    BY <2>4, <2>5
  <2>6. CASE s \notin Done
    <3>1. next[s] \in S /\ measure[next[s]] \in 0 .. n - 1 /\ measure[next[s]] < k
          /\ measure[next[s]] < l
      BY <2>2, <2>6
    <3>2. measure[next[s]] \in Same
      BY <3>1, <2>1
    <3>3. f[next[s]] = g[next[s]]
      <4> HIDE DEF Good
      <4> QED BY <3>1, <3>2, <2>2
    <3> QED BY <2>4, <2>6, <3>3
  <2> QED BY <2>5, <2>6
<1>b. ASSUME NEW f, NEW g, NEW k \in Nat, NEW l \in Nat, Good(f, k), Good(g, l),
             NEW s \in S, measure[s] < k, measure[s] < l
      PROVE  f[s] = g[s]
  <2>1. measure[s] \in Same
    BY <1>1
  <2> HIDE DEF Good
  <2> QED BY <1>b, <2>1
<1>2. Nat \subseteq Ns
  <2>1. SUFFICES ASSUME NEW n \in Nat, \A m \in 0 .. n - 1 : m \in Ns PROVE n \in Ns
    BY SetInduction
  <2> DEFINE F == [m \in 0 .. n - 1 |-> CHOOSE f : Good(f, m)]
             f == [s \in Below(n) |-> IF s \in Done THEN out[s]
                                      ELSE F[measure[s]][next[s]]]
  <2>2. \A m \in 0 .. n - 1 : Good(F[m], m)
    <3>1. TAKE m \in 0 .. n - 1
    <3>2. \E h : Good(h, m)
      BY <2>1
    <3>3. Good(CHOOSE h : Good(h, m), m)
      <4> HIDE DEF Good
      <4> QED BY <3>2
    <3>4. F[m] = CHOOSE h : Good(h, m)
      <4> HIDE DEF Good
      <4> QED OBVIOUS
    <3> HIDE DEF Good, F
    <3> QED BY <3>3, <3>4
  <2>3. ASSUME NEW s \in S, measure[s] < n, s \notin Done
        PROVE  F[measure[s]][next[s]] = f[next[s]]
    <3> DEFINE t == next[s]
    <3>1. t \in S /\ measure[t] < measure[s] /\ measure[s] < n /\ t \in Below(n)
          /\ measure[s] \in 0 .. n - 1 /\ measure[t] \in 0 .. n - 1
          /\ measure[s] \in Nat /\ measure[t] \in Nat
      BY <2>3
    <3> HIDE DEF F, t
    <3>2. F[measure[s]][t] = IF t \in Done THEN out[t] ELSE F[measure[s]][next[t]]
      <4> HIDE DEF Good
      <4> QED BY <3>1, <2>2, <1>a
    <3>3. f[t] = IF t \in Done THEN out[t] ELSE F[measure[t]][next[t]]
      BY <3>1
    <3>4. CASE t \in Done
      BY <3>2, <3>3, <3>4 DEF t
    <3>5. CASE t \notin Done
      <4>1. next[t] \in S /\ measure[next[t]] < measure[t] /\ measure[next[t]] \in Nat
            /\ measure[next[t]] < measure[s]
        BY <3>1, <3>5
      <4>3. F[measure[s]][next[t]] = F[measure[t]][next[t]]
        <5> HIDE DEF Good
        <5> QED BY <4>1, <3>1, <2>2, <1>b
      <4> QED BY <3>2, <3>3, <3>5, <4>3 DEF t
    <3> QED BY <3>4, <3>5
  <2>4. Good(f, n)
    <3>1. ASSUME NEW s \in Below(n)
          PROVE  (IF s \in Done THEN out[s] ELSE F[measure[s]][next[s]])
                 = IF s \in Done THEN out[s] ELSE f[next[s]]
      <4>1. s \in S /\ measure[s] < n
        OBVIOUS
      <4> HIDE DEF F, f
      <4> QED BY <2>3, <4>1
    <3> HIDE DEF F
    <3> QED BY <3>1
  <2> QED BY <2>4
<1> DEFINE G == [n \in Nat |-> CHOOSE f : Good(f, n)]
           f == [s \in S |-> G[measure[s] + 1][s]]
<1>3. \A n \in Nat : Good(G[n], n)
  <2>1. TAKE n \in Nat
  <2>2. \E h : Good(h, n)
    BY <1>2
  <2> HIDE DEF Good
  <2>3. Good(CHOOSE h : Good(h, n), n)
    BY <2>2
  <2>4. G[n] = CHOOSE h : Good(h, n)
    OBVIOUS
  <2> HIDE DEF G
  <2> QED BY <2>3, <2>4
<1>4. ASSUME NEW s \in S
      PROVE  G[measure[s] + 1][s] = IF s \in Done THEN out[s] ELSE f[next[s]]
  <2>1. measure[s] \in Nat /\ s \in Below(measure[s] + 1)
    OBVIOUS
  <2>2. G[measure[s] + 1][s] = IF s \in Done THEN out[s] ELSE G[measure[s] + 1][next[s]]
    <3> HIDE DEF G, Good
    <3> QED BY <2>1, <1>3, <1>a
  <2>3. CASE s \in Done
    BY <2>2, <2>3
  <2>4. CASE s \notin Done
    <3>1. next[s] \in S /\ measure[next[s]] \in Nat /\ measure[next[s]] < measure[s]
      BY <2>4
    <3>3. G[measure[s] + 1][next[s]] = G[measure[next[s]] + 1][next[s]]
      <4> HIDE DEF G, Good
      <4> QED BY <3>1, <2>1, <1>3, <1>b
    <3> QED BY <2>2, <2>4, <3>1, <3>3
  <2> QED BY <2>3, <2>4
<1>5. f = [s \in S |-> IF s \in Done THEN out[s] ELSE f[next[s]]]
  <2> HIDE DEF G
  <2> QED BY <1>4
<1>6. LoopResult(f, S, Done, next, out)
  <2> HIDE DEF f
  <2> QED BY <1>5 DEF LoopResult
<1> QED
  <2> HIDE DEF f
  <2> QED BY <1>6
=============================================================================
