-------------------------- MODULE InductionLemmas --------------------------
(***************************************************************************)
(* Induction over numbers, stated with sets in place of predicates, and    *)
(* what follows from it: the functions that the models define by recursion *)
(* over a sequence exist and have their type.                              *)
(***************************************************************************)
EXTENDS Integers, Sequences, WellFoundedInduction, TLAPS

\* A set of naturals that is not empty has a least element.
LEMMA LeastNat ==
  ASSUME NEW A \in SUBSET Nat, A # {}
  PROVE  \E m \in A : \A k \in A : m <= k
<1>1. PICK m \in A : \A k \in A : ~(<<k, m>> \in OpToRel(<, Nat))
  BY WFMin, NatLessThanWellFounded, Zenon
<1>2. ASSUME NEW k \in A PROVE m <= k
  <2>1. ~(<<k, m>> \in OpToRel(<, Nat))
    BY <1>1
  <2>2. k \in Nat /\ m \in Nat
    OBVIOUS
  <2>3. ~(k < m)
    BY <2>1, <2>2, Zenon DEF OpToRel
  <2>. QED BY <2>2, <2>3
<1>. QED BY <1>2

\* What holds at 0 and is handed on holds up to n.
LEMMA InductionTo ==
  ASSUME NEW n \in Nat, NEW A, 0 \in A,
         \A i \in 0..(n - 1) : i \in A => i + 1 \in A
  PROVE  0..n \subseteq A
<1>. DEFINE B == (0..n) \ A
<1>. SUFFICES ASSUME B # {} PROVE FALSE
  OBVIOUS
<1>1. B \in SUBSET Nat
  OBVIOUS
<1>2. PICK m \in B : \A k \in B : m <= k
  <2>. HIDE DEF B
  <2>. QED BY <1>1, LeastNat
<1>3. m \in 0..n /\ m \notin A /\ m # 0
  BY <1>2
<1>4. m - 1 \notin B
  BY <1>2, <1>3
<1>5. m - 1 \in A /\ m - 1 \in 0..(n - 1)
  BY <1>3, <1>4
<1>6. (m - 1) + 1 = m
  BY <1>3
<1>. QED BY <1>3, <1>5, <1>6

\* A set of numbers that is not empty and has a bound has a greatest.
LEMMA Greatest ==
  ASSUME NEW n \in Nat, NEW S \in SUBSET (1..n), S # {}
  PROVE  \E k \in S : \A j \in S : j <= k
<1>. DEFINE T == {n - k : k \in S}
<1>1. T \in SUBSET Nat /\ T # {}
  <2>1. \A k \in S : n - k \in Nat
    OBVIOUS
  <2>2. T # {}
    OBVIOUS
  <2>. QED BY <2>1, <2>2
<1>2. PICK x \in T : \A y \in T : x <= y
  <2>. HIDE DEF T
  <2>. QED BY <1>1, LeastNat
<1>3. PICK k \in S : x = n - k
  OBVIOUS
<1>4. ASSUME NEW j \in S PROVE j <= k
  <2>1. n - j \in T /\ j \in Int /\ k \in Int
    OBVIOUS
  <2>2. x <= n - j
    BY <1>2, <2>1
  <2>. QED BY <1>3, <2>1, <2>2
<1>. QED BY <1>4

\* f begins with a, and its i-th step is g[i].
Follows(f, n, a, g) == f[0] = a /\ \A i \in 1..n : f[i] = g[i][f[i - 1]]

\* There is such a function, whatever the steps are.
LEMMA Recursion ==
  ASSUME NEW n \in Nat, NEW S, NEW a \in S, NEW g \in [1..n -> [S -> S]]
  PROVE  \E f \in [0..n -> S] : Follows(f, n, a, g)
<1>. USE DEF Follows
<1>. DEFINE Good(f, m) == Follows(f, m, a, g)
            A == {m \in 0..n : \E f \in [0..m -> S] : Good(f, m)}
<1>1. 0 \in A
  <2>. DEFINE f == [i \in 0..0 |-> a]
  <2>1. f \in [0..0 -> S] /\ Good(f, 0)
    OBVIOUS
  <2>. HIDE DEF f, Good
  <2>. QED BY <2>1
<1>2. ASSUME NEW m \in 0..(n - 1), m \in A PROVE m + 1 \in A
  <2>1. PICK f \in [0..m -> S] : Good(f, m)
    BY <1>2
  <2>. DEFINE h == [i \in 0..(m + 1) |-> IF i = m + 1 THEN g[m + 1][f[m]] ELSE f[i]]
  <2>2. g[m + 1][f[m]] \in S
    <3>1. f[m] \in S /\ g[m + 1] \in [S -> S]
      OBVIOUS
    <3>. QED BY <3>1
  <2>3. h \in [0..(m + 1) -> S]
    BY <2>2
  <2>4. ASSUME NEW i \in 1..(m + 1) PROVE h[i] = g[i][h[i - 1]]
    <3>1. i - 1 \in 0..m /\ h[i - 1] = f[i - 1]
      OBVIOUS
    <3>2. CASE i = m + 1
      BY <3>1, <3>2
    <3>3. CASE i # m + 1
      <4>1. i \in 1..m /\ h[i] = f[i]
        BY <3>3
      <4>. QED BY <2>1, <3>1, <4>1
    <3>. QED BY <3>2, <3>3
  <2>5. h[0] = a
    BY <2>1
  <2>6. m + 1 \in 0..n
    OBVIOUS
  <2>. HIDE DEF h
  <2>7. Good(h, m + 1)
    BY <2>4, <2>5
  <2>. HIDE DEF Good
  <2>. QED BY <2>3, <2>6, <2>7
<1>3. n \in A
  <2>. HIDE DEF A
  <2>1. 0..n \subseteq A
    BY <1>1, <1>2, InductionTo
  <2>. QED BY <2>1
<1>. HIDE DEF Follows
<1>. QED BY <1>3

\* Every value of f is what g makes of f.
Fixes(f, n, g) == \A i \in 1..n : f[i] = g[i][f]

\* There is a function each value of which is made of the values after it.
LEMMA Backwards ==
  ASSUME NEW n \in Nat, NEW S, NEW a \in S, NEW g \in [1..n -> [[1..n -> S] -> S]],
         \A i \in 1..n : \A f, h \in [1..n -> S] :
            (\A j \in (i + 1)..n : f[j] = h[j]) => g[i][f] = g[i][h]
  PROVE  \E f \in [1..n -> S] : Fixes(f, n, g)
<1>. DEFINE Good(f, m) == \A i \in (n - m + 1)..n : f[i] = g[i][f]
            A == {m \in 0..n : \E f \in [1..n -> S] : Good(f, m)}
<1>1. 0 \in A
  <2>. DEFINE f == [i \in 1..n |-> a]
  <2>1. f \in [1..n -> S] /\ Good(f, 0)
    OBVIOUS
  <2>. HIDE DEF f, Good
  <2>. QED BY <2>1
<1>2. ASSUME NEW m \in 0..(n - 1), m \in A PROVE m + 1 \in A
  <2>1. PICK f \in [1..n -> S] : Good(f, m)
    BY <1>2
  <2>. DEFINE k == n - m
              h == [f EXCEPT ![k] = g[k][f]]
  <2>2. k \in 1..n /\ g[k] \in [[1..n -> S] -> S]
    <3>1. m \in Int /\ 0 <= m /\ m <= n - 1
      OBVIOUS
    <3>2. k \in 1..n
      BY ONLY n \in Nat, <3>1
    <3>. QED BY <3>2
  <2>3. g[k][f] \in S
    BY <2>2
  <2>4. h \in [1..n -> S] /\ h[k] = g[k][f] /\ \A j \in 1..n : j # k => h[j] = f[j]
    BY <2>2, <2>3
  <2>. HIDE DEF h
  <2>5. ASSUME NEW i \in (n - (m + 1) + 1)..n PROVE h[i] = g[i][h]
    <3>1. i \in 1..n /\ i >= k
      OBVIOUS
    <3>2. \A j \in (i + 1)..n : f[j] = h[j]
      BY <2>4, <3>1
    <3>3. g[i][f] = g[i][h]
      BY <2>4, <3>1, <3>2
    <3>4. CASE i = k
      BY <2>4, <3>3, <3>4
    <3>5. CASE i # k
      <4>1. i \in (n - m + 1)..n
        BY <3>1, <3>5
      <4>2. f[i] = g[i][f]
        BY <2>1, <4>1
      <4>. QED BY <2>4, <3>1, <3>3, <3>5, <4>2
    <3>. QED BY <3>4, <3>5
  <2>6. Good(h, m + 1)
    BY <2>5
  <2>7. m + 1 \in 0..n
    OBVIOUS
  <2>. HIDE DEF Good
  <2>. QED BY <2>4, <2>6, <2>7
<1>3. n \in A
  <2>. HIDE DEF A
  <2>1. 0..n \subseteq A
    BY <1>1, <1>2, InductionTo
  <2>. QED BY <2>1
<1>4. PICK f \in [1..n -> S] : Good(f, n)
  BY <1>3
<1>5. Fixes(f, n, g)
  <2>1. n - n + 1 = 1
    OBVIOUS
  <2>. QED BY <1>4, <2>1 DEF Fixes
<1>. QED BY <1>5
=============================================================================
