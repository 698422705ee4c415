------------------------------ MODULE Extremum ------------------------------
(***************************************************************************)
(* Least and greatest elements of sets of numbers, and values computed     *)
(* step by step: what the CHOOSE expressions and the recursive functions   *)
(* of the component modules rest on.                                       *)
(***************************************************************************)
EXTENDS Integers, WellFoundedInduction, TLAPS

\* A set of natural numbers that is not empty has a least element.
LEMMA NatLeast ==
  ASSUME NEW S \in SUBSET Nat, S # {}
  PROVE  \E x \in S : \A y \in S : x <= y
<1>1. PICK x \in S : \A y \in S : <<y, x>> \notin OpToRel(<, Nat)
  BY WFMin, NatLessThanWellFounded, Zenon
<1>2. ASSUME NEW y \in S PROVE ~(y < x)
  <2>1. <<y, x>> \in Nat \X Nat
    OBVIOUS
  <2>2. <<y, x>>[1] < <<y, x>>[2] => <<y, x>> \in OpToRel(<, Nat)
    BY <2>1, Zenon DEF OpToRel
  <2> QED BY <1>1, <2>2
<1>3. \A y \in S : x <= y
  BY <1>2
<1> QED BY <1>3

\* A set of natural numbers that is not empty and bounded has a greatest one.
LEMMA NatGreatest ==
  ASSUME NEW S \in SUBSET Nat, S # {}, NEW b \in Nat, \A x \in S : x <= b
  PROVE  \E x \in S : \A y \in S : y <= x
<1> DEFINE T == {n \in Nat : \E x \in S : n = b - x}
<1>1. T \in SUBSET Nat /\ T # {}
  <2>1. PICK x \in S : TRUE
    OBVIOUS
  <2>2. b - x \in T
    OBVIOUS
  <2> QED BY <2>2
<1> HIDE DEF T
<1>2. PICK t \in T : \A u \in T : t <= u
  BY <1>1, NatLeast
<1>3. PICK x \in S : t = b - x
  BY <1>2 DEF T
<1>4. ASSUME NEW y \in S PROVE y <= x
  <2>1. b - y \in T
    BY DEF T
  <2>2. t <= b - y
    BY <2>1, <1>2
  <2> QED BY <2>2, <1>3
<1> QED BY <1>4

\* Ordered by a measure, and by themselves where that is equal, the elements
\* of a set of natural numbers that is not empty have a first one.
LEMMA NatFirstBy ==
  ASSUME NEW S \in SUBSET Nat, S # {}, NEW f, \A x \in S : f[x] \in Nat
  PROVE  \E x \in S : \A y \in S : f[x] < f[y] \/ (f[x] = f[y] /\ x <= y)
<1> DEFINE M == {f[x] : x \in S}
<1>1. M \in SUBSET Nat /\ M # {}
  OBVIOUS
<1>2. PICK m \in M : \A n \in M : m <= n
  BY <1>1, NatLeast
<1> DEFINE L == {x \in S : f[x] = m}
<1>3. L \in SUBSET Nat /\ L # {}
  BY <1>2
<1>4. PICK x \in L : \A y \in L : x <= y
  BY <1>3, NatLeast
<1>5. ASSUME NEW y \in S PROVE f[x] < f[y] \/ (f[x] = f[y] /\ x <= y)
  <2>1. m <= f[y] /\ m \in Nat /\ f[y] \in Nat
    BY <1>1, <1>2
  <2>2. CASE f[y] = m
    BY <2>2, <1>4
  <2>3. CASE f[y] # m
    BY <2>1, <2>3, <1>4
  <2> QED BY <2>2, <2>3
<1>6. x \in S
  BY <1>4
<1> QED BY <1>5, <1>6

\* f lists what N steps g[1], g[2], ... made one after the other compute from a.
Lists(f, a, g, N) == f[0] = a /\ \A k \in 1..N : f[k] = g[k][f[k - 1]]

\* There is such a list.
LEMMA RepeatedSteps ==
  ASSUME NEW N \in Nat, NEW S, NEW a \in S, NEW g \in [1..N -> [S -> S]]
  PROVE  \E f \in [0..N -> S] : Lists(f, a, g, N)
<1> DEFINE Short == {n \in Nat : n <= N /\ ~(\E f \in [0..n -> S] : Lists(f, a, g, n))}
<1>1. CASE Short = {}
  <2>1. N \notin Short
    BY <1>1
  <2> QED BY <2>1
<1>2. CASE Short # {}
  <2>1. PICK n \in Short : \A m \in Short : n <= m
    BY <1>2, NatLeast
  <2>2. n \in Nat /\ n <= N
    BY <2>1
  <2>3. CASE n = 0
    <3> DEFINE f == [k \in 0..0 |-> a]
    <3>1. f \in [0..0 -> S] /\ f[0] = a
      OBVIOUS
    <3>2. \A k \in 1..0 : f[k] = g[k][f[k - 1]]
      OBVIOUS
    <3> HIDE DEF f
    <3>3. Lists(f, a, g, 0)
      BY <3>1, <3>2 DEF Lists
    <3> QED BY <2>1, <2>3, <3>1, <3>3
  <2>4. CASE n # 0
    <3>1. n - 1 \in Nat /\ n - 1 <= N /\ n - 1 < n
      BY <2>2, <2>4
    <3>2. n - 1 \notin Short
      <4>1. n - 1 \in Short => n <= n - 1
        BY <2>1
      <4> HIDE DEF Short
      <4> QED BY <2>2, <4>1
    <3>3. PICK e \in [0..n - 1 -> S] : Lists(e, a, g, n - 1)
      BY <3>1, <3>2
    <3> DEFINE f == [k \in 0..n |-> IF k = n THEN g[n][e[n - 1]] ELSE e[k]]
    <3>4. n \in 1..N /\ n - 1 \in 0..n - 1
      BY <2>2, <2>4
    <3>5. e[n - 1] \in S /\ g[n] \in [S -> S]
      BY <3>3, <3>4
    <3>6. g[n][e[n - 1]] \in S
      BY <3>5
    <3>7. f \in [0..n -> S]
      <4>1. \A k \in 0..n : k # n => k \in 0..n - 1
        BY <2>2
      <4> QED BY <3>3, <3>6, <4>1
    <3>8. f[0] = a
      BY <2>2, <2>4, <3>3 DEF Lists
    <3>9. \A k \in 1..n : f[k] = g[k][f[k - 1]]
      <4> TAKE k \in 1..n
      <4>1. k \in 0..n /\ k - 1 \in 0..n /\ k - 1 # n
        BY <2>2
      <4>2. f[k - 1] = e[k - 1]
        BY <4>1
      <4>3. CASE k = n
        BY <4>1, <4>2, <4>3
      <4>4. CASE k # n
        <5>1. k \in 1..n - 1
          BY <2>2, <4>4
        <5> QED BY <3>3, <4>1, <4>2, <4>4, <5>1 DEF Lists
      <4> QED BY <4>3, <4>4
    <3> HIDE DEF f
    <3>10. Lists(f, a, g, n)
      BY <3>8, <3>9 DEF Lists
    <3> QED BY <2>1, <3>7, <3>10
  <2> QED BY <2>3, <2>4
<1> QED BY <1>1, <1>2

\* A set that has 0, and each number whose predecessor it has, has them all.
LEMMA Upwards ==
  ASSUME NEW N \in Nat, NEW S, 0 \in S, \A k \in 1..N : k - 1 \in S => k \in S
  PROVE  \A k \in 0..N : k \in S
<1> DEFINE Out == {k \in Nat : k <= N /\ k \notin S}
<1>1. CASE Out = {}
  <2>1. \A k \in 0..N : k \notin Out
    BY <1>1
  <2> QED BY <2>1
<1>2. CASE Out # {}
  <2>1. PICK k \in Out : \A j \in Out : k <= j
    BY <1>2, NatLeast
  <2>2. k \in Nat /\ k <= N /\ k \notin S /\ k # 0
    BY <2>1
  <2>3. k \in 1..N /\ k - 1 \in Nat /\ k - 1 <= N /\ k - 1 < k
    BY <2>2
  <2>4. k - 1 \notin Out
    <3>1. k - 1 \in Out => k <= k - 1
      BY <2>1
    <3> HIDE DEF Out
    <3> QED BY <2>3, <3>1
  <2>5. k - 1 \in S
    BY <2>3, <2>4
  <2> QED BY <2>2, <2>3, <2>5
<1> QED BY <1>1, <1>2
=============================================================================
