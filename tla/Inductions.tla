---------------------------- MODULE Inductions ----------------------------
(***************************************************************************)
(* Induction over numbers, stated over sets instead of predicates, and     *)
(* what it gives: a function defined by recursion up to some number, as    *)
(* the walks of the models are, exists.                                    *)
(***************************************************************************)
EXTENDS Integers, WellFoundedInduction, TLAPS

LEMMA LeastNumber ==
    ASSUME NEW A \in SUBSET Nat, A # {}
    PROVE  \E n \in A : \A m \in A : n <= m
  <1>1. \E n \in A : \A m \in A : <<m, n>> \notin OpToRel(<, Nat)
    BY NatLessThanWellFounded, WFMin
  <1>2. PICK n \in A : \A m \in A : <<m, n>> \notin OpToRel(<, Nat)
    BY <1>1
  <1>3. ASSUME NEW m \in A PROVE n <= m
    <2>1. ~(m < n)
      BY <1>2 DEF OpToRel
    <2>. QED BY <2>1
  <1>. QED BY <1>3

\* A set with 0, and with every successor up to N, has all numbers up to N.
LEMMA UpToBySteps ==
    ASSUME NEW N \in Nat, NEW A, 0 \in A, \A n \in 1 .. N : n - 1 \in A => n \in A
    PROVE  \A n \in 0 .. N : n \in A
  <1>. SUFFICES ASSUME ~ \A n \in 0 .. N : n \in A
                PROVE  FALSE
    OBVIOUS
  <1>. DEFINE B == {n \in 0 .. N : n \notin A}
  <1>1. B \in SUBSET Nat /\ B # {}
    OBVIOUS
  <1>2. PICK n \in B : \A m \in B : n <= m
    BY <1>1, LeastNumber
  <1>3. n \in 1 .. N /\ n - 1 \in 0 .. N
    BY <1>2
  <1>4. n - 1 \in A
    BY <1>2, <1>3
  <1>. QED BY <1>2, <1>3, <1>4

\* A set of numbers with a bound has a greatest one.
LEMMA GreatestNumber ==
    ASSUME NEW N \in Nat, NEW A \in SUBSET (0 .. N), A # {}
    PROVE  \E n \in A : \A m \in A : m <= n
  <1>. DEFINE B == {n \in 0 .. N : N - n \in A}
  <1>1. B \in SUBSET Nat /\ B # {}
    <2>1. PICK a \in A : TRUE
      OBVIOUS
    <2>. DEFINE k == N - a
    <2>2. k \in 0 .. N /\ N - k = a
      OBVIOUS
    <2>. HIDE DEF k
    <2>. QED BY <2>1, <2>2
  <1>2. PICK n \in B : \A m \in B : n <= m
    BY <1>1, LeastNumber
  <1>3. ASSUME NEW m \in A
        PROVE  m <= N - n
    <2>1. N - m \in B
      <3>. DEFINE k == N - m
      <3>1. k \in 0 .. N /\ N - k = m
        OBVIOUS
      <3>. HIDE DEF k
      <3>2. k \in B
        BY <3>1
      <3>. QED BY <3>2 DEF k
    <2>. HIDE DEF B
    <2>2. n \in 0 .. N /\ m \in 0 .. N /\ n <= N - m
      BY <1>2, <2>1 DEF B
    <2>. QED BY <2>2
  <1>. QED BY <1>2, <1>3

\* f starts with first, and goes on with what step makes of the value before.
Builds(f, N, S, first, step) ==
    /\ f \in [0 .. N -> S] /\ f[0] = first
    /\ \A n \in 1 .. N : f[n] = step[<<n, f[n - 1]>>]

\* There is such a function, up to any number.
LEMMA RecursionExists ==
    ASSUME NEW N \in Nat, NEW S, NEW first \in S, NEW step \in [(1 .. N) \X S -> S]
    PROVE  \E f : Builds(f, N, S, first, step)
  <1>. DEFINE A == {n \in 0 .. N : \E f : Builds(f, n, S, first, step)}
  <1>1. 0 \in A
    <2>1. Builds([i \in 0 .. 0 |-> first], 0, S, first, step)
      BY DEF Builds
    <2>. QED BY <2>1
  <1>2. ASSUME NEW n \in 1 .. N, n - 1 \in A
        PROVE  n \in A
    <2>1. PICK f : Builds(f, n - 1, S, first, step)
      BY <1>2
    <2>. USE DEF Builds
    <2>. DEFINE g == [i \in 0 .. n |-> IF i = n THEN step[<<n, f[n - 1]>>] ELSE f[i]]
    <2>2. f[n - 1] \in S /\ step[<<n, f[n - 1]>>] \in S
      BY <2>1
    <2>3. g \in [0 .. n -> S] /\ g[0] = first
      BY <2>1, <2>2
    <2>4. ASSUME NEW i \in 1 .. n
          PROVE  g[i] = step[<<i, g[i - 1]>>]
      <3>1. g[i - 1] = f[i - 1]
        OBVIOUS
      <3>2. CASE i = n
        <4>1. g[n] = step[<<n, f[n - 1]>>] /\ g[n - 1] = f[n - 1]
          OBVIOUS
        <4>. HIDE DEF g
        <4>. QED BY <3>2, <4>1
      <3>3. CASE i # n
        <4>1. i \in 1 .. n - 1 /\ g[i] = f[i]
          BY <3>3
        <4>2. f[i] = step[<<i, f[i - 1]>>]
          BY <2>1, <4>1
        <4>. QED BY <3>1, <4>1, <4>2
      <3>. QED BY <3>2, <3>3
    <2>5. Builds(g, n, S, first, step)
      BY <2>3, <2>4
    <2>. HIDE DEF g, Builds
    <2>6. n \in 0 .. N
      OBVIOUS
    <2>. QED BY <2>5, <2>6
  <1>. HIDE DEF A
  <1>3. N \in A
    BY <1>1, <1>2, UpToBySteps
  <1>. QED BY <1>3 DEF A
=============================================================================
