----------------------------- MODULE Iteration -----------------------------
(***************************************************************************)
(* Induction over the positions of a sequence, for functions that are      *)
(* defined position by position.                                           *)
(***************************************************************************)
EXTENDS Integers, WellFoundedInduction, TLAPS

\* A set of natural numbers that has 0 and each successor has them all.
LEMMA Induction ==
    ASSUME NEW A, 0 \in A, \A i \in Nat : i \in A => i + 1 \in A
    PROVE  \A i \in Nat : i \in A
  <1> SUFFICES ASSUME NEW n \in Nat, n \notin A PROVE FALSE
    OBVIOUS
  <1> DEFINE Missed == {i \in Nat : i \notin A}
  <1>1. Missed \subseteq Nat /\ Missed # {}
    OBVIOUS
  <1>2. PICK x \in Missed : \A y \in Missed : ~(<<y, x>> \in OpToRel(<, Nat))
    BY <1>1, NatLessThanWellFounded, WFMin, Zenon
  <1>3. \A y \in Missed : ~(y < x)
    BY <1>2, Zenon DEF OpToRel
  <1>4. x # 0 /\ x - 1 \in Nat /\ x - 1 \notin Missed
    BY <1>3
  <1> QED BY <1>4

\* The same up to a bound.
LEMMA BoundedInduction ==
    ASSUME NEW n \in Nat, NEW A, 0 \in A, \A i \in 0..n : i \in A /\ i < n => i + 1 \in A
    PROVE  \A i \in 0..n : i \in A
  <1> DEFINE B == {i \in Nat : i <= n => i \in A}
  <1>1. 0 \in B /\ \A i \in Nat : i \in B => i + 1 \in B
    OBVIOUS
  <1>2. \A i \in Nat : i \in B
    <2> HIDE DEF B
    <2> QED BY <1>1, Induction
  <1> QED BY <1>2

\* What n steps lead through, from `first` on, each step a function of its own.
Run(f, S, n, first, step) ==
    /\ f \in [0..n -> S]
    /\ f[0] = first
    /\ \A i \in 1..n : f[i] = step[i][f[i - 1]]

LEMMA Iterate ==
    ASSUME NEW S, NEW n \in Nat, NEW first \in S, NEW step \in [1..n -> [S -> S]]
    PROVE  \E f : Run(f, S, n, first, step)
  <1> DEFINE Runs(m) == {f \in [0..m -> S] : f[0] = first /\ \A i \in 1..m : f[i] = step[i][f[i - 1]]}
             A == {m \in 0..n : Runs(m) # {}}
  <1>1. 0 \in A
    <2>1. [i \in 0..0 |-> first] \in Runs(0)
      OBVIOUS
    <2> QED BY <2>1
  <1>2. ASSUME NEW m \in 0..n, m \in A, m < n PROVE m + 1 \in A
    <2>1. PICK f : f \in Runs(m)
      BY <1>2
    <2> DEFINE g == [i \in 0..m + 1 |-> IF i = m + 1 THEN step[m + 1][f[m]] ELSE f[i]]
    <2>2. m + 1 \in 1..n /\ f[m] \in S /\ step[m + 1][f[m]] \in S
      BY <1>2, <2>1
    <2>3. g \in [0..m + 1 -> S] /\ g[0] = first
      BY <2>1, <2>2
    <2>4. ASSUME NEW i \in 1..m + 1 PROVE g[i] = step[i][g[i - 1]]
      <3>1. CASE i = m + 1
        <4>1. g[i - 1] = f[m] /\ g[i] = step[m + 1][f[m]]
          BY <3>1, <2>2
        <4> QED BY <4>1, <3>1
      <3>2. CASE i # m + 1
        <4>1. i \in 1..m /\ g[i] = f[i] /\ g[i - 1] = f[i - 1]
          BY <3>2, <2>2
        <4> QED BY <4>1, <2>1
      <3> QED BY <3>1, <3>2
    <2>5. g \in Runs(m + 1)
      <3> HIDE DEF g
      <3> QED BY <2>3, <2>4
    <2>6. m + 1 \in 0..n
      BY <1>2
    <2> HIDE DEF Runs, g
    <2> QED BY <2>5, <2>6
  <1>3. \A m \in 0..n : m \in A
    <2> HIDE DEF A
    <2> QED BY <1>1, <1>2, BoundedInduction
  <1>4. PICK f : f \in Runs(n)
    BY <1>3
  <1> QED BY <1>4 DEF Run

\* The same with a set for each position.
RunIn(f, S, n, first, step) ==
    /\ f \in [0..n -> UNION {S[i] : i \in 0..n}]
    /\ f[0] = first
    /\ \A i \in 1..n : f[i - 1] \in S[i - 1] /\ f[i] = step[i][f[i - 1]]

LEMMA IterateIn ==
    ASSUME NEW n \in Nat, NEW S, NEW first \in S[0], NEW step,
           \A i \in 1..n : \A x \in S[i - 1] : step[i][x] \in S[i]
    PROVE  \E f : RunIn(f, S, n, first, step)
  <1> DEFINE All == UNION {S[i] : i \in 0..n}
             Runs(m) == {f \in [0..m -> All] : /\ f[0] = first /\ f[m] \in S[m]
                             /\ \A i \in 1..m : f[i - 1] \in S[i - 1] /\ f[i] = step[i][f[i - 1]]}
             A == {m \in 0..n : Runs(m) # {}}
  <1>1. 0 \in A
    <2>1. first \in All
      OBVIOUS
    <2> HIDE DEF All
    <2>2. [i \in 0..0 |-> first] \in Runs(0)
      BY <2>1
    <2> QED BY <2>2
  <1>2. ASSUME NEW m \in 0..n, m \in A, m < n PROVE m + 1 \in A
    <2>1. PICK f : f \in Runs(m)
      BY <1>2
    <2> DEFINE g == [i \in 0..m + 1 |-> IF i = m + 1 THEN step[m + 1][f[m]] ELSE f[i]]
    <2>2. m + 1 \in 1..n /\ m + 1 - 1 = m
      BY <1>2
    <2>3. f[m] \in S[m] /\ step[m + 1][f[m]] \in S[m + 1]
      BY <2>1, <2>2
    <2>4. step[m + 1][f[m]] \in All
      BY <2>2, <2>3
    <2> HIDE DEF All
    <2>5. g \in [0..m + 1 -> All] /\ g[0] = first /\ g[m + 1] \in S[m + 1]
      BY <2>1, <2>2, <2>3, <2>4
    <2>6. ASSUME NEW i \in 1..m + 1 PROVE g[i - 1] \in S[i - 1] /\ g[i] = step[i][g[i - 1]]
      <3>1. CASE i = m + 1
        <4>1. g[i - 1] = f[m] /\ g[i] = step[m + 1][f[m]]
          BY <3>1, <2>2
        <4> QED BY <4>1, <3>1, <2>2, <2>3
      <3>2. CASE i # m + 1
        <4>1. i \in 1..m /\ g[i] = f[i] /\ g[i - 1] = f[i - 1]
          BY <3>2, <2>2
        <4> QED BY <4>1, <2>1
      <3> QED BY <3>1, <3>2
    <2>7. g \in Runs(m + 1)
      <3> HIDE DEF g
      <3> QED BY <2>5, <2>6
    <2>8. m + 1 \in 0..n
      BY <1>2
    <2> HIDE DEF Runs, g
    <2> QED BY <2>7, <2>8
  <1>3. \A m \in 0..n : m \in A
    <2> HIDE DEF A
    <2> QED BY <1>1, <1>2, BoundedInduction
  <1>4. PICK f : f \in Runs(n)
    <2>1. n \in 0..n
      OBVIOUS
    <2> QED BY <1>3, <2>1
  <1> QED BY <1>4 DEF RunIn

\* Where such steps lead.
LEMMA LeadsTo ==
    ASSUME NEW n \in Nat, NEW S, NEW after, after[0] \in S[0],
           \A i \in 1..n : after[i - 1] \in S[i - 1] => after[i] \in S[i]
    PROVE  after[n] \in S[n]
  <1> DEFINE A == {i \in 0..n : after[i] \in S[i]}
  <1>1. 0 \in A
    OBVIOUS
  <1>2. ASSUME NEW i \in 0..n, i \in A, i < n PROVE i + 1 \in A
    <2>1. i + 1 \in 1..n /\ i + 1 - 1 = i
      BY <1>2
    <2> QED BY <1>2, <2>1
  <1>3. \A i \in 0..n : i \in A
    <2> HIDE DEF A
    <2> QED BY <1>1, <1>2, BoundedInduction
  <1> QED BY <1>3
=============================================================================
