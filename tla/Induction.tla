----------------------------- MODULE Induction ----------------------------
(***************************************************************************)
(* Induction over the natural numbers, with sets of numbers in place of    *)
(* predicates, and the recursive functions it justifies.                   *)
(***************************************************************************)
EXTENDS WellFoundedInduction, TLAPS

\* Every set of numbers has a least one.
LEMMA Least ==
  ASSUME NEW S \in SUBSET Nat, S # {}
  PROVE  \E x \in S : \A y \in S : x <= y
<1>1. PICK x \in S : \A y \in S : ~(<<y, x>> \in OpToRel(<, Nat))
  BY NatLessThanWellFounded, WFMin
<1>2. \A y \in S : ~(y < x)
  BY <1>1 DEF OpToRel
<1> QED
  BY <1>2

\* What holds of 0, and of a number if of the one before it, holds up to n.
LEMMA InductionTo ==
  ASSUME NEW n \in Nat, NEW S, 0 \in S,
         \A k \in 1..n : k - 1 \in S => k \in S
  PROVE  \A k \in 0..n : k \in S
<1> DEFINE Missing == {k \in 0..n : k \notin S}
<1> SUFFICES ASSUME Missing # {} PROVE FALSE
  OBVIOUS
<1>1. Missing \in SUBSET Nat
  OBVIOUS
<1>2. PICK k \in Missing : \A m \in Missing : k <= m
  BY <1>1, Least
<1>3. k \in 1..n /\ k \notin S
  BY <1>2
<1>4. k - 1 \in 0..n /\ k - 1 \notin Missing
  BY <1>2, <1>3
<1> QED
  BY <1>3, <1>4

\* The functions that start at a and whose k-th step is the function g[k].
Runs(n, X, a, g) ==
    {f \in [0..n -> X] : f[0] = a /\ \A k \in 1..n : f[k] = g[k][f[k - 1]]}

\* A function defined by its value at 0 and its steps exists.
LEMMA RecursionTo ==
  ASSUME NEW n \in Nat, NEW X, NEW a \in X, NEW g \in [1..n -> [X -> X]]
  PROVE  Runs(n, X, a, g) # {}
<1> DEFINE Upto(m, f) == f \in [0..m -> X] /\ f[0] = a
                         /\ \A k \in 1..m : f[k] = g[k][f[k - 1]]
           Done == {m \in 0..n : \E f : Upto(m, f)}
<1>1. 0 \in Done
  <2>1. Upto(0, [k \in 0..0 |-> a])
    OBVIOUS
  <2>2. \E f : Upto(0, f)
    BY <2>1
  <2> HIDE DEF Upto
  <2> QED
    BY <2>2
<1>2. ASSUME NEW m \in 1..n, m - 1 \in Done PROVE m \in Done
  <2>1. PICK f : Upto(m - 1, f)
    BY <1>2
  <2> DEFINE h == [k \in 0..m |-> IF k = m THEN g[m][f[m - 1]] ELSE f[k]]
  <2>2. f[m - 1] \in X /\ g[m] \in [X -> X]
    BY <2>1
  <2>3. h \in [0..m -> X] /\ h[0] = a
    BY <2>1, <2>2
  <2>4. ASSUME NEW k \in 1..m PROVE h[k] = g[k][h[k - 1]]
    <3>1. h[k - 1] = f[k - 1]
      OBVIOUS
    <3>2. CASE k = m
      BY <3>1, <3>2
    <3>3. CASE k # m
      <4>1. k \in 1..(m - 1) /\ h[k] = f[k]
        BY <3>3
      <4> QED
        BY <2>1, <3>1, <4>1
    <3> QED
      BY <3>2, <3>3
  <2>5. Upto(m, h)
    BY <2>3, <2>4
  <2> HIDE DEF Upto, h
  <2> QED
    BY <2>5
<1> HIDE DEF Done
<1>3. n \in Done
  <2>1. \A m \in 1..n : m - 1 \in Done => m \in Done
    BY <1>2
  <2>2. \A m \in 0..n : m \in Done
    BY <1>1, <2>1, InductionTo
  <2> QED
    BY <2>2
<1> QED
  BY <1>3 DEF Done, Runs
=============================================================================
