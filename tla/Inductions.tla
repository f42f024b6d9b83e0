----------------------------- MODULE Inductions -----------------------------
(***************************************************************************)
(* Facts about natural numbers that the proofs about loops rest on: there  *)
(* is a least counterexample, and so induction and definition by recursion *)
(* are sound.                                                              *)
(***************************************************************************)
EXTENDS Integers, FiniteSetsExt, NaturalsInduction, WellFoundedInduction, TLAPS

\* A set of naturals that is not empty has a least element, which Min returns.
LEMMA Least ==
    ASSUME NEW S, S \subseteq Nat, S # {}
    PROVE  Min(S) \in S /\ \A y \in S : Min(S) <= y
<1> DEFINE R == OpToRel(<, Nat)
<1>1. R = {p \in Nat \X Nat : p[1] < p[2]}
  BY DEF OpToRel
<1>2. IsWellFoundedOn(R, Nat)
  BY NatLessThanWellFounded, Zenon
<1> HIDE DEF R
<1>3. PICK x \in S : \A y \in S : <<y, x>> \notin R
  BY <1>2, WFMin, Zenon
<1>4. ASSUME NEW y \in S PROVE x <= y
  <2>1. x \in Nat /\ y \in Nat
    OBVIOUS
  <2>2. y < x => <<y, x>> \in R
    BY <1>1, <2>1
  <2> QED
    BY <1>3, <2>1, <2>2
<1> QED
  BY <1>3, <1>4, Zenon DEF Min

\* Induction, with the property as a set.
LEMMA Induction ==
    ASSUME NEW T, 0 \in T, \A n \in Nat : n \in T => n + 1 \in T
    PROVE  \A n \in Nat : n \in T
<1> DEFINE B == Nat \ T
<1> SUFFICES ASSUME B # {} PROVE FALSE
  OBVIOUS
<1> DEFINE x == Min(B)
<1>1. x \in B /\ \A y \in B : x <= y
  BY Least
<1> HIDE DEF x
<1>2. x - 1 \in Nat /\ ~(x <= x - 1)
  BY <1>1
<1>3. x - 1 \in T
  BY <1>1, <1>2
<1> QED
  BY <1>1, <1>2, <1>3

Steps(X) == [X \X Nat -> X]

\* The first n steps by g, from b.
Iterates(f, X, b, n, g) ==
    /\ f \in [0..n -> X]
    /\ f[0] = b
    /\ \A i \in 1..n : f[i] = g[<<f[i - 1], i>>]

\* A function is defined by its first value and by each from the one before.
LEMMA Recursion ==
    ASSUME NEW X, NEW b \in X, NEW n \in Nat, NEW g \in Steps(X)
    PROVE  \E f : Iterates(f, X, b, n, g)
<1> USE DEF Steps
<1> DEFINE G(f, m) == f[0] = b /\ \A i \in 1..m : f[i] = g[<<f[i - 1], i>>]
           T == {m \in Nat : \E f \in [0..m -> X] : G(f, m)}
<1>1. 0 \in T
  <2> DEFINE f == [i \in 0..0 |-> b]
  <2>1. f \in [0..0 -> X] /\ f[0] = b
    OBVIOUS
  <2>2. \A i \in 1..0 : f[i] = g[<<f[i - 1], i>>]
    OBVIOUS
  <2> HIDE DEF f
  <2> QED
    BY <2>1, <2>2
<1>2. ASSUME NEW m \in Nat, m \in T PROVE m + 1 \in T
  <2>1. PICK f \in [0..m -> X] : G(f, m)
    BY <1>2
  <2>2. f[0] = b /\ \A i \in 1..m : f[i] = g[<<f[i - 1], i>>]
    BY <2>1
  <2> DEFINE last == g[<<f[m], m + 1>>]
             h == [i \in 0..(m + 1) |-> IF i = m + 1 THEN last ELSE f[i]]
  <2>3. last \in X
    OBVIOUS
  <2> HIDE DEF last
  <2>4. h \in [0..(m + 1) -> X] /\ h[m + 1] = last
    BY <2>3
  <2>5. \A i \in 0..m : h[i] = f[i]
    OBVIOUS
  <2> HIDE DEF h
  <2>6. h[0] = b
    BY <2>2, <2>5
  <2>7. ASSUME NEW i \in 1..m PROVE h[i] = g[<<h[i - 1], i>>]
    <3>1. i \in 0..m /\ i - 1 \in 0..m
      OBVIOUS
    <3> QED
      BY <2>2, <2>5, <3>1
  <2>8. h[m + 1] = g[<<h[(m + 1) - 1], m + 1>>]
    <3>1. (m + 1) - 1 = m /\ m \in 0..m
      OBVIOUS
    <3> QED
      BY <2>4, <2>5, <3>1 DEF last
  <2>9. \A i \in 1..(m + 1) : i \in 1..m \/ i = m + 1
    OBVIOUS
  <2>10. \A i \in 1..(m + 1) : h[i] = g[<<h[i - 1], i>>]
    BY <2>7, <2>8, <2>9, Zenon
  <2> QED
    BY <2>4, <2>6, <2>10
<1> HIDE DEF T
<1>3. n \in T
  BY <1>1, <1>2, Induction
<1> QED
  BY <1>3 DEF T, Iterates
=============================================================================
