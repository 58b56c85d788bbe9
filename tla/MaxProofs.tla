----------------------------- MODULE MaxProofs -----------------------------
(* Max of FiniteSetsExt is the greatest element of a bounded set. *)
EXTENDS Integers, FiniteSetsExt, WellFoundedInduction, TLAPS

\* A nonempty set of naturals has a least element.
LEMMA LeastNat ==
  ASSUME NEW T \in SUBSET Nat, T # {}
  PROVE  \E x \in T : \A y \in T : x <= y
<1>1. PICK x \in T : \A y \in T : ~ (<<y, x>> \in OpToRel(<, Nat))
  BY NatLessThanWellFounded, WFMin, T \subseteq Nat
<1>2. \A y \in T : ~ (y < x)
  BY <1>1 DEF OpToRel
<1> QED
  BY <1>2

\* A nonempty set of naturals up to n has a greatest element, and Max is it.
LEMMA MaxIsGreatest ==
  ASSUME NEW n \in Nat, NEW S \in SUBSET (0 .. n), S # {}
  PROVE  Max(S) \in S /\ \A y \in S : y <= Max(S)
<1> DEFINE T == {k \in 0 .. n : n - k \in S}
<1>1. T \in SUBSET Nat
  OBVIOUS
<1>2. T # {}
  <2>1. PICK s \in S : s \in 0 .. n
    OBVIOUS
  <2>2. n - s \in 0 .. n /\ n - (n - s) = s
    BY <2>1
  <2> QED
    BY <2>1, <2>2
<1>3. PICK t \in T : \A y \in T : t <= y
  BY <1>1, <1>2, LeastNat
<1>4. n - t \in S /\ t \in 0 .. n
  OBVIOUS
<1>5. \A y \in S : n - t >= y
  <2> TAKE y \in S
  <2>1. y \in 0 .. n
    OBVIOUS
  <2>2. n - y \in 0 .. n /\ n - (n - y) = y
    BY <2>1
  <2>3. n - y \in T
    BY <2>2
  <2>4. t <= n - y
    BY <2>3, <1>3
  <2> QED
    BY <2>1, <2>4, <1>4
<1>6. \A x \in S : x \in Int
  OBVIOUS
<1>7. Max(S) \in S /\ \A y \in S : Max(S) >= y
  BY <1>4, <1>5 DEF Max
<1> QED
  BY <1>6, <1>7
=============================================================================
