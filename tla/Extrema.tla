------------------------------ MODULE Extrema ------------------------------
(* Sets of natural numbers have a least element and, when they are        *)
(* bounded, a greatest one: what the proofs need to know of the operators *)
(* that choose one.                                                       *)
EXTENDS Integers, WellFoundedInduction, TLAPS

(* A nonempty set of naturals has a least element. *)
LEMMA LeastExists ==
  ASSUME NEW S \in SUBSET Nat, S # {}
  PROVE  \E a \in S : \A b \in S : a <= b
<1> DEFINE R == OpToRel(<, Nat)
<1>1. ASSUME NEW a \in Nat, NEW b \in Nat, b < a
      PROVE  <<b, a>> \in R
  <2>1. R = {pair \in Nat \X Nat : pair[1] < pair[2]}
    BY DEF OpToRel
  <2> HIDE DEF R
  <2> QED BY <1>1, <2>1
<1>2. IsWellFoundedOn(R, Nat)
  BY NatLessThanWellFounded
<1> HIDE DEF R
<1>3. PICK a \in S : \A b \in S : ~ (<<b, a>> \in R)
  BY <1>2, WFMin, Zenon
<1>4. ASSUME NEW b \in S
      PROVE  a <= b
  <2>1. a \in Nat /\ b \in Nat
    OBVIOUS
  <2>2. ~(b < a)
    BY <1>1, <1>3, <2>1
  <2> QED BY <2>1, <2>2
<1> QED BY <1>4

(* A nonempty and bounded one has a greatest element. *)
LEMMA GreatestExists ==
  ASSUME NEW S \in SUBSET Nat, S # {}, NEW top \in Nat, \A b \in S : b <= top
  PROVE  \E a \in S : \A b \in S : b <= a
<1> DEFINE T == {top - b : b \in S}
<1>1. ASSUME NEW b \in S
      PROVE  top - b \in Nat
  OBVIOUS
<1>2. T \in SUBSET Nat
  BY <1>1
<1>3. T # {}
  OBVIOUS
<1>4. PICK c \in T : \A d \in T : c <= d
  BY <1>2, <1>3, LeastExists
<1>5. PICK a \in S : c = top - a
  BY <1>4
<1>6. ASSUME NEW b \in S
      PROVE  b <= a
  <2>1. top - b \in T
    OBVIOUS
  <2>2. c <= top - b
    BY <1>4, <2>1
  <2> QED BY <1>5, <2>2
<1> QED BY <1>6

(* What holds of 0 and of each successor up to n holds up to n. *)
LEMMA UpTo ==
  ASSUME NEW S, NEW n \in Nat, 0 \in S, \A i \in 0..(n - 1) : i \in S => i + 1 \in S
  PROVE  \A i \in 0..n : i \in S
<1> DEFINE Bad == {i \in 0..n : i \notin S}
<1> SUFFICES ASSUME Bad # {} PROVE FALSE
  OBVIOUS
<1>1. Bad \in SUBSET Nat
  OBVIOUS
<1>2. PICK a \in Bad : \A b \in Bad : a <= b
  BY <1>1, LeastExists
<1>3. a \in 0..n /\ a \notin S /\ a # 0
  OBVIOUS
<1>4. a - 1 \in 0..(n - 1) /\ a - 1 \in 0..n /\ ~(a <= a - 1) /\ (a - 1) + 1 = a
  BY <1>3
<1>5. a - 1 \in S
  BY <1>2, <1>4
<1>6. a \in S
  BY <1>4, <1>5
<1> QED BY <1>3, <1>6
=============================================================================
