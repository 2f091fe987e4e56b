---------------------------- MODULE NumberLemmas -----------------------------
(***************************************************************************)
(* Lemmas about numbers: least elements, and indices and counters that     *)
(* wrap around.                                                            *)
(***************************************************************************)
EXTENDS ArqCommon, WellFoundedInduction, TLAPS

(* The least element of a set of numbers is the one below all the others.  *)
LEMMA LeastIs ==
  ASSUME NEW S \in SUBSET Int, NEW k \in S, \A j \in S : k <= j
  PROVE  Least(S) = k
<1> DEFINE P(i) == i \in S /\ \A j \in S : i <= j
<1>1. P(k)
  OBVIOUS
<1>2. ASSUME NEW i, P(i) PROVE i = k
  BY <1>2
<1>3. Least(S) = CHOOSE i : P(i)
  BY DEF Least
<1>4. P(CHOOSE i : P(i))
  BY <1>1
<1> QED
  BY <1>2, <1>3, <1>4

(* A set of natural numbers that is not empty has a least element.         *)
LEMMA SmallestExists ==
  ASSUME NEW S \in SUBSET Nat, S # {}
  PROVE  \E i \in S : \A j \in S : i <= j
<1> DEFINE R == OpToRel(<, Nat)
<1>1. PICK i \in S : \A j \in S : ~ (<<j, i>> \in R)
  <2>1. IsWellFoundedOn(R, Nat)
    BY NatLessThanWellFounded
  <2> HIDE DEF R
  <2> QED
    BY <2>1, WFMin
<1>2. ASSUME NEW j \in S
      PROVE  i <= j
  <2>1. <<j, i>> \in Nat \X Nat /\ ~ (j < i)
    BY <1>1 DEF OpToRel
  <2> QED
    BY <2>1
<1> QED
  BY <1>2

(* The circular index: one addition wraps around at most once.             *)
LEMMA Wraps ==
  ASSUME NEW n \in Nat \ {0}, NEW s \in 0 .. n - 1, NEW i \in 0 .. n
  PROVE  (s + i) % n = IF s + i < n THEN s + i ELSE s + i - n
OBVIOUS

(* Every offset is a slot.                                                 *)
LEMMA SlotIsSlot ==
  ASSUME NEW n \in Nat \ {0}, NEW s \in 0 .. n - 1, NEW i \in Nat
  PROVE  (s + i) % n \in 0 .. n - 1
OBVIOUS

(* Different offsets are different slots.                                  *)
LEMMA SlotsDiffer ==
  ASSUME NEW n \in Nat \ {0}, NEW s \in 0 .. n - 1,
         NEW i \in 0 .. n - 1, NEW j \in 0 .. n - 1,
         (s + i) % n = (s + j) % n
  PROVE  i = j
<1>1. ASSUME NEW k \in 0 .. n - 1
      PROVE  (s + k) % n = IF s + k < n THEN s + k ELSE s + k - n
  <2>1. k \in 0 .. n
    OBVIOUS
  <2> QED
    BY <2>1, Wraps
<1> QED
  BY <1>1

(* Every slot is some offset.                                              *)
LEMMA SlotsCovered ==
  ASSUME NEW n \in Nat \ {0}, NEW s \in 0 .. n - 1, NEW k \in 0 .. n - 1
  PROVE  \E i \in 0 .. n - 1 : (s + i) % n = k
<1>1. CASE k >= s
  <2>1. /\ k - s \in 0 .. n - 1
        /\ (s + (k - s)) % n = k
    BY <1>1, Wraps
  <2> QED
    BY <2>1
<1>2. CASE k < s
  <2>1. /\ k - s + n \in 0 .. n - 1
        /\ (s + (k - s + n)) % n = k
    BY <1>2, Wraps
  <2> QED
    BY <2>1
<1> QED
  BY <1>1, <1>2

(* A number below the modulus is its own remainder.                        *)
LEMMA SmallMod ==
  ASSUME NEW n \in Nat \ {0}, NEW k \in 0 .. n - 1
  PROVE  k % n = k
OBVIOUS

(* Going d places around the circle, and then i more.                      *)
LEMMA WrapsTwice ==
  ASSUME NEW n \in Nat \ {0}, NEW s \in 0 .. n - 1,
         NEW d \in 0 .. n, NEW i \in 0 .. n - 1
  PROVE  LET j == IF d + i < n THEN d + i ELSE d + i - n
         IN  /\ (s + d) % n \in 0 .. n - 1
             /\ j \in 0 .. n - 1
             /\ (((s + d) % n) + i) % n = (s + j) % n
             /\ (s + j) % n \in 0 .. n - 1
<1> DEFINE j == IF d + i < n THEN d + i ELSE d + i - n
           t == IF s + d < n THEN s + d ELSE s + d - n
<1>1. (s + d) % n = t
  BY Wraps
<1>2. t \in 0 .. n - 1 /\ j \in 0 .. n - 1
  OBVIOUS
<1>3. (t + i) % n = IF t + i < n THEN t + i ELSE t + i - n
  <2> HIDE DEF t
  <2>1. i \in 0 .. n
    OBVIOUS
  <2> QED
    BY <1>2, <2>1, Wraps
<1>4. (s + j) % n = IF s + j < n THEN s + j ELSE s + j - n
  <2> HIDE DEF j
  <2>1. j \in 0 .. n
    BY <1>2
  <2> QED
    BY <2>1, Wraps
<1>5. (t + i) % n = (s + j) % n /\ (s + j) % n \in 0 .. n - 1
  <2> HIDE DEF t, j
  <2>1. IF t + i < n THEN t + i = IF s + j < n THEN s + j ELSE s + j - n
        ELSE t + i - n = IF s + j < n THEN s + j ELSE s + j - n
    BY DEF t, j
  <2> QED
    BY <1>2, <1>3, <1>4, <2>1
<1> QED
  BY <1>1, <1>2, <1>5

(* A remainder is in range, whatever the sign of the number.               *)
LEMMA ModRange ==
  ASSUME NEW n \in Nat \ {0}, NEW k \in Int
  PROVE  k % n \in 0 .. n - 1
OBVIOUS

(* A remainder is below the modulus and no more than the number.           *)
LEMMA ModBelow ==
  ASSUME NEW n \in Nat \ {0}, NEW k \in Nat
  PROVE  k % n \in 0 .. n - 1 /\ k % n <= k
<1> DEFINE q == k \div n
           r == k % n
<1>1. q \in Nat /\ r \in 0 .. n - 1 /\ k = n * q + r
  OBVIOUS
<1> HIDE DEF q, r
<1>2. n * q \in Nat
  BY <1>1
<1>3. r \in 0 .. n - 1 /\ r <= k
  BY <1>1, <1>2
<1> QED
  BY <1>3 DEF r

(* A counter that wraps counts modulo its range.                           *)
LEMMA NextMod ==
  ASSUME NEW n \in Nat \ {0}, NEW k \in Nat
  PROVE  ((k % n) + 1) % n = (k + 1) % n
<1> DEFINE q == k \div n
           r == k % n
           q2 == (k + 1) \div n
           r2 == (k + 1) % n
<1>1. q \in Nat /\ r \in 0 .. n - 1 /\ k = n * q + r
  OBVIOUS
<1>2. q2 \in Nat /\ r2 \in 0 .. n - 1 /\ k + 1 = n * q2 + r2
  OBVIOUS
<1>3. (r + 1) % n = IF r + 1 < n THEN r + 1 ELSE r + 1 - n
  <2> HIDE DEF r
  <2>1. CASE r + 1 < n
    BY <1>1, <2>1, SmallMod
  <2>2. CASE r + 1 = n
    BY <1>1, <2>2
  <2> QED
    BY <1>1, <2>1, <2>2
<1> HIDE DEF q, r, q2, r2
<1>4. CASE r + 1 < n
  <2>1. n * q + (r + 1) = n * q2 + r2
    BY <1>1, <1>2
  <2>2. q2 = q
    <3>1. CASE q2 >= q + 1
      <4>1. n * q2 >= n * (q + 1) /\ n * (q + 1) = n * q + n
        BY <1>1, <1>2, <3>1
      <4>2. n * q2 \in Int /\ n * q \in Int
        BY <1>1, <1>2
      <4> QED
        BY <1>1, <1>2, <1>4, <2>1, <4>1, <4>2
    <3>2. CASE q >= q2 + 1
      <4>1. n * q >= n * (q2 + 1) /\ n * (q2 + 1) = n * q2 + n
        BY <1>1, <1>2, <3>2
      <4>2. n * q2 \in Int /\ n * q \in Int
        BY <1>1, <1>2
      <4> QED
        BY <1>1, <1>2, <1>4, <2>1, <4>1, <4>2
    <3> QED
      BY <1>1, <1>2, <3>1, <3>2
  <2>3. n * q \in Int /\ r2 = r + 1
    BY <1>1, <1>2, <2>1, <2>2
  <2> QED
    BY <1>3, <1>4, <2>3 DEF r, r2
<1>5. CASE r + 1 = n
  <2>1. n * q + n = n * q2 + r2
    BY <1>1, <1>2, <1>5
  <2>2. q2 = q + 1
    <3>1. CASE q2 >= q + 2
      <4>1. n * q2 >= n * (q + 2) /\ n * (q + 2) = n * q + n + n
        BY <1>1, <1>2, <3>1
      <4>2. n * q2 \in Int /\ n * q \in Int
        BY <1>1, <1>2
      <4> QED
        BY <1>1, <1>2, <2>1, <4>1, <4>2
    <3>2. CASE q >= q2
      <4>1. n * q >= n * q2
        BY <1>1, <1>2, <3>2
      <4>2. n * q2 \in Int /\ n * q \in Int
        BY <1>1, <1>2
      <4> QED
        BY <1>1, <1>2, <2>1, <4>1, <4>2
    <3> QED
      BY <1>1, <1>2, <3>1, <3>2
  <2>3. r2 = 0
    <3>1. n * q2 = n * q + n /\ n * q \in Int
      BY <1>1, <2>2
    <3> QED
      BY <1>2, <2>1, <3>1
  <2> QED
    BY <1>1, <1>3, <1>5, <2>3 DEF r, r2
<1> QED
  BY <1>1, <1>4, <1>5

(* The number before a counter that wraps is no more than the counter's    *)
(* own value before it.                                                    *)
LEMMA PreviousMod ==
  ASSUME NEW n \in Nat \ {0}, NEW k \in Nat \ {0}
  PROVE  /\ ((k % n) - 1) % n \in 0 .. n - 1
         /\ ((k % n) - 1) % n < k
<1> DEFINE r == k % n
<1>1. r \in 0 .. n - 1 /\ r <= k
  BY ModBelow
<1>2. CASE r > 0
  <2>1. (r - 1) % n = r - 1
    <3> HIDE DEF r
    <3>1. r - 1 \in 0 .. n - 1
      BY <1>1, <1>2
    <3> QED
      BY <3>1, SmallMod
  <2> HIDE DEF r
  <2>2. (r - 1) % n \in 0 .. n - 1 /\ (r - 1) % n < k
    BY <1>1, <1>2, <2>1
  <2> QED
    BY <2>2 DEF r
<1>3. CASE r = 0
  <2>1. k >= n
    <3>1. CASE k < n
      <4>1. k % n = k
        BY <3>1, SmallMod
      <4> QED
        BY <1>3, <4>1
    <3> QED
      BY <3>1
  <2>2. (0 - 1) % n = n - 1
    OBVIOUS
  <2> QED
    BY <1>3, <2>1, <2>2
<1> QED
  BY <1>1, <1>2, <1>3
==============================================================================
