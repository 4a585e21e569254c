--------------------------- MODULE NaturalLemmas ---------------------------
(***************************************************************************)
(* What the proofs about the process table, the ready queue and the        *)
(* allocator need to know of the natural numbers: the least number         *)
(* principle, which is how they argue by induction.                        *)
(***************************************************************************)
EXTENDS Integers, FiniteSetTheorems, TLAPS

(* A set of numbers that is not empty has a least element.                 *)
LEMMA Least ==
    ASSUME NEW S \in SUBSET Nat, S # {}
    PROVE  \E m \in S : \A n \in S : m <= n
  <1> DEFINE R == OpToRel(<, Nat)
  <1>1. IsWellFoundedOn(R, Nat)
    BY NatLessThanWellFounded, Zenon
  <1>2. R = {ss \in Nat \X Nat : ss[1] < ss[2]}
    BY Zenon DEF OpToRel
  <1> HIDE DEF R
  <1>3. PICK x \in S : \A y \in S : ~(<<y, x>> \in R)
    BY <1>1, WFMin
  <1>4. \A y \in S : <<y, x>> \in Nat \X Nat /\ <<y, x>>[1] = y /\ <<y, x>>[2] = x
    OBVIOUS
  <1>5. \A y \in S : ~(y < x)
    BY <1>2, <1>3, <1>4
  <1> QED
    BY <1>3, <1>5

(* A set that holds 1 and with every number below n the next one holds all *)
(* numbers up to n.                                                        *)
LEMMA UpTo ==
    ASSUME NEW n \in Nat, NEW S, n > 0 => 1 \in S,
           \A i \in 1..(n - 1) : i \in S => i + 1 \in S
    PROVE  1..n \subseteq S
  <1> DEFINE out == {i \in 1..n : i \notin S}
  <1> SUFFICES ASSUME out # {} PROVE FALSE
    OBVIOUS
  <1>1. out \in SUBSET Nat
    OBVIOUS
  <1>2. PICK m \in out : \A i \in out : m <= i
    BY <1>1, Least
  <1>3. m \in 1..n /\ m # 1 /\ m - 1 \in 1..(n - 1) /\ m - 1 \notin out
    BY <1>2
  <1>4. m - 1 \in S /\ (m - 1) + 1 = m
    BY <1>3
  <1> QED
    BY <1>2, <1>3, <1>4
=============================================================================
