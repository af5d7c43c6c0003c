--------------------------- MODULE Numbers_proofs ---------------------------
(***************************************************************************)
(* Facts of arithmetic that several proofs share.                          *)
(***************************************************************************)
EXTENDS Integers, WellFoundedInduction, TLAPS

\* A set of numbers has a least one.
LEMMA LeastNumber ==
  ASSUME NEW T, T \subseteq Nat, T # {}
  PROVE  \E n \in T : \A k \in T : n <= k
<1>1. PICK R : R = OpToRel(<, Nat)
  OBVIOUS
<1>2. IsWellFoundedOn(R, Nat)
  BY <1>1, NatLessThanWellFounded
<1>3. PICK x \in T : \A y \in T : ~(<<y, x>> \in R)
  BY <1>2, WFMin
<1>4. \A y \in T : ~(y < x)
  BY <1>1, <1>3 DEF OpToRel
<1> QED
  BY <1>4

\* Products, one factor larger by one or by some.
LEMMA Times ==
  ASSUME NEW a \in Int, NEW b \in Int
  PROVE  /\ a * b \in Int /\ a * (b + 1) = a * b + a /\ a * 0 = 0
         /\ a >= 0 /\ b >= 0 => a * b >= 0
OBVIOUS

LEMMA TimesGrows ==
  ASSUME NEW a \in Nat, NEW b \in Int, NEW c \in Int, b <= c
  PROVE  a * b <= a * c
OBVIOUS

\* A division that comes out even.
LEMMA EvenDivision ==
  ASSUME NEW n \in Nat \ {0}, NEW b \in Nat \ {0}, n % b = 0
  PROVE  n \div b \in Nat \ {0} /\ n = b * (n \div b)
<1>1. PICK q \in Int : q = n \div b
  OBVIOUS
<1>2. n = b * q
  BY <1>1
<1>3. q > 0
  BY <1>2, TimesGrows, Times
<1> QED
  BY <1>1, <1>2, <1>3

\* The quotient and the remainder make up the number.
LEMMA Quotient ==
  ASSUME NEW n \in Int, NEW b \in Nat \ {0}, NEW q \in Int, q = n \div b, NEW r \in Int, r = n % b
  PROVE  n = b * q + r
OBVIOUS

\* Every number is a multiple and less than one more.
LEMMA Divided ==
  ASSUME NEW n \in Nat, NEW b \in Nat \ {0}
  PROVE  \E q \in Nat, r \in 0..(b - 1) : n = b * q + r
<1>1. PICK q \in Nat : q = n \div b
  OBVIOUS
<1>2. PICK r \in 0..(b - 1) : r = n % b
  OBVIOUS
<1>3. n = b * q + r
  BY <1>1, <1>2, Quotient
<1> QED
  BY <1>3
=============================================================================
