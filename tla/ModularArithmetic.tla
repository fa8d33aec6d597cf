------------------------- MODULE ModularArithmetic -------------------------
(***************************************************************************)
(* Counters of a fixed width: what % keeps of a number that is added to.   *)
(***************************************************************************)
EXTENDS Integers, TLAPS

LEMMA Remainder ==
    ASSUME NEW a \in Int, NEW w \in Nat \ {0}
    PROVE  a % w \in 0..(w - 1) /\ \E q \in Int : a = w * q + (a % w)
<1>1. a % w \in 0..(w - 1) /\ a \div w \in Int
  OBVIOUS
<1>2. a = w * (a \div w) + (a % w)
  OBVIOUS
<1> QED
  BY <1>1, <1>2

LEMMA OneRemainder ==
    ASSUME NEW w \in Nat \ {0}, NEW q \in Int, NEW p \in Int,
           NEW r \in 0..(w - 1), NEW s \in 0..(w - 1), w * q + r = w * p + s
    PROVE  r = s
<1>1. ASSUME NEW x \in Int, NEW y \in Int, x > y
      PROVE  w * x >= w * y + w
  <2>1. x - y - 1 \in Nat /\ x = y + 1 + (x - y - 1)
    BY <1>1
  <2>2. PICK d \in Nat : x = y + 1 + d
    BY <2>1
  <2>3. w * x = w * y + w + w * d
    BY <2>2
  <2>4. w * d >= 0 /\ w * x \in Int /\ w * y \in Int /\ w * d \in Int
    OBVIOUS
  <2> QED
    BY <2>3, <2>4
<1>2. w * q \in Int /\ w * p \in Int
  OBVIOUS
<1>3. ~(q > p) /\ ~(p > q)
  BY <1>1, <1>2
<1> QED
  BY <1>2, <1>3

\* Adding to a remainder is adding to the number.
LEMMA AddRemainder ==
    ASSUME NEW a \in Int, NEW n \in Int, NEW w \in Nat \ {0}
    PROVE  ((a % w) + n) % w = (a + n) % w
<1> DEFINE r == ((a % w) + n) % w
           s == (a + n) % w
<1>1. PICK q \in Int : a = w * q + (a % w)
  BY Remainder
<1>2. a % w \in Int /\ (a % w) + n \in Int /\ a + n \in Int
  BY Remainder
<1>3. r \in 0..(w - 1) /\ s \in 0..(w - 1)
  BY <1>2, Remainder
<1>4. PICK p \in Int : (a % w) + n = w * p + r
  BY <1>2, Remainder
<1>5. PICK k \in Int : a + n = w * k + s
  BY <1>2, Remainder
<1> HIDE DEF r, s
<1>6. w * q + w * p = w * (q + p) /\ w * q \in Int /\ w * p \in Int /\ w * k \in Int
  OBVIOUS
<1>7. w * (q + p) + r = w * k + s
  BY <1>1, <1>2, <1>3, <1>4, <1>5, <1>6
<1>8. r = s
  BY <1>3, <1>7, OneRemainder
<1> QED
  BY <1>8 DEF r, s
=============================================================================
