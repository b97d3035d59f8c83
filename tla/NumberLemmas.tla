---------------------------- MODULE NumberLemmas ----------------------------
(***************************************************************************)
(* Division and rounding: the digits of a disk address and the alignment   *)
(* of memory rest on them.                                                 *)
(***************************************************************************)
EXTENDS Integers, TLAPS

\* What is left and what is taken off by one digit.
LEMMA DivMod ==
    ASSUME NEW a \in Nat, NEW b \in Nat \ {0}
    PROVE  /\ a \div b \in Nat /\ a % b \in 0 .. b - 1
           /\ a = b * (a \div b) + (a % b)
OBVIOUS

\* A product with a positive factor is no smaller than the other one.
LEMMA TimesPositive ==
    ASSUME NEW b \in Nat, NEW d \in Nat \ {0}
    PROVE  b * d >= b
<1>1. b * (d - 1) >= 0
  OBVIOUS
<1>2. b * d = b * (d - 1) + b
  OBVIOUS
<1> QED BY <1>1, <1>2

\* Quotient and remainder are unique.
LEMMA DivUnique ==
    ASSUME NEW b \in Nat \ {0}, NEW q \in Nat, NEW r \in 0 .. b - 1,
           NEW p \in Nat, NEW s \in 0 .. b - 1, b * q + r = b * p + s
    PROVE  q = p
<1>1. b * (q - p) = s - r
  OBVIOUS
<1>2. b * (p - q) = r - s
  OBVIOUS
<1>3. ~ q > p
  <2>1. SUFFICES ASSUME q > p PROVE FALSE
    OBVIOUS
  <2>2. q - p \in Nat \ {0}
    BY <2>1
  <2>3. b * (q - p) >= b
    BY <2>2, TimesPositive
  <2> QED BY <1>1, <2>3
<1>4. ~ p > q
  <2>1. SUFFICES ASSUME p > q PROVE FALSE
    OBVIOUS
  <2>2. p - q \in Nat \ {0}
    BY <2>1
  <2>3. b * (p - q) >= b
    BY <2>2, TimesPositive
  <2> QED BY <1>2, <2>3
<1> QED BY <1>3, <1>4

\* Taking off two digits in one division or in two is the same, and leaves the same.
LEMMA DivTwice ==
    ASSUME NEW a \in Nat, NEW b \in Nat \ {0}, NEW c \in Nat \ {0}
    PROVE  /\ a \div (b * c) = (a \div b) \div c
           /\ a % (b * c) = b * ((a \div b) % c) + (a % b)
<1> DEFINE p == a \div b
           q == p \div c
           r == b * (p % c) + (a % b)
<1>1. b * c \in Nat \ {0}
  OBVIOUS
<1>2. /\ p \in Nat /\ a % b \in 0 .. b - 1 /\ a = b * p + (a % b)
      /\ q \in Nat /\ p % c \in 0 .. c - 1 /\ p = c * q + (p % c)
  <2>1. p \in Nat /\ a % b \in 0 .. b - 1 /\ a = b * p + (a % b)
    BY DivMod
  <2> QED BY <2>1, DivMod
<1> HIDE DEF p, q
<1>3. a = (b * c) * q + r
  <2>1. b * p = b * (c * q) + b * (p % c)
    BY <1>2
  <2>2. b * (c * q) = (b * c) * q
    BY <1>2
  <2> QED BY <1>2, <2>1, <2>2
<1>4. r \in 0 .. (b * c) - 1
  <2>1. b * (p % c) \in Nat
    BY <1>2
  <2>2. b * (c - 1 - (p % c)) \in Nat
    BY <1>2
  <2>3. b * (c - 1 - (p % c)) = b * c - b - b * (p % c)
    BY <1>2
  <2> QED BY <1>2, <2>1, <2>2, <2>3
<1>5. /\ a \div (b * c) \in Nat /\ a % (b * c) \in 0 .. (b * c) - 1
      /\ a = (b * c) * (a \div (b * c)) + (a % (b * c))
  BY <1>1, DivMod
<1> HIDE DEF r
<1>6. a \div (b * c) = q
  BY <1>1, <1>2, <1>3, <1>4, <1>5, DivUnique
<1>7. a % (b * c) = r
  BY <1>1, <1>2, <1>3, <1>4, <1>5, <1>6
<1> QED BY <1>6, <1>7 DEF q, p, r

\* A sum and a difference of multiples are multiples.
LEMMA MultipleSum ==
    ASSUME NEW a \in Nat, NEW b \in Nat, NEW m \in Nat \ {0}, a % m = 0, b % m = 0
    PROVE  (a + b) % m = 0
<1> DEFINE q == a \div m
           r == b \div m
           s == (a + b) \div m
           t == (a + b) % m
<1>1. q \in Nat /\ r \in Nat /\ a = m * q /\ b = m * r
  BY DivMod
<1>2. s \in Nat /\ t \in 0 .. m - 1 /\ a + b = m * s + t
  BY DivMod
<1> HIDE DEF q, r, s, t
<1>3. q + r \in Nat /\ m * (q + r) = m * q + m * r
  BY <1>1
<1>4. m * (q + r) + 0 = m * s + t
  BY <1>1, <1>2, <1>3
<1>5. 0 \in 0 .. m - 1
  OBVIOUS
<1>6. q + r = s
  BY <1>2, <1>3, <1>4, <1>5, DivUnique
<1>7. t = 0
  <2> DEFINE x == m * s
  <2>1. x \in Nat /\ x + 0 = x + t
    BY <1>2, <1>4, <1>6
  <2> HIDE DEF x
  <2> QED BY <1>2, <2>1
<1> QED BY <1>7 DEF t

\* The difference of two multiples is one.
LEMMA MultipleDifference ==
    ASSUME NEW a \in Nat, NEW b \in Nat, NEW m \in Nat \ {0}, a % m = 0, b % m = 0, b <= a
    PROVE  (a - b) % m = 0
<1> DEFINE q == a \div m
           r == b \div m
           s == (a - b) \div m
           t == (a - b) % m
<1>1. q \in Nat /\ r \in Nat /\ a = m * q /\ b = m * r
  BY DivMod
<1>2. s \in Nat /\ t \in 0 .. m - 1 /\ a - b = m * s + t
  <2>1. a - b \in Nat
    OBVIOUS
  <2> QED BY <2>1, DivMod
<1> HIDE DEF q, r, s, t
<1>3. r + s \in Nat /\ m * (r + s) = m * r + m * s
  BY <1>1, <1>2
<1>4. m * q + 0 = m * (r + s) + t
  BY <1>1, <1>2, <1>3
<1>5. 0 \in 0 .. m - 1
  OBVIOUS
<1>6. q = r + s
  BY <1>1, <1>2, <1>3, <1>4, <1>5, DivUnique
<1>7. t = 0
  <2> DEFINE x == m * q
  <2>1. x \in Nat /\ x + 0 = x + t
    BY <1>1, <1>4, <1>6
  <2> HIDE DEF x
  <2> QED BY <1>2, <2>1
<1> QED BY <1>7 DEF t

\* A multiple of a multiple is one.
LEMMA MultipleOfMultiple ==
    ASSUME NEW a \in Nat, NEW b \in Nat \ {0}, NEW m \in Nat \ {0}, a % b = 0, b % m = 0
    PROVE  a % m = 0
<1> DEFINE q == a \div b
           r == b \div m
           s == a \div m
           t == a % m
<1>1. q \in Nat /\ r \in Nat /\ a = b * q /\ b = m * r
  BY DivMod
<1>2. s \in Nat /\ t \in 0 .. m - 1 /\ a = m * s + t
  BY DivMod
<1> HIDE DEF q, r, s, t
<1>3. r * q \in Nat /\ (m * r) * q = m * (r * q)
  BY <1>1
<1>4. m * (r * q) + 0 = m * s + t
  BY <1>1, <1>2, <1>3
<1>5. 0 \in 0 .. m - 1
  OBVIOUS
<1>6. r * q = s
  BY <1>2, <1>3, <1>4, <1>5, DivUnique
<1>7. t = 0
  <2> DEFINE x == m * s
  <2>1. x \in Nat /\ x + 0 = x + t
    BY <1>2, <1>4, <1>6
  <2> HIDE DEF x
  <2> QED BY <1>2, <2>1
<1> QED BY <1>7 DEF t

\* Rounding up to a multiple of m: the least one that is no smaller.
LEMMA RoundUp ==
    ASSUME NEW n \in Nat, NEW m \in Nat \ {0}
    PROVE  LET up == n + m - 1
               r  == up - (up % m)
           IN  r \in Nat /\ r % m = 0 /\ n <= r /\ r < n + m
<1> DEFINE up == n + m - 1
           r  == up - (up % m)
<1>1. up \in Nat /\ m \in Nat \ {0}
  OBVIOUS
<1>2. up \div m \in Nat /\ up % m \in 0 .. m - 1 /\ up = m * (up \div m) + (up % m)
  <2> HIDE DEF up
  <2> QED BY <1>1, DivMod
<1>3. r = m * (up \div m) /\ r \in Nat /\ n <= r /\ r < n + m
  <2> DEFINE x == m * (up \div m)
             y == up % m
  <2>1. x + y = n + m - 1 /\ x \in Nat /\ y \in 0 .. m - 1 /\ r = (n + m - 1) - y
    BY <1>1, <1>2
  <2> HIDE DEF x, y, r, up
  <2>2. r = x /\ n <= x /\ x < n + m
    BY <2>1
  <2> QED BY <2>1, <2>2 DEF x
<1>4. r % m = 0
  <2> DEFINE k == up \div m
             s == r \div m
             t == r % m
  <2>1. r \in Nat /\ k \in Nat /\ r = m * k
    BY <1>2, <1>3
  <2> HIDE DEF r, k
  <2>2. s \in Nat /\ t \in 0 .. m - 1 /\ r = m * s + t
    BY <2>1, DivMod
  <2> HIDE DEF s, t
  <2>3. m * k + 0 = m * s + t /\ 0 \in 0 .. m - 1
    BY <2>1, <2>2
  <2>4. k = s
    BY <2>1, <2>2, <2>3, DivUnique
  <2>5. t = 0
    <3> DEFINE x == m * s
    <3>1. x \in Nat /\ x + 0 = x + t
      BY <2>2, <2>3, <2>4
    <3> HIDE DEF x
    <3> QED BY <2>2, <3>1
  <2> QED BY <2>5 DEF t
<1> QED BY <1>3, <1>4

=============================================================================
