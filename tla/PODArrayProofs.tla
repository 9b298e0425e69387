--------------------------- MODULE PODArrayProofs ---------------------------
(***************************************************************************)
(* The invariant of module PODArray is inductive, for any number of arrays *)
(* and blocks, any values, sizes and layouts; that storage is owned by one *)
(* array and holds what was called for follows, and, for elements whose    *)
(* size is a power of two, that no call leaves the storage.                *)
(***************************************************************************)
EXTENDS PODArray, FiniteSetTheorems, SequenceTheorems, WellFoundedInduction, TLAPS

-----------------------------------------------------------------------------
(* Multiples *)

(* Quotient and remainder, as C++ defines them for unsigned operands.      *)
LEMMA DivMod ==
  ASSUME NEW m \in Nat, NEW d \in Nat \ {0}
  PROVE  /\ m \div d \in Nat
         /\ m % d \in 0 .. d - 1
         /\ m = d * (m \div d) + (m % d)
BY SMT

(* Multiplication keeps the order, and strictly so for positive factors.   *)
LEMMA ProductMono ==
  ASSUME NEW d \in Nat \ {0}, NEW i \in Nat, NEW j \in Nat
  PROVE  /\ i * d \in Nat /\ j * d \in Nat
         /\ i <= j => i * d <= j * d
         /\ i < j => i * d + d <= j * d
<1>1. i * d \in Nat /\ j * d \in Nat
  BY SMT
<1>2. ASSUME i <= j PROVE i * d <= j * d
  BY <1>2, SMT
<1>3. ASSUME i < j PROVE i * d + d <= j * d
  <2>1. i + 1 <= j
    BY <1>3
  <2>2. (i + 1) * d <= j * d
    BY <2>1, SMT
  <2>3. (i + 1) * d = i * d + d
    BY SMT
  <2> QED
    BY <2>2, <2>3
<1> QED
  BY <1>1, <1>2, <1>3

(* Only one number of elements fills a given number of bytes.              *)
LEMMA DivExact ==
  ASSUME NEW n \in Nat, NEW d \in Nat \ {0}
  PROVE  n * d \in Nat /\ (n * d) \div d = n /\ (n * d) % d = 0
<1>1. n * d \in Nat
  BY ProductMono
<1> DEFINE m == n * d
           q == m \div d
           r == m % d
<1>2. q \in Nat /\ r \in 0 .. d - 1 /\ m = d * q + r
  BY <1>1, DivMod
<1> HIDE DEF q, r
<1>3. d * q = q * d
  BY <1>2, SMT
<1>4. ~ (q < n)
  <2> SUFFICES ASSUME q < n PROVE FALSE
    OBVIOUS
  <2>1. q * d + d <= n * d /\ q * d \in Nat
    BY <1>2, ProductMono
  <2> QED
    BY <1>1, <1>2, <1>3, <2>1
<1>5. ~ (n < q)
  <2> SUFFICES ASSUME n < q PROVE FALSE
    OBVIOUS
  <2>1. n * d + d <= q * d /\ q * d \in Nat
    BY <1>2, ProductMono
  <2> QED
    BY <1>1, <1>2, <1>3, <2>1
<1>6. q = n
  BY <1>2, <1>4, <1>5
<1>7. r = 0
  BY <1>1, <1>2, <1>3, <1>6
<1> QED
  BY <1>1, <1>6, <1>7 DEF q, r

(* A number without a remainder is a multiple.                             *)
LEMMA Multiple ==
  ASSUME NEW m \in Nat, NEW d \in Nat \ {0}, m % d = 0
  PROVE  m \div d \in Nat /\ m = (m \div d) * d
<1> DEFINE q == m \div d
<1>1. q \in Nat /\ m = d * q + (m % d)
  BY DivMod
<1> HIDE DEF q
<1>2. d * q = q * d /\ q * d \in Nat
  BY <1>1, SMT
<1> QED
  BY <1>1, <1>2 DEF q

(* Sums, differences and multiples of multiples are multiples.             *)
LEMMA MultipleSum ==
  ASSUME NEW d \in Nat \ {0}, NEW m \in Nat, NEW k \in Nat, m % d = 0, k % d = 0
  PROVE  /\ (m + k) % d = 0
         /\ k <= m => (m - k) % d = 0
<1> DEFINE x == m \div d
           y == k \div d
<1>1. x \in Nat /\ y \in Nat /\ m = x * d /\ k = y * d
  BY Multiple
<1> HIDE DEF x, y
<1>2. (m + k) % d = 0
  <2>1. (x + y) * d = x * d + y * d /\ x + y \in Nat
    BY <1>1, SMT
  <2> QED
    BY <1>1, <2>1, DivExact
<1>3. ASSUME k <= m PROVE (m - k) % d = 0
  <2>1. y <= x
    <3> SUFFICES ASSUME x < y PROVE FALSE
      BY <1>1
    <3> QED
      BY <1>1, <1>3, ProductMono
  <2>2. (x - y) * d = x * d - y * d /\ x - y \in Nat
    BY <1>1, <2>1, SMT
  <2> QED
    BY <1>1, <2>2, DivExact
<1> QED
  BY <1>2, <1>3

LEMMA MultipleSum3 ==
  ASSUME NEW d \in Nat \ {0}, NEW i \in Nat, NEW j \in Nat, NEW k \in Nat,
         i % d = 0, j % d = 0, k % d = 0
  PROVE  (i + j + k) % d = 0
<1> DEFINE m == i + j
<1>1. m \in Nat
  OBVIOUS
<1>2. m % d = 0
  BY MultipleSum
<1> HIDE DEF m
<1>3. (m + k) % d = 0
  BY <1>1, <1>2, MultipleSum
<1> QED
  BY <1>3 DEF m

(* Divisibility is transitive.                                             *)
LEMMA MultipleTrans ==
  ASSUME NEW m \in Nat, NEW d \in Nat \ {0}, NEW e \in Nat \ {0}, m % d = 0, d % e = 0
  PROVE  m % e = 0
<1> DEFINE x == m \div d
           y == d \div e
<1>1. x \in Nat /\ y \in Nat /\ m = x * d /\ d = y * e
  BY Multiple
<1> HIDE DEF x, y
<1>2. x * (y * e) = (x * y) * e /\ x * y \in Nat
  BY <1>1, SMT
<1> QED
  BY <1>1, <1>2, DivExact

-----------------------------------------------------------------------------
(* Rounding *)

(* integerRoundUp returns the next multiple.                               *)
LEMMA RoundUp ==
  ASSUME NEW v \in Nat, NEW d \in Nat \ {0}
  PROVE  /\ integerRoundUp(v, d) \in Nat
         /\ v <= integerRoundUp(v, d) /\ integerRoundUp(v, d) < v + d
         /\ integerRoundUp(v, d) % d = 0
         /\ v % d = 0 => integerRoundUp(v, d) = v
<1> DEFINE m == v + d - 1
           q == m \div d
           r == m % d
<1>1. m \in Nat
  OBVIOUS
<1>2. q \in Nat /\ r \in 0 .. d - 1 /\ m = d * q + r
  BY <1>1, DivMod
<1>3. integerRoundUp(v, d) = q * d
  BY DEF integerRoundUp
<1> HIDE DEF q, r
<1>4. d * q = q * d /\ q * d \in Nat /\ (q * d) % d = 0
  <2>1. d * q = q * d
    BY <1>2, SMT
  <2> QED
    BY <1>2, <2>1, DivExact
<1>5. v <= q * d /\ q * d < v + d
  BY <1>2, <1>4
<1>6. ASSUME v % d = 0 PROVE q * d = v
  <2> DEFINE k == v \div d
  <2>1. k \in Nat /\ v = k * d
    BY <1>6, Multiple
  <2> HIDE DEF k
  <2>2. ~ (k < q)
    <3> SUFFICES ASSUME k < q PROVE FALSE
      OBVIOUS
    <3>1. k * d + d <= q * d
      BY <1>2, <2>1, ProductMono
    <3> QED
      BY <1>2, <1>4, <2>1, <3>1
  <2>3. ~ (q < k)
    <3> SUFFICES ASSUME q < k PROVE FALSE
      OBVIOUS
    <3>1. q * d + d <= k * d
      BY <1>2, <2>1, ProductMono
    <3> QED
      BY <1>5, <2>1, <3>1, <1>4
  <2> QED
    BY <1>2, <2>1, <2>2, <2>3
<1> QED
  BY <1>3, <1>4, <1>5, <1>6

(* A set of numbers that is not empty has a smallest element.              *)
LEMMA Smallest ==
  ASSUME NEW T \in SUBSET Nat, T # {}
  PROVE  \E x \in T : \A y \in T : x <= y
<1>1. IsWellFoundedOn(OpToRel(<, Nat), Nat)
  BY NatLessThanWellFounded
<1>2. PICK x \in T : \A y \in T : <<y, x>> \notin OpToRel(<, Nat)
  BY <1>1, WFMin, Zenon
<1>3. \A y \in T : ~(y < x)
  BY <1>2 DEF OpToRel
<1> QED
  BY <1>3

(* A power of two other than 1 is twice another.                           *)
LEMMA Half ==
  ASSUME NEW p \in Nat, 2 <= p, PowerOfTwo(p)
  PROVE  \E h \in Nat : 1 <= h /\ p = 2 * h /\ PowerOfTwo(h)
<1>1. p % p = 0
  <2>1. (1 * p) % p = 0
    BY DivExact
  <2> QED
    BY <2>1
<1>2. p % 2 = 0
  BY <1>1 DEF PowerOfTwo
<1>3. PICK h \in Nat : p = h * 2
  BY <1>2, Multiple
<1>4. 1 <= h /\ p = 2 * h
  BY <1>3
<1>5. ASSUME NEW d \in 2 .. h, h % d = 0
      PROVE  d % 2 = 0
  <2>1. d \in Nat \ {0} /\ d \in 2 .. p
    BY <1>4
  <2>2. (h + h) % d = 0
    BY <1>5, <2>1, MultipleSum
  <2>3. p % d = 0
    BY <1>4, <2>2
  <2> QED
    BY <2>1, <2>3 DEF PowerOfTwo
<1> QED
  BY <1>4, <1>5 DEF PowerOfTwo

(* An odd number that divides the double of another divides that one.      *)
LEMMA OddDivisor ==
  ASSUME NEW d \in Nat \ {0}, NEW h \in Nat, d % 2 # 0, (2 * h) % d = 0
  PROVE  h % d = 0
<1>1. PICK k \in Nat : 2 * h = k * d
  BY Multiple
<1>2. PICK x \in Nat : d = 2 * x + 1
  <2>1. d \div 2 \in Nat /\ d % 2 \in 0 .. 1 /\ d = 2 * (d \div 2) + (d % 2)
    BY DivMod
  <2> QED
    BY <2>1
<1>3. k * d = 2 * (k * x) + k /\ k * x \in Nat
  BY <1>2, SMT
<1>4. k = 2 * (h - k * x)
  BY <1>1, <1>3
<1> DEFINE y == h - k * x
<1>5. y \in Nat /\ k = 2 * y
  BY <1>3, <1>4
<1> HIDE DEF y
<1>6. (2 * y) * d = 2 * (y * d) /\ y * d \in Nat
  BY <1>5, SMT
<1>7. h = y * d
  BY <1>1, <1>5, <1>6
<1> QED
  BY <1>5, <1>7, DivExact

(* The double of a power of two is another.                                *)
LEMMA Double ==
  ASSUME NEW h \in Nat, 1 <= h, PowerOfTwo(h)
  PROVE  PowerOfTwo(2 * h)
<1> SUFFICES ASSUME NEW d \in 2 .. 2 * h, (2 * h) % d = 0, d % 2 # 0
             PROVE  FALSE
  BY DEF PowerOfTwo
<1>1. d \in Nat \ {0}
  OBVIOUS
<1>2. h % d = 0
  BY <1>1, OddDivisor
<1>3. d <= h
  <2>1. PICK k \in Nat : h = k * d
    BY <1>1, <1>2, Multiple
  <2>2. k # 0
    BY <2>1
  <2>3. 1 * d <= k * d
    BY <1>1, <2>1, <2>2, ProductMono
  <2> QED
    BY <1>1, <2>1, <2>3
<1> QED
  BY <1>2, <1>3 DEF PowerOfTwo

(* The rounded number is a power of two, no smaller than the argument and  *)
(* less than its double.  The argument: if there were numbers without such *)
(* a power, the half of the smallest, rounded up, would have one.          *)
LEMMA RoundUpPower ==
  ASSUME NEW n \in Nat \ {0}
  PROVE  /\ roundUpToPowerOfTwoOrZero(n) \in n .. 2 * n - 1
         /\ PowerOfTwo(roundUpToPowerOfTwoOrZero(n))
<1> DEFINE Has(m) == \E p \in m .. 2 * m - 1 : PowerOfTwo(p)
           T == {m \in Nat \ {0} : ~ Has(m)}
<1>1. T = {}
  <2> SUFFICES ASSUME T # {} PROVE FALSE
    OBVIOUS
  <2>1. PICK m \in T : \A k \in T : m <= k
    <3>1. T \in SUBSET Nat
      OBVIOUS
    <3> HIDE DEF T
    <3> QED
      BY <3>1, Smallest
  <2>2. m \in Nat \ {0} /\ ~ Has(m)
    BY <2>1
  <2>3. Has(1)
    <3>1. 1 \in 1 .. 2 * 1 - 1
      OBVIOUS
    <3>2. PowerOfTwo(1)
      BY DEF PowerOfTwo
    <3> QED
      BY <3>1, <3>2
  <2>4. m >= 2
    BY <2>2, <2>3
  <2>5. PICK h \in Nat : m = 2 * h \/ m = 2 * h - 1
    <3>1. m \div 2 \in Nat /\ m % 2 \in 0 .. 1 /\ m = 2 * (m \div 2) + (m % 2)
      BY <2>2, DivMod
    <3>2. CASE m % 2 = 0
      BY <3>1, <3>2
    <3>3. CASE m % 2 = 1
      <4>1. m = 2 * (m \div 2 + 1) - 1 /\ m \div 2 + 1 \in Nat
        BY <3>1, <3>3
      <4> QED
        BY <4>1
    <3> QED
      BY <3>1, <3>2, <3>3
  <2>6. h \in Nat \ {0} /\ h < m
    BY <2>4, <2>5
  <2>7. Has(h)
    <3>1. h \notin T
      <4> HIDE DEF T
      <4> QED
        BY <2>1, <2>2, <2>6
    <3> HIDE DEF Has
    <3> QED
      BY <2>6, <3>1
  <2>8. PICK p \in h .. 2 * h - 1 : PowerOfTwo(p)
    BY <2>7
  <2>9. p \in Nat /\ 1 <= p
    BY <2>6, <2>8
  <2>10. PowerOfTwo(2 * p)
    BY <2>8, <2>9, Double
  <2>11. 2 * p \in m .. 2 * m - 1
    <3>1. CASE m = 2 * h
      BY <2>8, <2>9, <3>1
    <3>2. CASE m = 2 * h - 1
      <4>1. ASSUME p = m PROVE FALSE
        <5>1. PICK k \in Nat : p = 2 * k
          BY <2>4, <2>8, <2>9, <4>1, Half
        <5> QED
          BY <3>2, <4>1, <5>1
      <4> QED
        BY <2>8, <2>9, <3>2, <4>1
    <3> QED
      BY <2>5, <3>1, <3>2
  <2> QED
    BY <2>2, <2>10, <2>11
<1>2. Has(n)
  BY <1>1
<1> QED
  BY <1>2 DEF roundUpToPowerOfTwoOrZero

(* A power of two is a multiple of every smaller one.                      *)
LEMMA PowersDivide ==
  ASSUME NEW p \in Nat \ {0}, NEW e \in Nat \ {0}, PowerOfTwo(p), PowerOfTwo(e), e <= p
  PROVE  p % e = 0
<1> DEFINE Bad(m) == \E d \in Nat \ {0} : PowerOfTwo(m) /\ PowerOfTwo(d) /\ d <= m /\ m % d # 0
           T == {m \in Nat \ {0} : Bad(m)}
<1>1. T = {}
  <2> SUFFICES ASSUME T # {} PROVE FALSE
    OBVIOUS
  <2>1. PICK m \in T : \A k \in T : m <= k
    <3>1. T \in SUBSET Nat
      OBVIOUS
    <3> HIDE DEF T
    <3> QED
      BY <3>1, Smallest
  <2>2. PICK d \in Nat \ {0} : PowerOfTwo(m) /\ PowerOfTwo(d) /\ d <= m /\ m % d # 0
    BY <2>1
  <2>3. m \in Nat \ {0}
    BY <2>1
  <2>4. d # 1
    <3>1. (m * 1) % 1 = 0
      BY <2>3, DivExact
    <3> QED
      BY <2>2, <2>3, <3>1
  <2>5. PICK h \in Nat : 1 <= h /\ m = 2 * h /\ PowerOfTwo(h)
    BY <2>2, <2>3, <2>4, Half
  <2>6. PICK c \in Nat : 1 <= c /\ d = 2 * c /\ PowerOfTwo(c)
    BY <2>2, <2>4, Half
  <2>7. h \notin T /\ c <= h /\ c \in Nat \ {0}
    BY <2>1, <2>2, <2>5, <2>6
  <2>8. h % c = 0
    <3>1. ~ Bad(h)
      BY <2>5, <2>7
    <3> QED
      BY <3>1, <2>5, <2>6, <2>7
  <2>9. PICK k \in Nat : h = k * c
    <3>1. h \div c \in Nat /\ h = (h \div c) * c
      BY <2>5, <2>7, <2>8, Multiple
    <3> QED
      BY <3>1
  <2>10. m = k * d
    <3>1. k * (2 * c) = 2 * (k * c)
      BY <2>6, <2>9, SMT
    <3> QED
      BY <3>1, <2>5, <2>6, <2>9
  <2> QED
    BY <2>2, <2>10, DivExact
<1>2. ~ Bad(p)
  BY <1>1
<1> QED
  BY <1>2

-----------------------------------------------------------------------------
(* The sizes of storage *)

(* What the template parameters make of the paddings.                      *)
LEMMA Pads ==
  ASSUME layout \in Layouts
  PROVE  /\ E \in Nat \ {0} /\ layout.INITIAL_SIZE \in Nat \ {0}
         /\ pad_right \in Nat /\ pad_left \in Nat
         /\ layout.pad_right_ \in Nat /\ layout.pad_right_ <= pad_right
         /\ pad_right % E = 0
         /\ PowerOfTwo(E) => pad_left % E = 0
<1> USE PODArrayAssumption
<1>1. /\ E \in Nat \ {0} /\ layout.INITIAL_SIZE \in Nat \ {0}
      /\ layout.pad_right_ \in Nat /\ layout.pad_left_ \in Nat
  BY DEF E
<1> DEFINE l == integerRoundUp(layout.pad_left_, E)
<1>2. l \in Nat /\ l % E = 0
  BY <1>1, RoundUp
<1>3. pad_left = integerRoundUp(l, 16)
  BY DEF pad_left
<1> HIDE DEF l
<1>4. pad_left \in Nat /\ pad_left % 16 = 0 /\ (l % 16 = 0 => pad_left = l)
  BY <1>2, <1>3, RoundUp
<1>5. pad_right \in Nat /\ layout.pad_right_ <= pad_right /\ pad_right % E = 0
  BY <1>1, RoundUp DEF pad_right
<1>6. ASSUME PowerOfTwo(E) PROVE pad_left % E = 0
  <2>1. PowerOfTwo(2) /\ PowerOfTwo(1)
    BY DEF PowerOfTwo
  <2> DEFINE h == 16
  <2>2. PowerOfTwo(h) /\ h \in Nat \ {0}
    <3>1. PowerOfTwo(4)
      BY <2>1, Double
    <3>2. PowerOfTwo(8)
      BY <3>1, Double
    <3> QED
      BY <3>2, Double
  <2>3. pad_left % h = 0 /\ (l % h = 0 => pad_left = l)
    BY <1>4
  <2> HIDE DEF h
  <2>4. CASE E <= h
    <3>1. h % E = 0
      BY <1>1, <1>6, <2>2, <2>4, PowersDivide
    <3> QED
      BY <1>1, <1>4, <2>2, <2>3, <3>1, MultipleTrans
  <2>5. CASE h <= E
    <3>1. E % h = 0
      BY <1>1, <1>6, <2>2, <2>5, PowersDivide
    <3>2. l % h = 0
      BY <1>1, <1>2, <2>2, <3>1, MultipleTrans
    <3> QED
      BY <1>2, <2>3, <3>2
  <2> QED
    BY <1>1, <2>2, <2>4, <2>5
<1> QED
  BY <1>1, <1>4, <1>5, <1>6

(* A number of bytes that leaves room for n elements between the paddings, *)
(* and for nothing but elements when their size is a power of two.         *)
Enough(bytes, n) ==
  /\ bytes \in Nat \ {0}
  /\ n * E + pad_right + pad_left <= bytes
  /\ PowerOfTwo(E) => (bytes - pad_right - pad_left) % E = 0

(* Bytes that are a multiple of the element's size leave room for nothing  *)
(* but elements.                                                           *)
LEMMA MultipleEnough ==
  ASSUME layout \in Layouts, NEW n \in Nat, NEW bytes \in Nat \ {0},
         n * E + pad_right + pad_left <= bytes, PowerOfTwo(E) => bytes % E = 0
  PROVE  Enough(bytes, n)
<1> DEFINE e == E
           m == n * e
           pr == pad_right
           pl == pad_left
<1>1. /\ e \in Nat \ {0} /\ pr \in Nat /\ pl \in Nat /\ m \in Nat
      /\ pr % e = 0 /\ (PowerOfTwo(e) => pl % e = 0)
  BY Pads, DivExact
<1>2. m + pr + pl <= bytes /\ (PowerOfTwo(e) => bytes % e = 0)
  OBVIOUS
<1> SUFFICES ASSUME PowerOfTwo(e) PROVE (bytes - pr - pl) % e = 0
  BY <1>2 DEF Enough
<1> HIDE DEF e, m, pr, pl
<1>3. pr <= bytes /\ pl <= bytes - pr /\ bytes - pr \in Nat /\ bytes % e = 0
  BY <1>1, <1>2
<1>4. (bytes - pr) % e = 0
  BY <1>1, <1>3, MultipleSum
<1> QED
  BY <1>1, <1>2, <1>3, <1>4, MultipleSum

(* The bytes asked for n elements, rounded up, are enough for them.        *)
LEMMA PowerEnough ==
  ASSUME layout \in Layouts, NEW n \in Nat, minimum_memory_for_elements(n) # 0
  PROVE  Enough(roundUpToPowerOfTwoOrZero(minimum_memory_for_elements(n)), n)
<1> DEFINE e == E
           k == n * e
           pr == pad_right
           pl == pad_left
           m == minimum_memory_for_elements(n)
           p == roundUpToPowerOfTwoOrZero(m)
<1>1. /\ e \in Nat \ {0} /\ pr \in Nat /\ pl \in Nat /\ k \in Nat
      /\ pr % e = 0 /\ (PowerOfTwo(e) => pl % e = 0) /\ k % e = 0
  BY Pads, DivExact
<1>2. m = k + pr + pl /\ m # 0
  BY DEF minimum_memory_for_elements
<1>3. SUFFICES /\ p \in Nat \ {0} /\ k + pr + pl <= p
               /\ PowerOfTwo(e) => p % e = 0
  BY MultipleEnough
<1> HIDE DEF e, k, pr, pl, m
<1>4. m \in Nat \ {0}
  BY <1>1, <1>2
<1>5. p \in m .. 2 * m - 1 /\ PowerOfTwo(p)
  BY <1>4, RoundUpPower
<1> HIDE DEF p
<1>6. p \in Nat \ {0} /\ m <= p
  BY <1>4, <1>5
<1>7. ASSUME PowerOfTwo(e) PROVE p % e = 0
  <2>1. k + pr \in Nat /\ (k + pr) % e = 0
    BY <1>1, MultipleSum
  <2>2. m % e = 0
    BY <1>1, <1>2, <1>7, <2>1, MultipleSum
  <2>3. e <= m
    <3>1. PICK q \in Nat : m = q * e
      BY <1>1, <1>4, <2>2, Multiple
    <3>2. q # 0
      BY <1>1, <1>4, <3>1
    <3>3. 1 * e <= q * e
      BY <1>1, <3>1, <3>2, ProductMono
    <3> QED
      BY <1>1, <3>1, <3>3
  <2>4. e <= p
    BY <1>1, <1>4, <1>6, <2>3
  <2> QED
    BY <1>1, <1>5, <1>6, <1>7, <2>4, PowersDivide
<1> QED
  BY <1>2, <1>6, <1>7

-----------------------------------------------------------------------------
(* Working records *)

(* The numbers of blocks.                                                  *)
LEMMA BlockNumbers ==
  /\ Blocks \subseteq Nat /\ NoBlock \notin Blocks
  /\ Gone \notin Members
  /\ Zero \in Values /\ MaxSize \in Nat
<1> USE PODArrayAssumption
<1>1. Cardinality(Blocks) \in Nat
  BY FS_CardinalityType
<1>2. Blocks \subseteq Nat /\ NoBlock \notin Blocks
  BY <1>1 DEF NoBlock
<1>3. Members \subseteq [block : Nat, end : Nat, room : Nat]
  <2> HIDE PODArrayAssumption
  <2>1. Blocks \cup {NoBlock} \subseteq Nat
    BY <1>2 DEF NoBlock
  <2> QED
    BY <2>1 DEF Members
<1> QED
  BY <1>2, <1>3

(* There are more blocks than arrays, so that libnuma has a free one when  *)
(* every block handed out is an array's; it hands out the first.           *)
LEMMA FreeBlock ==
  ASSUME NEW h \in [Blocks -> Nat],
         \A b \in Blocks : h[b] # 0 => \E c \in Arrays : arr[c].block = b
  PROVE  \E b \in Blocks : h[b] = 0 /\ \A c \in Blocks : c < b => h[c] # 0
<1> USE PODArrayAssumption
<1> DEFINE T == {b \in Blocks : h[b] = 0}
           f == [b \in Blocks |-> CHOOSE c \in Arrays : arr[c].block = b]
<1>1. T # {}
  <2> SUFFICES ASSUME T = {} PROVE FALSE
    OBVIOUS
  <2>1. f \in [Blocks -> Arrays] /\ \A b \in Blocks : arr[f[b]].block = b
    OBVIOUS
  <2>2. Cardinality(Blocks) \in Nat /\ Cardinality(Arrays) \in Nat
    BY FS_CardinalityType
  <2> HIDE DEF f
  <2>3. \E b, c \in Blocks : b # c /\ f[b] = f[c]
    BY <2>1, <2>2, FS_PigeonHole
  <2> QED
    BY <2>1, <2>3
<1>2. T \in SUBSET Nat
  BY BlockNumbers
<1>3. PICK b \in T : \A c \in T : b <= c
  <2> HIDE DEF T
  <2> QED
    BY <1>1, <1>2, Smallest
<1> QED
  BY <1>2, <1>3

(* What a working record of a call on array a always is: its members fit   *)
(* the storage it owns, and the other arrays have theirs.                  *)
Frame(a, r) ==
  \A c \in Live \ {a} : arr[c].block # NoBlock =>
    /\ arr[c].block \in Blocks
    /\ arr[c].block # r.o.block
    /\ r.heap[arr[c].block] # 0
    /\ r.heap[arr[c].block] = heap[arr[c].block]
    /\ r.mem[arr[c].block] = mem[arr[c].block]

Owned(a, r) ==
  \A b \in Blocks : r.heap[b] # 0 => b = r.o.block \/ \E c \in Live \ {a} : arr[c].block = b

Records ==
  [o : Members, heap : [Blocks -> Nat], mem : [Blocks -> [Slots -> Values]], inside : BOOLEAN]

Sound(a, r) ==
  /\ r \in Records
  /\ Fits(r.o, r.heap)
  /\ Frame(a, r)
  /\ Owned(a, r)
  /\ PowerOfTwo(E) => r.inside

(* Record u is r after its storage was allocated, or grew: there is room   *)
(* for n elements, and what was there is there.                            *)
Grown(r, u, n) ==
  /\ u.o.end = r.o.end
  /\ n * E <= u.o.room
  /\ n # 0 => u.o.block # NoBlock
  /\ r.o.block # NoBlock => u.o.block = r.o.block /\ u.mem = r.mem

(* alloc hands out a block no array has.                                   *)
LEMMA AllocSound ==
  ASSUME layout \in Layouts, NEW a \in Arrays, NEW r, Sound(a, r), r.o = Null,
         NEW n \in Nat, NEW bytes, Enough(bytes, n)
  PROVE  /\ Sound(a, alloc(r, bytes))
         /\ Grown(r, alloc(r, bytes), n)
         /\ \A i \in Slots : alloc(r, bytes).mem[alloc(r, bytes).o.block][i] = Zero
<1> DEFINE free(b) == r.heap[b] = 0 /\ \A c \in Blocks : c < b => r.heap[c] # 0
           x == CHOOSE b \in Blocks : free(b)
           room == bytes - pad_right - pad_left
           zeros == [i \in Slots |-> Zero]
           u == alloc(r, bytes)
<1>1. /\ E \in Nat \ {0} /\ pad_right \in Nat /\ pad_left \in Nat
      /\ n * E \in Nat /\ n * E + pad_right + pad_left <= bytes /\ bytes \in Nat \ {0}
      /\ PowerOfTwo(E) => room % E = 0
  BY Pads, DivExact DEF Enough
<1>2. /\ r \in Records /\ r.o.block = NoBlock /\ r.o.end = 0
  BY DEF Sound, Null
<1>3. x \in Blocks /\ r.heap[x] = 0
  <2>1. r.heap \in [Blocks -> Nat]
    BY <1>2 DEF Records
  <2>2. \A b \in Blocks : r.heap[b] # 0 => \E c \in Arrays : arr[c].block = b
    BY <1>2, BlockNumbers DEF Sound, Owned, Live
  <2>3. \E b \in Blocks : free(b)
    BY <2>1, <2>2, FreeBlock
  <2> QED
    BY <2>3
<1>4. room \in Nat /\ n * E <= room
  <2> DEFINE m == n * E
  <2> HIDE DEF m
  <2> QED
    BY <1>1
<1>5. u = [r EXCEPT !.o = [block |-> x, end |-> 0, room |-> room],
                    !.heap[x] = bytes, !.mem[x] = zeros]
  BY <1>1 DEF alloc
<1>6. zeros \in [Slots -> Values]
  BY BlockNumbers
<1> HIDE DEF x, room, zeros, u
<1>7. /\ u.o = [block |-> x, end |-> 0, room |-> room]
      /\ u.heap = [r.heap EXCEPT ![x] = bytes]
      /\ u.mem = [r.mem EXCEPT ![x] = zeros]
      /\ u.inside = r.inside
      /\ u \in Records
  BY <1>1, <1>2, <1>3, <1>4, <1>5, <1>6 DEF Records, Members
<1>8. /\ u.heap[x] = bytes /\ u.mem[x] = zeros
      /\ \A b \in Blocks \ {x} : u.heap[b] = r.heap[b] /\ u.mem[b] = r.mem[b]
  BY <1>2, <1>3, <1>7 DEF Records
<1>9. x # NoBlock
  BY <1>3, BlockNumbers
<1>10. Fits(u.o, u.heap)
  <2>1. allocated_bytes(u.o) = bytes
    BY <1>1, <1>4, <1>7 DEF allocated_bytes, room
  <2>2. 0 % E = 0
    <3>1. (0 * E) % E = 0 /\ 0 * E = 0
      BY <1>1, DivExact
    <3> QED
      BY <3>1
  <2> QED
    BY <1>1, <1>4, <1>7, <1>8, <1>9, <2>1, <2>2 DEF Fits, room
<1>11. Frame(a, u)
  <2> SUFFICES ASSUME NEW c \in Live \ {a}, arr[c].block # NoBlock
               PROVE  /\ arr[c].block \in Blocks
                      /\ arr[c].block # u.o.block
                      /\ u.heap[arr[c].block] # 0
                      /\ u.heap[arr[c].block] = heap[arr[c].block]
                      /\ u.mem[arr[c].block] = mem[arr[c].block]
    BY DEF Frame
  <2>1. /\ arr[c].block \in Blocks /\ r.heap[arr[c].block] # 0
        /\ r.heap[arr[c].block] = heap[arr[c].block]
        /\ r.mem[arr[c].block] = mem[arr[c].block]
    BY DEF Sound, Frame
  <2>2. arr[c].block # x
    BY <1>3, <2>1
  <2> QED
    BY <1>7, <1>8, <2>1, <2>2
<1>12. Owned(a, u)
  BY <1>2, <1>7, <1>8, BlockNumbers DEF Sound, Owned
<1>13. Sound(a, u)
  BY <1>7, <1>10, <1>11, <1>12 DEF Sound
<1>14. Grown(r, u, n)
  BY <1>2, <1>4, <1>7, <1>9 DEF Grown
<1>15. \A i \in Slots : u.mem[u.o.block][i] = Zero
  BY <1>7, <1>8 DEF zeros
<1> QED
  BY <1>13, <1>14, <1>15 DEF u

(* realloc keeps the block, and leaves the others alone.                   *)
LEMMA ReallocSound ==
  ASSUME layout \in Layouts, NEW a \in Arrays, NEW r, Sound(a, r),
         NEW n \in Nat, NEW bytes, Enough(bytes, n), PowerOfTwo(E) => r.o.end <= n * E
  PROVE  Sound(a, realloc(r, bytes)) /\ Grown(r, realloc(r, bytes), n)
<1>1. CASE r.o.block = NoBlock
  <2>1. r.o = Null /\ realloc(r, bytes) = alloc(r, bytes)
    BY <1>1 DEF Sound, Fits, realloc
  <2> QED
    BY <2>1, AllocSound
<1>2. CASE r.o.block # NoBlock
  <2> DEFINE x == r.o.block
             room == bytes - pad_right - pad_left
             u == realloc(r, bytes)
  <2>1. /\ E \in Nat \ {0} /\ pad_right \in Nat /\ pad_left \in Nat
        /\ n * E \in Nat /\ n * E + pad_right + pad_left <= bytes /\ bytes \in Nat \ {0}
        /\ PowerOfTwo(E) => room % E = 0
    BY Pads, DivExact DEF Enough
  <2>2. r \in Records /\ x \in Blocks /\ r.o \in Members /\ x # NoBlock /\ r.o.end % E = 0
    BY <1>2 DEF Sound, Fits, Records, Members
  <2>3. room \in Nat /\ n * E <= room
    <3> DEFINE m == n * E
    <3> HIDE DEF m
    <3> QED
      BY <2>1
  <2>4. u = [r EXCEPT !.o.room = room, !.heap[x] = bytes]
    BY <1>2 DEF realloc
  <2> HIDE DEF x, room, u
  <2>5. /\ u.o = [r.o EXCEPT !.room = room]
        /\ u.heap = [r.heap EXCEPT ![x] = bytes]
        /\ u.mem = r.mem /\ u.inside = r.inside
        /\ u \in Records
    BY <2>1, <2>2, <2>3, <2>4 DEF Records, Members
  <2>6. u.o.block = x /\ u.o.end = r.o.end /\ u.o.room = room
    BY <2>2, <2>5 DEF Members, x
  <2>7. u.heap[x] = bytes /\ \A b \in Blocks \ {x} : u.heap[b] = r.heap[b]
    BY <2>2, <2>5 DEF Records
  <2>8. Fits(u.o, u.heap)
    <3>1. allocated_bytes(u.o) = bytes
      BY <2>1, <2>3, <2>6 DEF allocated_bytes, room
    <3>2. PowerOfTwo(E) => r.o.end <= room
      <4> DEFINE m == n * E
      <4>1. m \in Nat /\ m <= room /\ r.o.end \in Nat /\ (PowerOfTwo(E) => r.o.end <= m)
        BY <2>1, <2>2, <2>3 DEF Members
      <4> HIDE DEF m
      <4> QED
        BY <2>3, <4>1
    <3>3. PowerOfTwo(E) => room % E = 0
      BY <2>1
    <3> QED
      BY <2>1, <2>2, <2>6, <2>7, <3>1, <3>2, <3>3 DEF Fits
  <2>9. Frame(a, u)
    BY <2>5, <2>6, <2>7 DEF Sound, Frame, x
  <2>10. Owned(a, u)
    BY <2>6, <2>7 DEF Sound, Owned, x
  <2>11. Sound(a, u)
    BY <2>5, <2>8, <2>9, <2>10 DEF Sound
  <2>12. Grown(r, u, n)
    BY <2>2, <2>3, <2>5, <2>6 DEF Grown, x
  <2> QED
    BY <2>11, <2>12 DEF u
<1> QED
  BY <1>1, <1>2

(* What capacity says of the room.                                         *)
LEMMA Capacity ==
  ASSUME layout \in Layouts, NEW o, o.room \in Nat, NEW n \in Nat
  PROVE  /\ capacity(o) \in Nat
         /\ n <= capacity(o) => n * E <= o.room
         /\ n > capacity(o) => n # 0 /\ o.room <= n * E
<1> DEFINE c == capacity(o)
<1>1. E \in Nat \ {0}
  BY Pads
<1>2. c \in Nat /\ o.room % E \in 0 .. E - 1 /\ o.room = E * c + (o.room % E)
  BY <1>1, DivMod DEF capacity
<1>3. E * c = c * E /\ c * E \in Nat
  BY <1>1, <1>2, SMT
<1> HIDE DEF c
<1>4. ASSUME n <= c PROVE n * E <= o.room
  <2>1. n * E \in Nat /\ n * E <= c * E
    BY <1>1, <1>2, <1>4, ProductMono
  <2> QED
    BY <1>1, <1>2, <1>3, <2>1
<1>5. ASSUME n > c PROVE n # 0 /\ o.room <= n * E
  <2>1. n * E \in Nat /\ c * E + E <= n * E
    BY <1>1, <1>2, <1>5, ProductMono
  <2> QED
    BY <1>1, <1>2, <1>3, <1>5, <2>1
<1> QED
  BY <1>2, <1>4, <1>5 DEF c

(* A record that has room for more elements than n has room for n.         *)
LEMMA GrownMono ==
  ASSUME layout \in Layouts, NEW r, NEW u, u.o.room \in Nat,
         NEW m \in Nat, NEW n \in Nat, n <= m, Grown(r, u, m)
  PROVE  Grown(r, u, n)
<1>1. n * E \in Nat /\ m * E \in Nat /\ n * E <= m * E
  BY Pads, ProductMono
<1>2. n * E <= u.o.room
  <2> DEFINE x == n * E
             y == m * E
  <2>1. x \in Nat /\ y \in Nat /\ x <= y /\ y <= u.o.room
    BY <1>1 DEF Grown
  <2> SUFFICES x <= u.o.room
    OBVIOUS
  <2> HIDE DEF x, y
  <2> QED
    BY <2>1
<1>3. n # 0 => m # 0
  OBVIOUS
<1> QED
  BY <1>2, <1>3 DEF Grown

(* A record is never short of what fits in its capacity.                   *)
LEMMA GrownSame ==
  ASSUME layout \in Layouts, NEW a \in Arrays, NEW r, Sound(a, r),
         NEW n \in Nat, n <= capacity(r.o)
  PROVE  Grown(r, r, n)
<1>1. r.o.room \in Nat
  BY DEF Sound, Records, Members
<1>2. n * E <= r.o.room
  BY <1>1, Capacity
<1>3. ASSUME n # 0 PROVE r.o.block # NoBlock
  <2> SUFFICES ASSUME r.o = Null PROVE FALSE
    BY DEF Sound, Fits
  <2>1. 1 * E <= n * E /\ n * E \in Nat /\ E \in Nat \ {0}
    BY <1>3, Pads, ProductMono
  <2>2. r.o.room = 0
    BY DEF Null
  <2> DEFINE x == n * E
  <2> HIDE DEF x
  <2>3. x <= 0 /\ x \in Nat /\ E <= x
    BY <1>2, <2>1, <2>2 DEF x
  <2> QED
    BY <2>1, <2>3
<1> QED
  BY <1>2, <1>3 DEF Grown

(* After reserve there is room for n elements.                             *)
LEMMA ReserveSound ==
  ASSUME layout \in Layouts, NEW a \in Arrays, NEW r, Sound(a, r), NEW n \in Nat
  PROVE  Sound(a, reserve(r, n)) /\ Grown(r, reserve(r, n), n)
<1>1. r.o.room \in Nat /\ r.o.end \in Nat
  BY DEF Sound, Records, Members
<1>2. CASE n > capacity(r.o)
  <2>1. n # 0 /\ r.o.room <= n * E /\ n * E \in Nat /\ E \in Nat \ {0}
    BY <1>1, <1>2, Capacity, Pads, DivExact
  <2>2. minimum_memory_for_elements(n) # 0
    <3> DEFINE x == n * E
    <3>1. x # 0 /\ x \in Nat
      <4>1. 1 * E <= n * E
        BY <2>1, ProductMono
      <4> QED
        BY <2>1, <4>1
    <3>2. pad_right \in Nat /\ pad_left \in Nat
      BY Pads
    <3> HIDE DEF x
    <3> QED
      BY <3>1, <3>2 DEF minimum_memory_for_elements, x
  <2>3. Enough(roundUpToPowerOfTwoOrZero(minimum_memory_for_elements(n)), n)
    BY <2>2, PowerEnough
  <2>4. PowerOfTwo(E) => r.o.end <= n * E
    <3> DEFINE x == n * E
    <3>1. x \in Nat /\ r.o.room <= x /\ (PowerOfTwo(E) => r.o.end <= r.o.room)
      BY <2>1 DEF Sound, Fits
    <3> HIDE DEF x
    <3> QED
      BY <1>1, <3>1 DEF x
  <2>5. reserve(r, n) = realloc(r, roundUpToPowerOfTwoOrZero(minimum_memory_for_elements(n)))
    BY <1>2 DEF reserve
  <2> QED
    BY <2>3, <2>4, <2>5, ReallocSound
<1>3. CASE ~ (n > capacity(r.o))
  <2>1. n <= capacity(r.o) /\ reserve(r, n) = r
    BY <1>1, <1>3, Capacity DEF reserve
  <2> QED
    BY <2>1, GrownSame
<1> QED
  BY <1>2, <1>3

(* After insertPrepare there is room for as many elements as are required. *)
LEMMA InsertPrepareSound ==
  ASSUME layout \in Layouts, NEW a \in Arrays, NEW r, Sound(a, r), NEW n \in Nat
  PROVE  Sound(a, insertPrepare(r, n)) /\ Grown(r, insertPrepare(r, n), n)
<1>1. r.o.room \in Nat /\ capacity(r.o) \in Nat
  BY Capacity DEF Sound, Records, Members
<1>2. CASE n > capacity(r.o)
  <2> DEFINE m == roundUpToPowerOfTwoOrZero(n)
             u == reserve(r, m)
  <2>1. n \in Nat \ {0}
    BY <1>1, <1>2
  <2>2. m \in Nat /\ n <= m
    <3>1. m \in n .. 2 * n - 1
      BY <2>1, RoundUpPower
    <3> HIDE DEF m
    <3> QED
      BY <2>1, <3>1
  <2> HIDE DEF m
  <2>3. Sound(a, u) /\ Grown(r, u, m)
    BY <2>2, ReserveSound
  <2>4. u.o.room \in Nat
    BY <2>3 DEF Sound, Records, Members
  <2>5. insertPrepare(r, n) = u
    BY <1>2 DEF insertPrepare, m
  <2> HIDE DEF u
  <2> QED
    BY <2>2, <2>3, <2>4, <2>5, GrownMono
<1>3. CASE ~ (n > capacity(r.o))
  <2>1. n <= capacity(r.o) /\ insertPrepare(r, n) = r
    BY <1>1, <1>3 DEF insertPrepare
  <2> QED
    BY <2>1, GrownSame
<1> QED
  BY <1>2, <1>3

(* After reserveForNextSize a full array has room for one more element.    *)
LEMMA ReserveForNextSizeSound ==
  ASSUME layout \in Layouts, NEW a \in Arrays, NEW r, Sound(a, r),
         NEW k \in Nat, r.o.end = k * E, r.o.room = k * E
  PROVE  Sound(a, reserveForNextSize(r)) /\ Grown(r, reserveForNextSize(r), k + 1)
<1> DEFINE e == E
           pr == pad_right
           pl == pad_left
           x == k * e
<1>1. /\ e \in Nat \ {0} /\ pr \in Nat /\ pl \in Nat /\ layout.INITIAL_SIZE \in Nat
      /\ pr % e = 0 /\ (PowerOfTwo(e) => pl % e = 0)
      /\ x \in Nat /\ x % e = 0 /\ size(r.o) = k
  BY Pads, DivExact DEF size
<1>2. (k + 1) * e = x + e
  BY <1>1, SMT
<1>3. PowerOfTwo(e) => r.o.end <= (k + 1) * e
  <2> HIDE DEF x, e
  <2> QED
    BY <1>1, <1>2 DEF x, e
<1>4. CASE k # 0
  <2> DEFINE bytes == 2 * (x + pr + pl)
  <2>1. allocated_bytes(r.o) = x + pr + pl
    BY DEF allocated_bytes
  <2>2. reserveForNextSize(r) = realloc(r, bytes)
    BY <1>1, <1>4, <2>1 DEF reserveForNextSize
  <2>3. e <= x
    <3>1. 1 * e <= k * e
      BY <1>1, <1>4, ProductMono
    <3> QED
      BY <1>1, <3>1
  <2>4. SUFFICES /\ bytes \in Nat \ {0} /\ x + e + pr + pl <= bytes
                 /\ PowerOfTwo(e) => bytes % e = 0
    <3>1. (k + 1) * E + pad_right + pad_left <= bytes
      BY <1>2, <2>4
    <3>2. Enough(bytes, k + 1)
      BY <2>4, <3>1, MultipleEnough
    <3> QED
      BY <1>3, <2>2, <3>2, ReallocSound
  <2> HIDE DEF e, pr, pl, x
  <2>5. bytes \in Nat \ {0} /\ x + e + pr + pl <= bytes
    BY <1>1, <2>3
  <2>6. ASSUME PowerOfTwo(e) PROVE bytes % e = 0
    <3> DEFINE y == x + pr + pl
    <3>1. y % e = 0
      <4>1. /\ e \in Nat \ {0} /\ x \in Nat /\ pr \in Nat /\ pl \in Nat
            /\ x % e = 0 /\ pr % e = 0 /\ pl % e = 0
        BY <1>1, <2>6
      <4> QED
        BY <4>1, MultipleSum3
    <3>2. y \in Nat /\ bytes = y + y
      BY <1>1
    <3> HIDE DEF bytes, y
    <3> QED
      BY <1>1, <3>1, <3>2, MultipleSum
  <2> QED
    BY <2>5, <2>6
<1>5. CASE k = 0
  <2> DEFINE first == integerRoundUp(layout.INITIAL_SIZE, e)
             least == e + pr + pl
             bytes == IF first > least THEN first ELSE least
  <2>1. first \in Nat /\ first % e = 0
    BY <1>1, RoundUp
  <2>2. minimum_memory_for_elements(1) = least
    BY <1>1 DEF minimum_memory_for_elements
  <2>3. reserveForNextSize(r) = realloc(r, bytes)
    BY <1>1, <1>5, <2>2 DEF reserveForNextSize
  <2>4. (k + 1) * e = e
    BY <1>1, <1>5
  <2>5. SUFFICES /\ bytes \in Nat \ {0} /\ least <= bytes
                 /\ PowerOfTwo(e) => bytes % e = 0
    <3>1. (k + 1) * E + pad_right + pad_left <= bytes
      BY <2>4, <2>5
    <3>2. Enough(bytes, k + 1)
      BY <2>5, <3>1, MultipleEnough
    <3> QED
      BY <1>3, <2>3, <3>2, ReallocSound
  <2>6. ASSUME PowerOfTwo(e) PROVE least % e = 0
    <3> HIDE DEF e, pr, pl, first
    <3>1. e % e = 0
      <4>1. (1 * e) % e = 0 /\ 1 * e = e
        BY <1>1, DivExact
      <4> QED
        BY <4>1
    <3>2. /\ e \in Nat \ {0} /\ pr \in Nat /\ pl \in Nat
          /\ pr % e = 0 /\ pl % e = 0
      BY <1>1, <2>6
    <3> QED
      BY <3>1, <3>2, MultipleSum3
  <2>7. least \in Nat \ {0}
    BY <1>1
  <2> HIDE DEF first, least, e
  <2> QED
    BY <2>1, <2>6, <2>7
<1> QED
  BY <1>4, <1>5

(* Record u is r after the elements xs were written from slot at on.       *)
Wrote(r, u, at, xs) ==
  \A i \in Slots :
    r.o.block # NoBlock =>
    u.mem[r.o.block][i] = IF at <= i /\ i < at + Len(xs) THEN xs[i - at + 1]
                          ELSE r.mem[r.o.block][i]

(* Writing changes the elements written and nothing else.                  *)
LEMMA WriteSound ==
  ASSUME layout \in Layouts, NEW a \in Arrays, NEW r, Sound(a, r),
         NEW at \in Int, NEW xs \in Seq(Values), NEW reach \in Int,
         xs # <<>> => r.o.block # NoBlock,
         xs # <<>> => (PowerOfTwo(E) => reach <= r.o.room + pad_right)
  PROVE  LET u == Write(r, at, xs, reach) IN
         /\ Sound(a, u) /\ u.o = r.o /\ u.heap = r.heap
         /\ Wrote(r, u, at, xs)
<1> DEFINE u == Write(r, at, xs, reach)
           x == r.o.block
           written == [i \in Slots |-> IF at <= i /\ i < at + Len(xs) THEN xs[i - at + 1]
                                       ELSE r.mem[x][i]]
<1>1. CASE xs = <<>>
  <2>1. u = r /\ Len(xs) = 0
    BY <1>1 DEF Write
  <2>2. \A i \in Slots : ~ (at <= i /\ i < at + Len(xs))
    BY <2>1, BlockNumbers DEF Slots
  <2>3. Wrote(r, u, at, xs)
    BY <2>1, <2>2 DEF Wrote
  <2> QED
    BY <2>1, <2>3
<1>2. CASE xs # <<>>
  <2>1. r \in Records /\ x \in Blocks /\ x # NoBlock
    BY <1>2 DEF Sound, Records, Members
  <2>2. u = [r EXCEPT !.mem[x] = written, !.inside = @ /\ reach <= r.heap[x] - pad_left]
    <3>1. r.mem[x] = r.mem[x]
      OBVIOUS
    <3> QED
      BY <1>2, <2>1 DEF Write
  <2>3. written \in [Slots -> Values]
    <3>1. ASSUME NEW i \in Slots PROVE written[i] \in Values
      <4>1. r.mem[x][i] \in Values
        BY <2>1 DEF Records
      <4>2. ASSUME at <= i, i < at + Len(xs) PROVE xs[i - at + 1] \in Values
        <5>1. i \in Int /\ Len(xs) \in Nat
          BY BlockNumbers DEF Slots
        <5>2. i - at + 1 \in 1 .. Len(xs)
          BY <4>2, <5>1
        <5> QED
          BY <5>2
      <4> QED
        BY <4>1, <4>2
    <3> QED
      BY <3>1
  <2> HIDE DEF x, written, u
  <2>4. /\ u.o = r.o /\ u.heap = r.heap /\ u.mem = [r.mem EXCEPT ![x] = written]
        /\ u.inside = (r.inside /\ reach <= r.heap[x] - pad_left)
        /\ u \in Records
    BY <2>1, <2>2, <2>3 DEF Records
  <2>5. u.mem[x] = written /\ \A b \in Blocks \ {x} : u.mem[b] = r.mem[b]
    BY <2>1, <2>4 DEF Records
  <2>6. PowerOfTwo(E) => u.inside
    <3>1. r.heap[x] = r.o.room + pad_right + pad_left
      BY <2>1 DEF Sound, Fits, allocated_bytes, x
    <3>2. r.o.room \in Nat /\ pad_right \in Nat /\ pad_left \in Nat
      BY <2>1, Pads DEF Records, Members
    <3>3. PowerOfTwo(E) => reach <= r.heap[x] - pad_left
      <4>1. PowerOfTwo(E) => reach <= r.o.room + pad_right
        BY <1>2
      <4> QED
        BY <3>1, <3>2, <4>1
    <3>4. PowerOfTwo(E) => r.inside
      BY DEF Sound
    <3> QED
      BY <2>4, <3>3, <3>4, Zenon
  <2>7. Frame(a, u)
    BY <2>4, <2>5 DEF Sound, Frame, x
  <2>8. Sound(a, u)
    BY <2>4, <2>6, <2>7 DEF Sound, Owned
  <2>9. Wrote(r, u, at, xs)
    BY <2>4, <2>5, <2>8 DEF Wrote, x, written
  <2> QED
    BY <2>4, <2>8, <2>9 DEF u
<1> QED
  BY <1>1, <1>2

(* The number of elements may be set to any for which there is room.       *)
LEMMA SetSizeSound ==
  ASSUME layout \in Layouts, NEW a \in Arrays, NEW r, Sound(a, r),
         NEW n \in Nat, n # 0 => r.o.block # NoBlock,
         PowerOfTwo(E) => n * E <= r.o.room
  PROVE  LET u == SetSize(r, n) IN
         /\ Sound(a, u)
         /\ u.o.block = r.o.block /\ u.o.end = n * E /\ u.o.room = r.o.room
         /\ u.heap = r.heap /\ u.mem = r.mem
<1> DEFINE u == SetSize(r, n)
<1>1. n * E \in Nat /\ (n * E) % E = 0 /\ (n = 0 => n * E = 0)
  <2> DEFINE d == E
  <2>1. d \in Nat \ {0}
    BY Pads
  <2> HIDE DEF d
  <2>2. n * d \in Nat /\ (n * d) % d = 0
    BY <2>1, DivExact
  <2>3. 0 * d = 0
    BY <2>1
  <2> QED
    BY <2>2, <2>3 DEF d
<1>2. r \in Records
  BY DEF Sound
<1>3. u = [r EXCEPT !.o.end = n * E]
  BY DEF SetSize
<1> HIDE DEF u
<1>4. /\ u \in Records /\ u.o.block = r.o.block /\ u.o.end = n * E /\ u.o.room = r.o.room
      /\ u.heap = r.heap /\ u.mem = r.mem /\ u.inside = r.inside
      /\ u.o = [r.o EXCEPT !.end = n * E]
  BY <1>1, <1>2, <1>3 DEF Records, Members
<1>5. Fits(u.o, u.heap)
  <2>1. CASE r.o.block = NoBlock
    <3>1. n = 0 /\ r.o = Null
      BY <2>1 DEF Sound, Fits
    <3>2. u.o = Null
      BY <1>1, <1>4, <3>1 DEF Null
    <3> QED
      BY <1>1, <1>4, <2>1, <3>2 DEF Sound, Fits
  <2>2. CASE r.o.block # NoBlock
    BY <1>1, <1>4, <2>2 DEF Sound, Fits, allocated_bytes
  <2> QED
    BY <2>1, <2>2
<1>6. Sound(a, u)
  BY <1>4, <1>5 DEF Sound, Frame, Owned
<1> QED
  BY <1>4, <1>6 DEF u

-----------------------------------------------------------------------------
(* The beginning and the end of a call *)

(* The sequences of at most MaxSize values.                                *)
LEMMA FunctionInput ==
  ASSUME NEW n \in 0 .. MaxSize, NEW s \in [1 .. n -> Values]
  PROVE  s \in Inputs /\ s \in Seq(Values) /\ Len(s) = n /\ DOMAIN s = 1 .. n
<1>1. n \in Nat
  BY BlockNumbers
<1>2. s \in Seq(Values) /\ Len(s) = n /\ DOMAIN s = 1 .. n
  BY <1>1
<1> QED
  BY <1>2 DEF Inputs

LEMMA InputIs ==
  ASSUME NEW s \in Inputs
  PROVE  /\ s \in Seq(Values) /\ Len(s) \in Nat /\ Len(s) <= MaxSize
         /\ DOMAIN s = 1 .. Len(s) /\ \A i \in 1 .. Len(s) : s[i] \in Values
<1>1. MaxSize \in Nat
  BY BlockNumbers
<1>2. PICK n \in 0 .. MaxSize : s \in [1 .. n -> Values]
  BY DEF Inputs
<1>3. s \in Seq(Values) /\ Len(s) = n /\ DOMAIN s = 1 .. n
  BY <1>2, FunctionInput
<1> QED
  BY <1>1, <1>2, <1>3

LEMMA SequenceInput ==
  ASSUME NEW s \in Seq(Values), Len(s) <= MaxSize
  PROVE  s \in Inputs
<1>1. MaxSize \in Nat
  BY BlockNumbers
<1>2. Len(s) \in 0 .. MaxSize /\ s \in [1 .. Len(s) -> Values]
  BY <1>1
<1> QED
  BY <1>2, FunctionInput

(* The array holds the elements s.                                         *)
Holds(r, s) ==
  /\ s \in Inputs
  /\ r.o.end = Len(s) * E
  /\ \A i \in 1 .. Len(s) : r.mem[r.o.block][i - 1] = s[i]

(* An array before a call that works on it.                                *)
LEMMA LiveSound ==
  ASSUME Inv, NEW a \in Live
  PROVE  /\ Sound(a, Working(arr[a])) /\ Holds(Working(arr[a]), value[a])
         /\ size(arr[a]) = Len(value[a]) /\ layout \in Layouts /\ a \in Arrays
<1> DEFINE r == Working(arr[a])
<1>1. layout \in Layouts /\ a \in Arrays /\ arr[a] \in Members /\ Fits(arr[a], heap)
  BY DEF Inv, TypeOK, HeapOK, Live
<1>2. r.o = arr[a] /\ r.heap = heap /\ r.mem = mem /\ r.inside = TRUE /\ r \in Records
  BY <1>1 DEF Working, Records, Inv, TypeOK
<1>3. Frame(a, r)
  <2> SUFFICES ASSUME NEW c \in Live \ {a}, arr[c].block # NoBlock
               PROVE  arr[c].block \in Blocks /\ arr[c].block # arr[a].block /\ heap[arr[c].block] # 0
    BY <1>2 DEF Frame
  <2>1. c \in Arrays /\ arr[c] \in Members /\ Fits(arr[c], heap)
    BY DEF Inv, TypeOK, HeapOK, Live
  <2>2. arr[c].block \in Blocks /\ heap[arr[c].block] # 0
    BY <2>1 DEF Members, Fits
  <2>3. arr[c].block # arr[a].block
    BY DEF Inv, HeapOK
  <2> QED
    BY <2>2, <2>3
<1>4. Owned(a, r)
  BY <1>2 DEF Owned, Inv, HeapOK
<1>5. Sound(a, r)
  BY <1>1, <1>2, <1>3, <1>4 DEF Sound
<1>6. value[a] = [i \in 1 .. size(arr[a]) |-> mem[arr[a].block][i - 1]] /\ value[a] \in Inputs
  BY <1>1 DEF Inv, TypeOK, Content
<1>7. size(arr[a]) \in Nat /\ arr[a].end = size(arr[a]) * E
  BY <1>1, Pads, Multiple DEF Fits, Members, size
<1>8. Len(value[a]) = size(arr[a])
  <2> DEFINE n == size(arr[a])
  <2>1. n \in Nat /\ DOMAIN value[a] = 1 .. n
    BY <1>6, <1>7
  <2>2. DOMAIN value[a] = 1 .. Len(value[a]) /\ Len(value[a]) \in Nat
    BY <1>6, InputIs
  <2> HIDE DEF n
  <2>3. n = Len(value[a])
    BY <2>1, <2>2
  <2> QED
    BY <2>3 DEF n
<1>9. Holds(r, value[a])
  BY <1>2, <1>6, <1>7, <1>8 DEF Holds
<1> QED
  BY <1>1, <1>5, <1>8, <1>9

(* An array that is being constructed.                                     *)
LEMMA NewSound ==
  ASSUME Inv, NEW a \in Arrays, arr[a] = Gone
  PROVE  Sound(a, Working(Null)) /\ Holds(Working(Null), <<>>) /\ layout \in Layouts
<1> DEFINE r == Working(Null)
<1>1. layout \in Layouts /\ a \notin Live /\ E \in Nat \ {0}
  BY Pads DEF Inv, TypeOK, Live
<1>2. /\ r.o = Null /\ r.heap = heap /\ r.mem = mem /\ r.inside = TRUE
      /\ Null \in Members /\ r \in Records
      /\ Null.block = NoBlock /\ Null.end = 0 /\ Null.room = 0
  BY DEF Working, Records, Inv, TypeOK, Members, Null
<1>3. 0 % E = 0 /\ 0 * E = 0
  <2>1. (0 * E) % E = 0 /\ 0 * E = 0
    BY <1>1, DivExact
  <2> QED
    BY <2>1
<1>4. Fits(r.o, r.heap)
  BY <1>2, <1>3 DEF Fits
<1>5. Frame(a, r)
  <2> SUFFICES ASSUME NEW c \in Live \ {a}, arr[c].block # NoBlock
               PROVE  arr[c].block \in Blocks /\ heap[arr[c].block] # 0
    BY <1>2 DEF Frame
  <2>1. c \in Arrays /\ arr[c] \in Members /\ Fits(arr[c], heap)
    BY DEF Inv, TypeOK, HeapOK, Live
  <2> QED
    BY <2>1 DEF Members, Fits
<1>6. Owned(a, r)
  BY <1>1, <1>2 DEF Owned, Inv, HeapOK
<1>7. Holds(r, <<>>)
  <2> DEFINE s == <<>>
  <2>1. s \in Seq(Values) /\ Len(s) = 0
    OBVIOUS
  <2> HIDE DEF s
  <2>2. s \in Inputs
    <3>1. Len(s) <= MaxSize
      BY <2>1, BlockNumbers
    <3> QED
      BY <2>1, <3>1, SequenceInput
  <2>3. Holds(r, s)
    BY <1>2, <1>3, <2>1, <2>2 DEF Holds
  <2> QED
    BY <2>3 DEF s
<1> QED
  BY <1>1, <1>2, <1>4, <1>5, <1>6, <1>7 DEF Sound

(* Whether members fit their block depends on that block alone.            *)
LEMMA FitsKept ==
  ASSUME layout' = layout, NEW c, NEW o, NEW h, arr'[c] = o, Fits(o, h),
         o.block # NoBlock => heap'[o.block] = h[o.block]
  PROVE  Fits(arr[c], heap)'
BY DEF Fits, E, allocated_bytes, pad_right, pad_left

(* A call that ends with a sound record of what it was called for keeps    *)
(* the invariant.                                                          *)
LEMMA CommitInv ==
  ASSUME Inv, NEW a \in Arrays, NEW r, Sound(a, r), NEW s, Holds(r, s), Commit(a, r, s)
  PROVE  Inv'
<1>1. /\ arr' = [arr EXCEPT ![a] = r.o] /\ heap' = r.heap /\ mem' = r.mem
      /\ value' = [value EXCEPT ![a] = s] /\ layout' = layout
      /\ undefined' = IF r.inside THEN "none" ELSE "outside"
  BY DEF Commit
<1>2. /\ layout \in Layouts /\ arr \in [Arrays -> Members \cup {Gone}]
      /\ value = [c \in Arrays |-> Content(c)]
      /\ r \in Records /\ s \in Inputs
  BY DEF Inv, TypeOK, Sound, Holds
<1>3. /\ r.o \in Members /\ r.o # Gone /\ r.heap \in [Blocks -> Nat]
      /\ r.mem \in [Blocks -> [Slots -> Values]]
  BY <1>2, BlockNumbers DEF Records
<1>4. /\ arr' \in [Arrays -> Members \cup {Gone}]
      /\ arr'[a] = r.o /\ value'[a] = s
      /\ \A c \in Arrays \ {a} : arr'[c] = arr[c] /\ value'[c] = value[c]
  BY <1>1, <1>2, <1>3
<1>5. /\ Live' = Live \cup {a} /\ a \in Live'
      /\ \A c \in Live' \ {a} : c \in Live \ {a} /\ c \in Arrays
  BY <1>3, <1>4 DEF Live
<1>6. ASSUME NEW c \in Live', c # a, arr[c].block # NoBlock
      PROVE  /\ arr[c].block \in Blocks /\ arr[c].block # r.o.block
             /\ heap'[arr[c].block] # 0
             /\ heap'[arr[c].block] = heap[arr[c].block]
             /\ mem'[arr[c].block] = mem[arr[c].block]
  BY <1>1, <1>5, <1>6 DEF Sound, Frame
<1>7. TypeOK'
  <2>1. \A c \in Live' : value'[c] \in Inputs
    BY <1>2, <1>4, <1>5 DEF Inv, TypeOK
  <2>2. undefined' \in {"none", "outside", "left", "stale", "overlap"}
    BY <1>1
  <2> QED
    BY <1>1, <1>2, <1>3, <1>4, <2>1, <2>2 DEF TypeOK
<1>8. HeapOK'
  <2>1. ASSUME NEW c \in Live' PROVE Fits(arr[c], heap)'
    <3>1. CASE c = a
      <4>1. Fits(r.o, r.heap)
        BY DEF Sound
      <4> QED
        BY <1>1, <1>4, <3>1, <4>1, FitsKept
    <3>2. CASE c # a
      <4>1. Fits(arr[c], heap) /\ arr'[c] = arr[c]
        BY <1>4, <1>5, <3>2 DEF Inv, HeapOK
      <4>2. arr[c].block # NoBlock => heap'[arr[c].block] = heap[arr[c].block]
        BY <1>6, <3>2
      <4> QED
        BY <1>1, <4>1, <4>2, FitsKept
    <3> QED
      BY <3>1, <3>2
  <2>2. ASSUME NEW b \in Blocks, heap'[b] # 0 PROVE \E c \in Live' : arr'[c].block = b
    <3>1. b = r.o.block \/ \E c \in Live \ {a} : arr[c].block = b
      BY <1>1, <2>2 DEF Sound, Owned
    <3>2. \A c \in Live \ {a} : c \in Live' /\ arr'[c] = arr[c]
      BY <1>4, <1>5 DEF Live
    <3> QED
      BY <1>4, <1>5, <3>1, <3>2
  <2>3. ASSUME NEW c \in Live', NEW d \in Live', c # d, arr'[c].block # NoBlock
        PROVE  arr'[c].block # arr'[d].block
    <3>1. CASE c = a
      <4>1. d # a /\ arr'[d] = arr[d] /\ arr'[c] = r.o
        BY <1>4, <1>5, <2>3, <3>1
      <4> QED
        BY <1>6, <2>3, <4>1
    <3>2. CASE d = a
      <4>1. c # a /\ arr'[c] = arr[c] /\ arr'[d] = r.o
        BY <1>4, <1>5, <2>3, <3>2
      <4> QED
        BY <1>6, <2>3, <4>1
    <3>3. CASE c # a /\ d # a
      <4>1. c \in Live /\ d \in Live /\ arr'[c] = arr[c] /\ arr'[d] = arr[d]
        BY <1>4, <1>5, <3>3
      <4> QED
        BY <2>3, <4>1 DEF Inv, HeapOK
    <3> QED
      BY <3>1, <3>2, <3>3
  <2> QED
    BY <2>1, <2>2, <2>3 DEF HeapOK
<1>9. (value = [c \in Arrays |-> Content(c)])'
  <2>1. ASSUME NEW c \in Arrays PROVE value'[c] = Content(c)'
    <3>1. CASE c = a
      <4>1. Content(c)' = [i \in 1 .. size(r.o) |-> r.mem[r.o.block][i - 1]]
        BY <1>1, <1>4, <1>5, <3>1 DEF Content, size, E
      <4>2. size(r.o) = Len(s) /\ Len(s) \in Nat
        BY <1>2, Pads, InputIs, DivExact DEF Holds, size
      <4>3. s = [i \in 1 .. Len(s) |-> s[i]]
        BY <1>2, InputIs
      <4>4. \A i \in 1 .. Len(s) : s[i] = r.mem[r.o.block][i - 1]
        BY DEF Holds
      <4>5. s = [i \in 1 .. Len(s) |-> r.mem[r.o.block][i - 1]]
        BY <4>3, <4>4
      <4> QED
        BY <1>4, <3>1, <4>1, <4>2, <4>5
    <3>2. CASE c # a /\ c \in Live
      <4>1. c \in Live' /\ arr'[c] = arr[c] /\ value'[c] = value[c]
        BY <1>4, <1>5, <3>2
      <4>2. value[c] = [i \in 1 .. size(arr[c]) |-> mem[arr[c].block][i - 1]]
        BY <1>2, <3>2 DEF Content
      <4>3. Content(c)' = [i \in 1 .. size(arr[c]) |-> mem'[arr[c].block][i - 1]]
        BY <1>1, <4>1 DEF Content, size, E
      <4>4. CASE arr[c].block = NoBlock
        <5>1. Fits(arr[c], heap)
          BY <3>2 DEF Inv, HeapOK
        <5>2. arr[c].end = 0 /\ E \in Nat \ {0} /\ (0 * E) \div E = 0
          BY <1>2, <4>4, <5>1, Pads, DivExact DEF Fits, Null
        <5>3. size(arr[c]) = 0
          BY <5>2 DEF size
        <5> QED
          BY <4>1, <4>2, <4>3, <5>3
      <4>5. CASE arr[c].block # NoBlock
        BY <1>6, <3>2, <4>1, <4>2, <4>3, <4>5
      <4> QED
        BY <4>4, <4>5
    <3>3. CASE c # a /\ c \notin Live
      <4>1. c \notin Live' /\ value'[c] = value[c]
        BY <1>4, <1>5, <3>3
      <4> QED
        BY <1>2, <3>3, <4>1 DEF Content
    <3> QED
      BY <3>1, <3>2, <3>3
  <2>2. value' = [c \in Arrays |-> value'[c]]
    BY <1>1, <1>2
  <2> QED
    BY <2>1, <2>2
<1>10. (PowerOfTwo(E) => InsideStorage)'
  BY <1>1 DEF Sound, InsideStorage, E
<1> QED
  BY <1>7, <1>8, <1>9, <1>10 DEF Inv

-----------------------------------------------------------------------------
(* What calls are made of *)

(* An array with elements has storage.                                     *)
LEMMA HasBlock ==
  ASSUME layout \in Layouts, NEW a \in Arrays, NEW r, Sound(a, r), NEW s, Holds(r, s),
         Len(s) # 0
  PROVE  r.o.block # NoBlock
<1> SUFFICES ASSUME r.o = Null PROVE FALSE
  BY DEF Sound, Fits
<1>1. Len(s) \in Nat /\ E \in Nat \ {0}
  BY InputIs, Pads DEF Holds
<1>2. Len(s) * E = 0
  BY DEF Null, Holds
<1>3. 1 * E <= Len(s) * E
  BY <1>1, ProductMono
<1> QED
  BY <1>1, <1>2, <1>3

(* Growing keeps the elements.                                             *)
LEMMA GrownKeeps ==
  ASSUME layout \in Layouts, NEW a \in Arrays, NEW r, Sound(a, r), NEW s, Holds(r, s),
         NEW n, NEW u, Grown(r, u, n)
  PROVE  /\ u.o.end = Len(s) * E
         /\ \A i \in 1 .. Len(s) : u.mem[u.o.block][i - 1] = s[i]
<1>1. u.o.end = Len(s) * E
  BY DEF Grown, Holds
<1>2. Len(s) \in Nat /\ E \in Nat \ {0}
  BY InputIs, Pads DEF Holds
<1>3. ASSUME NEW i \in 1 .. Len(s) PROVE u.mem[u.o.block][i - 1] = s[i]
  <2>1. r.o.block # NoBlock
    BY <1>2, HasBlock
  <2>2. u.mem[u.o.block][i - 1] = r.mem[r.o.block][i - 1]
    BY <2>1 DEF Grown
  <2>3. r.mem[r.o.block][i - 1] = s[i]
    BY DEF Holds
  <2> QED
    BY <2>2, <2>3
<1> QED
  BY <1>1, <1>3

(* Elements are written where there is room, and the size is set.          *)
LEMMA FillHolds ==
  ASSUME layout \in Layouts, NEW a \in Arrays, NEW r, Sound(a, r),
         NEW s \in Inputs, Len(s) # 0 => r.o.block # NoBlock,
         PowerOfTwo(E) => Len(s) * E <= r.o.room,
         NEW at \in Nat, NEW xs \in Seq(Values), NEW reach \in Int,
         xs # <<>> => at < Len(s),
         PowerOfTwo(E) => reach <= r.o.room + pad_right,
         \A i \in 1 .. Len(s) :
           s[i] = IF at < i /\ i <= at + Len(xs) THEN xs[i - at]
                  ELSE r.mem[r.o.block][i - 1]
  PROVE  LET u == SetSize(Write(r, at, xs, reach), Len(s)) IN
         Sound(a, u) /\ Holds(u, s)
<1> DEFINE w == Write(r, at, xs, reach)
           u == SetSize(w, Len(s))
<1>1. Len(s) \in Nat /\ Len(s) <= MaxSize /\ MaxSize \in Nat
  BY InputIs, BlockNumbers
<1>2. /\ xs # <<>> => r.o.block # NoBlock
      /\ xs # <<>> => (PowerOfTwo(E) => reach <= r.o.room + pad_right)
      /\ at \in Int
  BY <1>1
<1>3. Sound(a, w) /\ w.o = r.o /\ w.heap = r.heap /\ Wrote(r, w, at, xs)
  BY <1>2, WriteSound
<1> HIDE DEF w
<1>4. Sound(a, u) /\ u.o.end = Len(s) * E /\ u.o.block = r.o.block /\ u.mem = w.mem
  BY <1>1, <1>3, SetSizeSound
<1> HIDE DEF u
<1>5. ASSUME NEW i \in 1 .. Len(s) PROVE u.mem[u.o.block][i - 1] = s[i]
  <2>1. i - 1 \in Slots /\ r.o.block # NoBlock /\ i \in Int
    BY <1>1 DEF Slots
  <2>2. w.mem[r.o.block][i - 1] = IF at <= i - 1 /\ i - 1 < at + Len(xs) THEN xs[(i - 1) - at + 1]
                                  ELSE r.mem[r.o.block][i - 1]
    BY <1>3, <2>1 DEF Wrote
  <2>3. (i - 1) - at + 1 = i - at /\ (at <= i - 1 <=> at < i)
        /\ (i - 1 < at + Len(xs) <=> i <= at + Len(xs))
    BY <2>1
  <2> QED
    BY <1>4, <2>2, <2>3
<1>6. Holds(u, s)
  BY <1>4, <1>5 DEF Holds
<1> QED
  BY <1>4, <1>6 DEF u, w

(* memcpy reaches no further than the elements it writes.                  *)
LEMMA CopyHolds ==
  ASSUME layout \in Layouts, NEW a \in Arrays, NEW r, Sound(a, r),
         NEW s \in Inputs, Len(s) # 0 => r.o.block # NoBlock,
         PowerOfTwo(E) => Len(s) * E <= r.o.room,
         NEW at \in Nat, NEW xs \in Seq(Values), at + Len(xs) <= Len(s),
         \A i \in 1 .. Len(s) :
           s[i] = IF at < i /\ i <= at + Len(xs) THEN xs[i - at]
                  ELSE r.mem[r.o.block][i - 1]
  PROVE  LET u == SetSize(memcpy(r, at, xs), Len(s)) IN
         Sound(a, u) /\ Holds(u, s)
<1> DEFINE reach == (at + Len(xs)) * E
<1>1. Len(s) \in Nat /\ Len(xs) \in Nat /\ at + Len(xs) \in Nat /\ E \in Nat \ {0}
  BY InputIs, Pads
<1>2. reach \in Nat /\ reach <= Len(s) * E /\ Len(s) * E \in Nat
  BY <1>1, ProductMono
<1>3. ASSUME PowerOfTwo(E) PROVE reach <= r.o.room + pad_right
  <2> DEFINE x == Len(s) * E
  <2>1. r.o.room \in Nat /\ pad_right \in Nat /\ x \in Nat /\ reach <= x /\ x <= r.o.room
    BY <1>2, <1>3, Pads DEF Sound, Records, Members
  <2> HIDE DEF x, reach
  <2> QED
    BY <1>2, <2>1
<1>4. xs # <<>> => at < Len(s)
  <2>1. xs # <<>> => Len(xs) # 0
    OBVIOUS
  <2> QED
    BY <1>1, <2>1
<1>5. reach \in Int
  BY <1>2
<1> HIDE DEF reach
<1>6. LET u == SetSize(Write(r, at, xs, reach), Len(s)) IN Sound(a, u) /\ Holds(u, s)
  BY <1>3, <1>4, <1>5, FillHolds
<1> QED
  BY <1>6 DEF memcpy, reach

(* insert adds elements at the end.                                        *)
LEMMA InsertHolds ==
  ASSUME layout \in Layouts, NEW a \in Arrays, NEW r, Sound(a, r), NEW s, Holds(r, s),
         NEW xs \in Inputs, Len(s) + Len(xs) <= MaxSize
  PROVE  Sound(a, insert(r, xs)) /\ Holds(insert(r, xs), s \o xs)
<1> DEFINE n == Len(s)
           k == n + Len(xs)
           u == insertPrepare(r, k)
           t == s \o xs
<1>1. /\ s \in Inputs /\ s \in Seq(Values) /\ xs \in Seq(Values)
      /\ n \in Nat /\ Len(xs) \in Nat /\ k \in Nat
  BY InputIs DEF Holds
<1>2. size(r.o) = n
  BY <1>1, Pads, DivExact DEF Holds, size
<1>3. /\ t \in Seq(Values) /\ Len(t) = k
      /\ \A i \in 1 .. k : t[i] = IF i <= n THEN s[i] ELSE xs[i - n]
  BY <1>1, ConcatProperties
<1>4. t \in Inputs
  BY <1>3, SequenceInput
<1>5. Sound(a, u) /\ Grown(r, u, k)
  BY <1>1, InsertPrepareSound
<1>6. insert(r, xs) = SetSize(memcpy(u, n, xs), k)
  BY <1>2 DEF insert
<1>7. k * E <= u.o.room /\ (k # 0 => u.o.block # NoBlock)
  BY <1>5 DEF Grown
<1>8. \A i \in 1 .. n : u.mem[u.o.block][i - 1] = s[i]
  BY <1>5, GrownKeeps
<1> HIDE DEF k, u, t
<1>9. \A i \in 1 .. k : t[i] = IF n < i /\ i <= n + Len(xs) THEN xs[i - n]
                               ELSE u.mem[u.o.block][i - 1]
  BY <1>1, <1>3, <1>8 DEF k
<1>10. n + Len(xs) <= Len(t)
  BY <1>1, <1>3 DEF k
<1>11. LET v == SetSize(memcpy(u, n, xs), Len(t)) IN Sound(a, v) /\ Holds(v, t)
  BY <1>1, <1>3, <1>4, <1>5, <1>7, <1>9, <1>10, CopyHolds
<1> QED
  BY <1>3, <1>6, <1>11 DEF t

(* assign replaces the elements.                                           *)
LEMMA AssignHolds ==
  ASSUME layout \in Layouts, NEW a \in Arrays, NEW r, Sound(a, r), NEW xs \in Inputs
  PROVE  Sound(a, assign(r, xs)) /\ Holds(assign(r, xs), xs)
<1> DEFINE u == insertPrepare(r, Len(xs))
<1>1. xs \in Seq(Values) /\ Len(xs) \in Nat
  BY InputIs
<1>2. Sound(a, u) /\ Grown(r, u, Len(xs))
  BY <1>1, InsertPrepareSound
<1>3. Len(xs) * E <= u.o.room /\ (Len(xs) # 0 => u.o.block # NoBlock)
  BY <1>2 DEF Grown
<1>4. assign(r, xs) = SetSize(memcpy(u, 0, xs), Len(xs))
  BY DEF assign
<1> HIDE DEF u
<1>5. \A i \in 1 .. Len(xs) : xs[i] = IF 0 < i /\ i <= 0 + Len(xs) THEN xs[i - 0]
                                      ELSE u.mem[u.o.block][i - 1]
  BY <1>1
<1>6. 0 + Len(xs) <= Len(xs) /\ 0 \in Nat
  BY <1>1
<1> QED
  BY <1>1, <1>2, <1>3, <1>4, <1>5, <1>6, CopyHolds

(* The storage of an array that is constructed with n elements.            *)
LEMMA AllocForSound ==
  ASSUME Inv, NEW a \in Arrays, arr[a] = Gone, NEW n \in Nat
  PROVE  LET r == Working(Null)
             u == alloc_for_num_elements(r, n) IN
         /\ Sound(a, u) /\ Grown(r, u, n) /\ Holds(u, <<>>)
         /\ n # 0 => \A i \in Slots : u.mem[u.o.block][i] = Zero
<1> DEFINE r == Working(Null)
           m == minimum_memory_for_elements(n)
           u == alloc_for_num_elements(r, n)
           s == <<>>
<1>1. Sound(a, r) /\ Holds(r, s) /\ layout \in Layouts
  BY NewSound
<1>2. r.o = Null
  BY DEF Working
<1>3. u = alloc(r, roundUpToPowerOfTwoOrZero(m))
  BY DEF alloc_for_num_elements
<1> HIDE DEF r, s, u
<1>4. Sound(a, u) /\ Grown(r, u, n) /\ (n # 0 => \A i \in Slots : u.mem[u.o.block][i] = Zero)
  <2>1. CASE m = 0
    <3>1. u = r
      BY <1>3, <2>1 DEF alloc, roundUpToPowerOfTwoOrZero
    <3>2. n = 0
      <4> SUFFICES ASSUME n # 0 PROVE FALSE
        OBVIOUS
      <4>1. 1 * E <= n * E /\ n * E \in Nat /\ E \in Nat \ {0} /\ pad_left \in Nat /\ pad_right \in Nat
        BY <1>1, Pads, ProductMono
      <4> DEFINE x == n * E
      <4>2. x \in Nat /\ E <= x /\ x + pad_right + pad_left = 0
        BY <2>1, <4>1 DEF minimum_memory_for_elements
      <4> HIDE DEF x
      <4> QED
        BY <4>1, <4>2
    <3>3. n <= capacity(r.o)
      <4>1. r.o.room \in Nat
        BY <1>2 DEF Null
      <4> QED
        BY <1>1, <3>2, <4>1, Capacity
    <3> QED
      BY <1>1, <3>1, <3>2, <3>3, GrownSame
  <2>2. CASE m # 0
    <3>1. Enough(roundUpToPowerOfTwoOrZero(m), n)
      BY <1>1, <2>2, PowerEnough
    <3> QED
      BY <1>1, <1>2, <1>3, <3>1, AllocSound
  <2> QED
    BY <2>1, <2>2
<1>5. Holds(u, s)
  BY <1>1, <1>4, GrownKeeps DEF Holds
<1> QED
  BY <1>4, <1>5 DEF r, u, s

-----------------------------------------------------------------------------
(* Each call keeps the invariant *)

LEMMA InitInv == Init => Inv
<1> SUFFICES ASSUME Init PROVE Inv
  OBVIOUS
<1>1. Live = {} /\ \A a \in Arrays : Content(a) = Gone
  BY DEF Init, Live, Content
<1>2. TypeOK
  BY <1>1, BlockNumbers DEF Init, TypeOK
<1>3. HeapOK
  BY <1>1 DEF Init, HeapOK
<1>4. value = [a \in Arrays |-> Content(a)]
  BY <1>1 DEF Init
<1> QED
  BY <1>2, <1>3, <1>4 DEF Init, Inv, InsideStorage

(* A call with undefined behaviour is the last one.                        *)
LEMMA UndefinedInv ==
  ASSUME Inv, NEW why \in {"left", "stale", "overlap"}, Undefined(why)
  PROVE  Inv'
<1>1. /\ layout' = layout /\ arr' = arr /\ heap' = heap /\ mem' = mem /\ value' = value
      /\ undefined' = why
  BY DEF Undefined
<1>2. Live' = Live
  BY <1>1 DEF Live
<1>3. TypeOK'
  BY <1>1, <1>2 DEF Inv, TypeOK
<1>4. HeapOK'
  <2>1. ASSUME NEW c \in Live PROVE Fits(arr[c], heap)'
    <3>1. Fits(arr[c], heap) /\ arr'[c] = arr[c] /\ heap'[arr[c].block] = heap[arr[c].block]
      BY <1>1 DEF Inv, HeapOK
    <3> QED
      BY <1>1, <3>1, FitsKept
  <2> QED
    BY <1>1, <1>2, <2>1 DEF Inv, HeapOK
<1>5. (value = [c \in Arrays |-> Content(c)])'
  <2>1. \A c \in Arrays : Content(c)' = Content(c)
    BY <1>1, <1>2 DEF Content, size, E
  <2> QED
    BY <1>1, <2>1 DEF Inv
<1>6. InsideStorage'
  BY <1>1 DEF InsideStorage
<1> QED
  BY <1>3, <1>4, <1>5, <1>6 DEF Inv

(* So a call that may be stale need only be sound when it is not.          *)
LEMMA CommitUnlessStaleInv ==
  ASSUME Inv, NEW a \in Arrays, NEW r, Sound(a, r), NEW s, Holds(r, s),
         NEW own \in BOOLEAN, CommitUnlessStale(a, r, own, s)
  PROVE  Inv'
BY CommitInv, UndefinedInv DEF CommitUnlessStale

LEMMA ConstructInv == ASSUME Inv, NEW a \in Arrays, Construct(a) PROVE Inv'
BY NewSound, CommitInv DEF Construct

(* A caller's elements, filled up.                                         *)
LEMMA FilledIs ==
  ASSUME NEW s \in Inputs, NEW n \in 0 .. MaxSize, NEW v \in Values
  PROVE  /\ Filled(s, n, v) \in Inputs /\ Len(Filled(s, n, v)) = n
         /\ \A i \in 1 .. n : Filled(s, n, v)[i] = IF i <= Len(s) THEN s[i] ELSE v
<1> DEFINE t == [i \in 1 .. n |-> IF i <= Len(s) THEN s[i] ELSE v]
<1>1. Len(s) \in Nat /\ (\A i \in 1 .. Len(s) : s[i] \in Values) /\ n \in Nat
  BY InputIs, BlockNumbers
<1>2. t \in [1 .. n -> Values]
  BY <1>1
<1>3. Filled(s, n, v) = t
  BY DEF Filled
<1> HIDE DEF t
<1>4. t \in Inputs /\ Len(t) = n
  BY <1>2, FunctionInput
<1>5. \A i \in 1 .. n : t[i] = IF i <= Len(s) THEN s[i] ELSE v
  BY DEF t
<1> QED
  BY <1>3, <1>4, <1>5

LEMMA ConstructSizedInv ==
  ASSUME Inv, NEW a \in Arrays, NEW n \in Sizes, ConstructSized(a, n)
  PROVE  Inv'
<1> DEFINE r == Working(Null)
           u == alloc_for_num_elements(r, n)
           s == Filled(<<>>, n, Zero)
           w == SetSize(u, n)
<1>1. arr[a] = Gone /\ Commit(a, w, s) /\ n \in Nat /\ n \in 0 .. MaxSize
  BY BlockNumbers DEF ConstructSized, Sizes
<1>2. layout \in Layouts
  BY DEF Inv, TypeOK
<1>3. /\ Sound(a, u) /\ Grown(r, u, n) /\ Holds(u, <<>>)
      /\ n # 0 => \A i \in Slots : u.mem[u.o.block][i] = Zero
  BY <1>1, AllocForSound
<1> HIDE DEF u
<1>4. n * E <= u.o.room /\ (n # 0 => u.o.block # NoBlock)
  BY <1>3 DEF Grown
<1>5. Sound(a, w) /\ w.o.end = n * E /\ w.o.block = u.o.block /\ w.mem = u.mem
  BY <1>1, <1>2, <1>3, <1>4, SetSizeSound
<1>6. s \in Inputs /\ Len(s) = n /\ \A i \in 1 .. n : s[i] = Zero
  <2> DEFINE x == <<>>
  <2>1. x \in Inputs /\ Len(x) = 0
    BY <1>3 DEF Holds
  <2>2. s = Filled(x, n, Zero)
    OBVIOUS
  <2>3. Zero \in Values
    BY BlockNumbers
  <2> HIDE DEF x, s
  <2> QED
    BY <1>1, <2>1, <2>2, <2>3, FilledIs
<1> HIDE DEF s, w
<1>7. ASSUME NEW i \in 1 .. n PROVE w.mem[w.o.block][i - 1] = s[i]
  <2>1. i - 1 \in Slots /\ n # 0
    BY <1>1, BlockNumbers DEF Slots
  <2> QED
    BY <1>3, <1>5, <1>6, <2>1
<1>8. Holds(w, s)
  BY <1>5, <1>6, <1>7 DEF Holds
<1> QED
  BY <1>1, <1>5, <1>8, CommitInv

LEMMA ConstructRangeInv ==
  ASSUME Inv, NEW a \in Arrays, NEW xs \in Inputs, ConstructRange(a, xs)
  PROVE  Inv'
<1> DEFINE u == alloc_for_num_elements(Working(Null), Len(xs))
           s == <<>>
<1>1. /\ arr[a] = Gone /\ Commit(a, insert(u, xs), xs) /\ layout \in Layouts
      /\ xs \in Seq(Values) /\ Len(xs) \in Nat /\ Len(xs) <= MaxSize
  BY InputIs DEF ConstructRange, Inv, TypeOK
<1>2. Sound(a, u) /\ Holds(u, s)
  BY <1>1, AllocForSound
<1>3. Len(s) + Len(xs) <= MaxSize /\ s \o xs = xs
  BY <1>1
<1> HIDE DEF u, s
<1>4. Sound(a, insert(u, xs)) /\ Holds(insert(u, xs), s \o xs)
  BY <1>1, <1>2, <1>3, InsertHolds
<1> QED
  BY <1>1, <1>3, <1>4, CommitInv

LEMMA ClearInv == ASSUME Inv, NEW a \in Arrays, Clear(a) PROVE Inv'
<1> DEFINE r == Working(arr[a])
           u == SetSize(r, 0)
           s == <<>>
<1>1. a \in Live /\ Commit(a, u, s)
  BY DEF Clear
<1>2. Sound(a, r) /\ layout \in Layouts
  BY <1>1, LiveSound
<1>3. r.o.room \in Nat /\ 0 * E = 0
  BY <1>2, Pads, DivExact DEF Sound, Records, Members
<1>4. PowerOfTwo(E) => 0 * E <= r.o.room
  BY <1>3
<1>5. Sound(a, u) /\ u.o.end = 0 * E
  BY <1>2, <1>4, SetSizeSound
<1>6. Len(s) = 0 /\ s \in Inputs
  <2>1. s \in Seq(Values) /\ Len(s) = 0
    OBVIOUS
  <2> HIDE DEF s
  <2>2. Len(s) <= MaxSize
    BY <2>1, BlockNumbers
  <2> QED
    BY <2>1, <2>2, SequenceInput
<1> HIDE DEF s, u
<1>7. Holds(u, s)
  BY <1>5, <1>6 DEF Holds
<1> QED
  BY <1>1, <1>5, <1>7, CommitInv

LEMMA ReserveInv ==
  ASSUME Inv, NEW a \in Arrays, NEW n \in Sizes, Reserve(a, n)
  PROVE  Inv'
<1> DEFINE r == Working(arr[a])
           u == reserve(r, n)
<1>1. a \in Live /\ Commit(a, u, value[a]) /\ n \in Nat
  BY BlockNumbers DEF Reserve, Sizes
<1>2. Sound(a, r) /\ Holds(r, value[a]) /\ layout \in Layouts
  BY <1>1, LiveSound
<1>3. Sound(a, u) /\ Grown(r, u, n)
  BY <1>1, <1>2, ReserveSound
<1> HIDE DEF r, u
<1>4. Holds(u, value[a])
  BY <1>2, <1>3, GrownKeeps DEF Holds
<1> QED
  BY <1>1, <1>3, <1>4, CommitInv

(* The last elements of an array are dropped.                              *)
LEMMA ShrinkHolds ==
  ASSUME layout \in Layouts, NEW a \in Arrays, NEW r, Sound(a, r), NEW s, Holds(r, s),
         NEW t \in Inputs, Len(t) <= Len(s), \A i \in 1 .. Len(t) : t[i] = s[i]
  PROVE  LET u == SetSize(r, Len(t)) IN Sound(a, u) /\ Holds(u, t)
<1> DEFINE u == SetSize(r, Len(t))
<1>1. Len(t) \in Nat /\ Len(s) \in Nat /\ E \in Nat \ {0} /\ r.o.room \in Nat /\ r.o.end \in Nat
  BY InputIs, Pads DEF Holds, Sound, Records, Members
<1>2. Len(t) * E \in Nat /\ Len(t) * E <= r.o.end /\ (Len(t) # 0 => r.o.end # 0)
  <2>1. Len(t) * E \in Nat /\ Len(t) * E <= Len(s) * E /\ r.o.end = Len(s) * E
    BY <1>1, ProductMono DEF Holds
  <2>2. Len(t) # 0 => 1 * E <= Len(t) * E
    BY <1>1, ProductMono
  <2>3. Len(t) # 0 => E <= Len(t) * E
    BY <1>1, <2>2
  <2> DEFINE x == Len(t) * E
  <2>4. x \in Nat /\ x <= r.o.end /\ (Len(t) # 0 => E <= x)
    BY <2>1, <2>3
  <2> SUFFICES Len(t) # 0 => r.o.end # 0
    BY <2>1
  <2> HIDE DEF x
  <2> QED
    BY <1>1, <2>4
<1>3. Len(t) # 0 => r.o.block # NoBlock
  BY <1>2 DEF Sound, Fits, Null
<1>4. PowerOfTwo(E) => Len(t) * E <= r.o.room
  <2> DEFINE x == Len(t) * E
  <2>1. x \in Nat /\ x <= r.o.end /\ (PowerOfTwo(E) => r.o.end <= r.o.room)
    BY <1>2 DEF Sound, Fits
  <2> SUFFICES PowerOfTwo(E) => x <= r.o.room
    OBVIOUS
  <2> HIDE DEF x
  <2> QED
    BY <1>1, <2>1
<1>5. Sound(a, u) /\ u.o.end = Len(t) * E /\ u.o.block = r.o.block /\ u.mem = r.mem
  BY <1>1, <1>3, <1>4, SetSizeSound
<1> HIDE DEF u
<1>6. \A i \in 1 .. Len(t) : i \in 1 .. Len(s)
  BY <1>1
<1>7. Holds(u, t)
  BY <1>5, <1>6 DEF Holds
<1> QED
  BY <1>5, <1>7 DEF u

LEMMA ResizeInv ==
  ASSUME Inv, NEW a \in Arrays, NEW n \in Sizes, Resize(a, n)
  PROVE  Inv'
<1> DEFINE r == Working(arr[a])
           g == reserve(r, n)
           u == SetSize(g, n)
           v == value[a]
           s == [i \in 1 .. n |-> IF i <= Len(v) THEN v[i] ELSE u.mem[u.o.block][i - 1]]
<1>1. a \in Live /\ Commit(a, u, s) /\ n \in Nat /\ n \in 0 .. MaxSize /\ MaxSize \in Nat
  <2>1. a \in Live /\ Commit(a, u, s)
    BY DEF Resize
  <2>2. n \in Nat /\ n \in 0 .. MaxSize /\ MaxSize \in Nat
    BY BlockNumbers DEF Sizes
  <2> QED
    BY <2>1, <2>2
<1>2. Sound(a, r) /\ Holds(r, v) /\ layout \in Layouts
  BY <1>1, LiveSound
<1>3. Sound(a, g) /\ Grown(r, g, n)
  BY <1>1, <1>2, ReserveSound
<1> HIDE DEF r, g
<1>4. n * E <= g.o.room /\ (n # 0 => g.o.block # NoBlock)
  BY <1>3 DEF Grown
<1>5. Sound(a, u) /\ u.o.end = n * E /\ u.o.block = g.o.block /\ u.mem = g.mem
  BY <1>1, <1>2, <1>3, <1>4, SetSizeSound
<1>6. \A i \in 1 .. Len(v) : g.mem[g.o.block][i - 1] = v[i]
  BY <1>2, <1>3, GrownKeeps
<1>7. Len(v) \in Nat /\ \A i \in 1 .. Len(v) : v[i] \in Values
  BY <1>2, InputIs DEF Holds
<1> HIDE DEF u, v
<1>8. ASSUME NEW i \in 1 .. n PROVE u.mem[u.o.block][i - 1] \in Values
  <2>1. i - 1 \in Slots /\ n # 0
    BY <1>1 DEF Slots
  <2>2. g.o.block \in Blocks /\ g.mem \in [Blocks -> [Slots -> Values]]
    BY <1>3, <1>4, <2>1 DEF Sound, Records, Members
  <2> QED
    BY <1>5, <2>1, <2>2
<1>9. s \in [1 .. n -> Values]
  <2>1. ASSUME NEW i \in 1 .. n, i <= Len(v) PROVE v[i] \in Values
    BY <1>1, <1>7, <2>1
  <2> QED
    BY <1>8, <2>1
<1>10. s \in Inputs /\ Len(s) = n
  <2> HIDE DEF s
  <2> QED
    BY <1>1, <1>9, FunctionInput
<1>11. ASSUME NEW i \in 1 .. n PROVE u.mem[u.o.block][i - 1] = s[i]
  <2>1. CASE i <= Len(v)
    <3>1. i \in 1 .. Len(v) /\ s[i] = v[i]
      BY <1>1, <1>7, <2>1
    <3> QED
      BY <1>5, <1>6, <3>1
  <2>2. CASE ~ (i <= Len(v))
    BY <2>2
  <2> QED
    BY <2>1, <2>2
<1>12. Holds(u, s)
  <2> HIDE DEF s
  <2> QED
    BY <1>5, <1>10, <1>11 DEF Holds
<1> QED
  BY <1>1, <1>5, <1>12, CommitInv

LEMMA PushBackInv ==
  ASSUME Inv, NEW a \in Arrays, NEW v \in Values, NEW own \in BOOLEAN, PushBack(a, v, own)
  PROVE  Inv'
<1> DEFINE w == Working(arr[a])
           n == Len(value[a])
           r == IF arr[a].end = arr[a].room THEN reserveForNextSize(w) ELSE w
           s == Append(value[a], v)
           xs == <<v>>
           u == SetSize(memcpy(r, n, xs), n + 1)
<1>1. a \in Live
  BY DEF PushBack, Mine
<1>2. /\ Sound(a, w) /\ Holds(w, value[a]) /\ size(arr[a]) = n /\ layout \in Layouts
      /\ w.o = arr[a] /\ n \in Nat /\ value[a] \in Seq(Values)
  BY <1>1, LiveSound, InputIs DEF Holds, Working
<1>3. CommitUnlessStale(a, u, own, s) /\ n + 1 <= MaxSize
  <2>1. CommitUnlessStale(a, u, own, s) /\ n < MaxSize
    BY <1>2 DEF PushBack
  <2> QED
    BY <1>2, <2>1, BlockNumbers
<1>4. /\ s \in Seq(Values) /\ Len(s) = n + 1 /\ s[n + 1] = v
      /\ \A i \in 1 .. n : s[i] = value[a][i]
  BY <1>2, AppendProperties
<1>5. s \in Inputs
  BY <1>3, <1>4, SequenceInput
<1>6. xs \in Seq(Values) /\ Len(xs) = 1 /\ xs[1] = v
  OBVIOUS
<1>7. E \in Nat \ {0} /\ arr[a] \in Members /\ arr[a].end = n * E /\ Fits(arr[a], heap)
  BY <1>1, <1>2, Pads DEF Inv, TypeOK, HeapOK, Live, Holds
<1>8. /\ Sound(a, r) /\ r.o.block # NoBlock
      /\ PowerOfTwo(E) => (n + 1) * E <= r.o.room
      /\ \A i \in 1 .. n : r.mem[r.o.block][i - 1] = value[a][i]
  <2>1. CASE arr[a].end = arr[a].room
    <3>1. r = reserveForNextSize(w)
      BY <2>1
    <3>2. Sound(a, r) /\ Grown(w, r, n + 1)
      BY <1>2, <1>7, <2>1, <3>1, ReserveForNextSizeSound
    <3>3. r.o.block # NoBlock /\ (n + 1) * E <= r.o.room
      BY <1>2, <3>2 DEF Grown
    <3>4. \A i \in 1 .. n : r.mem[r.o.block][i - 1] = value[a][i]
      BY <1>2, <3>2, GrownKeeps
    <3> QED
      BY <3>2, <3>3, <3>4
  <2>2. CASE arr[a].end # arr[a].room
    <3>1. r = w
      BY <2>2
    <3>2. arr[a].block # NoBlock
      BY <1>7, <2>2 DEF Fits, Null
    <3>3. ASSUME PowerOfTwo(E) PROVE (n + 1) * E <= arr[a].room
      <4> DEFINE room == arr[a].room
      <4>1. room \in Nat /\ room % E = 0 /\ n * E <= room /\ n * E # room
        BY <1>7, <2>2, <3>3 DEF Fits, Members
      <4> HIDE DEF room
      <4>2. PICK k \in Nat : room = k * E
        BY <1>7, <4>1, Multiple
      <4>3. n < k
        <5> SUFFICES ASSUME k <= n PROVE FALSE
          BY <1>2, <4>2
        <5>1. k * E <= n * E /\ n * E \in Nat
          BY <1>2, <1>7, <4>2, ProductMono
        <5> QED
          BY <4>1, <4>2, <5>1
      <4>4. n + 1 <= k /\ n + 1 \in Nat
        BY <1>2, <4>2, <4>3
      <4>5. (n + 1) * E <= k * E
        BY <1>7, <4>2, <4>4, ProductMono
      <4> QED
        BY <4>2, <4>5 DEF room
    <3> QED
      BY <1>2, <3>1, <3>2, <3>3 DEF Holds
  <2> QED
    BY <2>1, <2>2
<1> HIDE DEF s, xs, r
<1>9. \A i \in 1 .. Len(s) : s[i] = IF n < i /\ i <= n + Len(xs) THEN xs[i - n]
                                    ELSE r.mem[r.o.block][i - 1]
  <2> SUFFICES ASSUME NEW i \in 1 .. n + 1
               PROVE  s[i] = IF n < i /\ i <= n + Len(xs) THEN xs[i - n]
                             ELSE r.mem[r.o.block][i - 1]
    BY <1>4
  <2>1. CASE i \in 1 .. n
    BY <1>2, <1>4, <1>8, <2>1
  <2>2. CASE i = n + 1
    BY <1>2, <1>4, <1>6, <2>2
  <2> QED
    BY <1>2, <2>1, <2>2
<1>10. n + Len(xs) <= Len(s)
  BY <1>2, <1>4, <1>6
<1>11. LET x == SetSize(memcpy(r, n, xs), Len(s)) IN Sound(a, x) /\ Holds(x, s)
  BY <1>2, <1>4, <1>5, <1>6, <1>8, <1>9, <1>10, CopyHolds
<1> QED
  BY <1>3, <1>4, <1>11, CommitUnlessStaleInv

LEMMA ResizeFillInv ==
  ASSUME Inv, NEW a \in Arrays, NEW n \in Sizes, NEW v \in Values, NEW own \in BOOLEAN,
         ResizeFill(a, n, v, own)
  PROVE  Inv'
<1> DEFINE w == Working(arr[a])
           old == Len(value[a])
           fill == [i \in 1 .. n - old |-> v]
           r == IF n > old THEN memcpy(reserve(w, n), old, fill) ELSE w
           u == SetSize(r, n)
           s == Filled(value[a], n, v)
<1>1. a \in Live /\ n \in Nat /\ n \in 0 .. MaxSize
  BY BlockNumbers DEF ResizeFill, Mine, Sizes
<1>2. /\ Sound(a, w) /\ Holds(w, value[a]) /\ size(arr[a]) = old /\ layout \in Layouts
      /\ old \in Nat /\ value[a] \in Inputs
  BY <1>1, LiveSound, InputIs DEF Holds
<1>3. CommitUnlessStale(a, u, own, s)
  BY <1>2 DEF ResizeFill
<1>4. /\ s \in Inputs /\ Len(s) = n
      /\ \A i \in 1 .. n : s[i] = IF i <= old THEN value[a][i] ELSE v
  BY <1>1, <1>2, FilledIs
<1> HIDE DEF s, w
<1>5. CASE n > old
  <2> DEFINE g == reserve(w, n)
  <2>1. Sound(a, g) /\ Grown(w, g, n)
    BY <1>1, <1>2, ReserveSound
  <2>2. /\ n * E <= g.o.room /\ (n # 0 => g.o.block # NoBlock)
        /\ \A i \in 1 .. old : g.mem[g.o.block][i - 1] = value[a][i]
    BY <1>2, <2>1, GrownKeeps DEF Grown
  <2>3. n - old \in Nat /\ fill \in [1 .. n - old -> Values]
    BY <1>1, <1>2, <1>5
  <2>4. fill \in Seq(Values) /\ Len(fill) = n - old /\ \A i \in 1 .. n - old : fill[i] = v
    BY <2>3
  <2>5. u = SetSize(memcpy(g, old, fill), n)
    BY <1>5
  <2> HIDE DEF g, fill, u
  <2>6. \A i \in 1 .. Len(s) : s[i] = IF old < i /\ i <= old + Len(fill) THEN fill[i - old]
                                      ELSE g.mem[g.o.block][i - 1]
    <3> SUFFICES ASSUME NEW i \in 1 .. n
                 PROVE  s[i] = IF old < i /\ i <= old + Len(fill) THEN fill[i - old]
                               ELSE g.mem[g.o.block][i - 1]
      BY <1>4
    <3>1. CASE i <= old
      BY <1>2, <1>4, <2>2, <3>1
    <3>2. CASE old < i
      <4>1. i - old \in 1 .. n - old /\ i <= old + Len(fill)
        BY <1>1, <1>2, <2>4, <3>2
      <4> QED
        BY <1>1, <1>2, <1>4, <2>4, <3>2, <4>1
    <3> QED
      BY <1>1, <1>2, <3>1, <3>2
  <2>7. old + Len(fill) <= Len(s)
    BY <1>1, <1>2, <1>4, <2>4
  <2>8. LET x == SetSize(memcpy(g, old, fill), Len(s)) IN Sound(a, x) /\ Holds(x, s)
    BY <1>2, <1>4, <2>1, <2>2, <2>4, <2>6, <2>7, CopyHolds
  <2> QED
    BY <1>3, <1>4, <2>5, <2>8, CommitUnlessStaleInv
<1>6. CASE ~ (n > old)
  <2>1. u = SetSize(w, n)
    BY <1>6
  <2>2. Len(s) <= old /\ \A i \in 1 .. Len(s) : s[i] = value[a][i]
    BY <1>1, <1>2, <1>4, <1>6
  <2> HIDE DEF u
  <2>3. Sound(a, u) /\ Holds(u, s)
    BY <1>2, <1>4, <2>1, <2>2, ShrinkHolds
  <2> QED
    BY <1>3, <2>3, CommitUnlessStaleInv
<1> QED
  BY <1>5, <1>6

LEMMA AssignFillInv ==
  ASSUME Inv, NEW a \in Arrays, NEW n \in Sizes, NEW v \in Values, NEW own \in BOOLEAN,
         AssignFill(a, n, v, own)
  PROVE  Inv'
<1> DEFINE w == Working(arr[a])
           r == reserve(w, n)
           x == <<>>
           s == Filled(x, n, v)
           u == SetSize(memcpy(r, 0, s), n)
<1>1. a \in Live /\ n \in Nat /\ n \in 0 .. MaxSize /\ CommitUnlessStale(a, u, own, s)
  BY BlockNumbers DEF AssignFill, Mine, Sizes
<1>2. Sound(a, w) /\ layout \in Layouts
  BY <1>1, LiveSound
<1>3. Sound(a, r) /\ n * E <= r.o.room /\ (n # 0 => r.o.block # NoBlock)
  BY <1>1, <1>2, ReserveSound DEF Grown
<1>4. x \in Inputs
  <2>1. x \in Seq(Values) /\ Len(x) = 0
    OBVIOUS
  <2> HIDE DEF x
  <2>2. Len(x) <= MaxSize
    BY <2>1, BlockNumbers
  <2> QED
    BY <2>1, <2>2, SequenceInput
<1> HIDE DEF x, r, w
<1>5. s \in Inputs /\ Len(s) = n
  BY <1>1, <1>4, FilledIs
<1> HIDE DEF s
<1>6. s \in Seq(Values)
  BY <1>5, InputIs
<1>7. \A i \in 1 .. Len(s) : s[i] = IF 0 < i /\ i <= 0 + Len(s) THEN s[i - 0]
                                    ELSE r.mem[r.o.block][i - 1]
  BY <1>1, <1>5
<1>8. 0 + Len(s) <= Len(s) /\ 0 \in Nat
  BY <1>1, <1>5
<1>9. Sound(a, u) /\ Holds(u, s)
  BY <1>2, <1>3, <1>5, <1>6, <1>7, <1>8, CopyHolds
<1> QED
  BY <1>1, <1>9, CommitUnlessStaleInv

(* A caller's elements, spliced, element by element.                       *)
IsSpliced(t, s, p, cut, xs) ==
  /\ t \in Seq(Values) /\ Len(t) = Len(s) - cut + Len(xs)
  /\ \A i \in 1 .. Len(s) - cut + Len(xs) :
       t[i] = IF i <= p THEN s[i]
              ELSE IF i <= p + Len(xs) THEN xs[i - p] ELSE s[i - Len(xs) + cut]

LEMMA SplicedIs ==
  ASSUME NEW s \in Seq(Values), NEW p \in Nat, NEW cut \in Nat, p + cut <= Len(s),
         NEW xs \in Seq(Values)
  PROVE  IsSpliced(Spliced(s, p, cut, xs), s, p, cut, xs)
<1> DEFINE x == SubSeq(s, 1, p)
           y == SubSeq(s, p + cut + 1, Len(s))
           n == Len(s)
           k == Len(xs)
<1>1. n \in Nat /\ k \in Nat /\ (\A i \in 1 .. n : s[i] \in Values) /\ p + cut <= n
  OBVIOUS
<1>2. x \in Seq(Values) /\ Len(x) = p /\ \A i \in 1 .. p : x[i] = s[i]
  <2>1. \A i \in 1 .. p : s[i] \in Values
    BY <1>1
  <2>2. /\ x \in Seq(Values) /\ Len(x) = (IF 1 <= p THEN p - 1 + 1 ELSE 0)
        /\ \A i \in 1 .. p - 1 + 1 : x[i] = s[1 + i - 1]
    BY <2>1, SubSeqProperties
  <2> HIDE DEF x
  <2> QED
    BY <2>2
<1>3. /\ y \in Seq(Values) /\ Len(y) = n - p - cut
      /\ \A i \in 1 .. n - p - cut : y[i] = s[p + cut + i]
  <2> DEFINE b == p + cut + 1
  <2>1. b \in Int /\ n \in Int /\ b = p + cut + 1 /\ \A i \in b .. n : s[i] \in Values
    BY <1>1
  <2>2. y = SubSeq(s, b, n)
    OBVIOUS
  <2> HIDE DEF y, b, n
  <2>3. /\ y \in Seq(Values) /\ Len(y) = (IF b <= n THEN n - b + 1 ELSE 0)
        /\ \A i \in 1 .. n - b + 1 : y[i] = s[b + i - 1]
    BY <2>1, <2>2, SubSeqProperties
  <2> QED
    BY <1>1, <2>1, <2>3
<1> DEFINE z == x \o xs
           t == z \o y
<1> HIDE DEF x, y
<1>4. z \in Seq(Values) /\ Len(z) = p + k
  BY <1>2, ConcatProperties
<1>5. \A i \in 1 .. Len(x) + Len(xs) : z[i] = IF i <= Len(x) THEN x[i] ELSE xs[i - Len(x)]
  BY <1>2, ConcatProperties
<1> HIDE DEF z
<1>6. z \in Seq(Values) /\ y \in Seq(Values)
  BY <1>3, <1>4
<1>7. /\ t \in Seq(Values) /\ Len(t) = Len(z) + Len(y)
      /\ \A i \in 1 .. Len(z) + Len(y) : t[i] = IF i <= Len(z) THEN z[i] ELSE y[i - Len(z)]
  BY <1>6, ConcatProperties
<1> HIDE DEF t
<1>8. Len(t) = n - cut + k
  BY <1>1, <1>3, <1>4, <1>7
<1>9. ASSUME NEW i \in 1 .. n - cut + k
      PROVE  t[i] = IF i <= p THEN s[i] ELSE IF i <= p + k THEN xs[i - p] ELSE s[i - k + cut]
  <2> DEFINE j == i - (p + k)
  <2>1. i \in 1 .. Len(z) + Len(y) /\ i \in Nat
    <3> HIDE DEF n, k
    <3>1. Len(z) + Len(y) = n - cut + k
      BY <1>1, <1>3, <1>4
    <3> QED
      BY <3>1
  <2>2. CASE i <= p
    <3>1. i <= Len(z) /\ i \in 1 .. Len(x) + Len(xs) /\ i <= Len(x) /\ i \in 1 .. p
      BY <1>1, <1>2, <1>4, <2>1, <2>2
    <3>2. t[i] = z[i] /\ z[i] = x[i] /\ x[i] = s[i]
      BY <1>2, <1>5, <1>7, <2>1, <3>1
    <3> QED
      BY <2>2, <3>2
  <2>3. CASE p < i /\ i <= p + k
    <3>1. i <= Len(z) /\ i \in 1 .. Len(x) + Len(xs) /\ ~ (i <= Len(x)) /\ ~ (i <= p)
      BY <1>1, <1>2, <1>4, <2>1, <2>3
    <3>2. t[i] = z[i] /\ z[i] = xs[i - Len(x)]
      BY <1>5, <1>7, <2>1, <3>1
    <3> QED
      BY <1>2, <2>3, <3>1, <3>2
  <2>4. CASE p + k < i
    <3>1. ~ (i <= Len(z)) /\ ~ (i <= p) /\ ~ (i <= p + k)
      BY <1>1, <1>4, <2>1, <2>4
    <3>2. j \in 1 .. n - p - cut /\ p + cut + j = i - k + cut
      BY <1>1, <2>1, <2>4
    <3>3. t[i] = y[i - Len(z)]
      BY <1>7, <2>1, <3>1
    <3>4. t[i] = y[j]
      BY <1>4, <3>3
    <3> HIDE DEF j
    <3>5. t[i] = s[i - k + cut]
      BY <1>3, <3>2, <3>4
    <3> QED
      BY <3>1, <3>5
  <2> QED
    BY <1>1, <2>1, <2>2, <2>3, <2>4
<1>10. IsSpliced(t, s, p, cut, xs)
  BY <1>7, <1>8, <1>9 DEF IsSpliced
<1> QED
  BY <1>10 DEF Spliced, t, x, y, z

LEMMA PopBackInv == ASSUME Inv, NEW a \in Arrays, PopBack(a) PROVE Inv'
<1> DEFINE w == Working(arr[a])
           v == value[a]
           n == Len(v)
           e == <<>>
           s == Spliced(v, n - 1, 1, e)
           u == SetSize(w, n - 1)
<1>1. a \in Live
  BY DEF PopBack
<1>2. /\ Sound(a, w) /\ Holds(w, v) /\ size(arr[a]) = n /\ layout \in Layouts
      /\ n \in Nat /\ v \in Inputs /\ v \in Seq(Values) /\ n <= MaxSize
  BY <1>1, LiveSound, InputIs DEF Holds
<1>3. n > 0 /\ Commit(a, u, s)
  BY <1>2 DEF PopBack
<1>4. n - 1 \in Nat /\ (n - 1) + 1 <= n
  BY <1>2, <1>3
<1>5. e \in Seq(Values) /\ Len(e) = 0
  OBVIOUS
<1> HIDE DEF e, u
<1>6. IsSpliced(s, v, n - 1, 1, e)
  BY <1>2, <1>4, <1>5, SplicedIs
<1> HIDE DEF s
<1>7. s \in Seq(Values) /\ Len(s) = n - 1 /\ \A i \in 1 .. n - 1 : s[i] = v[i]
  BY <1>2, <1>4, <1>5, <1>6 DEF IsSpliced
<1>8. s \in Inputs
  <2>1. Len(s) <= MaxSize
    BY <1>2, <1>7, BlockNumbers
  <2> QED
    BY <1>7, <2>1, SequenceInput
<1>9. Len(s) <= Len(v)
  BY <1>2, <1>7
<1>10. Sound(a, u) /\ Holds(u, s)
  BY <1>2, <1>7, <1>8, <1>9, ShrinkHolds DEF u
<1> QED
  BY <1>3, <1>10, CommitInv

LEMMA InsertInv ==
  ASSUME Inv, NEW a \in Arrays, NEW xs \in Inputs, Insert(a, xs)
  PROVE  Inv'
<1>1. a \in Live /\ Commit(a, insert(Working(arr[a]), xs), value[a] \o xs)
  BY DEF Insert
<1>2. /\ Sound(a, Working(arr[a])) /\ Holds(Working(arr[a]), value[a])
      /\ size(arr[a]) = Len(value[a]) /\ layout \in Layouts
  BY <1>1, LiveSound
<1>3. Len(value[a]) + Len(xs) <= MaxSize
  BY <1>2 DEF Insert
<1> QED
  BY <1>1, <1>2, <1>3, InsertHolds, CommitInv

LEMMA AssignInv ==
  ASSUME Inv, NEW a \in Arrays, NEW xs \in Inputs, Assign(a, xs)
  PROVE  Inv'
BY LiveSound, AssignHolds, CommitInv DEF Assign

(* What it copies beyond the elements stays within the right padding,      *)
(* which has 15 bytes or more.                                             *)
LEMMA InsertSmallInv ==
  ASSUME Inv, NEW a \in Arrays, NEW xs \in Inputs, InsertSmallAllowReadWriteOverflow15(a, xs)
  PROVE  Inv'
<1> DEFINE w == Working(arr[a])
           n == Len(value[a])
           k == Len(xs)
           m == n + k
           e == k * E
           copied == integerRoundUp(e, 16)
           q == (copied + E - 1) \div E
           r == insertPrepare(w, m)
           s == value[a] \o xs
           reach == n * E + copied
<1>1. a \in Live /\ layout.pad_right_ >= 15
  BY DEF InsertSmallAllowReadWriteOverflow15
<1>2. /\ Sound(a, w) /\ Holds(w, value[a]) /\ size(arr[a]) = n /\ layout \in Layouts
      /\ n \in Nat /\ value[a] \in Seq(Values)
  BY <1>1, LiveSound, InputIs DEF Holds
<1>3. xs \in Seq(Values) /\ k \in Nat /\ m \in Nat /\ E \in Nat \ {0}
  BY <1>2, InputIs, Pads
<1>4. PICK junk \in [1 .. q - k -> Values] :
        Commit(a, SetSize(Write(r, n, xs \o junk, reach), m), s)
  BY <1>2 DEF InsertSmallAllowReadWriteOverflow15
<1>5. m <= MaxSize
  BY <1>2 DEF InsertSmallAllowReadWriteOverflow15
<1>6. Sound(a, r) /\ m * E <= r.o.room /\ (m # 0 => r.o.block # NoBlock)
  BY <1>2, <1>3, InsertPrepareSound DEF Grown
<1>7. \A i \in 1 .. n : r.mem[r.o.block][i - 1] = value[a][i]
  <2>1. Grown(w, r, m)
    BY <1>2, <1>3, InsertPrepareSound
  <2> HIDE DEF w, r, m
  <2> QED
    BY <1>2, <2>1, GrownKeeps
<1>8. /\ e \in Nat /\ copied \in Nat /\ copied < e + 16 /\ e <= copied
      /\ (e = 0 => copied = 0)
  <2>1. e \in Nat
    BY <1>3, ProductMono
  <2>2. 16 \in Nat \ {0} /\ (0 * 16) % 16 = 0
    BY DivExact
  <2> HIDE DEF e
  <2>3. copied \in Nat /\ copied < e + 16 /\ e <= copied /\ (e % 16 = 0 => copied = e)
    BY <2>1, <2>2, RoundUp
  <2> HIDE DEF copied
  <2> QED
    BY <2>1, <2>2, <2>3
<1>9. k <= q /\ q \in Nat /\ (k = 0 => q = 0)
  <2> DEFINE y == copied + E - 1
  <2>1. y \in Nat
    BY <1>3, <1>8
  <2>2. q \in Nat /\ y % E \in 0 .. E - 1 /\ y = E * q + (y % E)
    BY <1>3, <2>1, DivMod
  <2>3. E * q = q * E
    BY <1>3, <2>2, SMT
  <2> HIDE DEF q
  <2>4. ~ (q < k)
    <3> SUFFICES ASSUME q < k PROVE FALSE
      OBVIOUS
    <3>1. q * E + E <= k * E /\ q * E \in Nat
      BY <1>3, <2>2, ProductMono
    <3> DEFINE z == q * E
    <3>2. z + E <= e /\ z \in Nat /\ y = z + (y % E)
      BY <2>2, <2>3, <3>1
    <3> HIDE DEF z, e, copied
    <3> QED
      BY <1>3, <1>8, <2>2, <3>2
  <2>5. ASSUME k = 0 PROVE q = 0
    <3>1. e = 0
      BY <1>3, <2>5
    <3>2. y = E - 1
      BY <1>3, <1>8, <3>1
    <3> SUFFICES ASSUME q # 0 PROVE FALSE
      OBVIOUS
    <3>3. 1 * E <= q * E /\ q * E \in Nat
      BY <1>3, <2>2, ProductMono
    <3> DEFINE z == q * E
    <3>4. E <= z /\ z \in Nat /\ y = z + (y % E)
      BY <1>3, <2>2, <2>3, <3>3
    <3> HIDE DEF z, y
    <3> QED
      BY <1>3, <2>2, <3>2, <3>4
  <2> QED
    BY <1>3, <2>2, <2>4, <2>5
<1> DEFINE ys == xs \o junk
<1>10. /\ ys \in Seq(Values) /\ Len(ys) = q /\ (k = 0 => ys = <<>>)
       /\ \A i \in 1 .. k : ys[i] = xs[i]
  <2> HIDE DEF q
  <2>1. junk \in Seq(Values) /\ Len(junk) = q - k
    BY <1>3, <1>9
  <2>2. /\ ys \in Seq(Values) /\ Len(ys) = Len(xs) + Len(junk)
        /\ \A i \in 1 .. Len(xs) + Len(junk) :
             ys[i] = IF i <= Len(xs) THEN xs[i] ELSE junk[i - Len(xs)]
    BY <1>3, <2>1, ConcatProperties
  <2> HIDE DEF ys
  <2>3. Len(ys) = q
    BY <1>3, <1>9, <2>1, <2>2
  <2>4. \A i \in 1 .. k : ys[i] = xs[i]
    BY <1>3, <1>9, <2>1, <2>2
  <2>5. k = 0 => ys = <<>>
    BY <1>9, <2>2, <2>3
  <2> QED
    BY <2>2, <2>3, <2>4, <2>5
<1>11. PowerOfTwo(E) => reach <= r.o.room + pad_right
  <2>1. m * E = n * E + e /\ n * E \in Nat /\ m * E \in Nat
    <3> DEFINE z == E
    <3>1. z \in Nat /\ n \in Nat /\ k \in Nat
      BY <1>2, <1>3
    <3> SUFFICES (n + k) * z = n * z + k * z /\ n * z \in Nat /\ (n + k) * z \in Nat
      OBVIOUS
    <3> HIDE DEF z, n, k
    <3> QED
      BY <3>1, SMT
  <2> DEFINE x == n * E
             y == m * E
             room == r.o.room
  <2>2. x \in Nat /\ y = x + e /\ y <= room
    BY <1>6, <2>1
  <2>3. pad_right \in Nat /\ layout.pad_right_ \in Nat /\ layout.pad_right_ <= pad_right
    BY <1>2, Pads
  <2>4. room \in Nat
    <3> HIDE DEF r
    <3> QED
      BY <1>6 DEF Sound, Records, Members
  <2> SUFFICES x + copied <= room + pad_right
    OBVIOUS
  <2> HIDE DEF x, y, e, copied, room
  <2> QED
    BY <1>1, <1>8, <2>2, <2>3, <2>4
<1>12. reach \in Int
  <2>1. n * E \in Nat
    BY <1>2, <1>3, ProductMono
  <2> DEFINE x == n * E
  <2> SUFFICES x + copied \in Int
    OBVIOUS
  <2> HIDE DEF x, copied
  <2> QED
    BY <1>8, <2>1 DEF x
<1> HIDE DEF reach, copied, q, e, ys, r
<1>13. /\ s \in Seq(Values) /\ Len(s) = m
       /\ \A i \in 1 .. Len(value[a]) + Len(xs) :
            s[i] = IF i <= Len(value[a]) THEN value[a][i] ELSE xs[i - Len(value[a])]
  BY <1>2, <1>3, ConcatProperties
<1> HIDE DEF s
<1>14. s \in Inputs
  BY <1>5, <1>13, SequenceInput
<1>15. \A i \in 1 .. Len(s) : s[i] = IF n < i /\ i <= n + Len(ys) THEN ys[i - n]
                                     ELSE r.mem[r.o.block][i - 1]
  <2> SUFFICES ASSUME NEW i \in 1 .. m
               PROVE  s[i] = IF n < i /\ i <= n + Len(ys) THEN ys[i - n]
                             ELSE r.mem[r.o.block][i - 1]
    BY <1>13
  <2>1. CASE i <= n
    BY <1>2, <1>3, <1>7, <1>13, <2>1
  <2>2. CASE n < i
    <3>1. i - n \in 1 .. k /\ i <= n + Len(ys)
      BY <1>2, <1>3, <1>9, <1>10, <2>2
    <3>2. s[i] = xs[i - n]
      BY <1>2, <1>3, <1>13, <2>2
    <3> QED
      BY <1>10, <2>2, <3>1, <3>2
  <2> QED
    BY <1>2, <1>3, <2>1, <2>2
<1>16. ys # <<>> => n < Len(s)
  BY <1>2, <1>3, <1>10, <1>13
<1>17. LET u == SetSize(Write(r, n, ys, reach), Len(s)) IN Sound(a, u) /\ Holds(u, s)
  BY <1>2, <1>6, <1>10, <1>11, <1>12, <1>13, <1>14, <1>15, <1>16, FillHolds
<1> QED
  BY <1>4, <1>13, <1>17, CommitInv DEF ys

LEMMA InsertAtInv ==
  ASSUME Inv, NEW a \in Arrays, NEW p \in Sizes, NEW xs \in Inputs, InsertAt(a, p, xs)
  PROVE  Inv'
<1> DEFINE w == Working(arr[a])
           v == value[a]
           n == Len(v)
           k == Len(xs)
           tail == SubSeq(v, p + 1, n)
           r == insertPrepare(w, n + k)
           moved == memcpy(r, p + k, tail)
           u == SetSize(memcpy(moved, p, xs), n + k)
           s == Spliced(v, p, 0, xs)
<1>1. a \in Live /\ p \in Nat
  BY BlockNumbers DEF InsertAt, Sizes
<1>2. /\ Sound(a, w) /\ Holds(w, v) /\ size(arr[a]) = n /\ layout \in Layouts
      /\ n \in Nat /\ v \in Seq(Values) /\ v = Content(a)
  BY <1>1, LiveSound, InputIs DEF Holds, Inv
<1>3. p <= n /\ n + k <= MaxSize
  BY <1>2 DEF InsertAt
<1>4. \/ Commit(a, u, s)
      \/ Undefined("stale") \/ Undefined("overlap")
  BY <1>2 DEF InsertAt
<1>5. CASE Undefined("stale") \/ Undefined("overlap")
  BY <1>5, UndefinedInv
<1>6. CASE Commit(a, u, s)
  <2>1. xs \in Seq(Values) /\ k \in Nat /\ n + k \in Nat /\ E \in Nat \ {0}
    BY <1>2, InputIs, Pads
  <2>2. /\ Sound(a, r) /\ (n + k) * E <= r.o.room /\ (n + k # 0 => r.o.block # NoBlock)
        /\ \A i \in 1 .. n : r.mem[r.o.block][i - 1] = v[i]
    <3>1. Sound(a, r) /\ Grown(w, r, n + k)
      BY <1>2, <2>1, InsertPrepareSound
    <3> HIDE DEF r, w, v
    <3>2. \A i \in 1 .. Len(v) : r.mem[r.o.block][i - 1] = v[i]
      BY <1>2, <3>1, GrownKeeps
    <3> QED
      BY <3>1, <3>2 DEF Grown
  <2>3. /\ tail \in Seq(Values) /\ Len(tail) = n - p
        /\ \A i \in 1 .. n - p : tail[i] = v[p + i]
    <3> DEFINE b == p + 1
    <3>1. b \in Int /\ n \in Int /\ b = p + 1 /\ \A i \in b .. n : v[i] \in Values
      BY <1>1, <1>2
    <3>2. tail = SubSeq(v, b, n)
      OBVIOUS
    <3> HIDE DEF tail, b, n
    <3>3. /\ tail \in Seq(Values) /\ Len(tail) = (IF b <= n THEN n - b + 1 ELSE 0)
          /\ \A i \in 1 .. n - b + 1 : tail[i] = v[b + i - 1]
      BY <3>1, <3>2, SubSeqProperties
    <3>4. b <= n => n - b + 1 = n - p
      BY <1>1, <1>2, <3>1
    <3>5. ~ (b <= n) => n - p = 0
      BY <1>1, <1>2, <1>3, <3>1
    <3>6. Len(tail) = n - p /\ n - b + 1 = n - p
      BY <1>1, <1>2, <3>1, <3>3, <3>4, <3>5
    <3>7. \A i \in 1 .. n - p : i \in Int /\ b + i - 1 = p + i
      BY <1>1, <1>2, <3>1
    <3> QED
      BY <3>3, <3>6, <3>7
  <2> HIDE DEF r, tail, w
  <2> DEFINE reach == (p + k + Len(tail)) * E
  <2>4. reach = (n + k) * E /\ (n + k) * E \in Nat
    <3>1. p + k + Len(tail) = n + k
      BY <1>1, <1>2, <2>1, <2>3
    <3> QED
      BY <2>1, <3>1, ProductMono
  <2>5. moved = Write(r, p + k, tail, reach) /\ reach \in Int /\ p + k \in Int
    BY <1>1, <2>1, <2>4 DEF memcpy
  <2>6. tail # <<>> => r.o.block # NoBlock
    <3>1. tail # <<>> => Len(tail) # 0
      BY <2>3
    <3> QED
      BY <1>1, <1>2, <2>1, <2>2, <2>3, <3>1
  <2>7. tail # <<>> => (PowerOfTwo(E) => reach <= r.o.room + pad_right)
    <3> HIDE DEF reach
    <3> DEFINE x == (n + k) * E
    <3>1. x \in Nat /\ reach = x /\ x <= r.o.room
      BY <2>2, <2>4
    <3>2. r.o.room \in Nat /\ pad_right \in Nat
      BY <1>2, <2>2, Pads DEF Sound, Records, Members
    <3> HIDE DEF x
    <3> QED
      BY <3>1, <3>2
  <2> HIDE DEF reach
  <2>8. Sound(a, moved) /\ moved.o = r.o /\ Wrote(r, moved, p + k, tail)
    <3> DEFINE at == p + k
    <3>1. layout \in Layouts /\ Sound(a, r) /\ at \in Int /\ tail \in Seq(Values) /\ reach \in Int
      BY <1>2, <2>2, <2>3, <2>5
    <3> HIDE DEF at
    <3>2. LET z == Write(r, at, tail, reach)
          IN  Sound(a, z) /\ z.o = r.o /\ z.heap = r.heap /\ Wrote(r, z, at, tail)
      BY <2>6, <2>7, <3>1, WriteSound
    <3> QED
      BY <2>5, <3>2 DEF at
  <2> HIDE DEF moved
  <2>9. IsSpliced(s, v, p, 0, xs)
    <3>1. p + 0 <= Len(v) /\ 0 \in Nat
      BY <1>1, <1>2, <1>3
    <3> QED
      BY <1>1, <1>2, <2>1, <3>1, SplicedIs
  <2> HIDE DEF s
  <2>10. /\ s \in Seq(Values) /\ Len(s) = n + k
         /\ \A i \in 1 .. n + k : s[i] = IF i <= p THEN v[i]
                                         ELSE IF i <= p + k THEN xs[i - p] ELSE v[i - k + 0]
    BY <1>2, <2>1, <2>9 DEF IsSpliced
  <2>11. s \in Inputs
    BY <1>3, <2>10, SequenceInput
  <2>12. \A i \in 1 .. Len(s) : s[i] = IF p < i /\ i <= p + Len(xs) THEN xs[i - p]
                                       ELSE moved.mem[moved.o.block][i - 1]
    <3> SUFFICES ASSUME NEW i \in 1 .. n + k, ~ (p < i /\ i <= p + k)
                 PROVE  s[i] = moved.mem[r.o.block][i - 1]
      <4>1. \A i \in 1 .. n + k : p < i /\ i <= p + k => s[i] = xs[i - p]
        BY <1>1, <2>1, <2>10
      <4>2. Len(s) = n + k /\ moved.o = r.o
        BY <2>8, <2>10
      <4> HIDE DEF n
      <4> QED
        BY <4>1, <4>2
    <3>1. i - 1 \in Slots /\ r.o.block # NoBlock /\ i \in Nat /\ i - 1 \in Int
      BY <1>2, <1>3, <2>1, <2>2, BlockNumbers DEF Slots
    <3>2. moved.mem[r.o.block][i - 1] =
            IF p + k <= i - 1 /\ i - 1 < p + k + Len(tail) THEN tail[(i - 1) - (p + k) + 1]
            ELSE r.mem[r.o.block][i - 1]
      BY <2>8, <3>1 DEF Wrote
    <3>3. CASE i <= p
      <4>1. i \in 1 .. n /\ ~ (p + k <= i - 1)
        BY <1>1, <1>2, <1>3, <2>1, <3>1, <3>3
      <4> QED
        BY <2>2, <2>10, <3>2, <3>3, <4>1
    <3>4. CASE p + k < i
      <4> DEFINE j == i - (p + k)
      <4>1. /\ p + k <= i - 1 /\ i - 1 < p + k + Len(tail)
            /\ (i - 1) - (p + k) + 1 = j /\ j \in 1 .. n - p /\ p + j = i - k + 0
            /\ ~ (i <= p) /\ ~ (i <= p + k)
        BY <1>1, <1>2, <2>1, <2>3, <3>1, <3>4
      <4> HIDE DEF j
      <4>2. moved.mem[r.o.block][i - 1] = tail[j]
        BY <3>2, <4>1
      <4>3. tail[j] = v[i - k + 0]
        BY <2>3, <4>1
      <4> QED
        BY <2>10, <4>1, <4>2, <4>3
    <3> QED
      BY <1>1, <2>1, <3>1, <3>3, <3>4
  <2>13. /\ p + Len(xs) <= Len(s) /\ (Len(s) # 0 => moved.o.block # NoBlock)
         /\ Len(s) * E <= moved.o.room
    BY <1>1, <1>2, <1>3, <2>1, <2>2, <2>8, <2>10
  <2>14. LET x == SetSize(memcpy(moved, p, xs), Len(s)) IN Sound(a, x) /\ Holds(x, s)
    BY <1>1, <1>2, <2>1, <2>8, <2>11, <2>12, <2>13, CopyHolds
  <2> QED
    BY <1>6, <2>10, <2>14, CommitInv
<1> QED
  BY <1>4, <1>5, <1>6

(* Only one element is written, if it is one of the array's.               *)
LEMMA SetElementInv ==
  ASSUME Inv, NEW a \in Arrays, NEW i \in -1 .. MaxSize - 1, NEW v \in Values,
         SetElement(a, i, v)
  PROVE  Inv'
<1> DEFINE w == Working(arr[a])
           s == value[a]
           n == Len(s)
           xs == <<v>>
           reach == (i + 1) * E
           u == Write(w, i, xs, reach)
           t == IF i = -1 THEN s ELSE [s EXCEPT ![i + 1] = v]
<1>1. a \in Live /\ i < size(arr[a]) /\ (i = -1 => arr[a].block # NoBlock) /\ Commit(a, u, t)
  BY DEF SetElement
<1>2. /\ Sound(a, w) /\ Holds(w, s) /\ size(arr[a]) = n /\ layout \in Layouts
      /\ n \in Nat /\ n <= MaxSize /\ s \in Inputs /\ s \in Seq(Values)
      /\ w.o = arr[a] /\ E \in Nat \ {0}
  BY <1>1, LiveSound, InputIs, Pads DEF Holds, Working
<1>3. i + 1 \in Nat /\ i + 1 <= n /\ i \in Int
  BY <1>1, <1>2, BlockNumbers
<1>4. xs \in Seq(Values) /\ Len(xs) = 1 /\ xs # <<>> /\ xs[1] = v
  OBVIOUS
<1>5. reach \in Nat /\ reach <= n * E /\ n * E \in Nat
  BY <1>2, <1>3, ProductMono
<1>6. w.o.block # NoBlock
  <2>1. CASE i = -1
    BY <1>1, <1>2, <2>1
  <2>2. CASE i # -1
    <3>1. n # 0
      BY <1>2, <1>3, <2>2
    <3> HIDE DEF w
    <3> QED
      BY <1>2, <3>1, HasBlock
  <2> QED
    BY <2>1, <2>2
<1>7. ASSUME PowerOfTwo(E) PROVE reach <= w.o.room + pad_right
  <2> DEFINE x == n * E
             room == w.o.room
  <2> HIDE DEF w
  <2>1. room \in Nat /\ pad_right \in Nat /\ x \in Nat /\ x <= room
    BY <1>2, <1>5, <1>7, Pads DEF Sound, Records, Members, Fits, Holds
  <2> SUFFICES reach <= room + pad_right
    OBVIOUS
  <2>2. reach <= x
    BY <1>5
  <2> HIDE DEF x, reach, room
  <2> QED
    BY <1>5, <2>1, <2>2
<1> HIDE DEF w, xs, reach
<1>8. Sound(a, u) /\ u.o = w.o /\ Wrote(w, u, i, xs)
  <2>1. /\ layout \in Layouts /\ Sound(a, w) /\ i \in Int /\ xs \in Seq(Values) /\ reach \in Int
        /\ xs # <<>> => w.o.block # NoBlock
        /\ xs # <<>> => (PowerOfTwo(E) => reach <= w.o.room + pad_right)
    BY <1>2, <1>3, <1>4, <1>5, <1>6, <1>7
  <2>2. LET z == Write(w, i, xs, reach)
        IN  Sound(a, z) /\ z.o = w.o /\ z.heap = w.heap /\ Wrote(w, z, i, xs)
    BY <2>1, WriteSound
  <2> QED
    BY <2>2
<1> HIDE DEF u
<1>9. t \in Inputs /\ Len(t) = n
  <2> HIDE DEF n, s
  <2>1. CASE i = -1
    BY <1>2, <2>1 DEF n
  <2>2. CASE i # -1
    <3>1. i + 1 \in 1 .. n /\ t = [s EXCEPT ![i + 1] = v]
      BY <1>2, <1>3, <2>2
    <3>2. t \in Seq(Values) /\ Len(t) = Len(s)
      BY <1>2, <3>1 DEF n
    <3> HIDE DEF t
    <3> QED
      BY <1>2, <3>2, SequenceInput DEF n
  <2> QED
    BY <2>1, <2>2
<1>10. ASSUME NEW j \in 1 .. n PROVE u.mem[u.o.block][j - 1] = t[j]
  <2>1. j - 1 \in Slots /\ j \in Nat /\ j - 1 \in Int
    BY <1>2, BlockNumbers DEF Slots
  <2>2. u.mem[u.o.block][j - 1] =
          IF i <= j - 1 /\ j - 1 < i + 1 THEN xs[(j - 1) - i + 1] ELSE w.mem[w.o.block][j - 1]
    BY <1>4, <1>6, <1>8, <2>1 DEF Wrote
  <2>3. w.mem[w.o.block][j - 1] = s[j]
    BY <1>2 DEF Holds
  <2>4. CASE j = i + 1
    <3>1. (j - 1) - i + 1 = 1 /\ i <= j - 1 /\ j - 1 < i + 1
      BY <1>3, <2>4
    <3>2. u.mem[u.o.block][j - 1] = v
      BY <1>4, <2>2, <3>1
    <3>3. i # -1 /\ j \in DOMAIN s
      BY <1>2, <2>1, <2>4
    <3> HIDE DEF s
    <3>4. t[j] = v
      BY <1>2, <2>4, <3>3
    <3> QED
      BY <3>2, <3>4
  <2>5. CASE j # i + 1
    <3>1. ~ (i <= j - 1 /\ j - 1 < i + 1)
      BY <1>3, <2>1, <2>5
    <3>2. t[j] = s[j]
      BY <2>5
    <3> QED
      BY <2>2, <2>3, <3>1, <3>2
  <2> QED
    BY <2>4, <2>5
<1>11. u.o.end = Len(t) * E
  BY <1>2, <1>8, <1>9 DEF Holds
<1>12. Holds(u, t)
  BY <1>9, <1>10, <1>11 DEF Holds
<1> QED
  BY <1>1, <1>8, <1>12, CommitInv

(* An array with the members and elements another had, or it itself, is    *)
(* sound while their block is as it was.                                   *)
LEMMA Untouched ==
  ASSUME Inv, NEW c \in Live, NEW d \in Arrays, layout' = layout,
         arr'[d] = arr[c], value'[d] = value[c],
         arr[c].block # NoBlock => /\ heap'[arr[c].block] = heap[arr[c].block]
                                   /\ mem'[arr[c].block] = mem[arr[c].block]
  PROVE  d \in Live' /\ Fits(arr[d], heap)' /\ value'[d] = Content(d)' /\ value'[d] \in Inputs
<1>1. /\ Fits(arr[c], heap) /\ c \in Arrays /\ arr[c] # Gone /\ layout \in Layouts
      /\ value[c] \in Inputs
  BY DEF Inv, TypeOK, HeapOK, Live
<1>2. Fits(arr[d], heap)'
  BY <1>1, FitsKept
<1>3. d \in Live'
  BY <1>1 DEF Live
<1>4. value[c] = [i \in 1 .. size(arr[c]) |-> mem[arr[c].block][i - 1]]
  BY <1>1 DEF Content, Inv
<1>5. Content(d)' = [i \in 1 .. size(arr[c]) |-> mem'[arr[c].block][i - 1]]
  BY <1>3 DEF Content, size, E
<1>6. CASE arr[c].block = NoBlock
  <2>1. arr[c].end = 0 /\ E \in Nat \ {0} /\ (0 * E) \div E = 0
    BY <1>1, <1>6, Pads, DivExact DEF Fits, Null
  <2>2. size(arr[c]) = 0
    BY <2>1 DEF size
  <2> QED
    BY <1>1, <1>2, <1>3, <1>4, <1>5, <2>2
<1>7. CASE arr[c].block # NoBlock
  BY <1>1, <1>2, <1>3, <1>4, <1>5, <1>7
<1> QED
  BY <1>6, <1>7

LEMMA DestroyInv == ASSUME Inv, NEW a \in Arrays, Destroy(a) PROVE Inv'
<1> DEFINE b == arr[a].block
           r == IF b = NoBlock THEN Working(Gone)
                ELSE [Working(Gone) EXCEPT !.heap[b] = 0, !.mem[b] = [i \in Slots |-> Zero]]
<1>1. a \in Live /\ arr[a] \in Members /\ Commit(a, r, Gone)
  BY DEF Destroy, Live, Inv, TypeOK
<1>2. /\ r.o = Gone /\ r.inside = TRUE
      /\ r.heap = IF b = NoBlock THEN heap ELSE [heap EXCEPT ![b] = 0]
      /\ r.mem = IF b = NoBlock THEN mem ELSE [mem EXCEPT ![b] = [i \in Slots |-> Zero]]
  BY DEF Working
<1> HIDE DEF r
<1>3. /\ arr' = [arr EXCEPT ![a] = Gone] /\ value' = [value EXCEPT ![a] = Gone]
      /\ heap' = r.heap /\ mem' = r.mem /\ layout' = layout /\ undefined' = "none"
  BY <1>1, <1>2 DEF Commit
<1>4. /\ layout \in Layouts /\ arr \in [Arrays -> Members \cup {Gone}]
      /\ heap \in [Blocks -> Nat] /\ mem \in [Blocks -> [Slots -> Values]]
      /\ value = [c \in Arrays |-> Content(c)]
      /\ b \in Blocks \cup {NoBlock}
  BY <1>1 DEF Inv, TypeOK, Members
<1>5. heap' \in [Blocks -> Nat] /\ mem' \in [Blocks -> [Slots -> Values]]
  <2>1. [i \in Slots |-> Zero] \in [Slots -> Values]
    BY BlockNumbers
  <2> QED
    BY <1>2, <1>3, <1>4, <2>1
<1>6. /\ \A d \in Blocks \ {b} : heap'[d] = heap[d] /\ mem'[d] = mem[d]
      /\ b # NoBlock => heap'[b] = 0
  BY <1>2, <1>3, <1>4
<1>7. /\ arr' \in [Arrays -> Members \cup {Gone}]
      /\ arr'[a] = Gone /\ value'[a] = Gone
      /\ \A c \in Arrays \ {a} : arr'[c] = arr[c] /\ value'[c] = value[c]
  BY <1>3, <1>4
<1>8. Live' = Live \ {a}
  BY <1>7 DEF Live
<1>9. ASSUME NEW c \in Live'
      PROVE  /\ c \in Live /\ c \in Arrays /\ arr'[c] = arr[c]
             /\ Fits(arr[c], heap)' /\ value'[c] = Content(c)' /\ value'[c] \in Inputs
  <2>1. c \in Live /\ c \in Arrays /\ c # a /\ arr'[c] = arr[c] /\ value'[c] = value[c]
    BY <1>7, <1>8 DEF Live
  <2>2. arr[c].block # NoBlock => arr[c].block \in Blocks /\ arr[c].block # b
    <3>1. arr[c] \in Members
      BY <2>1 DEF Live, Inv, TypeOK
    <3>2. arr[c].block # NoBlock => arr[c].block # arr[a].block
      BY <1>1, <2>1 DEF Inv, HeapOK
    <3> QED
      BY <3>1, <3>2 DEF Members
  <2>3. arr[c].block # NoBlock => /\ heap'[arr[c].block] = heap[arr[c].block]
                                  /\ mem'[arr[c].block] = mem[arr[c].block]
    BY <1>6, <2>2
  <2> QED
    BY <1>3, <2>1, <2>3, Untouched
<1>10. TypeOK'
  BY <1>3, <1>4, <1>5, <1>7, <1>9 DEF TypeOK
<1>11. HeapOK'
  <2>1. ASSUME NEW d \in Blocks, heap'[d] # 0 PROVE \E c \in Live' : arr'[c].block = d
    <3>1. d # b /\ heap[d] # 0
      <4>1. d # NoBlock
        BY BlockNumbers
      <4> QED
        BY <1>6, <2>1, <4>1
    <3>2. PICK c \in Live : arr[c].block = d
      BY <3>1 DEF Inv, HeapOK
    <3>3. c \in Live'
      BY <1>8, <3>1, <3>2
    <3> QED
      BY <1>9, <3>2, <3>3
  <2>2. ASSUME NEW c \in Live', NEW d \in Live', c # d, arr'[c].block # NoBlock
        PROVE  arr'[c].block # arr'[d].block
    BY <1>9, <2>2 DEF Inv, HeapOK
  <2> QED
    BY <1>9, <2>1, <2>2 DEF HeapOK
<1>12. (value = [c \in Arrays |-> Content(c)])'
  <2>1. ASSUME NEW c \in Arrays PROVE value'[c] = Content(c)'
    <3>1. CASE c \in Live'
      BY <1>9, <3>1
    <3>2. CASE c = a
      BY <1>7, <1>8, <3>2 DEF Content
    <3>3. CASE c # a /\ c \notin Live'
      <4>1. c \notin Live /\ value'[c] = value[c]
        BY <1>7, <1>8, <3>3
      <4> QED
        BY <1>4, <3>3, <4>1 DEF Content
    <3> QED
      BY <3>1, <3>2, <3>3
  <2>2. value' = [c \in Arrays |-> value'[c]]
    BY <1>3, <1>4
  <2> QED
    BY <2>1, <2>2
<1>13. InsideStorage'
  BY <1>3 DEF InsideStorage
<1> QED
  BY <1>10, <1>11, <1>12, <1>13 DEF Inv

(* Two arrays exchange their members; the second may get those of an array *)
(* that is being constructed.                                              *)
LEMMA ExchangeInv ==
  ASSUME Inv, NEW a \in Arrays, NEW c \in Live, NEW o, NEW s,
         \/ a \in Live /\ o = arr[a] /\ s = value[a]
         \/ arr[a] = Gone /\ o = Null /\ s = <<>>,
         arr' = [arr EXCEPT ![a] = arr[c], ![c] = o],
         value' = [value EXCEPT ![a] = value[c], ![c] = s],
         UNCHANGED <<layout, heap, mem, undefined>>
  PROVE  Inv'
<1> DEFINE other(d) == IF d = a THEN c ELSE IF d = c THEN a ELSE d
           Copied(d) == other(d) \in Live /\ arr'[d] = arr[other(d)] /\ value'[d] = value[other(d)]
           Fresh(d) == d = c /\ a # c /\ arr[a] = Gone /\ arr'[d] = Null /\ value'[d] = <<>>
<1>1. /\ layout \in Layouts /\ arr \in [Arrays -> Members \cup {Gone}]
      /\ value = [d \in Arrays |-> Content(d)] /\ c \in Arrays
  BY DEF Inv, TypeOK, Live
<1>2. layout' = layout /\ heap' = heap /\ mem' = mem /\ undefined' = undefined
  OBVIOUS
<1>3. Null \in Members /\ Null # Gone /\ Null.block = NoBlock
  BY BlockNumbers DEF Null, Members
<1>4. arr' \in [Arrays -> Members \cup {Gone}]
  BY <1>1, <1>3 DEF Live
<1>5. \A d \in Arrays : d # a /\ d # c => arr'[d] = arr[d] /\ value'[d] = value[d]
  BY <1>1
<1>6. a # c => arr'[a] = arr[c] /\ value'[a] = value[c]
  BY <1>1
<1>7. arr'[c] = o /\ value'[c] = s
  BY <1>1
<1>8. ASSUME NEW d \in Live' PROVE d \in Arrays /\ (Copied(d) \/ Fresh(d))
  <2>1. d \in Arrays /\ arr'[d] # Gone
    BY DEF Live
  <2> QED
    BY <1>5, <1>6, <1>7, <2>1 DEF Live
<1>9. ASSUME NEW d \in Live' PROVE Fits(arr[d], heap)' /\ value'[d] = Content(d)' /\ value'[d] \in Inputs
  <2>1. CASE Copied(d)
    BY <1>2, <1>8, <2>1, Untouched
  <2>2. CASE Fresh(d)
    <3> DEFINE r == Working(Null)
               e == <<>>
    <3>1. Sound(a, r) /\ Holds(r, e)
      BY <2>2, NewSound
    <3>2. r.o = Null /\ r.heap = heap
      BY DEF Working
    <3>3. e \in Inputs /\ Fits(Null, heap)
      BY <3>1, <3>2 DEF Sound, Holds
    <3>4. Fits(arr[d], heap)'
      BY <1>2, <2>2, <3>3, FitsKept
    <3>5. Null.end = 0 /\ E \in Nat \ {0} /\ (0 * E) \div E = 0
      BY <1>1, Pads, DivExact DEF Null
    <3>6. size(Null) = 0
      BY <3>5 DEF size
    <3>7. Content(d)' = [i \in 1 .. 0 |-> mem'[arr'[d].block][i - 1]]
      BY <1>2, <2>2, <3>6 DEF Content, size, E
    <3>8. Content(d)' = <<>>
      BY <3>7
    <3> QED
      BY <2>2, <3>3, <3>4, <3>8
  <2> QED
    BY <1>8, <2>1, <2>2
<1>10. TypeOK'
  BY <1>2, <1>4, <1>9 DEF Inv, TypeOK
<1>11. HeapOK'
  <2>1. ASSUME NEW b \in Blocks, heap'[b] # 0 PROVE \E d \in Live' : arr'[d].block = b
    <3>1. PICK d \in Live : arr[d].block = b
      BY <1>2, <2>1 DEF Inv, HeapOK
    <3>2. d \in Arrays /\ arr[d] # Gone
      BY DEF Live
    <3>3. other(d) \in Arrays /\ arr'[other(d)] = arr[d]
      BY <1>1, <1>5, <1>6, <1>7, <3>2
    <3> HIDE DEF other
    <3>4. other(d) \in Live'
      BY <3>2, <3>3 DEF Live
    <3> QED
      BY <3>1, <3>3, <3>4
  <2>2. ASSUME NEW d \in Live', NEW f \in Live', d # f, arr'[d].block # NoBlock
        PROVE  arr'[d].block # arr'[f].block
    <3>1. Copied(d)
      BY <1>3, <1>8, <2>2
    <3>2. CASE Copied(f)
      <4>1. other(d) # other(f)
        BY <1>1, <2>2
      <4> HIDE DEF other
      <4> QED
        BY <2>2, <3>1, <3>2, <4>1 DEF Inv, HeapOK
    <3>3. CASE Fresh(f)
      BY <1>3, <2>2, <3>3
    <3> QED
      BY <1>8, <3>2, <3>3
  <2> QED
    BY <1>9, <2>1, <2>2 DEF HeapOK
<1>12. (value = [d \in Arrays |-> Content(d)])'
  <2>1. ASSUME NEW d \in Arrays PROVE value'[d] = Content(d)'
    <3>1. CASE d \in Live'
      BY <1>9, <3>1
    <3>2. CASE d \notin Live'
      <4>1. d # a /\ d # c
        BY <1>1, <1>3, <1>6, <1>7, <3>2 DEF Live
      <4>2. d \notin Live /\ value'[d] = value[d]
        BY <1>5, <3>2, <4>1 DEF Live
      <4> QED
        BY <1>1, <3>2, <4>2 DEF Content
    <3> QED
      BY <3>1, <3>2
  <2>2. value' = [d \in Arrays |-> value'[d]]
    BY <1>1
  <2> QED
    BY <2>1, <2>2
<1>13. (PowerOfTwo(E) => InsideStorage)'
  BY <1>2 DEF Inv, InsideStorage, E
<1> QED
  BY <1>10, <1>11, <1>12, <1>13 DEF Inv

(* Of two arrays without storage, neither has anything to exchange.        *)
LEMMA SwapInv ==
  ASSUME Inv, NEW a \in Arrays, NEW c \in Arrays, Swap(a, c)
  PROVE  Inv'
<1>1. a \in Live /\ c \in Live
  BY DEF Swap, Live
<1>2. Fits(arr[a], heap) /\ Fits(arr[c], heap)
  BY <1>1 DEF Inv, HeapOK
<1>3. Swapped(arr[a], arr[c]) = <<arr[c], arr[a]>>
  BY <1>2 DEF Swapped, isInitialized, Fits
<1>4. /\ arr' = [arr EXCEPT ![a] = arr[c], ![c] = arr[a]]
      /\ value' = [value EXCEPT ![a] = value[c], ![c] = value[a]]
      /\ UNCHANGED <<layout, heap, mem, undefined>>
  BY <1>3 DEF Swap
<1> QED
  BY <1>1, <1>4, ExchangeInv

LEMMA MoveConstructInv ==
  ASSUME Inv, NEW a \in Arrays, NEW c \in Arrays, MoveConstruct(a, c)
  PROVE  Inv'
<1>1. arr[a] = Gone /\ c \in Live
  BY DEF MoveConstruct, Live
<1>2. Fits(arr[c], heap)
  BY <1>1 DEF Inv, HeapOK
<1>3. Swapped(Null, arr[c]) = <<arr[c], Null>>
  BY <1>2 DEF Swapped, isInitialized, Fits
<1>4. /\ arr' = [arr EXCEPT ![a] = arr[c], ![c] = Null]
      /\ value' = [value EXCEPT ![a] = value[c], ![c] = <<>>]
      /\ UNCHANGED <<layout, heap, mem, undefined>>
  BY <1>3 DEF MoveConstruct
<1> QED
  BY <1>1, <1>4, ExchangeInv

(* The element before the first that clone copies is no element of either. *)
LEMMA CloneInv ==
  ASSUME Inv, NEW a \in Arrays, NEW c \in Arrays, Clone(a, c)
  PROVE  Inv'
<1> DEFINE s == value[c]
           n == Len(s)
           first == alloc_for_num_elements(Working(Null), n)
           sized == SetSize(first, n)
           copied == assign(sized, s)
           xs == <<mem[arr[c].block][-1]>>
           u == Write(copied, -1, xs, 0)
<1>1. arr[a] = Gone /\ c \in Live
  BY DEF Clone, Live
<1>2. /\ Sound(c, Working(arr[c])) /\ Holds(Working(arr[c]), s) /\ size(arr[c]) = n
      /\ layout \in Layouts /\ n \in Nat /\ n <= MaxSize /\ s \in Inputs /\ s = Content(c)
  BY <1>1, LiveSound, InputIs DEF Holds, Inv
<1>3. \/ Undefined("left")
      \/ Commit(a, IF n = 0 THEN copied ELSE u, s)
  BY <1>2 DEF Clone
<1>4. Sound(a, first) /\ Grown(Working(Null), first, n)
  BY <1>1, <1>2, AllocForSound
<1> HIDE DEF first
<1>5. Sound(a, sized)
  BY <1>2, <1>4, SetSizeSound DEF Grown
<1> HIDE DEF sized
<1>6. Sound(a, copied) /\ Holds(copied, s)
  BY <1>2, <1>5, AssignHolds
<1> HIDE DEF copied
<1>7. CASE Commit(a, u, s) /\ n # 0
  <2>1. copied.o.block # NoBlock
    BY <1>2, <1>6, <1>7, HasBlock
  <2>2. xs \in Seq(Values) /\ Len(xs) = 1
    <3>1. Working(arr[c]).o = arr[c]
      BY DEF Working
    <3>2. arr[c].block # NoBlock
      BY <1>1, <1>2, <1>7, <3>1, HasBlock DEF Live
    <3>3. arr[c].block \in Blocks
      BY <1>1, <3>2 DEF Inv, TypeOK, Live, Members
    <3>4. -1 \in Slots
      BY BlockNumbers DEF Slots
    <3>5. mem[arr[c].block][-1] \in Values
      BY <3>3, <3>4 DEF Inv, TypeOK
    <3> QED
      BY <3>5
  <2>3. 0 <= copied.o.room + pad_right
    BY <1>2, <1>6, Pads DEF Sound, Records, Members
  <2> HIDE DEF xs
  <2>4. Sound(a, u) /\ u.o = copied.o /\ Wrote(copied, u, -1, xs)
    <3>1. LET z == Write(copied, -1, xs, 0)
          IN  Sound(a, z) /\ z.o = copied.o /\ z.heap = copied.heap /\ Wrote(copied, z, -1, xs)
      BY <1>2, <1>6, <2>1, <2>2, <2>3, WriteSound
    <3> QED
      BY <3>1
  <2> HIDE DEF u
  <2>5. ASSUME NEW j \in 1 .. n PROVE u.mem[u.o.block][j - 1] = s[j]
    <3>1. j - 1 \in Slots /\ ~ (-1 <= j - 1 /\ j - 1 < -1 + Len(xs))
      BY <1>2, <2>2, BlockNumbers DEF Slots
    <3>2. u.mem[u.o.block][j - 1] = copied.mem[copied.o.block][j - 1]
      BY <2>1, <2>4, <3>1 DEF Wrote
    <3> QED
      BY <1>6, <3>2 DEF Holds
  <2>6. Holds(u, s)
    BY <1>6, <2>4, <2>5 DEF Holds
  <2> QED
    BY <1>7, <2>4, <2>6, CommitInv
<1> HIDE DEF u
<1> QED
  BY <1>3, <1>6, <1>7, CommitInv, UndefinedInv

LEMMA StutterInv == ASSUME Inv, UNCHANGED vars PROVE Inv'
<1>1. \A a \in Arrays : Content(a)' = Content(a)
  BY DEF vars, Content, Live, size, E
<1> QED
  BY <1>1 DEF vars, Inv, TypeOK, HeapOK, Live, Fits, E, allocated_bytes, pad_right, pad_left,
              InsideStorage

LEMMA NextInv == Inv /\ [Next]_vars => Inv'
<1> SUFFICES ASSUME Inv, [Next]_vars PROVE Inv'
  OBVIOUS
<1> USE BlockNumbers DEF Sizes
<1>1. ASSUME NEW a \in Arrays, OnOne(a) PROVE Inv'
  <2>1. CASE Construct(a) \/ Destroy(a) \/ Clear(a) \/ PopBack(a)
    BY <2>1, ConstructInv, DestroyInv, ClearInv, PopBackInv
  <2>2. CASE \E n \in Sizes : ConstructSized(a, n) \/ Reserve(a, n) \/ Resize(a, n)
    BY <2>2, ConstructSizedInv, ReserveInv, ResizeInv
  <2>3. CASE \E v \in Values, own \in BOOLEAN :
               PushBack(a, v, own) \/ \E n \in Sizes : ResizeFill(a, n, v, own) \/ AssignFill(a, n, v, own)
    BY <2>3, PushBackInv, ResizeFillInv, AssignFillInv
  <2>4. CASE \E i \in -1 .. MaxSize - 1, v \in Values : SetElement(a, i, v)
    BY <2>4, SetElementInv
  <2>5. CASE \E xs \in Inputs :
               \/ ConstructRange(a, xs) \/ Insert(a, xs) \/ Assign(a, xs)
               \/ InsertSmallAllowReadWriteOverflow15(a, xs)
               \/ \E p \in Sizes : InsertAt(a, p, xs)
    BY <2>5, ConstructRangeInv, InsertInv, AssignInv, InsertSmallInv, InsertAtInv
  <2> QED
    BY <1>1, <2>1, <2>2, <2>3, <2>4, <2>5 DEF OnOne
<1>2. ASSUME NEW a \in Arrays, NEW c \in Arrays, Swap(a, c) \/ MoveConstruct(a, c) \/ Clone(a, c)
      PROVE  Inv'
  BY <1>2, SwapInv, MoveConstructInv, CloneInv
<1>3. CASE UNCHANGED vars
  BY <1>3, StutterInv
<1> QED
  BY <1>1, <1>2, <1>3 DEF Next

-----------------------------------------------------------------------------
(* The theorems *)

(* The members of every array agree with its storage, which holds what the *)
(* calls so far put there (all of PODArray.h).                             *)
THEOREM PODArrayInvariant == Spec => []Inv
BY InitInv, NextInv, PTL DEF Spec

(* Every block libnuma handed out belongs to one array, which knows its    *)
(* size: nothing is leaked, freed twice or freed with a wrong size by      *)
(* swap, move, clone and the destructor (PODArrayBase::dealloc, realloc).  *)
THEOREM PODArrayStorageOwned == Spec => []StorageOwned
<1>1. Inv => StorageOwned
  <2> SUFFICES ASSUME Inv PROVE StorageOwned
    OBVIOUS
  <2>1. ASSUME NEW b \in Blocks, heap[b] # 0
        PROVE  \E a \in Live : arr[a].block = b /\ heap[b] = allocated_bytes(arr[a])
    <3>1. PICK a \in Live : arr[a].block = b
      BY <2>1 DEF Inv, HeapOK
    <3>2. Fits(arr[a], heap) /\ b # NoBlock
      BY BlockNumbers DEF Inv, HeapOK
    <3> QED
      BY <3>1, <3>2 DEF Fits
  <2>2. \A a \in Live : arr[a].block # NoBlock => heap[arr[a].block] # 0
    BY DEF Inv, HeapOK, Fits
  <2> QED
    BY <2>1, <2>2 DEF Inv, HeapOK, StorageOwned
<1> QED
  BY <1>1, PODArrayInvariant, PTL

(* Every array has the elements the calls so far put there, whatever       *)
(* growing, swapping, moving and cloning did to the storage.               *)
THEOREM PODArrayContent == Spec => []ContentAsCalled
<1>1. Inv => ContentAsCalled
  BY DEF Inv, ContentAsCalled
<1> QED
  BY <1>1, PODArrayInvariant, PTL

(* No call touches bytes beyond its storage when the size of the elements  *)
(* is a power of two: then the storage ends with an element, and           *)
(* push_back's test finds a full array full.                               *)
THEOREM PODArrayInside == Spec => [](PowerOfTwo(E) => InsideStorage)
<1>1. Inv => (PowerOfTwo(E) => InsideStorage)
  BY DEF Inv
<1> QED
  BY <1>1, PODArrayInvariant, PTL

(* Under the same condition sixteen bytes can be read from the address of  *)
(* the last element, as the comment on Vector says (PODArray.h:424).       *)
THEOREM PODArrayPadding == Spec => [](PowerOfTwo(E) => PaddingEnough)
<1>1. Inv => (PowerOfTwo(E) => PaddingEnough)
  <2> SUFFICES ASSUME Inv, PowerOfTwo(E), NEW a \in Live,
                      layout.pad_right_ >= 15, size(arr[a]) > 0
               PROVE  /\ arr[a].block # NoBlock
                      /\ arr[a].end - E + 16 <= heap[arr[a].block] - pad_left
    BY DEF PaddingEnough
  <2> DEFINE w == Working(arr[a])
             o == arr[a]
  <2>1. /\ Sound(a, w) /\ Holds(w, value[a]) /\ size(o) = Len(value[a])
        /\ layout \in Layouts /\ w.o = o /\ o \in Members /\ Fits(o, heap) /\ value[a] \in Inputs
    BY LiveSound DEF Working, Inv, HeapOK, TypeOK, Live
  <2>2. Len(value[a]) # 0
    BY <2>1, InputIs
  <2>3. o.block # NoBlock
    BY <2>1, <2>2, HasBlock DEF Live
  <2>4. heap[o.block] = o.room + pad_right + pad_left /\ o.end <= o.room
    BY <2>1, <2>3 DEF Fits, allocated_bytes
  <2>5. o.end \in Nat /\ o.room \in Nat
    BY <2>1 DEF Members
  <2>6. /\ E \in Nat \ {0} /\ pad_right \in Nat /\ pad_left \in Nat
        /\ layout.pad_right_ \in Nat /\ layout.pad_right_ <= pad_right
    BY <2>1, Pads
  <2> DEFINE end == o.end
             room == o.room
             bytes == heap[o.block]
             stated == layout.pad_right_
             e == E
             pr == pad_right
             pl == pad_left
  <2>7. /\ bytes = room + pr + pl /\ end <= room /\ end \in Nat /\ room \in Nat /\ e \in Nat \ {0}
        /\ pr \in Nat /\ pl \in Nat /\ stated \in Nat /\ stated <= pr /\ stated >= 15
    BY <2>4, <2>5, <2>6
  <2> SUFFICES end - e + 16 <= bytes - pl
    BY <2>3
  <2> HIDE DEF end, room, bytes, stated, e, pr, pl
  <2> QED
    BY <2>7
<1> QED
  BY <1>1, PODArrayInvariant, PTL

-----------------------------------------------------------------------------
(* Where the storage is *)

(* A working record with members to work on.                               *)
HasMembers(r) == "o" \in DOMAIN r /\ r.o \in Members

LEMMA SoundMembers ==
  ASSUME NEW a, NEW r, Sound(a, r)
  PROVE  HasMembers(r)
BY DEF Sound, Records, HasMembers

LEMMA WriteMembers ==
  ASSUME NEW r, HasMembers(r), NEW at, NEW xs, NEW reach
  PROVE  /\ HasMembers(Write(r, at, xs, reach)) /\ Write(r, at, xs, reach).o = r.o
         /\ HasMembers(memcpy(r, at, xs)) /\ memcpy(r, at, xs).o = r.o
<1>1. ASSUME NEW top
      PROVE  HasMembers(Write(r, at, xs, top)) /\ Write(r, at, xs, top).o = r.o
  BY DEF Write, HasMembers
<1> QED
  BY <1>1 DEF memcpy

LEMMA SetSizeMembers ==
  ASSUME layout \in Layouts, NEW r, HasMembers(r), NEW n \in Nat
  PROVE  /\ SetSize(r, n).o.room = r.o.room /\ SetSize(r, n).o.block = r.o.block
         /\ size(SetSize(r, n).o) = n
<1>1. SetSize(r, n).o.room = r.o.room /\ SetSize(r, n).o.block = r.o.block
      /\ SetSize(r, n).o.end = n * E
  BY DEF SetSize, HasMembers, Members
<1> QED
  BY <1>1, Pads, DivExact DEF size

(* A call that needs room for n elements leaves the storage where it is    *)
(* when they fit.                                                          *)
LEMMA FitsStays ==
  ASSUME layout \in Layouts, NEW a \in Arrays, NEW r, Sound(a, r), NEW n \in Nat
  PROVE  /\ n <= capacity(r.o) => reserve(r, n) = r /\ insertPrepare(r, n) = r
         /\ HasMembers(reserve(r, n)) /\ HasMembers(insertPrepare(r, n))
<1>1. capacity(r.o) \in Nat
  BY Capacity DEF Sound, Records, Members
<1>2. n <= capacity(r.o) => reserve(r, n) = r /\ insertPrepare(r, n) = r
  BY <1>1 DEF reserve, insertPrepare
<1>3. HasMembers(reserve(r, n)) /\ HasMembers(insertPrepare(r, n))
  BY ReserveSound, InsertPrepareSound, SoundMembers
<1> QED
  BY <1>2, <1>3

(* The array keeps its room if its elements fit in it.                     *)
Stays(a) == size(arr'[a]) <= capacity(arr[a]) => arr'[a].room = arr[a].room

(* It does after a call that made room for the n elements it left.         *)
LEMMA CommitStays ==
  ASSUME Inv, NEW a \in Live, NEW n \in Nat, NEW r, HasMembers(r), NEW s,
         n <= capacity(arr[a]) => r.o.room = arr[a].room,
         Commit(a, SetSize(r, n), s)
  PROVE  Stays(a)
<1>1. layout \in Layouts /\ arr \in [Arrays -> Members \cup {Gone}] /\ a \in Arrays
  BY DEF Inv, TypeOK, Live
<1>2. arr'[a] = SetSize(r, n).o
  BY <1>1 DEF Commit
<1>3. arr'[a].room = r.o.room /\ size(arr'[a]) = n
  BY <1>1, <1>2, SetSizeMembers
<1> QED
  BY <1>3 DEF Stays

LEMMA OneStays ==
  ASSUME Inv, NEW a \in Live, OnOne(a), arr'[a] # Gone, ~ \E n \in Sizes : Reserve(a, n)
  PROVE  Stays(a)
<1> DEFINE w == Working(arr[a])
           k == Len(value[a])
<1>1. /\ Sound(a, w) /\ w.o = arr[a] /\ HasMembers(w) /\ size(arr[a]) = k /\ k \in Nat
      /\ layout \in Layouts /\ a \in Arrays /\ arr[a] # Gone
      /\ arr \in [Arrays -> Members \cup {Gone}]
  BY LiveSound, SoundMembers, InputIs DEF Working, Inv, TypeOK, Live
<1>2. ASSUME NEW n \in Nat
      PROVE  /\ HasMembers(reserve(w, n)) /\ HasMembers(insertPrepare(w, n))
             /\ n <= capacity(arr[a]) => reserve(w, n).o.room = arr[a].room
                                         /\ insertPrepare(w, n).o.room = arr[a].room
  BY <1>1, FitsStays
<1>3. ASSUME UNCHANGED arr PROVE Stays(a)
  BY <1>3 DEF Stays
<1>4. Sizes \subseteq Nat
  BY BlockNumbers DEF Sizes
<1>5. ASSUME NEW xs \in Inputs PROVE Len(xs) \in Nat /\ k + Len(xs) \in Nat
  BY <1>1, InputIs
<1>6. CASE Destroy(a)
  <2>1. arr'[a] = Gone
    BY <1>1, <1>6 DEF Destroy, Commit, Working
  <2> QED
    BY <2>1
<1>7. CASE Clear(a)
  <2>1. Commit(a, SetSize(w, 0), <<>>)
    BY <1>7 DEF Clear
  <2> HIDE DEF w
  <2> QED
    BY <1>1, <2>1, CommitStays
<1>8. CASE PopBack(a)
  <2>1. k - 1 \in Nat /\ Commit(a, SetSize(w, k - 1), Spliced(value[a], k - 1, 1, <<>>))
    BY <1>1, <1>8 DEF PopBack
  <2> HIDE DEF w, k
  <2> QED
    BY <1>1, <2>1, CommitStays
<1>9. ASSUME NEW n \in Sizes, Resize(a, n) PROVE Stays(a)
  <2>1. PICK s : Commit(a, SetSize(reserve(w, n), n), s)
    BY <1>9 DEF Resize
  <2> HIDE DEF w
  <2> QED
    BY <1>2, <1>4, <2>1, CommitStays
<1>10. ASSUME NEW n \in Sizes, NEW v \in Values, NEW own \in BOOLEAN, ResizeFill(a, n, v, own)
       PROVE  Stays(a)
  <2> DEFINE fill == [i \in 1 .. n - k |-> v]
             r == IF n > k THEN memcpy(reserve(w, n), k, fill) ELSE w
             s == Filled(value[a], n, v)
  <2>1. UNCHANGED arr \/ Commit(a, SetSize(r, n), s)
    BY <1>1, <1>10 DEF ResizeFill, CommitUnlessStale, Undefined
  <2>2. HasMembers(r) /\ (n <= capacity(arr[a]) => r.o.room = arr[a].room)
    <3> HIDE DEF w, k, fill
    <3> QED
      BY <1>1, <1>2, <1>4, WriteMembers
  <2> HIDE DEF r, s
  <2> QED
    BY <1>3, <1>4, <2>1, <2>2, CommitStays
<1>11. ASSUME NEW n \in Sizes, NEW v \in Values, NEW own \in BOOLEAN, AssignFill(a, n, v, own)
       PROVE  Stays(a)
  <2> DEFINE fill == Filled(<<>>, n, v)
             r == memcpy(reserve(w, n), 0, fill)
  <2>1. UNCHANGED arr \/ Commit(a, SetSize(r, n), fill)
    BY <1>1, <1>11 DEF AssignFill, CommitUnlessStale, Undefined
  <2>2. HasMembers(r) /\ (n <= capacity(arr[a]) => r.o.room = arr[a].room)
    <3> HIDE DEF w, fill
    <3> QED
      BY <1>2, <1>4, WriteMembers
  <2> HIDE DEF r, fill
  <2> QED
    BY <1>3, <1>4, <2>1, <2>2, CommitStays
<1>12. ASSUME NEW v \in Values, NEW own \in BOOLEAN, PushBack(a, v, own) PROVE Stays(a)
  <2> DEFINE full == arr[a].end = arr[a].room
             z == IF full THEN reserveForNextSize(w) ELSE w
             r == memcpy(z, k, <<v>>)
             s == Append(value[a], v)
  <2>1. UNCHANGED arr \/ Commit(a, SetSize(r, k + 1), s)
    BY <1>1, <1>12 DEF PushBack, CommitUnlessStale, Undefined
  <2>2. full => capacity(arr[a]) = k
    BY <1>1 DEF size, capacity
  <2>3. HasMembers(z) /\ (k + 1 <= capacity(arr[a]) => z.o.room = arr[a].room)
    <3>1. CASE full
      <4>1. w.o.end = k * E
        BY LiveSound DEF Holds
      <4>2. HasMembers(reserveForNextSize(w))
        BY <1>1, <3>1, <4>1, ReserveForNextSizeSound, SoundMembers
      <4>3. ~ (k + 1 <= capacity(arr[a]))
        BY <1>1, <2>2, <3>1
      <4> QED
        BY <3>1, <4>2, <4>3
    <3>2. CASE ~ full
      BY <1>1, <3>2
    <3> QED
      BY <3>1, <3>2
  <2> HIDE DEF z
  <2>4. HasMembers(r) /\ (k + 1 <= capacity(arr[a]) => r.o.room = arr[a].room)
    BY <2>3, WriteMembers
  <2>5. k + 1 \in Nat
    BY <1>1
  <2> HIDE DEF r, s, k
  <2> QED
    BY <1>3, <2>1, <2>4, <2>5, CommitStays
<1>13. ASSUME NEW i \in -1 .. MaxSize - 1, NEW v \in Values, SetElement(a, i, v) PROVE Stays(a)
  <2> DEFINE u == Write(w, i, <<v>>, (i + 1) * E)
  <2>1. u.o = arr[a]
    <3> HIDE DEF w
    <3> QED
      BY <1>1, WriteMembers
  <2>2. arr'[a] = u.o
    BY <1>1, <1>13 DEF SetElement, Commit
  <2> HIDE DEF u
  <2> QED
    BY <2>1, <2>2 DEF Stays
<1>14. ASSUME NEW xs \in Inputs, Insert(a, xs) PROVE Stays(a)
  <2> DEFINE n == k + Len(xs)
             r == memcpy(insertPrepare(w, n), k, xs)
             s == value[a] \o xs
  <2>1. Commit(a, SetSize(r, n), s)
    BY <1>1, <1>14 DEF Insert, insert
  <2>2. n \in Nat
    BY <1>5
  <2> HIDE DEF n
  <2>3. HasMembers(r) /\ (n <= capacity(arr[a]) => r.o.room = arr[a].room)
    <3> HIDE DEF w, k
    <3> QED
      BY <1>2, <2>2, WriteMembers
  <2> HIDE DEF r, s
  <2> QED
    BY <2>1, <2>2, <2>3, CommitStays
<1>15. ASSUME NEW xs \in Inputs, Assign(a, xs) PROVE Stays(a)
  <2> DEFINE n == Len(xs)
             r == memcpy(insertPrepare(w, n), 0, xs)
  <2>1. Commit(a, SetSize(r, n), xs)
    BY <1>15 DEF Assign, assign
  <2>2. n \in Nat
    BY <1>5
  <2> HIDE DEF n
  <2>3. HasMembers(r) /\ (n <= capacity(arr[a]) => r.o.room = arr[a].room)
    <3> HIDE DEF w
    <3> QED
      BY <1>2, <2>2, WriteMembers
  <2> HIDE DEF r
  <2> QED
    BY <2>1, <2>2, <2>3, CommitStays
<1>16. ASSUME NEW xs \in Inputs, InsertSmallAllowReadWriteOverflow15(a, xs) PROVE Stays(a)
  <2> DEFINE n == k + Len(xs)
             copied == integerRoundUp(Len(xs) * E, 16)
             r(junk) == Write(insertPrepare(w, n), k, xs \o junk, k * E + copied)
             s == value[a] \o xs
  <2>1. PICK junk : Commit(a, SetSize(r(junk), n), s)
    BY <1>1, <1>16 DEF InsertSmallAllowReadWriteOverflow15
  <2>2. n \in Nat
    BY <1>5
  <2> HIDE DEF n, copied
  <2>3. HasMembers(r(junk)) /\ (n <= capacity(arr[a]) => r(junk).o.room = arr[a].room)
    <3> HIDE DEF w, k
    <3> QED
      BY <1>2, <2>2, WriteMembers
  <2> HIDE DEF r, s
  <2> QED
    BY <2>1, <2>2, <2>3, CommitStays
<1>17. ASSUME NEW p \in Sizes, NEW xs \in Inputs, InsertAt(a, p, xs) PROVE Stays(a)
  <2> DEFINE n == k + Len(xs)
             tail == SubSeq(Content(a), p + 1, k)
             at == p + Len(xs)
             g == insertPrepare(w, n)
             z == memcpy(g, at, tail)
             r == memcpy(z, p, xs)
             s == Spliced(value[a], p, 0, xs)
  <2>1. UNCHANGED arr \/ Commit(a, SetSize(r, n), s)
    BY <1>1, <1>17 DEF InsertAt, Undefined
  <2>2. n \in Nat
    BY <1>5
  <2> HIDE DEF n, tail
  <2>3. HasMembers(z) /\ (n <= capacity(arr[a]) => z.o.room = arr[a].room)
    <3>1. HasMembers(g) /\ (n <= capacity(arr[a]) => g.o.room = arr[a].room)
      BY <1>2, <2>2
    <3> HIDE DEF g, k, at
    <3> QED
      BY <3>1, WriteMembers
  <2> HIDE DEF z
  <2>4. HasMembers(r) /\ (n <= capacity(arr[a]) => r.o.room = arr[a].room)
    BY <2>3, WriteMembers
  <2> HIDE DEF r, s
  <2> QED
    BY <1>3, <2>1, <2>2, <2>4, CommitStays
<1> HIDE DEF w, k
<1>18. ~ Construct(a) /\ \A n \in Sizes : ~ ConstructSized(a, n) /\ ~ Reserve(a, n)
  BY <1>1 DEF Construct, ConstructSized
<1>19. \A xs \in Inputs : ~ ConstructRange(a, xs)
  BY <1>1 DEF ConstructRange
<1> QED
  BY <1>6, <1>7, <1>8, <1>9, <1>10, <1>11, <1>12, <1>13, <1>14, <1>15, <1>16, <1>17, <1>18, <1>19
     DEF OnOne

(* A call on one array leaves the members of the others alone.             *)
LEMMA OthersStay ==
  ASSUME Inv, NEW a \in Arrays, NEW d \in Arrays, d # a,
         OnOne(a) \/ \E c \in Arrays : Clone(a, c)
  PROVE  arr'[d] = arr[d]
<1>1. arr \in [Arrays -> Members \cup {Gone}]
  BY DEF Inv, TypeOK
<1>2. ASSUME NEW r, NEW s, Commit(a, r, s) PROVE arr'[d] = arr[d]
  BY <1>1, <1>2 DEF Commit
<1>3. ASSUME NEW why, Undefined(why) PROVE arr'[d] = arr[d]
  BY <1>3 DEF Undefined
<1>4. ASSUME NEW r, NEW own, NEW s, CommitUnlessStale(a, r, own, s) PROVE arr'[d] = arr[d]
  BY <1>2, <1>3, <1>4 DEF CommitUnlessStale
<1> QED
  BY <1>2, <1>3, <1>4
     DEF OnOne, Construct, Destroy, Clear, PopBack, ConstructSized, Reserve, Resize, PushBack,
         ResizeFill, AssignFill, SetElement, ConstructRange, Insert, Assign,
         InsertSmallAllowReadWriteOverflow15, InsertAt, Clone

(* A call whose result fits in the capacity leaves the storage where it    *)
(* is, reserve itself aside, so that references and iterators into a       *)
(* reserved array stay valid (reserve, insertPrepare, push_back).          *)
THEOREM PODArrayStaysPut == Spec => StaysPut
<1>1. ASSUME Inv, [Next]_vars, NEW a \in Live, arr'[a] # Gone, arr'[a].block = arr[a].block,
             size(arr'[a]) <= capacity(arr[a]), ~ \E n \in Sizes : Reserve(a, n)
      PROVE  arr'[a].room = arr[a].room
  <2>1. /\ a \in Arrays /\ arr[a] # Gone /\ arr \in [Arrays -> Members \cup {Gone}]
        /\ Fits(arr[a], heap) /\ Null \in Members /\ Null.block = NoBlock
    BY <1>1 DEF Inv, TypeOK, HeapOK, Live, Members, Null
  <2>2. ASSUME NEW b \in Arrays, OnOne(b) PROVE arr'[a].room = arr[a].room
    <3>1. CASE b = a
      BY <1>1, <2>2, <3>1, OneStays DEF Stays
    <3>2. CASE b # a
      BY <1>1, <2>1, <2>2, <3>2, OthersStay
    <3> QED
      BY <3>1, <3>2
  <2>3. ASSUME NEW b \in Live, Fits(arr[b], heap), arr'[a] = arr[b] PROVE arr'[a].room = arr[a].room
    <3>1. CASE a = b
      BY <2>3, <3>1
    <3>2. CASE arr[a].block = NoBlock
      BY <1>1, <2>1, <2>3, <3>2 DEF Fits
    <3>3. CASE a # b /\ arr[a].block # NoBlock
      BY <1>1, <2>3, <3>3 DEF Inv, HeapOK
    <3> QED
      BY <3>1, <3>2, <3>3
  <2>4. ASSUME NEW b \in Arrays, NEW c \in Arrays, Swap(b, c) PROVE arr'[a].room = arr[a].room
    <3>1. b \in Live /\ c \in Live /\ Fits(arr[b], heap) /\ Fits(arr[c], heap)
      BY <1>1, <2>4 DEF Swap, Live, Inv, HeapOK
    <3>2. arr'[a] \in {arr[a], arr[b], arr[c]}
      BY <2>1, <2>4 DEF Swap, Swapped
    <3> QED
      BY <1>1, <2>1, <2>3, <3>1, <3>2
  <2>5. ASSUME NEW b \in Arrays, NEW c \in Arrays, MoveConstruct(b, c)
        PROVE  arr'[a].room = arr[a].room
    <3>1. a # b /\ c \in Live /\ Fits(arr[c], heap)
      BY <1>1, <2>1, <2>5 DEF MoveConstruct, Live, Inv, HeapOK
    <3>2. arr'[a] \in {arr[a], arr[c], Null}
      BY <2>1, <2>5 DEF MoveConstruct, Swapped
    <3>3. CASE arr'[a] = Null
      BY <1>1, <2>1, <3>3 DEF Fits
    <3> QED
      BY <1>1, <2>1, <2>3, <3>1, <3>2, <3>3
  <2>6. ASSUME NEW b \in Arrays, NEW c \in Arrays, Clone(b, c) PROVE arr'[a].room = arr[a].room
    <3>1. a # b
      BY <2>1, <2>6 DEF Clone
    <3> QED
      BY <1>1, <2>1, <2>6, <3>1, OthersStay
  <2>7. CASE UNCHANGED vars
    BY <2>7 DEF vars
  <2> QED
    BY <1>1, <2>2, <2>4, <2>5, <2>6, <2>7 DEF Next
<1>2. Inv /\ [Next]_vars =>
        [\A a \in Live :
           /\ arr'[a] # Gone
           /\ arr'[a].block = arr[a].block
           /\ size(arr'[a]) <= capacity(arr[a])
           /\ ~ \E n \in Sizes : Reserve(a, n)
           => arr'[a].room = arr[a].room]_vars
  BY <1>1
<1> QED
  BY <1>2, PODArrayInvariant, PTL DEF Spec, StaysPut
=============================================================================
