---------------------------- MODULE TasksProofs ----------------------------
(***************************************************************************)
(* Two results about a submit.  The division of a job is a tiling, and an  *)
(* even one, for jobs, granules and gangs of any size (PartitionCheck);    *)
(* and the invariant of module Tasks is inductive, for any number of       *)
(* threads, indices and chunks, with and without work stealing, and its    *)
(* safety properties follow from it.                                       *)
(***************************************************************************)
EXTENDS Tasks, PartitionCheck, FiniteSetTheorems, WellFoundedInduction, TLAPS

-----------------------------------------------------------------------------
(* Lemmas, for every length of the job and every number of parts.          *)

(* Quotient and remainder, as C++ defines them for unsigned operands.      *)
LEMMA DivMod ==
  ASSUME NEW a \in Nat, NEW n \in Nat \ {0}
  PROVE  /\ a \div n \in Nat
         /\ a % n \in 0 .. n - 1
         /\ a = n * (a \div n) + (a % n)
BY SMT

(* Multiplication keeps the order.                                         *)
LEMMA ProductMono ==
  ASSUME NEW q \in Nat, NEW i \in Nat, NEW j \in Nat, i <= j
  PROVE  i * q \in Nat /\ j * q \in Nat /\ i * q <= j * q
BY SMT

(* The bounds of ranges are indices.                                       *)
LEMMA CutNat ==
  ASSUME NEW from \in Nat, NEW len \in Nat, NEW n \in Nat \ {0}, NEW i \in 0 .. n
  PROVE  Cut(from, len, n, i) \in Nat
<1>1. len \div n \in Nat /\ len % n \in 0 .. n - 1
  BY DivMod
<1>2. i * (len \div n) \in Nat
  BY <1>1
<1> QED
  BY <1>1, <1>2 DEF Cut, Least

(* Ranges follow one another in order.                                     *)
LEMMA CutMonotone ==
  ASSUME NEW from \in Nat, NEW len \in Nat, NEW n \in Nat \ {0},
         NEW i \in 0 .. n, NEW j \in 0 .. n, i <= j
  PROVE  Cut(from, len, n, i) <= Cut(from, len, n, j)
<1>1. len \div n \in Nat /\ len % n \in 0 .. n - 1
  BY DivMod
<1>2. /\ i * (len \div n) \in Nat /\ j * (len \div n) \in Nat
      /\ i * (len \div n) <= j * (len \div n)
  BY <1>1, ProductMono
<1> QED
  BY <1>1, <1>2 DEF Cut, Least

(* The first range begins where the job begins, the last one ends where it *)
(* ends.                                                                   *)
LEMMA CutEnds ==
  ASSUME NEW from \in Nat, NEW len \in Nat, NEW n \in Nat \ {0}
  PROVE  /\ Cut(from, len, n, 0) = from
         /\ Cut(from, len, n, n) = from + len
<1>1. /\ len \div n \in Nat
      /\ len % n \in 0 .. n - 1
      /\ len = n * (len \div n) + (len % n)
  BY DivMod
<1>2. n * (len \div n) \in Nat
  BY <1>1
<1> QED
  BY <1>1, <1>2 DEF Cut, Least

(* A range has the size the code computes for it.                          *)
LEMMA CutSize ==
  ASSUME NEW from \in Nat, NEW len \in Nat, NEW n \in Nat \ {0}, NEW i \in 0 .. n - 1
  PROVE  Cut(from, len, n, i + 1) = Cut(from, len, n, i) + PartSize(len, n, i)
<1>1. len \div n \in Nat /\ len % n \in 0 .. n - 1
  BY DivMod
<1> DEFINE q == len \div n
<1>2. (i + 1) * q = i * q + q /\ i * q \in Nat
  BY <1>1
<1> HIDE DEF q
<1> QED
  BY <1>1, <1>2 DEF Cut, Least, PartSize, q

(* Every index of the job lies in one of the ranges.  The witness: ranges  *)
(* of q + 1 indices come first, one for each index of the remainder, and   *)
(* ranges of q indices follow.                                             *)
LEMMA CutTiles ==
  ASSUME NEW from \in Nat, NEW len \in Nat, NEW n \in Nat \ {0},
         NEW x \in from .. from + len - 1
  PROVE  \E i \in 0 .. n - 1 :
           Cut(from, len, n, i) <= x /\ x < Cut(from, len, n, i + 1)
<1> DEFINE q == len \div n
           r == len % n
           y == x - from
           long == r * (q + 1)
<1>1. q \in Nat /\ r \in 0 .. n - 1 /\ len = n * q + r
  BY DivMod
<1>2. y \in Nat /\ y < len /\ x = from + y
  OBVIOUS
<1>3. ASSUME NEW i \in Nat
      PROVE  Cut(from, len, n, i) = from + i * q + (IF i <= r THEN i ELSE r)
  BY <1>1 DEF Cut, Least
<1> HIDE DEF q, r, y
<1>4. long \in Nat
  BY <1>1
<1>5. CASE y < long
  <2> DEFINE d == q + 1
             i == y \div d
             m == y % d
  <2>1. d \in Nat \ {0}
    BY <1>1
  <2>2. i \in Nat /\ m \in 0 .. q /\ y = (q + 1) * i + m
    <3> HIDE DEF d
    <3>1. i \in Nat /\ m \in 0 .. d - 1 /\ y = d * i + m
      BY <1>2, <2>1, DivMod
    <3> HIDE DEF i, m
    <3> QED
      BY <1>1, <3>1 DEF d
  <2> HIDE DEF i, m
  <2>3. i < r
    <3>1. SUFFICES ASSUME r <= i PROVE FALSE
      BY <1>1, <2>2
    <3>2. r * (q + 1) <= i * (q + 1) /\ i * (q + 1) \in Nat
      BY <1>1, <2>1, <2>2, <3>1, ProductMono
    <3>3. (q + 1) * i = i * (q + 1)
      BY <1>1, <2>2
    <3> QED
      BY <1>5, <2>2, <3>2, <3>3, <1>1, <1>4
  <2>4. i * q \in Nat /\ (i + 1) * q = i * q + q /\ (q + 1) * i = i * q + i
    BY <1>1, <2>2
  <2>5. /\ Cut(from, len, n, i) = from + i * q + i
        /\ Cut(from, len, n, i + 1) = from + (i * q + q) + (i + 1)
    <3>1. Cut(from, len, n, i) = from + i * q + (IF i <= r THEN i ELSE r)
      BY <1>3, <2>2
    <3>2. i + 1 \in Nat
      BY <2>2
    <3>3. Cut(from, len, n, i + 1) = from + (i + 1) * q + (IF i + 1 <= r THEN i + 1 ELSE r)
      BY <1>3, <3>2, Zenon
    <3> QED
      BY <1>1, <2>2, <2>3, <2>4, <3>1, <3>3
  <2>6. i \in 0 .. n - 1
    BY <1>1, <2>2, <2>3
  <2> QED
    BY <1>1, <1>2, <2>2, <2>4, <2>5, <2>6
<1>6. CASE long <= y
  <2> DEFINE z == y - long
  <2>1. z \in Nat
    BY <1>2, <1>4, <1>6
  <2>2. long = r * q + r /\ n * q = (n - r) * q + r * q /\ (n - r) * q \in Nat /\ r * q \in Nat
    BY <1>1
  <2>3. z < (n - r) * q
    BY <1>1, <1>2, <1>4, <2>2
  <2>4. q \in Nat \ {0}
    BY <1>1, <2>1, <2>3
  <2> DEFINE k == z \div q
             m == z % q
  <2>5. k \in Nat /\ m \in 0 .. q - 1 /\ z = q * k + m
    BY <2>1, <2>4, DivMod
  <2> HIDE DEF z, k, m, long
  <2>6. k < n - r
    <3>1. SUFFICES ASSUME n - r <= k PROVE FALSE
      BY <1>1, <2>5
    <3>2. (n - r) * q <= k * q /\ k * q \in Nat
      BY <1>1, <2>4, <2>5, <3>1, ProductMono
    <3>3. q * k = k * q
      BY <1>1, <2>5
    <3> QED
      BY <2>3, <2>5, <3>2, <3>3, <2>2, <2>1
  <2> DEFINE i == r + k
  <2>7. i * q = r * q + q * k /\ (i + 1) * q = r * q + q * k + q /\ q * k \in Nat
    BY <1>1, <2>5
  <2>8. /\ Cut(from, len, n, i) = from + (r * q + q * k) + r
        /\ Cut(from, len, n, i + 1) = from + (r * q + q * k + q) + r
    <3>1. i \in Nat /\ i + 1 \in Nat /\ r <= i
      BY <1>1, <2>5
    <3> HIDE DEF i
    <3>2. /\ Cut(from, len, n, i) = from + i * q + (IF i <= r THEN i ELSE r)
          /\ Cut(from, len, n, i + 1) = from + (i + 1) * q + (IF i + 1 <= r THEN i + 1 ELSE r)
      BY <1>3, <3>1, Zenon
    <3> QED
      BY <1>1, <2>2, <2>7, <3>1, <3>2
  <2>9. i \in 0 .. n - 1
    BY <1>1, <2>5, <2>6
  <2>10. y = r * q + r + (q * k + m)
    BY <1>2, <1>4, <2>2, <2>5, <2>1 DEF z
  <2> QED
    BY <1>1, <1>2, <2>2, <2>5, <2>7, <2>8, <2>9, <2>10
<1> QED
  BY <1>2, <1>4, <1>5, <1>6

(* The number of parts is a number of threads; there are no parts only if  *)
(* there is nothing to do, and never more parts than indices.              *)
LEMMA PartCountBounds ==
  ASSUME NEW len \in Nat, NEW size \in Nat \ {0}, NEW limit \in Nat \ {0}
  PROVE  /\ PartCount(len, size, limit) \in 0 .. limit
         /\ PartCount(len, size, limit) <= len
         /\ PartCount(len, size, limit) = 0 => len = 0
         /\ \/ PartCount(len, size, limit) = limit
            \/ (PartCount(len, size, limit) - 1) * size < len
<1> DEFINE a == len + size - 1
           c == a \div size
           m == a % size
<1>1. c \in Nat /\ m \in 0 .. size - 1 /\ len + size - 1 = size * c + m
  <2>1. a \in Nat
    OBVIOUS
  <2>2. a = len + size - 1
    OBVIOUS
  <2> HIDE DEF a
  <2>3. c \in Nat /\ m \in 0 .. size - 1 /\ a = size * c + m
    BY <2>1, DivMod
  <2> HIDE DEF c, m
  <2> QED
    BY <2>2, <2>3
<1> HIDE DEF c, m
<1>2. size * c \in Nat /\ (c - 1) * size = size * c - size
  BY <1>1
<1>3. c = 0 => len = 0
  BY <1>1
<1>4. c <= len
  <2>1. SUFFICES ASSUME len + 1 <= c PROVE FALSE
    BY <1>1
  <2>2. (len + 1) * size <= c * size /\ c * size = size * c
    BY <1>1, <2>1, ProductMono
  <2>3. (len + 1) * size = len * size + size /\ len * size \in Nat
    OBVIOUS
  <2>4. len * 1 <= len * size
    <3>1. 1 * len <= size * len
      BY ProductMono
    <3> QED
      BY <3>1
  <2> QED
    BY <1>1, <1>2, <2>2, <2>3, <2>4
<1>5. (c - 1) * size < len
  BY <1>1, <1>2
<1>6. PartCount(len, size, limit) = IF c <= limit THEN c ELSE limit
  BY DEF PartCount, Least, c
<1> QED
  BY <1>1, <1>3, <1>4, <1>5, <1>6

(* JobParts are not empty, and as even as they can be.                        *)
LEMMA PartSizeEvenly ==
  ASSUME NEW len \in Nat, NEW n \in Nat \ {0}, NEW i \in 0 .. n - 1, n <= len
  PROVE  PartSize(len, n, i) \in {len \div n, len \div n + 1} /\ len \div n > 0
<1>1. len \div n \in Nat /\ len % n \in 0 .. n - 1 /\ len = n * (len \div n) + (len % n)
  BY DivMod
<1>2. len \div n # 0
  BY <1>1
<1> QED
  BY <1>1, <1>2 DEF PartSize

-----------------------------------------------------------------------------
(* A set of numbers that is not empty has a smallest element.              *)
LEMMA Smallest ==
  ASSUME NEW T \in SUBSET Nat, T # {}
  PROVE  \E x \in T : \A y \in T : x <= y
<1>1. IsWellFoundedOn(OpToRel(<, Nat), Nat)
  BY NatLessThanWellFounded
<1>2. PICK x \in T : \A y \in T : <<y, x>> \notin OpToRel(<, Nat)
  BY <1>1, WFMin, Zenon
<1>3. \A y \in T : ~(y < x)
  BY <1>2 DEF OpToRel
<1> QED
  BY <1>3

(* The loop of submit computes the closed form: the loop's equation has    *)
(* the closed form among its solutions, and two solutions differ nowhere,  *)
(* for there is no smallest index at which they do.                        *)
LEMMA BeginsAreCuts ==
  ASSUME NEW from \in Nat, NEW len \in Nat, NEW n \in Nat \ {0}
  PROVE  \A i \in 0 .. n : Begins(from, len, n)[i] = Cut(from, len, n, i)
<1> DEFINE cuts == [i \in 0 .. n |-> Cut(from, len, n, i)]
           found == Begins(from, len, n)
<1>1. cuts = [i \in 0 .. n |-> IF i = 0 THEN from
                            ELSE cuts[i - 1] + PartSize(len, n, i - 1)]
  <2>1. ASSUME NEW i \in 0 .. n, i # 0
        PROVE  cuts[i] = cuts[i - 1] + PartSize(len, n, i - 1)
    <3>1. i - 1 \in 0 .. n - 1 /\ (i - 1) + 1 = i /\ i - 1 \in 0 .. n
      BY <2>1
    <3> QED
      BY <3>1, CutSize
  <2>2. cuts[0] = from
    BY CutEnds
  <2> QED
    BY <2>1, <2>2
<1>2. found = [i \in 0 .. n |-> IF i = 0 THEN from
                            ELSE found[i - 1] + PartSize(len, n, i - 1)]
  <2> HIDE DEF cuts
  <2> QED
    BY <1>1, Zenon DEF Begins
<1> DEFINE T == {i \in 0 .. n : found[i] # cuts[i]}
<1>3. SUFFICES ASSUME T # {} PROVE FALSE
  BY DEF cuts
<1>4. PICK i \in T : \A j \in T : i <= j
  <2>1. T \in SUBSET Nat
    OBVIOUS
  <2> HIDE DEF T
  <2> QED
    BY <1>3, <2>1, Smallest
<1> HIDE DEF found, cuts
<1>5. i # 0
  BY <1>1, <1>2, <1>4
<1>6. i - 1 \in 0 .. n /\ i - 1 \notin T
  BY <1>4, <1>5
<1>7. found[i] = cuts[i]
  BY <1>1, <1>2, <1>5, <1>6
<1> QED
  BY <1>4, <1>7

-----------------------------------------------------------------------------
(* The arguments of submit.                                                *)

Arguments ==
  start \in Nat /\ end \in Nat /\ start <= end
    /\ granular \in Nat \ {0} /\ num \in Nat \ {0}

(* The arguments of submit never change while it divides the job.          *)
LEMMA ArgumentsKept == JobSpec => []Arguments
<1>1. JobInit => Arguments
  BY PartitionCheckAssumption DEF JobInit, Arguments
<1>2. Arguments /\ [UNCHANGED jobVars]_jobVars => Arguments'
  BY DEF Arguments, jobVars
<1> QED
  BY <1>1, <1>2, PTL DEF JobSpec

(* What the lemmas say of the arguments at hand.                           *)
LEMMA PartsBounds ==
  ASSUME Arguments
  PROVE  /\ JobLength \in Nat /\ start + JobLength = end
         /\ JobParts \in Nat
         /\ JobParts <= JobLength
         /\ JobParts = 0 => JobLength = 0
         /\ JobParts = num \/ (JobParts - 1) * granular < JobLength
         /\ JobParts # 0 => \A i \in 0 .. JobParts : Bound(i) = Cut(start, JobLength, JobParts, i)
<1>1. JobLength \in Nat /\ start + JobLength = end
  BY DEF Arguments, JobLength
<1> HIDE DEF JobLength
<1>2. /\ JobParts \in 0 .. num
      /\ JobParts <= JobLength
      /\ JobParts = 0 => JobLength = 0
      /\ JobParts = num \/ (JobParts - 1) * granular < JobLength
  BY <1>1, PartCountBounds DEF Arguments, JobParts
<1>3. JobParts \in Nat
  BY <1>2 DEF Arguments
<1>4. JobParts # 0 => \A i \in 0 .. JobParts : Bound(i) = Cut(start, JobLength, JobParts, i)
  BY <1>1, <1>3, BeginsAreCuts DEF Bound, Arguments
<1> QED
  BY <1>1, <1>2, <1>3, <1>4

(* No index is left out of a submit and none is in two ranges, for the     *)
(* ranges lie one after the other (Gang::submit, for all arguments).       *)
THEOREM Tiling == JobSpec => []RangesTile
<1>1. Arguments => RangesTile
  <2> SUFFICES ASSUME Arguments PROVE RangesTile
    OBVIOUS
  <2>1. CASE JobParts = 0
    BY <2>1, PartsBounds DEF RangesTile
  <2>2. CASE JobParts # 0
    <3> DEFINE n == JobParts
               cut(i) == Cut(start, JobLength, n, i)
    <3>1. /\ JobLength \in Nat /\ start + JobLength = end /\ start \in Nat
          /\ n \in Nat \ {0}
          /\ \A i \in 0 .. n : Bound(i) = cut(i)
      BY <2>2, PartsBounds DEF Arguments
    <3>2. Bound(0) = start /\ Bound(n) = end
      <4>1. cut(0) = start /\ cut(n) = start + JobLength
        BY <3>1, CutEnds
      <4>2. 0 \in 0 .. n /\ n \in 0 .. n
        BY <3>1
      <4> QED
        BY <3>1, <4>1, <4>2
    <3>3. ASSUME NEW x \in start .. end - 1
          PROVE  \E i \in 0 .. n - 1 : Bound(i) <= x /\ x < Bound(i + 1)
      <4>1. PICK i \in 0 .. n - 1 : cut(i) <= x /\ x < cut(i + 1)
        BY <3>1, CutTiles
      <4>2. i \in 0 .. n /\ i + 1 \in 0 .. n
        BY <3>1
      <4>3. Bound(i) = cut(i) /\ Bound(i + 1) = cut(i + 1)
        BY <3>1, <4>2
      <4> QED
        BY <4>1, <4>3
    <3>4. ASSUME NEW i \in 0 .. n - 1
          PROVE  Bound(i) <= Bound(i + 1)
      <4>1. i \in 0 .. n /\ i + 1 \in 0 .. n /\ i <= i + 1
        BY <3>1
      <4>2. cut(i) <= cut(i + 1)
        BY <3>1, <4>1, CutMonotone
      <4> QED
        BY <3>1, <4>1, <4>2
    <3> QED
      BY <2>2, <3>2, <3>3, <3>4 DEF RangesTile
  <2> QED
    BY <2>1, <2>2
<1> QED
  BY <1>1, ArgumentsKept, PTL

(* No part is empty, no two differ by more than one index, and there are   *)
(* fewer parts than threads only if every part but one fills a granule.    *)
THEOREM Fairness == JobSpec => []RangesFair
<1>1. Arguments => RangesFair
  <2> SUFFICES ASSUME Arguments, JobParts > 0 PROVE RangesFair
    BY DEF RangesFair
  <2>1. JobLength \in Nat /\ JobParts \in Nat \ {0} /\ JobParts <= JobLength
    BY PartsBounds
  <2>2. \A i \in 0 .. JobParts - 1 :
          PartSize(JobLength, JobParts, i) \in {JobLength \div JobParts, JobLength \div JobParts + 1}
            /\ JobLength \div JobParts > 0
    BY <2>1, PartSizeEvenly
  <2>3. JobLength \div JobParts \in Nat
    BY <2>1, DivMod
  <2> DEFINE q == JobLength \div JobParts
  <2> HIDE DEF q
  <2>4. \A i \in 0 .. JobParts - 1 : PartSize(JobLength, JobParts, i) \in {q, q + 1} /\ q > 0 /\ q \in Nat
    BY <2>2, <2>3 DEF q
  <2>5. JobParts = num \/ (JobParts - 1) * granular < JobLength
    BY PartsBounds
  <2> QED
    BY <2>4, <2>5 DEF RangesFair
<1> QED
  BY <1>1, ArgumentsKept, PTL

(* The closed form other modules use is what the loop of submit computes.  *)
THEOREM ClosedForm == JobSpec => []CutIsBegins
<1>1. Arguments => CutIsBegins
  BY PartsBounds DEF CutIsBegins
<1> QED
  BY <1>1, ArgumentsKept, PTL

-----------------------------------------------------------------------------
(* The chunks of the job.                                                  *)

(* The threads and the ranges are initial segments of the numbers.         *)
LEMMA Counts ==
  /\ Parts \in Nat \ {0}
  /\ RangeCount \in Nat /\ Parts <= RangeCount
  /\ Length \in Nat /\ Start + Length = End
  /\ Granular \in Nat \ {0} /\ SizeMod \in Nat
  /\ Part \subseteq Ranges /\ Part \subseteq Nat /\ Ranges \subseteq Nat
<1> USE TasksAssumption
<1>1. Length \in Nat /\ Start + Length = End
  BY DEF Length
<1> HIDE DEF Length
<1>2. Num \div CpuNum \in Nat
  BY DivMod
<1> DEFINE c == (Length + Granular - 1) \div Granular
<1>3. c \in Nat
  <2> DEFINE a == Length + Granular - 1
  <2>1. a \in Nat
    BY <1>1
  <2> HIDE DEF a
  <2>2. a \div Granular \in Nat
    BY <2>1, DivMod
  <2> QED
    BY <2>2 DEF a
<1> HIDE DEF c
<1>4. Parts \in Nat \ {0}
  <2>1. Parts = IF c <= Num \div CpuNum THEN c ELSE Num \div CpuNum
    BY DEF Parts, PartCount, Least, c
  <2> QED
    BY <2>1, <1>2, <1>3
<1>5. RangeCount \in Nat /\ Parts <= RangeCount
  <2>1. 1 * Parts <= CpuNum * Parts /\ CpuNum * Parts \in Nat
    BY <1>4, ProductMono
  <2> QED
    BY <2>1, <1>4 DEF RangeCount
<1> QED
  BY <1>1, <1>4, <1>5 DEF Part, Ranges

(* Every range is a piece of the job.                                      *)
LEMMA RangeBounds ==
  ASSUME NEW r \in Ranges
  PROVE  /\ First(r) \in Nat /\ Limit(r) \in Nat
         /\ Start <= First(r) /\ First(r) <= Limit(r) /\ Limit(r) <= End
<1>1. r % Parts \in 0 .. Parts - 1
  BY Counts, DivMod
<1> DEFINE i == r % Parts
<1> HIDE DEF i
<1>2. i \in 0 .. Parts /\ i + 1 \in 0 .. Parts /\ i <= i + 1 /\ 0 \in 0 .. Parts
        /\ Parts \in 0 .. Parts /\ 0 <= i /\ i + 1 <= Parts
  BY <1>1, Counts DEF i
<1>3. Start \in Nat
  BY TasksAssumption
<1> DEFINE cut(j) == Cut(Start, Length, Parts, j)
<1>4. cut(i) \in Nat /\ cut(i + 1) \in Nat /\ cut(i) <= cut(i + 1)
  BY <1>2, <1>3, Counts, CutNat, CutMonotone
<1>5. cut(0) <= cut(i) /\ cut(i + 1) <= cut(Parts)
  BY <1>2, <1>3, Counts, CutMonotone
<1>6. cut(0) = Start /\ cut(Parts) = End
  BY <1>3, Counts, CutEnds
<1> QED
  BY <1>4, <1>5, <1>6 DEF First, Limit, i

(* The set of threads is finite.                                           *)
LEMMA PassedFinite ==
  ASSUME NEW r
  PROVE  /\ IsFiniteSet(Passed(r)) /\ Cardinality(Passed(r)) \in Nat
         /\ Cardinality(Passed(r)) <= Parts
         /\ \A t \in Part \ Passed(r) : Cardinality(Passed(r)) + 1 <= Parts
<1>1. IsFiniteSet(Part) /\ Cardinality(Part) = Parts
  BY Counts, FS_Interval DEF Part
<1>2. Passed(r) \subseteq Part
  BY DEF Passed
<1>3. IsFiniteSet(Passed(r)) /\ Cardinality(Passed(r)) <= Cardinality(Part)
  BY <1>1, <1>2, FS_Subset
<1>4. Cardinality(Passed(r)) \in Nat
  BY <1>3, FS_CardinalityType
<1>5. ASSUME NEW t \in Part \ Passed(r)
      PROVE  Cardinality(Passed(r)) + 1 <= Parts
  <2>1. Passed(r) \cup {t} \subseteq Part
    BY <1>2
  <2>2. /\ IsFiniteSet(Passed(r) \cup {t})
        /\ Cardinality(Passed(r) \cup {t}) = Cardinality(Passed(r)) + 1
    BY <1>3, FS_AddElement
  <2>3. Cardinality(Passed(r) \cup {t}) <= Cardinality(Part)
    BY <1>1, <2>1, FS_Subset
  <2> QED
    BY <1>1, <2>2, <2>3
<1> QED
  BY <1>1, <1>3, <1>4, <1>5

(* A thread with offset o is at the range that is o steps away.            *)
LEMMA AtDistance ==
  ASSUME NEW t \in Part, NEW o \in 0 .. RangeCount - 1
  PROVE  /\ Victim(t, o) \in Ranges
         /\ \A r \in Ranges : Distance(t, r) = o <=> r = Victim(t, o)
<1>1. t \in Nat /\ t < RangeCount
  BY Counts DEF Part
<1> QED
  BY <1>1, Counts DEF Ranges, Victim, Distance

(* Distances are below the number of ranges.                               *)
LEMMA DistanceBound ==
  ASSUME NEW t \in Part, NEW r \in Ranges
  PROVE  Distance(t, r) \in 0 .. RangeCount - 1
<1>1. t \in Nat /\ t < RangeCount
  BY Counts DEF Part
<1> QED
  BY <1>1, Counts DEF Ranges, Distance

(* No cursor wraps when a thread adds a granule.                           *)
LEMMA NoWrap ==
  ASSUME Inv, NEW t \in Part, pc[t] = "fetch"
  PROVE  /\ At(t) \in Ranges
         /\ t \notin Passed(At(t))
         /\ b[At(t)] \in Nat /\ b[At(t)] + Granular < SizeMod
         /\ Plus(b[At(t)], Granular) = b[At(t)] + Granular
<1>1. offset[t] \in 0 .. RangeCount - 1
  BY Counts DEF Inv, TypeOK, OffsetOK
<1>2. At(t) \in Ranges /\ Distance(t, At(t)) = offset[t]
  BY <1>1, AtDistance DEF At
<1>3. t \notin Passed(At(t))
  BY <1>1, <1>2 DEF Passed
<1> DEFINE r == At(t)
           c == Cardinality(Passed(r))
<1> HIDE DEF r
<1>4. c \in Nat /\ c + 1 <= Parts
  BY <1>2, <1>3, PassedFinite DEF r
<1>5. b[r] \in Nat /\ b[r] < Limit(r) + (c + 1) * Granular
  <2>1. /\ b \in [Ranges -> 0 .. SizeMod - 1]
        /\ \A x \in Ranges : b[x] < Limit(x) + (Cardinality(Passed(x)) + 1) * Granular
    BY DEF Inv, TypeOK, CursorOK
  <2>2. r \in Ranges
    BY <1>2 DEF r
  <2> QED
    BY <2>1, <2>2, Counts
<1>6. Limit(r) \in Nat /\ Limit(r) <= End
  BY <1>2, RangeBounds DEF r
<1>7. End + (Parts + 1) * Granular < SizeMod /\ End \in Nat
  BY TasksAssumption
<1> HIDE DEF c
<1>8. (c + 1) * Granular + Granular <= (Parts + 1) * Granular
  <2>1. (c + 2) * Granular <= (Parts + 1) * Granular
    <3>1. c + 2 \in Nat /\ Parts + 1 \in Nat /\ c + 2 <= Parts + 1
      BY <1>4, Counts
    <3> QED
      BY <3>1, Counts, ProductMono
  <2>2. (c + 2) * Granular = (c + 1) * Granular + Granular
    BY <1>4, Counts
  <2> QED
    BY <2>1, <2>2
<1>9. (c + 1) * Granular \in Nat /\ (Parts + 1) * Granular \in Nat
  BY <1>4, Counts, ProductMono
<1>10. b[r] + Granular < SizeMod
  BY <1>5, <1>6, <1>7, <1>8, <1>9, Counts
<1>11. Plus(b[r], Granular) = b[r] + Granular
  BY <1>10 DEF Plus
<1> QED
  BY <1>2, <1>3, <1>5, <1>10, <1>11 DEF r

-----------------------------------------------------------------------------
(* The type invariant in the form the steps below use it.                  *)
LEMMA Types ==
  ASSUME TypeOK
  PROVE  /\ b \in [Ranges -> Nat] /\ \A r \in Ranges : b[r] < SizeMod
         /\ pc \in [Part -> {"begin", "fetch", "exec", "done"}]
         /\ offset \in [Part -> Nat] /\ \A t \in Part : offset[t] <= RangeCount
         /\ next \in [Part -> Nat] /\ \A t \in Part : next[t] < SizeMod
         /\ stop \in [Part -> Nat] /\ \A t \in Part : stop[t] < SizeMod
         /\ ran \in [Ranges -> [Index -> Nat]]
BY Counts DEF TypeOK

(* Limits are values of a size_t.                                          *)
LEMMA LimitBelow ==
  ASSUME NEW r \in Ranges
  PROVE  First(r) \in 0 .. SizeMod - 1 /\ Limit(r) \in 0 .. SizeMod - 1
<1>1. /\ First(r) \in Nat /\ Limit(r) \in Nat
      /\ First(r) <= Limit(r) /\ Limit(r) <= End
  BY RangeBounds
<1>2. End < SizeMod /\ End \in Nat
  <2>1. (Parts + 1) * Granular \in Nat
    BY Counts, ProductMono
  <2> QED
    BY <2>1, TasksAssumption
<1> QED
  BY <1>1, <1>2, Counts

(* Everybody in exec is at a range; without stealing at its own.           *)
LEMMA Places ==
  ASSUME Inv, NEW t \in Part
  PROVE  /\ pc[t] # "done" => At(t) \in Ranges
         /\ ~worksteal => At(t) = t
<1>1. pc[t] # "done" => offset[t] \in 0 .. RangeCount - 1
  BY Types, Counts DEF Inv, OffsetOK
<1>2. ~worksteal => At(t) = t
  BY Counts DEF Inv, OffsetOK, At, Victim, Part
<1> QED
  BY <1>1, <1>2, AtDistance DEF At

LEMMA InitInv == Init => Inv
<1> SUFFICES ASSUME Init PROVE Inv
  OBVIOUS
<1>1. TypeOK
  BY Counts, LimitBelow DEF Init, TypeOK
<1>2. OffsetOK
  BY Counts DEF Init, OffsetOK
<1>3. ChunkOK
  BY DEF Init, ChunkOK
<1>4. CursorOK
  <2> SUFFICES ASSUME NEW r \in Ranges
      PROVE  /\ First(r) <= b[r]
             /\ ~worksteal => b[r] = First(r)
             /\ Passed(r) # {} => Limit(r) <= b[r]
             /\ b[r] < Limit(r) + (Cardinality(Passed(r)) + 1) * Granular
    BY DEF CursorOK
  <2>1. Passed(r) = {}
    <3>1. \A t \in Part : Distance(t, r) \in Nat /\ offset[t] = 0
      BY DistanceBound, Counts DEF Init
    <3> QED
      BY <3>1 DEF Passed
  <2>2. Cardinality(Passed(r)) = 0
    BY <2>1, FS_EmptySet
  <2>3. b[r] = First(r)
    BY DEF Init
  <2> QED
    BY <2>1, <2>2, <2>3, RangeBounds, Counts
<1>5. RanOK
  <2>1. \A r \in Ranges : Claimed(r) = First(r)
    BY DEF Init, Claimed
  <2>2. \A r \in Ranges : First(r) \in Nat
    BY RangeBounds
  <2>3. \A r \in Ranges, x \in Index, t \in Part : ~Holds(t, r, x)
    BY DEF Init, Holds
  <2>4. \A r \in Ranges, x \in Index : ran[r][x] = 0
    BY DEF Init
  <2>5. \A x \in Index : x \in Int
    BY TasksAssumption DEF Index
  <2> QED
    BY <2>1, <2>2, <2>3, <2>4, <2>5 DEF RanOK
<1> QED
  BY <1>1, <1>2, <1>3, <1>4, <1>5 DEF Inv

(* A step that moves no cursor and passes no range keeps what CursorOK     *)
(* says.                                                                   *)
LEMMA CursorsKept ==
  ASSUME Inv, UNCHANGED <<worksteal, b, offset>>
  PROVE  CursorOK'
<1>1. \A r \in Ranges : Passed(r)' = Passed(r)
  BY DEF Passed
<1> QED
  BY <1>1 DEF Inv, CursorOK

(* A step that claims nothing, runs nothing and changes nobody's chunk     *)
(* keeps what RanOK says.                                                  *)
LEMMA RanKept ==
  ASSUME Inv, ran' = ran,
         \A r \in Ranges : Claimed(r)' = Claimed(r),
         \A t \in Part, r \in Ranges, x \in Index : Holds(t, r, x)' <=> Holds(t, r, x)
  PROVE  RanOK'
BY DEF Inv, RanOK

LEMMA BeginStealInv ==
  ASSUME Inv, NEW t \in Part, BeginSteal(t)
  PROVE  Inv'
<1> USE DEF BeginSteal, Goto
<1>1. TypeOK'
  BY DEF Inv, TypeOK
<1>2. OffsetOK'
  BY <1>1 DEF Inv, TypeOK, OffsetOK
<1>3. \A r : Claimed(r)' = Claimed(r)
  BY DEF Claimed
<1>4. \A u \in Part : pc'[u] = "exec" <=> pc[u] = "exec"
  BY DEF Inv, TypeOK
<1>5. \A u : At(u)' = At(u)
  BY DEF At
<1>6. ChunkOK'
  BY <1>3, <1>4, <1>5 DEF Inv, ChunkOK
<1>7. RanOK'
  BY <1>3, <1>4, <1>5, RanKept DEF Holds
<1> QED
  BY <1>1, <1>2, <1>6, <1>7, CursorsKept DEF Inv

LEMMA EndChunkInv ==
  ASSUME Inv, NEW t \in Part, EndChunk(t)
  PROVE  Inv'
<1> USE DEF EndChunk, Goto
<1>1. TypeOK'
  BY DEF Inv, TypeOK
<1>2. OffsetOK'
  BY <1>1, TasksAssumption DEF Inv, TypeOK, OffsetOK
<1>3. \A r \in Ranges : Claimed(r)' = Claimed(r)
  BY DEF Claimed, Inv, TypeOK
<1>4. \A u \in Part : /\ pc'[u] = "exec" => pc[u] = "exec"
                      /\ pc[u] = "exec" /\ u # t => pc'[u] = "exec"
  BY DEF Inv, TypeOK
<1>5. \A u : At(u)' = At(u)
  BY DEF At
<1>6. ChunkOK'
  <2> SUFFICES ASSUME NEW u \in Part, pc'[u] = "exec"
      PROVE  /\ First(At(u))' <= next'[u]
             /\ stop'[u] <= Limit(At(u))'
             /\ stop'[u] <= Claimed(At(u))'
    BY DEF ChunkOK
  <2>1. At(u) \in Ranges
    BY <1>4, Places
  <2> QED
    BY <1>3, <1>4, <1>5, <2>1 DEF Inv, ChunkOK
<1>7. RanOK'
  <2>1. \A x \in Index : ~(next[t] <= x /\ x < stop[t])
    BY Types, TasksAssumption DEF Inv, Index
  <2>2. \A u \in Part, r \in Ranges, x \in Index : Holds(u, r, x)' <=> Holds(u, r, x)
    BY <1>4, <1>5, <2>1 DEF Holds
  <2> QED
    BY <1>3, <2>2, RanKept
<1> QED
  BY <1>1, <1>2, <1>6, <1>7, CursorsKept DEF Inv

LEMMA BeginStaticInv ==
  ASSUME Inv, NEW t \in Part, BeginStatic(t)
  PROVE  Inv'
<1> USE DEF BeginStatic, Goto, Hold
<1>1. t \in Ranges
  BY Counts
<1>2. TypeOK'
  BY <1>1, LimitBelow DEF Inv, TypeOK
<1>3. OffsetOK'
  BY <1>2 DEF Inv, TypeOK, OffsetOK
<1>4. /\ Claimed(t)' = Limit(t) /\ Claimed(t) = First(t)
      /\ \A r \in Ranges \ {t} : Claimed(r)' = Claimed(r)
  BY DEF Claimed, Inv, TypeOK
<1>5. \A u \in Part : At(u) = u /\ At(u)' = u
  <2>1. \A u \in Part : At(u) = u
    BY Places
  <2> QED
    BY <2>1 DEF At
<1>6. /\ pc'[t] = "exec" /\ next'[t] = First(t) /\ stop'[t] = Limit(t)
      /\ \A u \in Part \ {t} : /\ pc'[u] = pc[u] /\ next'[u] = next[u]
                               /\ stop'[u] = stop[u]
  BY <1>1 DEF Inv, TypeOK, CursorOK
<1>7. First(t) <= Limit(t) /\ First(t) \in Nat /\ Limit(t) \in Nat
  BY <1>1, RangeBounds
<1>8. ChunkOK'
  <2> SUFFICES ASSUME NEW u \in Part, pc'[u] = "exec"
      PROVE  /\ First(u) <= next'[u]
             /\ stop'[u] <= Limit(u)
             /\ stop'[u] <= Claimed(u)'
    BY <1>5 DEF ChunkOK
  <2> QED
    BY <1>4, <1>5, <1>6, <1>7, Counts DEF Inv, ChunkOK
<1>9. RanOK'
  <2>1. \A u \in Part, r \in Ranges, x \in Index :
          /\ u # t => (Holds(u, r, x)' <=> Holds(u, r, x))
          /\ Holds(t, r, x)' <=> r = t /\ First(t) <= x /\ x < Limit(t)
          /\ ~Holds(t, r, x)
          /\ Holds(u, r, x) => r = u
    BY <1>5, <1>6 DEF Holds
  <2>2. \A x \in Index : x \in Int
    BY TasksAssumption DEF Index
  <2> SUFFICES ASSUME NEW r \in Ranges, NEW x \in Index
      PROVE  /\ ran[r][x] = IF /\ First(r) <= x /\ x < Limit(r) /\ x < Claimed(r)'
                               /\ ~\E u \in Part : Holds(u, r, x)'
                            THEN 1 ELSE 0
             /\ \A u, v \in Part : Holds(u, r, x)' /\ Holds(v, r, x)' => u = v
    BY DEF RanOK
  <2>3. /\ ran[r][x] = IF /\ First(r) <= x /\ x < Limit(r) /\ x < Claimed(r)
                          /\ ~\E u \in Part : Holds(u, r, x)
                       THEN 1 ELSE 0
        /\ \A u, v \in Part : Holds(u, r, x) /\ Holds(v, r, x) => u = v
    BY DEF Inv, RanOK
  <2>4. CASE r = t
    BY <1>4, <1>7, <2>1, <2>2, <2>3, <2>4
  <2>5. CASE r # t
    BY <1>4, <2>1, <2>3, <2>5
  <2> QED
    BY <2>4, <2>5
<1> QED
  BY <1>2, <1>3, <1>8, <1>9, CursorsKept DEF Inv

LEMMA CallInv ==
  ASSUME Inv, NEW t \in Part, Call(t)
  PROVE  Inv'
<1> USE DEF Call
<1> DEFINE r0 == At(t)
           x0 == next[t]
<1>1. r0 \in Ranges
  BY Places DEF Inv
<1>2. /\ First(r0) <= x0 /\ x0 < stop[t] /\ stop[t] <= Limit(r0)
      /\ stop[t] <= Claimed(r0) /\ x0 \in Nat /\ stop[t] \in Nat
      /\ stop[t] < SizeMod
  BY Types DEF Inv, ChunkOK
<1>3. /\ First(r0) \in Nat /\ Limit(r0) \in Nat
      /\ Start <= First(r0) /\ Limit(r0) <= End
  BY <1>1, RangeBounds
<1>4. x0 \in Index
  BY <1>2, <1>3, TasksAssumption DEF Index
<1>5. TypeOK'
  <2>1. ran' \in [Ranges -> [Index -> Nat]]
    BY <1>1, <1>4 DEF Inv, TypeOK
  <2>2. next' \in [Part -> 0 .. SizeMod - 1]
    BY <1>2, Counts DEF Inv, TypeOK
  <2> QED
    BY <2>1, <2>2 DEF Inv, TypeOK
<1>6. OffsetOK'
  BY DEF Inv, OffsetOK
<1>7. \A r : Claimed(r)' = Claimed(r)
  BY DEF Claimed
<1>8. \A u : At(u)' = At(u)
  BY DEF At
<1>9. /\ next'[t] = x0 + 1
      /\ \A u \in Part \ {t} : next'[u] = next[u]
  BY Types DEF Inv
<1>10. ChunkOK'
  <2> SUFFICES ASSUME NEW u \in Part, pc[u] = "exec"
      PROVE  /\ First(At(u)) <= next'[u]
             /\ stop[u] <= Limit(At(u))
             /\ stop[u] <= Claimed(At(u))
    BY <1>7, <1>8 DEF ChunkOK
  <2> QED
    BY <1>2, <1>3, <1>9 DEF Inv, ChunkOK
<1>11. RanOK'
  <2>1. \A x \in Index : x \in Int
    BY TasksAssumption DEF Index
  <2>2. \A u \in Part, r \in Ranges, x \in Index :
          Holds(u, r, x)' <=> Holds(u, r, x) /\ ~(u = t /\ x = x0)
    BY <1>2, <1>8, <1>9, <2>1 DEF Holds
  <2>3. Holds(t, r0, x0)
    BY <1>2 DEF Holds
  <2> SUFFICES ASSUME NEW r \in Ranges, NEW x \in Index
      PROVE  /\ ran'[r][x] = IF /\ First(r) <= x /\ x < Limit(r) /\ x < Claimed(r)
                                /\ ~\E u \in Part : Holds(u, r, x)'
                             THEN 1 ELSE 0
             /\ \A u, v \in Part : Holds(u, r, x)' /\ Holds(v, r, x)' => u = v
    BY <1>7 DEF RanOK
  <2>4. /\ ran[r][x] = IF /\ First(r) <= x /\ x < Limit(r) /\ x < Claimed(r)
                          /\ ~\E u \in Part : Holds(u, r, x)
                       THEN 1 ELSE 0
        /\ \A u, v \in Part : Holds(u, r, x) /\ Holds(v, r, x) => u = v
    BY DEF Inv, RanOK
  <2>5. CASE r = r0 /\ x = x0
    <3>1. \A u \in Part : ~Holds(u, r, x)'
      BY <2>2, <2>3, <2>4, <2>5
    <3>2. ran[r][x] = 0
      BY <2>3, <2>4, <2>5
    <3>3. ran'[r][x] = ran[r][x] + 1
      BY <1>1, <1>4, <2>5, Types DEF Inv
    <3>4. Claimed(r0) \in Nat
      BY <1>1, <1>3, Types DEF Inv, Claimed
    <3>5. First(r) <= x /\ x < Limit(r) /\ x < Claimed(r)
      BY <1>2, <1>3, <2>5, <3>4
    <3> QED
      BY <3>1, <3>2, <3>3, <3>5
  <2>6. CASE ~(r = r0 /\ x = x0)
    <3>1. ran'[r][x] = ran[r][x]
      BY <1>1, <1>4, <2>6, Types DEF Inv
    <3>2. \A u \in Part : Holds(u, r, x)' <=> Holds(u, r, x)
      <4>1. Holds(t, r, x) => r = r0
        BY DEF Holds
      <4> QED
        BY <2>2, <2>6, <4>1
    <3> QED
      BY <2>4, <3>1, <3>2
  <2> QED
    BY <2>5, <2>6
<1> QED
  BY <1>5, <1>6, <1>10, <1>11, CursorsKept DEF Inv

LEMMA FetchInv ==
  ASSUME Inv, NEW t \in Part, Fetch(t), worksteal
  PROVE  Inv'
<1> USE DEF Fetch, Hold, Goto
<1> DEFINE r0 == At(t)
           top == Least(b[r0] + Granular, Limit(r0))
<1>1. /\ r0 \in Ranges /\ b[r0] \in Nat
      /\ b[r0] + Granular < SizeMod
      /\ Plus(b[r0], Granular) = b[r0] + Granular
  BY NoWrap
<1>2. /\ First(r0) \in Nat /\ Limit(r0) \in Nat /\ First(r0) <= b[r0]
      /\ b[r0] < Limit(r0) /\ Granular \in Nat \ {0}
  BY <1>1, RangeBounds, Counts DEF Inv, CursorOK
<1>3. /\ b[r0] < top /\ top <= Limit(r0) /\ top <= b[r0] + Granular
      /\ top \in Nat /\ top < SizeMod
      /\ top = IF b[r0] + Granular <= Limit(r0) THEN b[r0] + Granular ELSE Limit(r0)
  BY <1>1, <1>2, Counts DEF Least
<1> HIDE DEF top
<1>4. /\ b'[r0] = b[r0] + Granular
      /\ \A r \in Ranges \ {r0} : b'[r] = b[r]
  BY <1>1, Types DEF Inv
<1>5. /\ pc[t] = "fetch" /\ pc'[t] = "exec"
      /\ next'[t] = b[r0] /\ stop'[t] = top
      /\ \A u \in Part \ {t} : /\ pc'[u] = pc[u] /\ next'[u] = next[u]
                               /\ stop'[u] = stop[u]
  BY <1>1, Types DEF Inv, top
<1>6. TypeOK'
  <2>1. b' \in [Ranges -> 0 .. SizeMod - 1]
    BY <1>1, <1>2, Counts DEF Inv, TypeOK
  <2>2. next' \in [Part -> 0 .. SizeMod - 1]
    BY <1>1, Counts DEF Inv, TypeOK
  <2>3. stop' \in [Part -> 0 .. SizeMod - 1]
    BY <1>1, <1>3, Counts DEF Inv, TypeOK, top
  <2> QED
    BY <2>1, <2>2, <2>3 DEF Inv, TypeOK
<1>7. OffsetOK'
  BY <1>5 DEF Inv, OffsetOK
<1>8. \A r : Claimed(r) = b[r] /\ Claimed(r)' = b'[r]
  BY DEF Claimed
<1>9. \A u : At(u)' = At(u)
  BY DEF At
<1>10. \A r \in Ranges : b[r] <= b'[r] /\ b[r] \in Nat /\ b'[r] \in Nat
  BY <1>1, <1>2, <1>4, Types DEF Inv
<1>11. ChunkOK'
  <2> SUFFICES ASSUME NEW u \in Part, pc'[u] = "exec"
      PROVE  /\ First(At(u)) <= next'[u]
             /\ stop'[u] <= Limit(At(u))
             /\ stop'[u] <= b'[At(u)]
    BY <1>8, <1>9 DEF ChunkOK
  <2>1. CASE u = t
    BY <1>2, <1>3, <1>4, <1>5, <2>1
  <2>2. CASE u # t
    <3>1. /\ First(At(u)) <= next[u] /\ stop[u] <= Limit(At(u))
          /\ stop[u] <= b[At(u)] /\ stop[u] \in Nat /\ At(u) \in Ranges
      BY <1>5, <1>8, <2>2, Types, Places DEF Inv, ChunkOK
    <3> QED
      BY <1>5, <1>10, <2>2, <3>1
  <2> QED
    BY <2>1, <2>2
<1>12. CursorOK'
  <2>1. \A r \in Ranges : Passed(r)' = Passed(r)
    BY DEF Passed
  <2> SUFFICES ASSUME NEW r \in Ranges
      PROVE  /\ First(r) <= b'[r]
             /\ Passed(r) # {} => Limit(r) <= b'[r]
             /\ b'[r] < Limit(r) + (Cardinality(Passed(r)) + 1) * Granular
    BY <2>1 DEF CursorOK
  <2>2. /\ First(r) <= b[r]
        /\ Passed(r) # {} => Limit(r) <= b[r]
        /\ b[r] < Limit(r) + (Cardinality(Passed(r)) + 1) * Granular
    BY DEF Inv, CursorOK
  <2>3. /\ First(r) \in Nat /\ Limit(r) \in Nat
    BY RangeBounds
  <2>4. CASE r = r0
    <3> DEFINE c == Cardinality(Passed(r))
    <3>1. c \in Nat
      BY PassedFinite
    <3> HIDE DEF c
    <3>2. 1 * Granular <= (c + 1) * Granular /\ (c + 1) * Granular \in Nat
      BY <1>2, <3>1, ProductMono
    <3> QED
      BY <1>2, <1>4, <1>10, <2>2, <2>3, <2>4, <3>2 DEF c
  <2>5. CASE r # r0
    BY <1>4, <2>2, <2>5
  <2> QED
    BY <2>4, <2>5
<1>13. RanOK'
  <2>1. \A x \in Index : x \in Int
    BY TasksAssumption DEF Index
  <2>2. \A u \in Part, r \in Ranges, x \in Index :
          /\ u # t => (Holds(u, r, x)' <=> Holds(u, r, x))
          /\ Holds(t, r, x)' <=> r = r0 /\ b[r0] <= x /\ x < top
          /\ ~Holds(t, r, x)
    BY <1>5, <1>9 DEF Holds
  <2>3. \A u \in Part, x \in Index : Holds(u, r0, x) => x < b[r0]
    BY <1>1, <1>8, <2>1, Types DEF Holds, Inv, ChunkOK
  <2> SUFFICES ASSUME NEW r \in Ranges, NEW x \in Index
      PROVE  /\ ran[r][x] = IF /\ First(r) <= x /\ x < Limit(r) /\ x < b'[r]
                               /\ ~\E u \in Part : Holds(u, r, x)'
                            THEN 1 ELSE 0
             /\ \A u, v \in Part : Holds(u, r, x)' /\ Holds(v, r, x)' => u = v
    BY <1>8 DEF RanOK
  <2>4. /\ ran[r][x] = IF /\ First(r) <= x /\ x < Limit(r) /\ x < b[r]
                          /\ ~\E u \in Part : Holds(u, r, x)
                       THEN 1 ELSE 0
        /\ \A u, v \in Part : Holds(u, r, x) /\ Holds(v, r, x) => u = v
    BY <1>8 DEF Inv, RanOK
  <2>5. CASE r # r0
    BY <1>4, <2>2, <2>4, <2>5
  <2>6. CASE r = r0 /\ x < b[r0]
    <3>1. x < b'[r] /\ \A u \in Part : Holds(u, r, x)' <=> Holds(u, r, x)
      BY <1>1, <1>2, <1>4, <2>1, <2>2, <2>6
    <3> QED
      BY <2>4, <2>6, <3>1
  <2>7. CASE r = r0 /\ ~(x < b[r0])
    <3>1. \A u \in Part : ~Holds(u, r, x)
      BY <2>3, <2>7
    <3>2. ran[r][x] = 0
      BY <2>4, <2>7
    <3>3. \A u \in Part : Holds(u, r, x)' <=> u = t /\ x < top
      BY <1>1, <2>1, <2>2, <2>7, <3>1
    <3>4. x < Limit(r0) /\ x < b'[r0] => x < top
      BY <1>1, <1>2, <1>3, <1>4, <2>1
    <3> QED
      BY <2>7, <3>2, <3>3, <3>4
  <2> QED
    BY <2>5, <2>6, <2>7
<1> QED
  BY <1>6, <1>7, <1>11, <1>12, <1>13 DEF Inv

LEMMA FetchNothingInv ==
  ASSUME Inv, NEW t \in Part, FetchNothing(t), worksteal
  PROVE  Inv'
<1> USE DEF FetchNothing, Goto
<1> DEFINE r0 == At(t)
<1>1. /\ r0 \in Ranges /\ b[r0] \in Nat
      /\ t \notin Passed(r0)
      /\ b[r0] + Granular < SizeMod
      /\ Plus(b[r0], Granular) = b[r0] + Granular
  BY NoWrap
<1>2. /\ First(r0) \in Nat /\ Limit(r0) \in Nat /\ First(r0) <= b[r0]
      /\ Limit(r0) <= b[r0] /\ Granular \in Nat \ {0}
  BY <1>1, RangeBounds, Counts DEF Inv, CursorOK
<1>3. /\ b'[r0] = b[r0] + Granular
      /\ \A r \in Ranges \ {r0} : b'[r] = b[r]
  BY <1>1, Types DEF Inv
<1>4. offset[t] \in 0 .. RangeCount - 1 /\ pc[t] = "fetch"
  BY Types, Counts DEF Inv, OffsetOK
<1>5. /\ offset'[t] = offset[t] + 1
      /\ pc'[t] = IF offset[t] + 1 < RangeCount THEN "fetch" ELSE "done"
      /\ \A u \in Part \ {t} : offset'[u] = offset[u] /\ pc'[u] = pc[u]
  BY Types DEF Inv
<1>6. TypeOK'
  <2>1. b' \in [Ranges -> 0 .. SizeMod - 1]
    BY <1>1, <1>2, Counts DEF Inv, TypeOK
  <2>2. offset' \in [Part -> 0 .. RangeCount]
    BY <1>4, Counts DEF Inv, TypeOK
  <2>3. pc' \in [Part -> {"begin", "fetch", "exec", "done"}]
    BY DEF Inv, TypeOK
  <2> QED
    BY <2>1, <2>2, <2>3 DEF Inv, TypeOK
<1>7. OffsetOK'
  BY <1>4, <1>5, Counts DEF Inv, OffsetOK
<1>8. \A r : Claimed(r) = b[r] /\ Claimed(r)' = b'[r]
  BY DEF Claimed
<1>9. \A u \in Part \ {t} : At(u)' = At(u)
  BY <1>5 DEF At
<1>10. \A r \in Ranges : b[r] <= b'[r] /\ b[r] \in Nat /\ b'[r] \in Nat
  BY <1>1, <1>2, <1>3, Types DEF Inv
<1>11. ChunkOK'
  <2> SUFFICES ASSUME NEW u \in Part, pc'[u] = "exec"
      PROVE  /\ First(At(u)') <= next[u]
             /\ stop[u] <= Limit(At(u)')
             /\ stop[u] <= b'[At(u)']
    BY <1>8 DEF ChunkOK
  <2>1. u # t /\ pc[u] = "exec"
    BY <1>5
  <2>2. /\ First(At(u)) <= next[u] /\ stop[u] <= Limit(At(u))
        /\ stop[u] <= b[At(u)] /\ stop[u] \in Nat /\ At(u) \in Ranges
    BY <1>8, <2>1, Types, Places DEF Inv, ChunkOK
  <2> QED
    BY <1>9, <1>10, <2>1, <2>2
<1>12. CursorOK'
  <2>1. ASSUME NEW r \in Ranges
        PROVE  Passed(r)' = IF r = r0 THEN Passed(r) \cup {t} ELSE Passed(r)
    <3>1. Distance(t, r) = offset[t] <=> r = r0
      BY <1>4, AtDistance DEF At
    <3>2. Distance(t, r) \in Nat
      BY DistanceBound, Counts
    <3>3. Distance(t, r) < offset[t] + 1 <=> Distance(t, r) < offset[t] \/ r = r0
      BY <1>4, <3>1, <3>2, Counts
    <3>4. \A u \in Part : u \in Passed(r)' <=> u \in Passed(r) \/ (u = t /\ r = r0)
      BY <1>5, <3>3 DEF Passed
    <3> QED
      BY <3>4 DEF Passed
  <2> SUFFICES ASSUME NEW r \in Ranges
      PROVE  /\ First(r) <= b'[r]
             /\ Passed(r)' # {} => Limit(r) <= b'[r]
             /\ b'[r] < Limit(r) + (Cardinality(Passed(r)') + 1) * Granular
    BY DEF CursorOK
  <2>2. /\ First(r) <= b[r]
        /\ Passed(r) # {} => Limit(r) <= b[r]
        /\ b[r] < Limit(r) + (Cardinality(Passed(r)) + 1) * Granular
    BY DEF Inv, CursorOK
  <2>3. CASE r = r0
    <3> DEFINE c == Cardinality(Passed(r))
    <3>1. c \in Nat /\ Cardinality(Passed(r) \cup {t}) = c + 1
      BY <1>1, <2>3, PassedFinite, FS_AddElement
    <3>2. Cardinality(Passed(r)') = c + 1
      BY <2>1, <2>3, <3>1
    <3>3. b[r] < Limit(r) + (c + 1) * Granular
      BY <2>2
    <3> HIDE DEF c
    <3>4. ((c + 1) + 1) * Granular = (c + 1) * Granular + Granular
            /\ (c + 1) * Granular \in Nat
      BY <1>2, <3>1, ProductMono
    <3> QED
      BY <1>1, <1>2, <1>3, <2>3, <3>2, <3>3, <3>4
  <2>4. CASE r # r0
    BY <1>3, <2>1, <2>2, <2>4
  <2> QED
    BY <2>3, <2>4
<1>13. RanOK'
  <2>1. \A x \in Index : x \in Int
    BY TasksAssumption DEF Index
  <2>2. \A u \in Part, r \in Ranges, x \in Index : Holds(u, r, x)' <=> Holds(u, r, x)
    <3> SUFFICES ASSUME NEW u \in Part, NEW r \in Ranges, NEW x \in Index
        PROVE  Holds(u, r, x)' <=> Holds(u, r, x)
      OBVIOUS
    <3>1. CASE u = t
      BY <1>4, <1>5, <3>1 DEF Holds
    <3>2. CASE u # t
      BY <1>5, <1>9, <3>2 DEF Holds
    <3> QED
      BY <3>1, <3>2
  <2>3. \A r \in Ranges, x \in Index :
          x < Limit(r) => (x < b'[r] <=> x < b[r])
    BY <1>1, <1>2, <1>3, <2>1
  <2> QED
    BY <1>8, <2>2, <2>3 DEF Inv, RanOK
<1> QED
  BY <1>6, <1>7, <1>11, <1>12, <1>13 DEF Inv

-----------------------------------------------------------------------------
LEMMA StepInv == Inv /\ [Next]_vars => Inv'
<1> SUFFICES ASSUME Inv, [Next]_vars PROVE Inv'
  OBVIOUS
<1>1. ASSUME NEW t \in Part, Steal(t) PROVE Inv'
  <2>1. BeginSteal(t) \/ pc[t] = "fetch"
    BY <1>1 DEF Steal, Fetch, FetchNothing
  <2>2. pc[t] = "fetch" => worksteal
    BY TasksAssumption DEF Inv, OffsetOK
  <2> QED
    BY <1>1, <2>1, <2>2, BeginStealInv, FetchInv, FetchNothingInv DEF Steal
<1>2. ASSUME NEW t \in Part, Execute(t) PROVE Inv'
  BY <1>2, BeginStaticInv, CallInv, EndChunkInv DEF Execute
<1>3. CASE UNCHANGED vars
  <2> USE <1>3 DEF vars
  <2>1. TypeOK' /\ OffsetOK'
    BY DEF Inv, TypeOK, OffsetOK
  <2>2. \A r : Claimed(r)' = Claimed(r)
    BY DEF Claimed
  <2>3. \A u : At(u)' = At(u)
    BY DEF At
  <2>4. ChunkOK'
    BY <2>2, <2>3 DEF Inv, ChunkOK
  <2>5. \A u \in Part, r \in Ranges, x \in Index : Holds(u, r, x)' <=> Holds(u, r, x)
    BY <2>3 DEF Holds
  <2>6. RanOK'
    BY <2>2, <2>5, RanKept
  <2> QED
    BY <2>1, <2>4, <2>6, CursorsKept DEF Inv
<1> QED
  BY <1>1, <1>2, <1>3 DEF Next, Run, Terminated

(* In every state what has been handed out has been run or is in the hands *)
(* of one thread, and cursors do not wrap (TasksImpl::run).                *)
THEOREM TasksInvariant == Spec => []Inv
<1> QED
  BY InitInv, StepInv, PTL DEF Spec

(* Every index is passed to f exactly once: TasksImpl::run neither hands a *)
(* chunk to two threads nor loses one between two of them.                 *)
THEOREM TasksExactlyOnce == Spec => []ExactlyOnce
<1>1. Inv => ExactlyOnce
  <2> SUFFICES ASSUME Inv, NEW r \in Ranges, NEW x \in Index
      PROVE  /\ ran[r][x] <= 1
             /\ ran[r][x] = 1 => First(r) <= x /\ x < Limit(r)
             /\ Done /\ r \in Owed /\ First(r) <= x /\ x < Limit(r) => ran[r][x] = 1
    BY DEF ExactlyOnce
  <2>1. ran[r][x] = IF /\ First(r) <= x /\ x < Limit(r) /\ x < Claimed(r)
                       /\ ~\E u \in Part : Holds(u, r, x)
                    THEN 1 ELSE 0
    BY DEF Inv, RanOK
  <2>2. Done => ~\E u \in Part : Holds(u, r, x)
    BY DEF Done, Holds
  <2>3. Done /\ r \in Owed => Limit(r) <= Claimed(r)
    <3> SUFFICES ASSUME Done, r \in Owed PROVE Limit(r) <= Claimed(r)
      OBVIOUS
    <3>1. CASE worksteal
      <4>1. 0 \in Part
        BY Counts DEF Part
      <4>2. offset[0] = RangeCount
        BY <3>1, <4>1 DEF Inv, OffsetOK, Done
      <4>3. 0 \in Passed(r)
        BY <4>1, <4>2, DistanceBound, Counts DEF Passed
      <4> QED
        BY <3>1, <4>3 DEF Inv, CursorOK, Claimed
    <3>2. CASE ~worksteal
      BY <3>2, RangeBounds DEF Done, Owed, Claimed
    <3> QED
      BY <3>1, <3>2
  <2>4. x \in Int /\ Limit(r) \in Nat /\ Claimed(r) \in Nat
    BY RangeBounds, Types, TasksAssumption DEF Index, Claimed, Inv
  <2> QED
    BY <2>1, <2>2, <2>3, <2>4
<1> QED
  BY <1>1, TasksInvariant, PTL

(* A thread leaves run only when every index it answers for has been run   *)
(* or is in the hands of another thread.                                   *)
THEOREM TasksNothingLeft == Spec => []NothingLeftBehind
<1>1. Inv => NothingLeftBehind
  <2> SUFFICES ASSUME Inv, NEW t \in Part, pc[t] = "done",
                      NEW r \in (IF worksteal THEN Ranges ELSE {t}), NEW x \in Index,
                      First(r) <= x, x < Limit(r), ran[r][x] = 0
      PROVE  \E u \in Part \ {t} :
               pc[u] = "exec" /\ At(u) = r /\ next[u] <= x /\ x < stop[u]
    BY DEF NothingLeftBehind
  <2>1. r \in Ranges
    BY Counts
  <2>2. Limit(r) <= Claimed(r)
    <3>1. CASE worksteal
      <4>1. offset[t] = RangeCount
        BY <3>1 DEF Inv, OffsetOK
      <4>2. t \in Passed(r)
        BY <2>1, <4>1, DistanceBound, Counts DEF Passed
      <4> QED
        BY <2>1, <3>1, <4>2 DEF Inv, CursorOK, Claimed
    <3>2. CASE ~worksteal
      BY <2>1, <3>2, RangeBounds DEF Claimed
    <3> QED
      BY <3>1, <3>2
  <2>3. x \in Int /\ Limit(r) \in Nat /\ Claimed(r) \in Nat
    BY <2>1, RangeBounds, Types, TasksAssumption DEF Index, Claimed, Inv
  <2>4. \E u \in Part : Holds(u, r, x)
    BY <2>1, <2>2, <2>3 DEF Inv, RanOK
  <2> QED
    BY <2>4 DEF Holds
<1> QED
  BY <1>1, TasksInvariant, PTL

(* The threads push a cursor beyond its limit once each: it does not wrap. *)
THEOREM TasksCursorBounded == Spec => []CursorBounded
<1>1. Inv => CursorBounded
  <2> SUFFICES ASSUME Inv, NEW r \in Ranges
      PROVE  First(r) <= b[r] /\ b[r] < Limit(r) + (Parts + 1) * Granular
    BY DEF CursorBounded
  <2> DEFINE c == Cardinality(Passed(r))
  <2>1. /\ First(r) <= b[r] /\ b[r] \in Nat
        /\ b[r] < Limit(r) + (c + 1) * Granular
    BY Types DEF Inv, CursorOK
  <2>2. c \in Nat /\ c <= Parts
    BY PassedFinite
  <2> HIDE DEF c
  <2>3. c + 1 \in Nat /\ Parts + 1 \in Nat /\ c + 1 <= Parts + 1
    BY <2>2, Counts
  <2>4. /\ (c + 1) * Granular \in Nat /\ (Parts + 1) * Granular \in Nat
        /\ (c + 1) * Granular <= (Parts + 1) * Granular
    BY <2>3, Counts, ProductMono
  <2> QED
    BY <2>1, <2>4, RangeBounds
<1> QED
  BY <1>1, TasksInvariant, PTL
=============================================================================
