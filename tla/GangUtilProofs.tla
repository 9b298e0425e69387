--------------------------- MODULE GangUtilProofs ---------------------------
(***************************************************************************)
(* Proofs about GangUtil: reduce, scan, count and pack (module GangAlgo)   *)
(* for every array, every operation and every size of the blocks, and      *)
(* dedup (module Dedup) for every array.                                   *)
(***************************************************************************)
EXTENDS GangAlgoCheck, Dedup, FiniteSetTheorems, SequenceTheorems, WellFoundedInduction, TLAPS

-----------------------------------------------------------------------------
(* Induction, with a set for the predicate.                                *)

(* Every set of numbers that is not empty has a smallest number.           *)
LEMMA Smallest ==
  ASSUME NEW T \in SUBSET Nat, T # {}
  PROVE  \E x \in T : \A y \in T : x <= y
<1>1. IsWellFoundedOn(OpToRel(<, Nat), Nat)
  BY NatLessThanWellFounded, Zenon
<1>2. PICK x \in T : \A y \in T : <<y, x>> \notin OpToRel(<, Nat)
  BY <1>1, WFMin, Zenon
<1>3. \A y \in T : ~(y < x)
  BY <1>2 DEF OpToRel
<1> QED
  BY <1>3

(* A set of numbers up to n that holds 0, and the successor of each number *)
(* below n that it holds, holds them all.                                  *)
LEMMA UpTo ==
  ASSUME NEW n \in Nat, NEW P,
         0 \in P, \A i \in 0 .. n - 1 : i \in P => i + 1 \in P
  PROVE  \A i \in 0 .. n : i \in P
<1> DEFINE T == {i \in 0 .. n : i \notin P}
<1> SUFFICES ASSUME T # {} PROVE FALSE
  OBVIOUS
<1>1. T \in SUBSET Nat
  OBVIOUS
<1>2. PICK x \in T : \A y \in T : x <= y
  <2> HIDE DEF T
  <2> QED BY <1>1, Smallest
<1>3. x \in 0 .. n /\ x \notin P /\ x # 0
  OBVIOUS
<1>4. x - 1 \in 0 .. n - 1 /\ x - 1 \notin T /\ (x - 1) + 1 = x
  BY <1>2, <1>3
<1> QED
  BY <1>3, <1>4

(* A set of numbers that holds a number whenever it holds all smaller ones *)
(* holds them all.                                                         *)
LEMMA Course ==
  ASSUME NEW P, \A n \in Nat : (\A m \in 0 .. n - 1 : m \in P) => n \in P
  PROVE  \A n \in Nat : n \in P
<1> DEFINE T == {i \in Nat : i \notin P}
<1> SUFFICES ASSUME T # {} PROVE FALSE
  OBVIOUS
<1>1. T \in SUBSET Nat
  OBVIOUS
<1>2. PICK x \in T : \A y \in T : x <= y
  <2> HIDE DEF T
  <2> QED BY <1>1, Smallest
<1>3. x \in Nat /\ x \notin P
  OBVIOUS
<1>4. \A m \in 0 .. x - 1 : m \in P
  BY <1>2, <1>3
<1> QED
  BY <1>3, <1>4

-----------------------------------------------------------------------------
(* Loops.                                                                  *)

(* A loop begins with zero, and calls f for each entry: its equation has a *)
(* solution.                                                               *)
LEMMA LoopSteps ==
  ASSUME NEW g, NEW z, NEW s, NEW N \in Nat, Len(s) = N
  PROVE  /\ Loop(g, z, s)[0] = z
         /\ \A i \in 1 .. N : Loop(g, z, s)[i] = g[<<Loop(g, z, s)[i - 1], s[i]>>]
<1> DEFINE Solves(r, n) == /\ r[0] = z
                           /\ \A i \in 1 .. n : r[i] = g[<<r[i - 1], s[i]>>]
           P == {n \in Nat : \E r : Solves(r, n)}
<1>1. 0 \in P
  <2> DEFINE r == [i \in 0 .. 0 |-> z]
  <2>1. Solves(r, 0)
    OBVIOUS
  <2> QED
    BY <2>1
<1>2. ASSUME NEW n \in 0 .. N - 1, n \in P PROVE n + 1 \in P
  <2>1. PICK r : Solves(r, n)
    BY <1>2
  <2> DEFINE q == [i \in 0 .. n + 1 |-> IF i = n + 1 THEN g[<<r[i - 1], s[i]>>] ELSE r[i]]
  <2>2. ASSUME NEW i \in 1 .. n + 1
        PROVE  q[i] = g[<<q[i - 1], s[i]>>]
    <3>1. i \in 0 .. n + 1 /\ i - 1 \in 0 .. n + 1 /\ i - 1 # n + 1
      OBVIOUS
    <3>2. q[i - 1] = r[i - 1]
      BY <3>1
    <3>3. q[i] = g[<<r[i - 1], s[i]>>]
      <4>1. CASE i = n + 1
        BY <3>1, <4>1
      <4>2. CASE i # n + 1
        <5>1. i \in 1 .. n
          BY <4>2
        <5> QED
          BY <3>1, <4>2, <5>1, <2>1
      <4> QED
        BY <4>1, <4>2
    <3> QED
      BY <3>2, <3>3
  <2>3. q[0] = z
    BY <2>1
  <2> HIDE DEF q
  <2>4. Solves(q, n + 1)
    BY <2>2, <2>3
  <2> HIDE DEF Solves
  <2> QED
    BY <2>4
<1> HIDE DEF P
<1>3. \A i \in 0 .. N : i \in P
  BY <1>1, <1>2, UpTo
<1>4. PICK q : Solves(q, N)
  BY <1>3 DEF P
<1> DEFINE r == [i \in 0 .. N |-> q[i]]
<1>5. r = [i \in 0 .. N |-> IF i = 0 THEN z ELSE g[<<r[i - 1], s[i]>>]]
  <2>1. ASSUME NEW i \in 0 .. N PROVE q[i] = IF i = 0 THEN z ELSE g[<<r[i - 1], s[i]>>]
    <3>1. i # 0 => i \in 1 .. N /\ i - 1 \in 0 .. N
      OBVIOUS
    <3> QED
      BY <1>4, <3>1
  <2> QED
    BY <2>1
<1> HIDE DEF r
<1> DEFINE l == Loop(g, z, s)
<1>6. l = [i \in 0 .. N |-> IF i = 0 THEN z ELSE g[<<l[i - 1], s[i]>>]]
  BY <1>5, Zenon DEF Loop
<1> HIDE DEF l
<1>7. l[0] = z /\ \A i \in 1 .. N : l[i] = g[<<l[i - 1], s[i]>>]
  BY <1>6
<1> QED
  BY <1>7 DEF l

-----------------------------------------------------------------------------
(* Blocks.                                                                 *)

(* Quotient and remainder.                                                 *)
LEMMA DivMod ==
  ASSUME NEW a \in Nat, NEW n \in Nat \ {0}
  PROVE  /\ a \div n \in Nat
         /\ a % n \in 0 .. n - 1
         /\ a = n * (a \div n) + (a % n)
BY SMT

(* Multiplication keeps the order.                                         *)
LEMMA ProductMono ==
  ASSUME NEW q \in Nat, NEW i \in Nat, NEW j \in Nat, i <= j
  PROVE  i * q \in Nat /\ j * q \in Nat /\ i * q <= j * q
BY SMT

(* The blocks are just enough, and when there are several they are fewer   *)
(* than the entries.                                                       *)
LEMMA EnoughBlocks ==
  ASSUME NEW n \in Nat, NEW nb, nb = (n + BlockSize - 1) \div BlockSize
  PROVE  /\ nb \in Nat
         /\ n <= nb * BlockSize
         /\ \A j \in 0 .. nb - 1 : j * BlockSize \in Nat /\ j * BlockSize < n
         /\ nb = 0 => n = 0
         /\ nb > 1 => nb < n
<1> USE GangAlgoAssumption
<1> DEFINE a == n + BlockSize - 1
           q == a % BlockSize
<1>1. a \in Nat /\ BlockSize \in Nat \ {0} /\ BlockSize > 1
  OBVIOUS
<1>2. nb \in Nat /\ q \in 0 .. BlockSize - 1 /\ a = BlockSize * nb + q
  BY <1>1, DivMod
<1> HIDE DEF q
<1>3. n <= nb * BlockSize
  BY <1>2
<1>4. (nb - 1) * BlockSize = nb * BlockSize - BlockSize
  BY <1>2
<1>5. (nb - 1) * BlockSize < n
  BY <1>2, <1>4
<1>6. ASSUME NEW j \in 0 .. nb - 1 PROVE j * BlockSize \in Nat /\ j * BlockSize < n
  <2>1. j * BlockSize \in Nat /\ j * BlockSize <= (nb - 1) * BlockSize
    BY <1>1, <1>2, ProductMono
  <2>2. (nb - 1) * BlockSize \in Int
    BY <1>1, <1>2
  <2> QED
    BY <2>1, <2>2, <1>5
<1>7. ASSUME nb > 1 PROVE nb < n
  <2>1. 2 * (nb - 1) <= BlockSize * (nb - 1) /\ BlockSize * (nb - 1) = (nb - 1) * BlockSize
    BY <1>1, <1>2, <1>7, ProductMono
  <2> QED
    BY <2>1, <1>2, <1>5, <1>7
<1> QED
  BY <1>2, <1>3, <1>6, <1>7

(* Where block j ends, and block j + 1 begins.                             *)
Edge(s, j) == IF j = BlockCount(s) THEN Len(s) ELSE j * BlockSize

(* The edges rise from 0 to the length of the array.                       *)
LEMMA Edges ==
  ASSUME NEW D, NEW s \in Seq(D), NEW n, n = Len(s), NEW nb, nb = BlockCount(s), nb > 1
  PROVE  /\ n \in Nat /\ nb \in Nat /\ nb < n
         /\ Edge(s, 0) = 0 /\ Edge(s, nb) = n
         /\ \A j \in 0 .. nb : Edge(s, j) \in 0 .. n
         /\ \A j \in 1 .. nb : Edge(s, j - 1) = (j - 1) * BlockSize /\ Edge(s, j - 1) < Edge(s, j)
<1>1. n \in Nat
  OBVIOUS
<1>2. nb = (n + BlockSize - 1) \div BlockSize
  BY DEF BlockCount
<1>3. /\ nb \in Nat
      /\ \A j \in 0 .. nb - 1 : j * BlockSize \in Nat /\ j * BlockSize < n
      /\ nb < n
  BY <1>1, <1>2, EnoughBlocks
<1>4. \A j \in 0 .. nb : Edge(s, j) = IF j = nb THEN n ELSE j * BlockSize
  BY DEF Edge
<1>5. 0 * BlockSize = 0
  BY GangAlgoAssumption
<1>6. ASSUME NEW j \in 1 .. nb
      PROVE  Edge(s, j - 1) = (j - 1) * BlockSize /\ Edge(s, j - 1) < Edge(s, j)
  <2>1. j - 1 \in 0 .. nb - 1 /\ j - 1 # nb /\ j \in 0 .. nb /\ j - 1 \in 0 .. nb
    BY <1>3
  <2>2. Edge(s, j - 1) = (j - 1) * BlockSize /\ (j - 1) * BlockSize \in Nat /\ (j - 1) * BlockSize < n
    BY <2>1, <1>3, <1>4
  <2>3. CASE j = nb
    BY <2>1, <2>2, <2>3, <1>4
  <2>4. CASE j # nb
    <3>1. Edge(s, j) = j * BlockSize
      BY <2>1, <2>4, <1>4
    <3>2. j * BlockSize = (j - 1) * BlockSize + BlockSize /\ BlockSize > 0
      BY GangAlgoAssumption
    <3> QED
      BY <2>2, <3>1, <3>2, GangAlgoAssumption
  <2> QED
    BY <2>2, <2>3, <2>4
<1>7. ASSUME NEW j \in 0 .. nb PROVE Edge(s, j) \in 0 .. n
  <2>1. CASE j = nb
    BY <1>1, <1>4, <2>1
  <2>2. CASE j # nb
    <3>1. j \in 0 .. nb - 1
      BY <1>3, <2>2
    <3>2. Edge(s, j) = j * BlockSize /\ j * BlockSize \in Nat /\ j * BlockSize < n
      BY <1>3, <1>4, <2>2, <3>1
    <3> QED
      BY <1>1, <3>2
  <2> QED
    BY <2>1, <2>2
<1>8. Edge(s, 0) = 0 /\ Edge(s, nb) = n
  BY <1>3, <1>4, <1>5
<1> QED
  BY <1>1, <1>3, <1>6, <1>7, <1>8

(* The entries behind the first lo, up to entry hi.                        *)
LEMMA Slice ==
  ASSUME NEW D, NEW s \in Seq(D), NEW lo \in Nat, NEW hi \in Nat, lo <= hi, hi <= Len(s)
  PROVE  /\ SubSeq(s, lo + 1, hi) \in Seq(D)
         /\ Len(SubSeq(s, lo + 1, hi)) = hi - lo
         /\ \A i \in 1 .. hi - lo : SubSeq(s, lo + 1, hi)[i] = s[lo + i]
<1> DEFINE m == lo + 1
<1>1. m \in Int /\ hi \in Int /\ hi - m + 1 = hi - lo /\ (m <= hi \/ hi - lo = 0)
  OBVIOUS
<1>2. \A i \in m .. hi : s[i] \in D
  <2>1. \A i \in m .. hi : i \in 1 .. Len(s)
    OBVIOUS
  <2> QED
    BY <2>1, ElementOfSeq
<1>3. \A i \in 1 .. hi - lo : m + i - 1 = lo + i
  OBVIOUS
<1> HIDE DEF m
<1>4. /\ SubSeq(s, m, hi) \in Seq(D)
      /\ Len(SubSeq(s, m, hi)) = IF m <= hi THEN hi - m + 1 ELSE 0
      /\ \A i \in 1 .. hi - m + 1 : SubSeq(s, m, hi)[i] = s[m + i - 1]
  BY <1>1, <1>2, SubSeqProperties
<1>5. SubSeq(s, m, hi) \in Seq(D) /\ Len(SubSeq(s, m, hi)) = hi - lo
  BY <1>1, <1>4
<1>6. \A i \in 1 .. hi - lo : SubSeq(s, m, hi)[i] = s[lo + i]
  BY <1>1, <1>3, <1>4
<1> QED
  BY <1>5, <1>6 DEF m

(* A block is the entries between two edges.                               *)
LEMMA BlockEntries ==
  ASSUME NEW D, NEW s \in Seq(D), NEW nb, nb = BlockCount(s), nb > 1, NEW j \in 1 .. nb
  PROVE  /\ Block(s, j) = SubSeq(s, Edge(s, j - 1) + 1, Edge(s, j))
         /\ Block(s, j) \in Seq(D)
         /\ Len(Block(s, j)) = Edge(s, j) - Edge(s, j - 1)
         /\ \A i \in 1 .. Edge(s, j) - Edge(s, j - 1) : Block(s, j)[i] = s[Edge(s, j - 1) + i]
<1> DEFINE n == Len(s)
           lo == Edge(s, j - 1)
           hi == Edge(s, j)
<1>1. /\ n \in Nat /\ lo \in 0 .. n /\ hi \in 0 .. n /\ lo < hi /\ lo = (j - 1) * BlockSize
  <2>1. nb \in Nat
    BY Edges
  <2>2. j \in 0 .. nb /\ j - 1 \in 0 .. nb
    BY <2>1
  <2> QED
    BY <2>2, Edges
<1>2. Block(s, j) = SubSeq(s, lo + 1, hi)
  <2>1. hi = IF j = BlockCount(s) THEN n ELSE j * BlockSize
    BY DEF Edge
  <2> HIDE DEF hi, lo, n
  <2>2. Block(s, j) = SubSeq(s, lo + 1, lo + IF j = BlockCount(s) THEN n - lo ELSE BlockSize)
    BY <1>1 DEF Block, n
  <2>3. CASE j = BlockCount(s)
    <3>1. lo + (n - lo) = hi
      BY <1>1, <2>1, <2>3
    <3> QED
      BY <2>2, <2>3, <3>1
  <2>4. CASE j # BlockCount(s)
    <3>1. j * BlockSize = (j - 1) * BlockSize + BlockSize
      BY GangAlgoAssumption
    <3>2. lo + BlockSize = hi
      BY <1>1, <2>1, <2>4, <3>1
    <3> QED
      BY <2>2, <2>4, <3>2
  <2> QED
    BY <2>3, <2>4
<1> HIDE DEF lo, hi
<1>3. /\ SubSeq(s, lo + 1, hi) \in Seq(D)
      /\ Len(SubSeq(s, lo + 1, hi)) = hi - lo
      /\ \A i \in 1 .. hi - lo : SubSeq(s, lo + 1, hi)[i] = s[lo + i]
  BY <1>1, Slice
<1> QED
  BY <1>2, <1>3 DEF lo, hi

-----------------------------------------------------------------------------
(* Folds.                                                                  *)

(* f takes a value of E and an entry of D to a value of E.                 *)
Steps(g, E, D) == \A x \in E, y \in D : g[<<x, y>>] \in E

(* f is associative on D, and e is its left identity.                      *)
Foldable(g, e, D) ==
  /\ Steps(g, D, D) /\ e \in D
  /\ \A x, y, w \in D : g[<<g[<<x, y>>], w>>] = g[<<x, g[<<y, w>>]>>]
  /\ \A x \in D : g[<<e, x>>] = x

(* The variable of a loop stays in its type.                               *)
LEMMA LoopType ==
  ASSUME NEW D, NEW E, NEW g, Steps(g, E, D), NEW z \in E, NEW s \in Seq(D), NEW n, n = Len(s)
  PROVE  n \in Nat /\ \A i \in 0 .. n : Loop(g, z, s)[i] \in E
<1> DEFINE P == {i \in Nat : i \in 0 .. n => Loop(g, z, s)[i] \in E}
<1>1. n \in Nat /\ \A i \in 1 .. n : s[i] \in D
  BY ElementOfSeq
<1>2. /\ Loop(g, z, s)[0] = z
      /\ \A i \in 1 .. n : Loop(g, z, s)[i] = g[<<Loop(g, z, s)[i - 1], s[i]>>]
  BY <1>1, LoopSteps
<1>3. 0 \in P
  BY <1>2
<1>4. ASSUME NEW i \in 0 .. n - 1, i \in P PROVE i + 1 \in P
  <2>1. i + 1 \in 1 .. n /\ i \in 0 .. n /\ (i + 1) - 1 = i
    BY <1>1
  <2>2. Loop(g, z, s)[i] \in E
    BY <2>1, <1>4
  <2>3. Loop(g, z, s)[i + 1] = g[<<Loop(g, z, s)[i], s[i + 1]>>]
    BY <2>1, <1>2
  <2>4. Loop(g, z, s)[i + 1] \in E
    BY <2>1, <2>2, <2>3, <1>1 DEF Steps
  <2> QED
    BY <2>4
<1> HIDE DEF P
<1>5. \A i \in 0 .. n : i \in P
  BY <1>1, <1>3, <1>4, UpTo
<1> QED
  BY <1>1, <1>5 DEF P

(* Functions that agree on the types of a loop compute the same.           *)
LEMMA LoopSame ==
  ASSUME NEW D, NEW E, NEW g, Steps(g, E, D), NEW z \in E, NEW s \in Seq(D), NEW n, n = Len(s),
         NEW h, \A x \in E, y \in D : h[<<x, y>>] = g[<<x, y>>]
  PROVE  \A i \in 0 .. n : Loop(h, z, s)[i] = Loop(g, z, s)[i]
<1> DEFINE P == {i \in Nat : i \in 0 .. n => Loop(h, z, s)[i] = Loop(g, z, s)[i]}
<1>1. n \in Nat /\ \A i \in 1 .. n : s[i] \in D
  BY ElementOfSeq
<1>2. /\ Loop(g, z, s)[0] = z
      /\ \A i \in 1 .. n : Loop(g, z, s)[i] = g[<<Loop(g, z, s)[i - 1], s[i]>>]
      /\ Loop(h, z, s)[0] = z
      /\ \A i \in 1 .. n : Loop(h, z, s)[i] = h[<<Loop(h, z, s)[i - 1], s[i]>>]
  BY <1>1, LoopSteps
<1>3. 0 \in P
  BY <1>2
<1>4. ASSUME NEW i \in 0 .. n - 1, i \in P PROVE i + 1 \in P
  <2>1. i + 1 \in 1 .. n /\ i \in 0 .. n /\ (i + 1) - 1 = i
    BY <1>1
  <2>2. Loop(g, z, s)[i] \in E
    BY <2>1, LoopType
  <2>3. Loop(h, z, s)[i] = Loop(g, z, s)[i]
    BY <2>1, <1>4
  <2>4. Loop(g, z, s)[i + 1] = g[<<Loop(g, z, s)[i], s[i + 1]>>]
    BY <2>1, <1>2
  <2>5. Loop(h, z, s)[i + 1] = h[<<Loop(h, z, s)[i], s[i + 1]>>]
    BY <2>1, <1>2
  <2>6. Loop(h, z, s)[i + 1] = Loop(g, z, s)[i + 1]
    BY <2>1, <2>2, <2>3, <2>4, <2>5, <1>1
  <2> QED
    BY <2>6
<1> HIDE DEF P
<1>5. \A i \in 0 .. n : i \in P
  BY <1>1, <1>3, <1>4, UpTo
<1> QED
  BY <1>1, <1>5 DEF P

(* t is the entries of s behind the first c, up to some entry.             *)
Piece(t, s, c) == c + Len(t) <= Len(s) /\ \A i \in 1 .. Len(t) : t[i] = s[c + i]

(* A loop over the entries behind the first c that begins with what the    *)
(* loop over those has come to continues it.                               *)
LEMMA LoopOn ==
  ASSUME NEW D, NEW s \in Seq(D), NEW t \in Seq(D), NEW c \in Nat, Piece(t, s, c),
         NEW g, NEW z, NEW a, a = Loop(g, z, s)[c]
  PROVE  \A i \in 0 .. Len(t) : Loop(g, a, t)[i] = Loop(g, z, s)[c + i]
<1> SUFFICES ASSUME NEW n, n = Len(s), NEW m, m = Len(t), c + m <= n,
                    \A i \in 1 .. m : t[i] = s[c + i]
             PROVE  \A i \in 0 .. m : Loop(g, a, t)[i] = Loop(g, z, s)[c + i]
  BY DEF Piece
<1> DEFINE P == {i \in Nat : i \in 0 .. m => Loop(g, a, t)[i] = Loop(g, z, s)[c + i]}
<1>1. n \in Nat /\ m \in Nat
  OBVIOUS
<1>2. \A i \in 1 .. n : Loop(g, z, s)[i] = g[<<Loop(g, z, s)[i - 1], s[i]>>]
  BY <1>1, LoopSteps
<1>3. Loop(g, a, t)[0] = a /\ \A i \in 1 .. m : Loop(g, a, t)[i] = g[<<Loop(g, a, t)[i - 1], t[i]>>]
  BY <1>1, LoopSteps
<1>4. 0 \in P
  <2>1. c + 0 = c
    OBVIOUS
  <2> QED
    BY <1>3, <2>1
<1>5. ASSUME NEW i \in 0 .. m - 1, i \in P PROVE i + 1 \in P
  <2>1. /\ i + 1 \in 1 .. m /\ i \in 0 .. m /\ (i + 1) - 1 = i
        /\ c + (i + 1) \in 1 .. n /\ (c + (i + 1)) - 1 = c + i
    BY <1>1
  <2>2. Loop(g, a, t)[i] = Loop(g, z, s)[c + i]
    BY <2>1, <1>5
  <2>3. Loop(g, a, t)[i + 1] = g[<<Loop(g, a, t)[i], t[i + 1]>>]
    BY <2>1, <1>3
  <2>4. Loop(g, z, s)[c + (i + 1)] = g[<<Loop(g, z, s)[c + i], s[c + (i + 1)]>>]
    BY <2>1, <1>2
  <2>5. t[i + 1] = s[c + (i + 1)]
    BY <2>1
  <2>6. Loop(g, a, t)[i + 1] = Loop(g, z, s)[c + (i + 1)]
    BY <2>2, <2>3, <2>4, <2>5
  <2> QED
    BY <2>6
<1> HIDE DEF P
<1>6. \A i \in 0 .. m : i \in P
  BY <1>1, <1>4, <1>5, UpTo
<1> QED
  BY <1>1, <1>6 DEF P

(* What a loop makes of entries, from the identity, can be combined with   *)
(* what came before: it comes to the same as a loop that goes on from      *)
(* there.                                                                  *)
LEMMA LoopAbsorb ==
  ASSUME NEW D, NEW g, NEW e, Foldable(g, e, D), NEW a \in D, NEW t \in Seq(D), NEW m, m = Len(t)
  PROVE  \A i \in 1 .. m : g[<<a, Loop(g, e, t)[i]>>] = Loop(g, a, t)[i]
<1> DEFINE P == {i \in Nat : i \in 1 .. m => g[<<a, Loop(g, e, t)[i]>>] = Loop(g, a, t)[i]}
<1>1. m \in Nat /\ (\A i \in 1 .. m : t[i] \in D) /\ e \in D
  BY ElementOfSeq DEF Foldable
<1>2. /\ Loop(g, a, t)[0] = a
      /\ \A i \in 1 .. m : Loop(g, a, t)[i] = g[<<Loop(g, a, t)[i - 1], t[i]>>]
      /\ Loop(g, e, t)[0] = e
      /\ \A i \in 1 .. m : Loop(g, e, t)[i] = g[<<Loop(g, e, t)[i - 1], t[i]>>]
  BY <1>1, LoopSteps
<1>3. 0 \in P
  OBVIOUS
<1>4. ASSUME NEW i \in 0 .. m - 1, i \in P PROVE i + 1 \in P
  <2>1. i + 1 \in 1 .. m /\ i \in 0 .. m /\ (i + 1) - 1 = i
    BY <1>1
  <2>2. /\ Loop(g, a, t)[i + 1] = g[<<Loop(g, a, t)[i], t[i + 1]>>]
        /\ Loop(g, e, t)[i + 1] = g[<<Loop(g, e, t)[i], t[i + 1]>>]
        /\ t[i + 1] \in D
    BY <2>1, <1>1, <1>2
  <2>3. g[<<a, Loop(g, e, t)[i + 1]>>] = Loop(g, a, t)[i + 1]
    <3>1. CASE i = 0
      <4>1. g[<<e, t[i + 1]>>] = t[i + 1]
        BY <2>2 DEF Foldable
      <4> QED
        BY <3>1, <4>1, <2>2, <1>2
    <3>2. CASE i # 0
      <4>1. Loop(g, a, t)[i] = g[<<a, Loop(g, e, t)[i]>>]
        BY <2>1, <3>2, <1>4
      <4>2. Loop(g, e, t)[i] \in D
        BY <2>1, <1>1, LoopType DEF Foldable
      <4>3. g[<<g[<<a, Loop(g, e, t)[i]>>], t[i + 1]>>] = g[<<a, g[<<Loop(g, e, t)[i], t[i + 1]>>]>>]
        BY <4>2, <2>2 DEF Foldable
      <4> QED
        BY <4>1, <4>3, <2>2
    <3> QED
      BY <3>1, <3>2
  <2> QED
    BY <2>3
<1> HIDE DEF P
<1>5. \A i \in 0 .. m : i \in P
  BY <1>1, <1>3, <1>4, UpTo
<1> QED
  BY <1>1, <1>5 DEF P

(* A sequence is as long as its indices.                                   *)
LEMMA Built ==
  ASSUME NEW D, NEW m \in Nat, NEW t, t = [i \in 1 .. m |-> t[i]], \A i \in 1 .. m : t[i] \in D
  PROVE  t \in Seq(D) /\ Len(t) = m
<1>1. t \in [1 .. m -> D]
  OBVIOUS
<1> QED
  BY <1>1, LenProperties, IsASeq

(* The results of the blocks.                                              *)
LEMMA SumsOfBlocks ==
  ASSUME NEW D, NEW g, NEW e, Foldable(g, e, D), NEW s \in Seq(D),
         NEW nb, nb = BlockCount(s), nb > 1,
         NEW S, S = [j \in 1 .. nb |-> Fold(g, e, Block(s, j))]
  PROVE  S \in Seq(D) /\ Len(S) = nb
<1>1. nb \in Nat
  BY Edges
<1>2. ASSUME NEW j \in 1 .. nb PROVE S[j] \in D
  <2>1. Block(s, j) \in Seq(D)
    BY BlockEntries
  <2>2. Len(Block(s, j)) \in Nat
    BY <2>1
  <2>3. Fold(g, e, Block(s, j)) \in D
    BY <2>1, <2>2, LoopType DEF Fold, Foldable
  <2> QED
    BY <2>3
<1>3. S = [j \in 1 .. nb |-> S[j]]
  OBVIOUS
<1> QED
  BY <1>1, <1>2, <1>3, Built

(* The loop over the results of the blocks comes, at each block, to what   *)
(* the loop over the entries comes to at its end.                          *)
LEMMA BlocksForward ==
  ASSUME NEW D, NEW g, NEW e, Foldable(g, e, D), NEW z \in D, NEW s \in Seq(D), NEW n, n = Len(s),
         NEW nb, nb = BlockCount(s), nb > 1,
         NEW S \in Seq(D), Len(S) = nb, \A j \in 1 .. nb : S[j] = Fold(g, e, Block(s, j))
  PROVE  \A j \in 0 .. nb : Loop(g, z, S)[j] = Loop(g, z, s)[Edge(s, j)]
<1> DEFINE P == {j \in Nat : j \in 0 .. nb => Loop(g, z, S)[j] = Loop(g, z, s)[Edge(s, j)]}
<1>1. n \in Nat /\ nb \in Nat
  BY Edges
<1>3. /\ Loop(g, z, S)[0] = z
      /\ \A j \in 1 .. nb : Loop(g, z, S)[j] = g[<<Loop(g, z, S)[j - 1], S[j]>>]
  BY <1>1, LoopSteps
<1>4. 0 \in P
  <2>1. Loop(g, z, s)[0] = z
    BY <1>1, LoopSteps
  <2> QED
    BY <1>3, <2>1, Edges
<1>5. ASSUME NEW j \in 0 .. nb - 1, j \in P PROVE j + 1 \in P
  <2> DEFINE lo == Edge(s, j)
             hi == Edge(s, j + 1)
             b  == Block(s, j + 1)
             a  == Loop(g, z, s)[lo]
  <2>1. /\ j + 1 \in 1 .. nb /\ j \in 0 .. nb /\ (j + 1) - 1 = j /\ j + 1 \in 0 .. nb
    BY <1>1
  <2>2. lo \in 0 .. n /\ hi \in 0 .. n /\ lo < hi
    BY <2>1, Edges
  <2>3. b \in Seq(D) /\ Len(b) = hi - lo /\ \A i \in 1 .. hi - lo : b[i] = s[lo + i]
    BY <2>1, BlockEntries
  <2>4. S[j + 1] = Loop(g, e, b)[hi - lo]
    BY <2>1, <2>3 DEF Fold
  <2>5. Loop(g, z, S)[j] = a
    BY <2>1, <1>5
  <2> HIDE DEF lo, hi, b
  <2>6. a \in D
    BY <2>2, LoopType DEF Foldable
  <2> HIDE DEF a
  <2>7. hi - lo \in 1 .. hi - lo /\ hi - lo \in 0 .. hi - lo /\ lo \in Nat /\ lo + (hi - lo) = hi
         /\ hi - lo \in Nat /\ lo + (hi - lo) <= n
    BY <2>2, <1>1
  <2>8. \A i \in 1 .. hi - lo : g[<<a, Loop(g, e, b)[i]>>] = Loop(g, a, b)[i]
    BY <2>3, <2>6, LoopAbsorb
  <2>9. \A i \in 0 .. hi - lo : Loop(g, a, b)[i] = Loop(g, z, s)[lo + i]
    <3>1. Piece(b, s, lo) /\ a = Loop(g, z, s)[lo]
      BY <2>3, <2>7 DEF a, Piece
    <3>2. \A i \in 0 .. Len(b) : Loop(g, a, b)[i] = Loop(g, z, s)[lo + i]
      BY <2>3, <2>7, <3>1, LoopOn
    <3> QED
      BY <3>2, <2>3
  <2>10. Loop(g, z, S)[j + 1] = g[<<a, Loop(g, e, b)[hi - lo]>>]
    BY <2>1, <2>4, <2>5, <1>3
  <2>11. Loop(g, z, S)[j + 1] = Loop(g, z, s)[hi]
    BY <2>7, <2>8, <2>9, <2>10
  <2> QED
    BY <2>11 DEF hi
<1> HIDE DEF P
<1>6. \A j \in 0 .. nb : j \in P
  BY <1>1, <1>4, <1>5, UpTo
<1> QED
  BY <1>1, <1>6 DEF P

(* The results of the blocks fold to what the entries fold to.             *)
LEMMA FoldOfSums ==
  ASSUME NEW h, NEW m, NEW g, g = Into(m, h), NEW D, NEW e, Foldable(g, e, D),
         NEW s \in Seq(D), BlockCount(s) > 1
  PROVE  /\ Sums(h, m, s, e) \in Seq(D) /\ Len(Sums(h, m, s, e)) = BlockCount(s)
         /\ \A j \in 1 .. BlockCount(s) : Sums(h, m, s, e)[j] = Fold(g, e, Block(s, j))
         /\ \A z \in D : Fold(g, z, Sums(h, m, s, e)) = Fold(g, z, s)
<1> DEFINE nb == BlockCount(s)
           S  == Sums(h, m, s, e)
<1>1. S = [j \in 1 .. nb |-> Fold(g, e, Block(s, j))]
  BY Zenon DEF Sums, ReduceSerial
<1>2. S \in Seq(D) /\ Len(S) = nb
  <2> HIDE DEF S, nb
  <2> QED
    BY <1>1, SumsOfBlocks DEF nb
<1>3. \A j \in 1 .. nb : S[j] = Fold(g, e, Block(s, j))
  <2> HIDE DEF S, nb
  <2> QED
    BY <1>1
<1> HIDE DEF S
<1>4. ASSUME NEW z \in D PROVE Fold(g, z, S) = Fold(g, z, s)
  <2>1. nb \in 0 .. nb /\ nb = BlockCount(s) /\ nb > 1
    BY Edges
  <2> HIDE DEF nb
  <2>2. \A j \in 0 .. nb : Loop(g, z, S)[j] = Loop(g, z, s)[Edge(s, j)]
    BY <1>2, <1>3, <2>1, BlocksForward
  <2>3. Edge(s, nb) = Len(s)
    BY <2>1, Edges
  <2> QED
    BY <1>2, <2>1, <2>2, <2>3 DEF Fold
<1> QED
  BY <1>2, <1>3, <1>4 DEF S

(* reduce, however often it calls itself.                                  *)
LEMMA ReduceFolds ==
  ASSUME NEW h, NEW m, NEW g, g = Into(m, h), NEW e, Foldable(g, e, Word(m)),
         NEW s \in Seq(Word(m))
  PROVE  Reduce(h, m, s, e) = Fold(g, e, s)
<1> DEFINE D == Word(m)
           Next1(r, t) == IF BlockCount(t) <= 1 THEN ReduceSerial(h, m, t, e) ELSE r[Sums(h, m, t, e)]
           folds == [t \in Seq(D) |-> Fold(g, e, t)]
<1>1. ASSUME NEW t \in Seq(D), ~(BlockCount(t) <= 1)
      PROVE  /\ Sums(h, m, t, e) \in Seq(D) /\ Len(Sums(h, m, t, e)) < Len(t)
             /\ Fold(g, e, Sums(h, m, t, e)) = Fold(g, e, t)
  <2>1. BlockCount(t) \in Nat
    <3>1. Len(t) \in Nat
      OBVIOUS
    <3> QED
      BY <3>1, EnoughBlocks DEF BlockCount
  <2>2. BlockCount(t) > 1
    BY <1>1, <2>1
  <2>3. e \in D
    BY DEF Foldable
  <2> HIDE DEF D
  <2>4. BlockCount(t) < Len(t)
    BY <2>2, Edges
  <2>5. Foldable(g, e, D)
    BY DEF D
  <2> QED
    BY <2>2, <2>3, <2>4, <2>5, FoldOfSums
<1>2. folds = [t \in Seq(D) |-> Next1(folds, t)]
  <2>1. ASSUME NEW t \in Seq(D) PROVE Fold(g, e, t) = Next1(folds, t)
    <3>1. CASE BlockCount(t) <= 1
      BY <3>1 DEF ReduceSerial
    <3>2. CASE ~(BlockCount(t) <= 1)
      BY <3>2, <1>1
    <3> QED
      BY <3>1, <3>2
  <2> QED
    BY <2>1, Zenon
<1> DEFINE reduce == CHOOSE r : r = [t \in Seq(D) |-> Next1(r, t)]
<1>3. reduce = [t \in Seq(D) |-> Next1(reduce, t)]
  <2> HIDE DEF folds
  <2> QED
    BY <1>2, Zenon
<1>4. Reduce(h, m, s, e) = reduce[s]
  BY Zenon DEF Reduce
<1> HIDE DEF reduce, D
<1> DEFINE P == {n \in Nat : \A t \in Seq(D) : Len(t) = n => reduce[t] = Fold(g, e, t)}
<1>5. ASSUME NEW n \in Nat, \A k \in 0 .. n - 1 : k \in P PROVE n \in P
  <2>1. SUFFICES ASSUME NEW t \in Seq(D), Len(t) = n PROVE reduce[t] = Fold(g, e, t)
    OBVIOUS
  <2>2. reduce[t] = Next1(reduce, t)
    BY <1>3
  <2>3. CASE BlockCount(t) <= 1
    BY <2>2, <2>3 DEF ReduceSerial
  <2>4. CASE ~(BlockCount(t) <= 1)
    <3> DEFINE S == Sums(h, m, t, e)
    <3>1. S \in Seq(D) /\ Len(S) < n /\ Fold(g, e, S) = Fold(g, e, t)
      BY <2>1, <2>4, <1>1 DEF D
    <3>2. reduce[t] = reduce[S]
      BY <2>2, <2>4
    <3> HIDE DEF S
    <3>3. Len(S) \in 0 .. n - 1
      BY <3>1
    <3>4. Len(S) \in P
      BY <3>3, <1>5
    <3> QED
      BY <3>1, <3>2, <3>4
  <2> QED
    BY <2>3, <2>4
<1> HIDE DEF P
<1>6. \A n \in Nat : n \in P
  BY <1>5, Course
<1>7. Len(s) \in P /\ s \in Seq(D)
  BY <1>6 DEF D
<1> QED
  BY <1>4, <1>7 DEF P

-----------------------------------------------------------------------------
(* The arguments of the calls.                                             *)

(* What every call is given, and keeps.                                    *)
Given ==
  /\ mod \in Nat /\ BlockSize < mod /\ mod <= OutMod
  /\ array \in Seq(Word(mod)) /\ Len(array) < SizeMod
  /\ f \in [Word(OutMod) \X Word(OutMod) -> Word(OutMod)]
  /\ zeroType.mod \in Nat \ {0} /\ zero \in Nat
  /\ inclusive \in BOOLEAN /\ back \in BOOLEAN
  /\ bits \in Seq({0, 1}) /\ Len(bits) < SizeMod

(* An addition stays in its type.                                          *)
LEMMA SumType ==
  ASSUME NEW m \in Nat \ {0}
  PROVE  /\ Sum(m) \in [Word(m) \X Word(m) -> Word(m)]
         /\ \A x, y \in Word(m) : Sum(m)[<<x, y>>] = (x + y) % m
<1>1. ASSUME NEW x \in Word(m), NEW y \in Word(m) PROVE (x + y) % m \in Word(m)
  <2>1. x + y \in Nat
    BY DEF Word
  <2> QED
    BY <2>1, DivMod DEF Word
<1>2. \A x, y \in Word(m) : Sum(m)[<<x, y>>] = (x + y) % m
  BY DEF Sum
<1>3. \A p \in Word(m) \X Word(m) : (p[1] + p[2]) % m \in Word(m)
  BY <1>1
<1> QED
  BY <1>2, <1>3 DEF Sum

(* An array of at most so many entries.                                    *)
LEMMA ArraysType ==
  ASSUME NEW D, NEW K \in Nat, NEW t \in UNION {[1 .. n -> D] : n \in 0 .. K}
  PROVE  t \in Seq(D) /\ Len(t) \in 0 .. K
<1>1. PICK n \in 0 .. K : t \in [1 .. n -> D]
  OBVIOUS
<1> QED
  BY <1>1, IsASeq, LenProperties

(* Every call begins with such arguments.                                  *)
LEMMA GivenInit == CheckInit => Given
<1> SUFFICES ASSUME CheckInit PROVE Given
  OBVIOUS
<1> USE GangAlgoAssumption, GangAlgoCheckAssumption
<1>1. MaxLength \in Nat /\ MaxBits \in Nat /\ MaxLength < SizeMod /\ MaxBits < SizeMod /\ 0 < SizeMod
  OBVIOUS
<1>2. <<>> \in Seq(Word(OutMod)) /\ <<>> \in Seq({0, 1}) /\ Len(<<>>) = 0
  BY EmptySeq
<1>3. /\ Sum(OutMod) \in [Word(OutMod) \X Word(OutMod) -> Word(OutMod)]
      /\ 0 \in Word(OutMod)
  <2>1. OutMod \in Nat \ {0}
    OBVIOUS
  <2>2. Sum(OutMod) \in [Word(OutMod) \X Word(OutMod) -> Word(OutMod)]
    BY <2>1, SumType
  <2>3. 0 \in Word(OutMod)
    BY <2>1 DEF Word
  <2> QED
    BY <2>2, <2>3
<1>4. CASE NoCall
  <2>1. bits \in Seq({0, 1}) /\ Len(bits) < SizeMod
    <3>1. CASE bits = <<>>
      BY <1>1, <1>2, <3>1
    <3>2. CASE bits \in UNION {[1 .. n -> {0, 1}] : n \in 1 .. MaxBits}
      <4>1. bits \in UNION {[1 .. n -> {0, 1}] : n \in 0 .. MaxBits}
        BY <3>2
      <4> QED
        BY <4>1, <1>1, ArraysType
    <3> QED
      BY <1>4, <3>1, <3>2 DEF CheckInit, Call, BitsCall
  <2>2. array \in Seq(Word(mod)) /\ Len(array) < SizeMod
    BY <1>1, <1>2, <1>4 DEF NoCall
  <2>3. mod \in Nat /\ BlockSize < mod /\ mod <= OutMod
    BY <1>4 DEF NoCall
  <2>4. /\ f \in [Word(OutMod) \X Word(OutMod) -> Word(OutMod)]
        /\ zeroType.mod \in Nat \ {0} /\ zero \in Nat
        /\ inclusive \in BOOLEAN /\ back \in BOOLEAN
    <3>1. zeroType.mod = OutMod
      BY <1>4 DEF NoCall, Unsigned
    <3>2. /\ f \in [Word(OutMod) \X Word(OutMod) -> Word(OutMod)]
          /\ zero \in Nat /\ inclusive \in BOOLEAN /\ back \in BOOLEAN
      BY <1>3, <1>4 DEF NoCall
    <3> QED
      BY <3>1, <3>2
  <2> QED
    BY <2>1, <2>2, <2>3, <2>4 DEF Given
<1>5. CASE Call
  <2>1. array \in UNION {[1 .. n -> Word(mod)] : n \in 0 .. MaxLength}
    BY <1>5 DEF Call
  <2>2. array \in Seq(Word(mod)) /\ Len(array) < SizeMod
    BY <2>1, <1>1, ArraysType
  <2>3. bits \in Seq({0, 1}) /\ Len(bits) < SizeMod
    BY <1>1, <1>2, <1>5 DEF Call
  <2>4. zeroType.mod \in Nat \ {0} /\ zero \in Nat
    BY <1>5 DEF Call, Word
  <2> QED
    BY <1>5, <2>2, <2>3, <2>4 DEF Call, Given
<1> QED
  BY <1>4, <1>5 DEF CheckInit, BitsCall

(* They do not change.                                                     *)
LEMMA GivenKept == CheckSpec => []Given
<1>1. Given /\ [UNCHANGED <<jobVars, algoVars>>]_<<jobVars, algoVars>> => Given'
  BY DEF Given, algoVars
<1> QED
  BY GivenInit, <1>1, PTL DEF CheckSpec

(* What g makes of two numbers of a type is of that type.                  *)
Closed(g, D) == \A x, y \in D : <<x, y>> \in DOMAIN g /\ g[<<x, y>>] \in D

(* A result that fits its type is stored unchanged.                        *)
LEMMA Stored ==
  ASSUME NEW m \in Nat, NEW g, Closed(g, Word(m))
  PROVE  \A x, y \in Word(m) : Into(m, g)[<<x, y>>] = g[<<x, y>>]
<1> SUFFICES ASSUME NEW x \in Word(m), NEW y \in Word(m) PROVE Into(m, g)[<<x, y>>] = g[<<x, y>>]
  OBVIOUS
<1>1. <<x, y>> \in DOMAIN g /\ g[<<x, y>>] \in Word(m)
  BY DEF Closed
<1>2. Into(m, g)[<<x, y>>] = g[<<x, y>>] % m
  BY <1>1 DEF Into
<1>3. g[<<x, y>>] \in 0 .. m - 1
  BY <1>1 DEF Word
<1>4. g[<<x, y>>] % m = g[<<x, y>>]
  BY <1>3
<1> QED
  BY <1>2, <1>4

(* What a variable of any type holds is read as a number of the type that  *)
(* reads it.                                                               *)
LEMMA AsType ==
  ASSUME NEW m \in Nat \ {0}, NEW z, z.mod \in Nat \ {0}, NEW v \in Nat
  PROVE  As(m, z, v) \in Word(m)
<1> DEFINE w == v % z.mod
           x == IF z.signed /\ 2 * w >= z.mod THEN w - z.mod ELSE w
<1>1. w \in Int /\ z.mod \in Int
  BY DivMod
<1> HIDE DEF w
<1>2. x \in Int
  BY <1>1
<1>3. As(m, z, v) = x % m
  BY DEF As, w
<1> HIDE DEF x
<1>4. x % m \in 0 .. m - 1
  BY <1>2
<1> QED
  BY <1>3, <1>4 DEF Word

(* For every array, of any length, and every block size: reduce returns    *)
(* what one loop over the array returns, whatever the blocks and however   *)
(* often it calls itself, when the operation is associative and zero is    *)
(* its left identity.                                                      *)
THEOREM ReduceCorrect == CheckSpec => []ReduceIsSerial
<1>1. Given => ReduceIsSerial
  <2> SUFFICES ASSUME Given, Reducible PROVE Reduce(f, mod, array, ReduceZero) = Fold(f, ReduceZero, array)
    BY DEF ReduceIsSerial
  <2> DEFINE D == Word(mod)
             e == ReduceZero
             g == Into(mod, f)
  <2>1. mod \in Nat /\ D \subseteq Word(OutMod) /\ DOMAIN f = Word(OutMod) \X Word(OutMod)
    BY GangAlgoCheckAssumption DEF Given, Word
  <2>2. /\ \A x, y \in D : f[<<x, y>>] \in D
        /\ e \in D
        /\ \A x, y, w \in D : f[<<f[<<x, y>>], w>>] = f[<<x, f[<<y, w>>]>>]
        /\ \A x \in D : f[<<e, x>>] = x
    <3>1. mod \in Nat \ {0}
      BY GangAlgoAssumption DEF Given
    <3>2. e \in D
      BY <3>1, AsType DEF Given, ReduceZero
    <3> QED
      BY <3>2 DEF Reducible, Associative, LeftIdentity
  <2> HIDE DEF e
  <2>3. \A x, y \in D : g[<<x, y>>] = f[<<x, y>>]
    <3>1. Closed(f, Word(mod))
      BY <2>1, <2>2 DEF Closed
    <3> QED
      BY <2>1, <3>1, Stored
  <2>4. array \in Seq(D)
    BY DEF Given
  <2>5. g = Into(mod, f)
    OBVIOUS
  <2> HIDE DEF g
  <2>6. Foldable(g, e, D) /\ Steps(f, D, D)
    BY <2>2, <2>3 DEF Foldable, Steps
  <2>7. Reduce(f, mod, array, e) = Fold(g, e, array)
    BY <2>4, <2>5, <2>6, ReduceFolds
  <2> HIDE DEF D
  <2>8. Len(array) \in Nat
    BY <2>4
  <2>9. \A i \in 0 .. Len(array) : Loop(g, e, array)[i] = Loop(f, e, array)[i]
    BY <2>2, <2>3, <2>4, <2>6, LoopSame
  <2> QED
    BY <2>7, <2>8, <2>9 DEF Fold, e
<1> QED
  BY <1>1, GivenKept, PTL

-----------------------------------------------------------------------------
(* Scans.                                                                  *)

(* The order of the loop, and the place of an index in it.                 *)
Ordered(s, backward) == IF backward THEN Reverse(s) ELSE s
Place(n, i, backward) == IF backward THEN n + 1 - i ELSE i

(* Places are indices, and the index at the place of an index is itself.   *)
LEMMA Places ==
  ASSUME NEW n \in Nat, NEW k \in 1 .. n, NEW backward
  PROVE  Place(n, k, backward) \in 1 .. n /\ Place(n, Place(n, k, backward), backward) = k
BY DEF Place

(* An array from its end.                                                  *)
LEMMA Reversed ==
  ASSUME NEW D, NEW s \in Seq(D), NEW n, n = Len(s)
  PROVE  /\ Reverse(s) \in Seq(D) /\ Len(Reverse(s)) = n
         /\ \A k \in 1 .. n : Reverse(s)[k] = s[n + 1 - k]
<1> DEFINE t == Reverse(s)
<1>1. n \in Nat /\ \A k \in 1 .. n : s[k] \in D
  BY ElementOfSeq
<1>2. t = [k \in 1 .. n |-> s[(n - k) + 1]]
  BY DEF Reverse
<1> HIDE DEF t
<1>3. \A k \in 1 .. n : (n - k) + 1 = n + 1 - k /\ n + 1 - k \in 1 .. n
  BY <1>1
<1>4. \A k \in 1 .. n : t[k] = s[n + 1 - k] /\ t[k] \in D
  BY <1>1, <1>2, <1>3
<1>5. t = [k \in 1 .. n |-> t[k]]
  BY <1>2
<1>6. t \in Seq(D) /\ Len(t) = n
  BY <1>1, <1>4, <1>5, Built
<1> QED
  BY <1>4, <1>6 DEF t

(* The k-th entry the loop comes to is the one whose place is k.           *)
LEMMA Order ==
  ASSUME NEW D, NEW s \in Seq(D), NEW n, n = Len(s), NEW backward
  PROVE  /\ Ordered(s, backward) \in Seq(D) /\ Len(Ordered(s, backward)) = n
         /\ \A k \in 1 .. n : Ordered(s, backward)[k] = s[Place(n, k, backward)]
<1>1. CASE backward
  BY <1>1, Reversed DEF Ordered, Place
<1>2. CASE ~backward
  BY <1>2 DEF Ordered, Place
<1> QED
  BY <1>1, <1>2

(* Folding forward what is combined with a value is folding backward from  *)
(* it, when the operation is commutative.                                  *)
LEMMA FoldReversed ==
  ASSUME NEW D, NEW g, NEW e, Foldable(g, e, D), \A x, y \in D : g[<<x, y>>] = g[<<y, x>>],
         NEW a \in D, NEW t \in Seq(D), NEW m, m = Len(t), m > 0
  PROVE  g[<<a, Loop(g, e, t)[m]>>] = Loop(g, a, Reverse(t))[m]
<1> DEFINE r == Reverse(t)
           A == Loop(g, a, r)
           F == Loop(g, e, t)
           P == {k \in Nat : k \in 0 .. m - 1 => g[<<A[k], F[m - k]>>] = g[<<a, F[m]>>]}
<1>1. m \in Nat /\ (\A i \in 1 .. m : t[i] \in D) /\ e \in D
  BY ElementOfSeq DEF Foldable
<1>2. r \in Seq(D) /\ Len(r) = m /\ \A k \in 1 .. m : r[k] = t[m + 1 - k]
  BY Reversed
<1> HIDE DEF r
<1>3. A[0] = a /\ \A k \in 1 .. m : A[k] = g[<<A[k - 1], r[k]>>]
  BY <1>1, <1>2, LoopSteps
<1>4. F[0] = e /\ \A i \in 1 .. m : F[i] = g[<<F[i - 1], t[i]>>]
  BY <1>1, LoopSteps
<1>5. \A k \in 0 .. m : A[k] \in D
  BY <1>2, LoopType DEF Foldable
<1>6. \A i \in 0 .. m : F[i] \in D
  BY <1>1, LoopType DEF Foldable
<1> HIDE DEF A, F
<1>7. 0 \in P
  <2>1. m - 0 = m
    BY <1>1
  <2> QED
    BY <1>3, <2>1
<1>8. ASSUME NEW k \in 0 .. (m - 1) - 1, k \in P PROVE k + 1 \in P
  <2> DEFINE i == m - k
  <2>1. /\ k \in 0 .. m /\ k \in 0 .. m - 1 /\ k + 1 \in 1 .. m /\ k + 1 \in Nat /\ (k + 1) - 1 = k
        /\ i \in 1 .. m /\ i - 1 \in 0 .. m /\ m - (k + 1) = i - 1 /\ m + 1 - (k + 1) = i
    BY <1>1
  <2> HIDE DEF i
  <2>2. g[<<A[k], F[i]>>] = g[<<a, F[m]>>]
    BY <2>1, <1>8 DEF i
  <2>3. F[i] = g[<<F[i - 1], t[i]>>] /\ t[i] \in D /\ F[i - 1] \in D /\ A[k] \in D
    BY <2>1, <1>1, <1>4, <1>5, <1>6
  <2>4. g[<<F[i - 1], t[i]>>] = g[<<t[i], F[i - 1]>>]
    BY <2>3
  <2>5. g[<<g[<<A[k], t[i]>>], F[i - 1]>>] = g[<<A[k], g[<<t[i], F[i - 1]>>]>>]
    BY <2>3 DEF Foldable
  <2>6. A[k + 1] = g[<<A[k], t[i]>>]
    BY <2>1, <1>2, <1>3
  <2>7. g[<<A[k + 1], F[i - 1]>>] = g[<<A[k], F[i]>>]
    BY <2>3, <2>4, <2>5, <2>6, Zenon
  <2>8. g[<<A[k + 1], F[m - (k + 1)]>>] = g[<<a, F[m]>>]
    BY <2>1, <2>2, <2>7
  <2> QED
    BY <2>1, <2>8
<1> HIDE DEF P
<1>9. \A k \in 0 .. m - 1 : k \in P
  <2>1. m - 1 \in Nat
    BY <1>1
  <2> QED
    BY <1>7, <1>8, <2>1, UpTo
<1>10. g[<<A[m - 1], F[1]>>] = g[<<a, F[m]>>]
  <2>1. m - 1 \in 0 .. m - 1 /\ m - 1 \in Nat /\ m - (m - 1) = 1
    BY <1>1
  <2> QED
    BY <2>1, <1>9 DEF P
<1>11. F[1] = t[1]
  <2>1. 1 \in 1 .. m /\ 1 - 1 = 0
    BY <1>1
  <2>2. F[1] = g[<<e, t[1]>>] /\ t[1] \in D
    BY <2>1, <1>1, <1>4
  <2> QED
    BY <2>2 DEF Foldable
<1>12. A[m] = g[<<A[m - 1], t[1]>>]
  <2>1. m \in 1 .. m /\ m + 1 - m = 1
    BY <1>1
  <2> QED
    BY <2>1, <1>2, <1>3
<1> QED
  BY <1>10, <1>11, <1>12 DEF A, F, r

(* A piece of an array, reversed, is a piece of the array reversed.        *)
LEMMA PieceReversed ==
  ASSUME NEW D, NEW s \in Seq(D), NEW n, n = Len(s), NEW t \in Seq(D), NEW m, m = Len(t),
         NEW c \in Nat, Piece(t, s, c)
  PROVE  n - (c + m) \in Nat /\ Piece(Reverse(t), Reverse(s), n - (c + m))
<1>1. n \in Nat /\ m \in Nat /\ c + m <= n /\ \A i \in 1 .. m : t[i] = s[c + i]
  BY DEF Piece
<1>2. Len(Reverse(t)) = m /\ \A k \in 1 .. m : Reverse(t)[k] = t[m + 1 - k]
  BY Reversed
<1>3. Len(Reverse(s)) = n /\ \A k \in 1 .. n : Reverse(s)[k] = s[n + 1 - k]
  BY Reversed
<1> DEFINE d == n - (c + m)
<1>4. d \in Nat /\ d + m <= n
  BY <1>1
<1>5. ASSUME NEW k \in 1 .. m PROVE Reverse(t)[k] = Reverse(s)[d + k]
  <2>1. m + 1 - k \in 1 .. m /\ d + k \in 1 .. n /\ n + 1 - (d + k) = c + (m + 1 - k)
    BY <1>1
  <2> HIDE DEF d
  <2>2. Reverse(t)[k] = s[c + (m + 1 - k)]
    BY <2>1, <1>1, <1>2
  <2>3. Reverse(s)[d + k] = s[c + (m + 1 - k)]
    BY <2>1, <1>3
  <2> QED
    BY <2>2, <2>3
<1> HIDE DEF d
<1> QED
  BY <1>2, <1>3, <1>4, <1>5 DEF Piece, d

(* A block is a piece of the array.                                        *)
LEMMA BlockPiece ==
  ASSUME NEW D, NEW s \in Seq(D), NEW nb, nb = BlockCount(s), nb > 1, NEW j \in 1 .. nb
  PROVE  /\ Edge(s, j - 1) \in Nat /\ Edge(s, j) \in Nat /\ Edge(s, j) <= Len(s)
         /\ Block(s, j) \in Seq(D) /\ Len(Block(s, j)) \in Nat \ {0}
         /\ Edge(s, j - 1) + Len(Block(s, j)) = Edge(s, j)
         /\ Piece(Block(s, j), s, Edge(s, j - 1))
<1> DEFINE n == Len(s)
           lo == Edge(s, j - 1)
           hi == Edge(s, j)
           b == Block(s, j)
<1>1. n \in Nat /\ lo \in 0 .. n /\ hi \in 0 .. n /\ lo < hi
  <2>1. nb \in Nat
    BY Edges
  <2>2. j \in 0 .. nb /\ j - 1 \in 0 .. nb
    BY <2>1
  <2> QED
    BY <2>2, Edges
<1>2. b \in Seq(D) /\ Len(b) = hi - lo /\ \A i \in 1 .. hi - lo : b[i] = s[lo + i]
  BY BlockEntries
<1> HIDE DEF lo, hi, b
<1>3. Len(b) \in Nat \ {0} /\ lo + Len(b) = hi /\ Piece(b, s, lo)
  BY <1>1, <1>2 DEF Piece
<1> QED
  BY <1>1, <1>2, <1>3 DEF lo, hi, b

(* When the operation is commutative, a loop over the results of the       *)
(* blocks from the last to the first comes, at each block, to what a loop  *)
(* over the entries from the last to the first comes to at its beginning.  *)
LEMMA BlocksBackward ==
  ASSUME NEW D, NEW g, NEW e, Foldable(g, e, D), \A x, y \in D : g[<<x, y>>] = g[<<y, x>>],
         NEW z \in D, NEW s \in Seq(D), NEW n, n = Len(s),
         NEW nb, nb = BlockCount(s), nb > 1,
         NEW S \in Seq(D), Len(S) = nb, \A j \in 1 .. nb : S[j] = Fold(g, e, Block(s, j))
  PROVE  \A k \in 0 .. nb :
           Loop(g, z, Reverse(S))[k] = Loop(g, z, Reverse(s))[n - Edge(s, nb - k)]
<1> DEFINE T == Reverse(S)
           t == Reverse(s)
           P == {k \in Nat : k \in 0 .. nb => Loop(g, z, T)[k] = Loop(g, z, t)[n - Edge(s, nb - k)]}
<1>1. n \in Nat /\ nb \in Nat
  BY Edges
<1>2. T \in Seq(D) /\ Len(T) = nb /\ \A k \in 1 .. nb : T[k] = S[nb + 1 - k]
  BY Reversed
<1>3. t \in Seq(D) /\ Len(t) = n
  BY Reversed
<1> HIDE DEF T, t
<1>4. /\ Loop(g, z, T)[0] = z
      /\ \A k \in 1 .. nb : Loop(g, z, T)[k] = g[<<Loop(g, z, T)[k - 1], T[k]>>]
  BY <1>1, <1>2, LoopSteps
<1>5. 0 \in P
  <2>1. Loop(g, z, t)[0] = z
    BY <1>1, <1>3, LoopSteps
  <2>2. nb - 0 = nb /\ Edge(s, nb) = n /\ n - n = 0
    BY <1>1, Edges
  <2> QED
    BY <1>4, <2>1, <2>2
<1>6. ASSUME NEW k \in 0 .. nb - 1, k \in P PROVE k + 1 \in P
  <2> DEFINE j == nb - k
             b == Block(s, j)
             m == Len(b)
             c == n - Edge(s, j)
             a == Loop(g, z, t)[c]
  <2>1. /\ j \in 1 .. nb /\ nb - (k + 1) = j - 1 /\ nb + 1 - (k + 1) = j
        /\ k + 1 \in 1 .. nb /\ k \in 0 .. nb /\ (k + 1) - 1 = k
    BY <1>1
  <2> HIDE DEF j
  <2>2. /\ Edge(s, j - 1) \in Nat /\ Edge(s, j) \in Nat /\ Edge(s, j) <= n
        /\ b \in Seq(D) /\ m \in Nat \ {0} /\ Edge(s, j - 1) + m = Edge(s, j)
        /\ Piece(b, s, Edge(s, j - 1))
    <3> HIDE DEF P
    <3>1. /\ Edge(s, j - 1) \in Nat /\ Edge(s, j) \in Nat /\ Edge(s, j) <= Len(s)
          /\ Block(s, j) \in Seq(D) /\ Len(Block(s, j)) \in Nat \ {0}
          /\ Edge(s, j - 1) + Len(Block(s, j)) = Edge(s, j)
          /\ Piece(Block(s, j), s, Edge(s, j - 1))
      BY <2>1, BlockPiece
    <3> QED
      BY <3>1
  <2> HIDE DEF b
  <2>3. c \in Nat /\ Piece(Reverse(b), t, c)
    <3> HIDE DEF P, m, c
    <3>1. m = Len(b)
      BY DEF m
    <3>2. /\ n - (Edge(s, j - 1) + m) \in Nat
          /\ Piece(Reverse(b), Reverse(s), n - (Edge(s, j - 1) + m))
      BY <2>2, <3>1, PieceReversed
    <3>3. n - (Edge(s, j - 1) + m) = c
      BY <2>2 DEF c
    <3> QED
      BY <3>2, <3>3 DEF t
  <2>4. c \in 0 .. n
    BY <2>2, <2>3
  <2>5. Loop(g, z, T)[k] = a
    BY <2>1, <1>6 DEF j
  <2>6. c + m = n - Edge(s, nb - (k + 1))
    <3>1. Edge(s, nb - (k + 1)) = Edge(s, j - 1)
      BY <2>1
    <3>2. c + m = n - Edge(s, j - 1)
      BY <2>2, <1>1
    <3> QED
      BY <3>1, <3>2
  <2> HIDE DEF c
  <2>7. a \in D
    BY <2>4, <1>3, LoopType DEF Foldable
  <2>8. T[k + 1] = Loop(g, e, b)[m]
    BY <2>1, <1>2 DEF Fold, b
  <2>9. Reverse(b) \in Seq(D) /\ Len(Reverse(b)) = m
    BY <2>2, Reversed
  <2> HIDE DEF a, m
  <2>10. g[<<a, Loop(g, e, b)[m]>>] = Loop(g, a, Reverse(b))[m]
    <3>1. m = Len(b) /\ m > 0 /\ b \in Seq(D)
      BY <2>2 DEF m
    <3> QED
      BY <2>7, <3>1, FoldReversed
  <2>11. Loop(g, a, Reverse(b))[m] = Loop(g, z, t)[c + m]
    <3>1. \A i \in 0 .. Len(Reverse(b)) : Loop(g, a, Reverse(b))[i] = Loop(g, z, t)[c + i]
      BY <2>3, <2>9, <1>3, LoopOn DEF a
    <3> QED
      BY <3>1, <2>2, <2>9
  <2>12. Loop(g, z, T)[k + 1] = g[<<a, Loop(g, e, b)[m]>>]
    BY <2>1, <2>5, <2>8, <1>4
  <2>13. Loop(g, z, T)[k + 1] = Loop(g, z, t)[n - Edge(s, nb - (k + 1))]
    BY <2>6, <2>10, <2>11, <2>12
  <2> QED
    BY <2>13
<1> HIDE DEF P
<1>7. \A k \in 0 .. nb : k \in P
  BY <1>1, <1>5, <1>6, UpTo
<1> QED
  BY <1>1, <1>7 DEF P, T, t

(* How many entries the loop has seen when it writes the one at place i.   *)
Seen(i, incl) == IF incl THEN i ELSE i - 1

(* What the loop over the entries in their order makes of each of them.    *)
ScanForm(g, z, s, incl, backward) ==
  [total |-> Fold(g, z, Ordered(s, backward)),
   out   |-> [i \in 1 .. Len(s) |->
                Loop(g, z, Ordered(s, backward))[Seen(Place(Len(s), i, backward), incl)]]]

(* The loop of scanSerial, although it overwrites the array it reads.      *)
LEMMA ScanLoopForm ==
  ASSUME NEW D, NEW s \in Seq(D), NEW g, NEW z, NEW incl, NEW backward
  PROVE  ScanLoop(g, s, z, incl, backward) = ScanForm(g, z, s, incl, backward)
<1> DEFINE n == Len(s)
           t == Ordered(s, backward)
           L == Loop(g, z, t)
           at(k) == IF backward THEN n + 1 - k ELSE k
           out(k) == [i \in 1 .. n |-> IF Place(n, i, backward) <= k
                                       THEN L[Seen(Place(n, i, backward), incl)] ELSE s[i]]
           form == [k \in 0 .. n |-> [total |-> L[k], out |-> out(k)]]
           Next1(r, k) == IF k = 0 THEN [total |-> z, out |-> s]
                          ELSE ScanEntry(g, r[k - 1], at(k), incl)
           scan == CHOOSE r : r = [k \in 0 .. n |-> Next1(r, k)]
<1>1. n \in Nat
  OBVIOUS
<1>2. Len(t) = n /\ \A k \in 1 .. n : t[k] = s[Place(n, k, backward)]
  BY Order
<1>3. L[0] = z /\ \A k \in 1 .. n : L[k] = g[<<L[k - 1], t[k]>>]
  <2> HIDE DEF n, t
  <2> QED
    BY <1>1, <1>2, LoopSteps
<1> HIDE DEF t, L
<1>4. s = [i \in 1 .. n |-> s[i]]
  OBVIOUS
<1> HIDE DEF n
<1>5. form[0] = [total |-> z, out |-> s]
  <2>1. \A i \in 1 .. n : ~(Place(n, i, backward) <= 0)
    BY <1>1 DEF Place
  <2>2. out(0) = [i \in 1 .. n |-> s[i]]
    BY <2>1
  <2>3. form[0] = [total |-> L[0], out |-> out(0)]
    BY <1>1
  <2> HIDE DEF form, out
  <2> QED
    BY <1>3, <1>4, <2>2, <2>3, Zenon
<1>6. ASSUME NEW k \in 1 .. n PROVE form[k] = ScanEntry(g, form[k - 1], at(k), incl)
  <2> DEFINE p == at(k)
  <2>1. p = Place(n, k, backward)
    BY DEF Place
  <2>2. k - 1 \in 0 .. n /\ k \in 0 .. n /\ ~(k <= k - 1)
    BY <1>1
  <2>3. p \in 1 .. n /\ Place(n, p, backward) = k
    BY <1>1, <2>1, Places
  <2>4. \A i \in 1 .. n : Place(n, i, backward) \in 1 .. n /\ (i # p => Place(n, i, backward) # k)
    <3>1. \A i \in 1 .. n : Place(n, i, backward) \in 1 .. n
                            /\ Place(n, Place(n, i, backward), backward) = i
      BY <1>1, Places
    <3> QED
      BY <3>1, <2>1
  <2> HIDE DEF p
  <2>5. form[k - 1].total = L[k - 1] /\ form[k - 1].out = out(k - 1)
    BY <2>2
  <2>6. out(k - 1)[p] = s[p]
    BY <2>2, <2>3
  <2>7. g[<<L[k - 1], s[p]>>] = L[k]
    BY <1>2, <1>3, <2>1
  <2> DEFINE v == IF incl THEN L[k] ELSE L[k - 1]
  <2>8. [out(k - 1) EXCEPT ![p] = v] = out(k)
    <3>1. v = L[Seen(k, incl)]
      BY DEF Seen
    <3> HIDE DEF v
    <3>2. ASSUME NEW i \in 1 .. n PROVE [out(k - 1) EXCEPT ![p] = v][i] = out(k)[i]
      <4>1. CASE i = p
        BY <2>2, <2>3, <3>1, <4>1
      <4>2. CASE i # p
        <5>1. Place(n, i, backward) <= k <=> Place(n, i, backward) <= k - 1
          <6> DEFINE q == Place(n, i, backward)
          <6>1. q \in 1 .. n /\ q # k
            BY <2>4, <4>2
          <6> HIDE DEF q
          <6>2. q <= k <=> q <= k - 1
            BY <1>1, <6>1
          <6> QED
            BY <6>2 DEF q
        <5> QED
          BY <4>2, <5>1
      <4> QED
        BY <4>1, <4>2
    <3> QED
      BY <3>2
  <2>9. ScanEntry(g, form[k - 1], p, incl)
          = [total |-> L[k], out |-> [out(k - 1) EXCEPT ![p] = v]]
    <3> HIDE DEF form
    <3> QED
      BY <2>5, <2>6, <2>7 DEF ScanEntry
  <2>10. form[k] = [total |-> L[k], out |-> out(k)]
    BY <2>2
  <2> QED
    BY <2>8, <2>9, <2>10 DEF p
<1>7. form = [k \in 0 .. n |-> Next1(form, k)]
  <2>1. ASSUME NEW k \in 0 .. n PROVE form[k] = Next1(form, k)
    <3>1. CASE k = 0
      BY <3>1, <1>5
    <3>2. CASE k # 0
      <4>1. k \in 1 .. n
        BY <1>1, <3>2
      <4> HIDE DEF form
      <4> QED
        BY <3>2, <4>1, <1>6
    <3> QED
      BY <3>1, <3>2
  <2>2. form = [k \in 0 .. n |-> form[k]]
    OBVIOUS
  <2> HIDE DEF form
  <2> QED
    BY <2>1, <2>2, Zenon
<1>8. scan = [k \in 0 .. n |-> Next1(scan, k)]
  <2> HIDE DEF form
  <2> QED
    BY <1>7, Zenon
<1>9. ScanLoop(g, s, z, incl, backward) = scan[n]
  BY Zenon DEF ScanLoop, n
<1> DEFINE P == {k \in Nat : k \in 0 .. n => scan[k] = form[k]}
<1> HIDE DEF scan, form
<1>10. 0 \in P
  BY <1>1, <1>5, <1>8
<1>11. ASSUME NEW k \in 0 .. n - 1, k \in P PROVE k + 1 \in P
  <2>1. k + 1 \in 0 .. n /\ k + 1 \in 1 .. n /\ k + 1 # 0 /\ (k + 1) - 1 = k /\ k \in 0 .. n /\ k + 1 \in Nat
    BY <1>1
  <2>2. scan[k + 1] = ScanEntry(g, scan[k], at(k + 1), incl)
    BY <2>1, <1>8
  <2>3. form[k + 1] = ScanEntry(g, form[k], at(k + 1), incl)
    BY <2>1, <1>6
  <2>4. scan[k] = form[k]
    BY <2>1, <1>11
  <2> QED
    BY <2>1, <2>2, <2>3, <2>4
<1> HIDE DEF P
<1>12. \A k \in 0 .. n : k \in P
  BY <1>1, <1>10, <1>11, UpTo
<1>13. scan[n] = form[n]
  BY <1>1, <1>12 DEF P
<1>14. form[n] = [total |-> L[n], out |-> out(n)]
  BY <1>1 DEF form
<1>15. out(n) = [i \in 1 .. n |-> L[Seen(Place(n, i, backward), incl)]]
  <2>1. \A i \in 1 .. n : Place(n, i, backward) <= n
    BY <1>1, Places
  <2> QED
    BY <2>1
<1> QED
  BY <1>2, <1>9, <1>13, <1>14, <1>15, Zenon DEF ScanForm, Fold, n, t, L

(* The type z holds the running totals of the loop, read as numbers of m.  *)
Holds(m, z, g, a, s, backward) ==
  \A i \in 0 .. Len(s) : As(m, z, Loop(g, a, Ordered(s, backward))[i]) = Loop(g, a, Ordered(s, backward))[i]

(* scanSerial, when its running total fits the type of its zero.           *)
LEMMA ScanSerialForm ==
  ASSUME NEW m, NEW g, Closed(g, Word(m)), NEW s \in Seq(Word(m)), NEW z, NEW base,
         NEW a \in Word(m), a = As(m, z, base), NEW incl, NEW backward,
         Holds(m, z, g, a, s, backward)
  PROVE  ScanSerial(g, m, z, s, base, incl, backward) = ScanForm(g, a, s, incl, backward)
<1> DEFINE D == Word(m)
           n == Len(s)
           t == Ordered(s, backward)
           h == Through(m, z, g)
           L == Loop(g, a, t)
           M == Loop(h, a, t)
<1>1. t \in Seq(D) /\ Len(t) = n /\ n \in Nat
  BY Order
<1>2. Steps(g, D, D) /\ \A x, y \in D : h[<<x, y>>] = As(m, z, g[<<x, y>>])
  BY DEF Closed, Steps, Through
<1>3. \A i \in 0 .. n : As(m, z, L[i]) = L[i]
  BY DEF Holds
<1>4. ScanSerial(g, m, z, s, base, incl, backward) = ScanLoop(h, s, a, incl, backward)
  BY DEF ScanSerial
<1>5. ScanLoop(h, s, a, incl, backward) = ScanForm(h, a, s, incl, backward)
  BY ScanLoopForm, Zenon
<1>6. \A i \in 1 .. n : Place(n, i, backward) \in 1 .. n
  BY <1>1, Places
<1> HIDE DEF D, n, t, h
<1>7. (\A i \in 0 .. n : L[i] \in D) /\ \A i \in 1 .. n : t[i] \in D
  <2>1. a \in D
    BY DEF D
  <2> QED
    BY <1>1, <1>2, <2>1, LoopType, ElementOfSeq
<1>8. /\ L[0] = a /\ \A i \in 1 .. n : L[i] = g[<<L[i - 1], t[i]>>]
      /\ M[0] = a /\ \A i \in 1 .. n : M[i] = h[<<M[i - 1], t[i]>>]
  <2>1. ASSUME NEW k, NEW b
        PROVE  /\ Loop(k, b, t)[0] = b
               /\ \A i \in 1 .. n : Loop(k, b, t)[i] = k[<<Loop(k, b, t)[i - 1], t[i]>>]
    <3>1. n \in Nat /\ Len(t) = n
      BY <1>1
    <3> HIDE DEF L, M
    <3> QED
      BY <3>1, LoopSteps
  <2>2. L[0] = a /\ \A i \in 1 .. n : L[i] = g[<<L[i - 1], t[i]>>]
    BY <2>1
  <2>3. M[0] = a /\ \A i \in 1 .. n : M[i] = h[<<M[i - 1], t[i]>>]
    BY <2>1
  <2> HIDE DEF L, M
  <2> QED
    BY <2>2, <2>3
<1> HIDE DEF L, M
<1> DEFINE P == {i \in Nat : i \in 0 .. n => M[i] = L[i]}
<1>9. 0 \in P
  BY <1>8
<1>10. ASSUME NEW i \in 0 .. n - 1, i \in P PROVE i + 1 \in P
  <2>1. i + 1 \in 1 .. n /\ i \in 0 .. n /\ (i + 1) - 1 = i /\ i + 1 \in 0 .. n
    BY <1>1
  <2>2. M[i] = L[i]
    BY <1>10, <2>1
  <2>3. L[i + 1] = g[<<L[i], t[i + 1]>>] /\ M[i + 1] = h[<<M[i], t[i + 1]>>]
    BY <1>8, <2>1
  <2>4. M[i + 1] = As(m, z, L[i + 1])
    BY <1>2, <1>7, <2>1, <2>2, <2>3
  <2>5. M[i + 1] = L[i + 1]
    BY <1>3, <2>1, <2>4
  <2> QED
    BY <2>5
<1> HIDE DEF P
<1>11. \A i \in 0 .. n : M[i] = L[i]
  <2>1. \A i \in 0 .. n : i \in P
    BY <1>1, <1>9, <1>10, UpTo
  <2> QED
    BY <2>1 DEF P
<1>12. \A i \in 1 .. n : Seen(Place(n, i, backward), incl) \in 0 .. n
  BY <1>1, <1>6 DEF Seen
<1>13. M[n] = L[n]
  BY <1>1, <1>11
<1>14. ScanForm(h, a, s, incl, backward) = ScanForm(g, a, s, incl, backward)
  <2>1. ScanForm(h, a, s, incl, backward)
          = [total |-> M[n], out |-> [i \in 1 .. n |-> M[Seen(Place(n, i, backward), incl)]]]
    BY <1>1, Zenon DEF ScanForm, Fold, M, n, t
  <2>2. ScanForm(g, a, s, incl, backward)
          = [total |-> L[n], out |-> [i \in 1 .. n |-> L[Seen(Place(n, i, backward), incl)]]]
    BY <1>1, Zenon DEF ScanForm, Fold, L, n, t
  <2>3. [i \in 1 .. n |-> M[Seen(Place(n, i, backward), incl)]]
          = [i \in 1 .. n |-> L[Seen(Place(n, i, backward), incl)]]
    BY <1>11, <1>12
  <2> QED
    BY <1>13, <2>1, <2>2, <2>3
<1> QED
  BY <1>4, <1>5, <1>14

(* A zero of the type of the output: its type holds every total.           *)
LEMMA ScanOwnForm ==
  ASSUME NEW m \in Nat \ {0}, NEW g, Closed(g, Word(m)), NEW s \in Seq(Word(m)),
         NEW a \in Word(m), NEW incl, NEW backward
  PROVE  /\ As(m, Unsigned(m), a) = a
         /\ Holds(m, Unsigned(m), g, a, s, backward)
         /\ ScanSerial(g, m, Unsigned(m), s, a, incl, backward) = ScanForm(g, a, s, incl, backward)
<1> DEFINE z == Unsigned(m)
           t == Ordered(s, backward)
<1>1. \A v \in Word(m) : As(m, z, v) = v
  <2> SUFFICES ASSUME NEW v \in Word(m) PROVE As(m, z, v) = v
    OBVIOUS
  <2>1. v % m = v
    BY DEF Word
  <2>2. As(m, z, v) = (v % m) % m
    BY DEF As, Unsigned
  <2> QED
    BY <2>1, <2>2
<1>2. t \in Seq(Word(m)) /\ Len(t) = Len(s)
  BY Order
<1>3. Steps(g, Word(m), Word(m))
  BY DEF Closed, Steps
<1> HIDE DEF z, t
<1>4. \A i \in 0 .. Len(s) : Loop(g, a, t)[i] \in Word(m)
  BY <1>2, <1>3, LoopType
<1>5. Holds(m, z, g, a, s, backward) /\ As(m, z, a) = a
  BY <1>1, <1>4 DEF Holds, t
<1>6. ScanSerial(g, m, z, s, a, incl, backward) = ScanForm(g, a, s, incl, backward)
  BY <1>5, ScanSerialForm
<1> QED
  BY <1>5, <1>6 DEF z

-----------------------------------------------------------------------------
(* Scan.                                                                   *)

(* An operation that need not keep the order must not need it.             *)
Commutes(backward, g, D) == IF backward THEN \A x, y \in D : g[<<x, y>>] = g[<<y, x>>] ELSE TRUE

(* How many entries the loop has seen when it comes to block j.            *)
Before(s, j, backward) == IF backward THEN Len(s) - Edge(s, j) ELSE Edge(s, j - 1)

(* In the order of the loop, a block is a piece of the array.              *)
LEMMA OrderedPiece ==
  ASSUME NEW D, NEW s \in Seq(D), NEW nb, nb = BlockCount(s), nb > 1, NEW j \in 1 .. nb,
         NEW backward
  PROVE  /\ Before(s, j, backward) \in Nat
         /\ Piece(Ordered(Block(s, j), backward), Ordered(s, backward), Before(s, j, backward))
<1> DEFINE b == Block(s, j)
<1>1. /\ Edge(s, j - 1) \in Nat /\ Edge(s, j) \in Nat /\ Edge(s, j) <= Len(s)
      /\ b \in Seq(D) /\ Len(b) \in Nat \ {0}
      /\ Edge(s, j - 1) + Len(b) = Edge(s, j)
      /\ Piece(b, s, Edge(s, j - 1))
  BY BlockPiece
<1> HIDE DEF b
<1>2. CASE backward
  <2> DEFINE c == Edge(s, j - 1)
  <2>1. /\ Len(s) - (c + Len(b)) \in Nat
        /\ Piece(Reverse(b), Reverse(s), Len(s) - (c + Len(b)))
    <3> HIDE DEF c
    <3>1. c \in Nat /\ Piece(b, s, c)
      BY <1>1 DEF c
    <3> QED
      BY <1>1, <3>1, PieceReversed
  <2>2. c + Len(b) = Edge(s, j)
    BY <1>1
  <2> QED
    BY <1>2, <2>1, <2>2 DEF Ordered, Before, b
<1>3. CASE ~backward
  BY <1>1, <1>3 DEF Ordered, Before, b
<1> QED
  BY <1>2, <1>3

(* S is the results of the blocks of s.                                    *)
Results(S, g, e, s) ==
  Len(S) = BlockCount(s) /\ \A j \in 1 .. BlockCount(s) : S[j] = Fold(g, e, Block(s, j))

(* The scan of the blocks' results gives each block what the loop over the *)
(* entries has come to when it comes to that block.                        *)
LEMMA Offsets ==
  ASSUME NEW D, NEW g, NEW e, Foldable(g, e, D), NEW backward, Commutes(backward, g, D),
         NEW z \in D, NEW s \in Seq(D), NEW nb, nb = BlockCount(s), nb > 1,
         NEW S \in Seq(D), Results(S, g, e, s)
  PROVE  /\ Fold(g, z, Ordered(S, backward)) = Fold(g, z, Ordered(s, backward))
         /\ \A j \in 1 .. nb :
              Loop(g, z, Ordered(S, backward))[Place(nb, j, backward) - 1]
                = Loop(g, z, Ordered(s, backward))[Before(s, j, backward)]
<1> DEFINE n == Len(s)
<1>1. /\ n \in Nat /\ nb \in Nat /\ Edge(s, 0) = 0 /\ Edge(s, nb) = n
      /\ Len(S) = nb /\ \A j \in 1 .. nb : S[j] = Fold(g, e, Block(s, j))
  BY Edges DEF Results
<1>2. CASE backward
  <2>1. \A x, y \in D : g[<<x, y>>] = g[<<y, x>>]
    BY <1>2 DEF Commutes
  <2>2. \A k \in 0 .. nb : Loop(g, z, Reverse(S))[k] = Loop(g, z, Reverse(s))[n - Edge(s, nb - k)]
    BY <1>1, <2>1, BlocksBackward
  <2>3. Len(Reverse(S)) = nb /\ Len(Reverse(s)) = n
    BY <1>1, Reversed
  <2>4. Fold(g, z, Reverse(S)) = Fold(g, z, Reverse(s))
    <3>1. nb \in 0 .. nb /\ nb - nb = 0 /\ n - 0 = n
      BY <1>1
    <3> QED
      BY <1>1, <2>2, <2>3, <3>1 DEF Fold
  <2>5. ASSUME NEW j \in 1 .. nb
        PROVE  Loop(g, z, Reverse(S))[(nb + 1 - j) - 1] = Loop(g, z, Reverse(s))[n - Edge(s, j)]
    <3> DEFINE k == (nb + 1 - j) - 1
    <3>1. k \in 0 .. nb /\ nb - k = j
      BY <1>1
    <3> HIDE DEF k
    <3> QED
      BY <2>2, <3>1 DEF k
  <2> QED
    BY <1>2, <2>4, <2>5 DEF Ordered, Place, Before
<1>3. CASE ~backward
  <2>1. \A j \in 0 .. nb : Loop(g, z, S)[j] = Loop(g, z, s)[Edge(s, j)]
    BY <1>1, BlocksForward
  <2>2. \A j \in 1 .. nb : j - 1 \in 0 .. nb
    BY <1>1
  <2>3. nb \in 0 .. nb
    BY <1>1
  <2> QED
    BY <1>1, <1>3, <2>1, <2>2, <2>3 DEF Ordered, Place, Before, Fold
<1> QED
  BY <1>2, <1>3

(* Where an index lies in its block.                                       *)
LEMMA Within ==
  ASSUME NEW D, NEW s \in Seq(D), NEW nb, nb = BlockCount(s), nb > 1, NEW i \in 1 .. Len(s)
  PROVE  /\ (i - 1) \div BlockSize + 1 \in 1 .. nb
         /\ ((i - 1) % BlockSize) + 1 \in 1 .. Len(Block(s, (i - 1) \div BlockSize + 1))
         /\ i = Edge(s, (i - 1) \div BlockSize) + ((i - 1) % BlockSize) + 1
<1> DEFINE n == Len(s)
           q == (i - 1) \div BlockSize
           r == (i - 1) % BlockSize
<1>1. i - 1 \in Nat /\ BlockSize \in Nat \ {0} /\ n \in Nat /\ i <= n
  BY GangAlgoAssumption
<1>2. q \in Nat /\ r \in 0 .. BlockSize - 1 /\ i - 1 = BlockSize * q + r
  BY <1>1, DivMod
<1> HIDE DEF q, r
<1>3. nb \in Nat /\ n <= nb * BlockSize
  BY <1>1, EnoughBlocks DEF BlockCount
<1>4. q < nb
  <2> SUFFICES ASSUME nb <= q PROVE FALSE
    BY <1>2, <1>3
  <2> DEFINE u == nb * BlockSize
             v == q * BlockSize
  <2>1. u <= v /\ v \in Nat /\ u \in Nat
    BY <1>1, <1>2, <1>3, ProductMono
  <2>2. v = BlockSize * q
    BY <1>1, <1>2
  <2>3. n <= u
    BY <1>3
  <2> HIDE DEF u, v
  <2> QED
    BY <1>1, <1>2, <2>1, <2>2, <2>3
<1>5. q + 1 \in 1 .. nb /\ (q + 1) - 1 = q
  BY <1>2, <1>3, <1>4
<1>6. /\ Edge(s, q) \in Nat /\ Edge(s, q + 1) \in Nat
      /\ Len(Block(s, q + 1)) \in Nat
      /\ Edge(s, q) + Len(Block(s, q + 1)) = Edge(s, q + 1)
  BY <1>5, BlockPiece
<1>7. Edge(s, q) = q * BlockSize /\ q * BlockSize = BlockSize * q
  <2>1. Edge(s, (q + 1) - 1) = ((q + 1) - 1) * BlockSize
    <3> DEFINE j == q + 1
    <3>1. j \in 1 .. nb
      BY <1>5
    <3> HIDE DEF j
    <3>2. Edge(s, j - 1) = (j - 1) * BlockSize
      BY <3>1, Edges
    <3> QED
      BY <3>2 DEF j
  <2> QED
    BY <1>1, <1>2, <1>5, <2>1
<1>8. i = Edge(s, q) + r + 1
  BY <1>1, <1>2, <1>6, <1>7
<1>9. r + 1 <= Len(Block(s, q + 1))
  <2>1. CASE q + 1 = nb
    <3>1. Edge(s, q + 1) = n
      BY <2>1 DEF Edge
    <3>2. r \in Nat /\ i <= n /\ n \in Nat
      BY <1>1, <1>2
    <3>3. Edge(s, q) + Len(Block(s, q + 1)) = n
      BY <1>6, <3>1
    <3> QED
      BY <1>6, <1>8, <3>2, <3>3
  <2>2. CASE q + 1 # nb
    <3>1. Edge(s, q + 1) = (q + 1) * BlockSize
      BY <2>2 DEF Edge
    <3>2. (q + 1) * BlockSize = q * BlockSize + BlockSize
      BY <1>1, <1>2
    <3>3. Edge(s, q + 1) = Edge(s, q) + BlockSize
      BY <1>7, <3>1, <3>2
    <3>4. Len(Block(s, q + 1)) = BlockSize
      BY <1>1, <1>6, <3>3
    <3> QED
      BY <1>1, <1>2, <3>4
  <2> QED
    BY <2>1, <2>2
<1>10. /\ q + 1 \in 1 .. nb /\ r + 1 \in 1 .. Len(Block(s, q + 1))
       /\ i = Edge(s, (q + 1) - 1) + (r + 1)
  BY <1>1, <1>2, <1>5, <1>6, <1>8, <1>9
<1> QED
  BY <1>5, <1>6, <1>8, <1>10 DEF q, r

(* The recursive calls of scan leave the entry itself out.                 *)
Exclusive == FALSE

(* Where the scan of block j begins.                                       *)
Offset(g, z, S, j, backward) ==
  Loop(g, z, Ordered(S, backward))[Seen(Place(Len(S), j, backward), Exclusive)]

(* The scans of the blocks, each from its offset, are the scan of the      *)
(* array.                                                                  *)
LEMMA ScanBlocks ==
  ASSUME NEW om \in Nat \ {0}, NEW g, NEW e, Foldable(g, e, Word(om)), Closed(g, Word(om)),
         NEW backward, Commutes(backward, g, Word(om)),
         NEW z \in Word(om), NEW s \in Seq(Word(om)), NEW nb, nb = BlockCount(s), nb > 1,
         NEW S \in Seq(Word(om)), Results(S, g, e, s),
         NEW incl, NEW j \in 1 .. nb, NEW i \in 1 .. Len(Block(s, j))
  PROVE  ScanSerial(g, om, Unsigned(om), Block(s, j), Offset(g, z, S, j, backward), incl, backward).out[i]
           = ScanForm(g, z, s, incl, backward).out[Edge(s, j - 1) + i]
<1> DEFINE n == Len(s)
           b == Block(s, j)
           m == Len(b)
           c == Before(s, j, backward)
           t == Ordered(s, backward)
           a == Loop(g, z, t)[c]
           h == Edge(s, j - 1) + i
<1>1. /\ Edge(s, j - 1) \in Nat /\ Edge(s, j) \in Nat /\ Edge(s, j) <= n
      /\ b \in Seq(Word(om)) /\ m \in Nat \ {0} /\ Edge(s, j - 1) + m = Edge(s, j) /\ n \in Nat
  BY BlockPiece
<1>2. c \in Nat /\ Piece(Ordered(b, backward), t, c)
  BY OrderedPiece
<1>3. Ordered(b, backward) \in Seq(Word(om)) /\ Len(Ordered(b, backward)) = m
  BY <1>1, Order
<1>4. t \in Seq(Word(om))
  BY Order
<1>5. Offset(g, z, S, j, backward) = a
  <2>1. Loop(g, z, Ordered(S, backward))[Place(nb, j, backward) - 1] = a
    BY Offsets
  <2> HIDE DEF a
  <2> QED
    BY <2>1 DEF Offset, Seen, Results, Exclusive
<1>6. h \in 1 .. n /\ i \in 1 .. m
  BY <1>1
<1>7. ScanForm(g, z, s, incl, backward).out[h] = Loop(g, z, t)[Seen(Place(n, h, backward), incl)]
  <2> HIDE DEF h, t
  <2> QED
    BY <1>6 DEF ScanForm, t
<1> DEFINE q == Place(m, i, backward)
<1>8. c + q = Place(n, h, backward) /\ q \in 1 .. m
  <2> DEFINE lo == Edge(s, j - 1)
             hi == Edge(s, j)
             p == Place(n, h, backward)
  <2>1. h = lo + i /\ lo \in Nat /\ hi \in Nat /\ n \in Nat /\ m \in Nat /\ lo + m = hi /\ i \in 1 .. m
    BY <1>1
  <2>2. CASE backward
    <3>1. c = n - hi /\ q = m + 1 - i /\ p = n + 1 - h
      BY <2>2 DEF Before, Place
    <3> HIDE DEF c, q, p, lo, hi, h, m, n
    <3>2. c + q = p /\ q \in 1 .. m
      BY <2>1, <3>1
    <3> QED
      BY <3>2 DEF p
  <2>3. CASE ~backward
    <3>1. c = lo /\ q = i /\ p = h
      BY <2>3 DEF Before, Place
    <3> HIDE DEF c, q, p, lo, hi, h, m, n
    <3>2. c + q = p /\ q \in 1 .. m
      BY <2>1, <3>1
    <3> QED
      BY <3>2 DEF p
  <2> QED
    BY <2>2, <2>3
<1>8a. a \in Word(om)
  <2>1. c \in 0 .. Len(t)
    <3> HIDE DEF c, t
    <3>1. c + Len(Ordered(b, backward)) <= Len(t) /\ Len(t) \in Nat
      BY <1>2, <1>4 DEF Piece
    <3> HIDE DEF b, m
    <3>2. Len(Ordered(b, backward)) \in Nat
      BY <1>3
    <3> QED
      BY <1>2, <3>1, <3>2
  <2> HIDE DEF c, t
  <2> QED
    BY <1>4, <2>1, LoopType DEF Foldable
<1> HIDE DEF c, q, t, b, n, h
<1>9. ScanSerial(g, om, Unsigned(om), b, a, incl, backward).out[i] = Loop(g, a, Ordered(b, backward))[Seen(q, incl)]
  <2> HIDE DEF a, m
  <2>1. ScanSerial(g, om, Unsigned(om), b, a, incl, backward) = ScanForm(g, a, b, incl, backward)
    BY <1>1, <1>8a, ScanOwnForm
  <2> QED
    BY <2>1, <1>6 DEF ScanForm, q, m
<1>10. \A k \in 0 .. m : Loop(g, a, Ordered(b, backward))[k] = Loop(g, z, t)[c + k]
  <2>1. a = Loop(g, z, t)[c]
    OBVIOUS
  <2> HIDE DEF a, m
  <2>2. \A k \in 0 .. Len(Ordered(b, backward)) :
          Loop(g, a, Ordered(b, backward))[k] = Loop(g, z, t)[c + k]
    BY <1>2, <1>3, <1>4, <2>1, LoopOn
  <2> QED
    BY <1>3, <2>2
<1>11. Seen(q, incl) \in 0 .. m /\ c + Seen(q, incl) = Seen(Place(n, h, backward), incl)
  <2> HIDE DEF m
  <2> QED
    BY <1>1, <1>2, <1>8 DEF Seen
<1>12. ScanSerial(g, om, Unsigned(om), b, a, incl, backward).out[i] = Loop(g, z, t)[Seen(Place(n, h, backward), incl)]
  <2> HIDE DEF a, m
  <2> QED
    BY <1>9, <1>10, <1>11
<1> HIDE DEF a
<1> QED
  BY <1>5, <1>7, <1>12 DEF b, h

(* What scan returns for the blocks' results is the scan of S.             *)
Answers(scan, g, m, s, S, z, backward) ==
  scan[Sums(g, m, s, 0)] = ScanForm(g, z, S, Exclusive, backward)

(* A call of scan that cuts its array into blocks, when it is given the    *)
(* scan of the blocks' results.                                            *)
LEMMA ScanCallForm ==
  ASSUME NEW om \in Nat \ {0}, NEW g, NEW e, Foldable(g, e, Word(om)), Closed(g, Word(om)),
         NEW backward, Commutes(backward, g, Word(om)), NEW type, NEW base,
         NEW z \in Word(om), NEW s \in Seq(Word(om)), BlockCount(s) > 1, NEW m, NEW scan,
         NEW S \in Seq(Word(om)), Results(S, g, e, s),
         Answers(scan, g, m, s, S, z, backward), NEW incl
  PROVE  ScanCall(g, m, om, type, s, base, incl, backward, scan) = ScanForm(g, z, s, incl, backward)
<1> DEFINE n == Len(s)
           nb == BlockCount(s)
           o == ScanForm(g, z, S, Exclusive, backward)
           Out(j) == ScanSerial(g, om, Unsigned(om), Block(s, j), o.out[j], incl, backward).out
           Own(j) == ScanSerial(g, om, Unsigned(om), Block(s, j), Offset(g, z, S, j, backward), incl, backward).out
           form == ScanForm(g, z, s, incl, backward)
<1>1. /\ nb > 1 /\ nb = BlockCount(s) /\ nb \in Nat
  BY Edges
<1> HIDE DEF nb
<1>2. \A j \in 1 .. nb : \A i \in 1 .. Len(Block(s, j)) : Out(j)[i] = form.out[Edge(s, j - 1) + i]
  <2> SUFFICES ASSUME NEW j \in 1 .. nb, NEW i \in 1 .. Len(Block(s, j))
               PROVE  Out(j)[i] = form.out[Edge(s, j - 1) + i]
    OBVIOUS
  <2>1. Own(j)[i] = form.out[Edge(s, j - 1) + i]
    BY <1>1, ScanBlocks
  <2>2. o.out[j] = Offset(g, z, S, j, backward)
    <3> HIDE DEF form, n
    <3> QED
      BY <1>1 DEF ScanForm, Offset, Results
  <2> HIDE DEF o, form, n
  <2>3. Out(j) = Own(j)
    BY <2>2
  <2> HIDE DEF Own, Out
  <2> QED
    BY <2>1, <2>3
<1> HIDE DEF Out
<1>3. ASSUME NEW i \in 1 .. n
      PROVE  Out((i - 1) \div BlockSize + 1)[((i - 1) % BlockSize) + 1] = form.out[i]
  <2> DEFINE q == (i - 1) \div BlockSize
             r == ((i - 1) % BlockSize) + 1
  <2>1. q + 1 \in 1 .. nb /\ r \in 1 .. Len(Block(s, q + 1)) /\ i = Edge(s, q) + r
    <3>1. i - 1 \in Nat /\ BlockSize \in Nat \ {0}
      BY GangAlgoAssumption
    <3>2. q \in Nat /\ (i - 1) % BlockSize \in Nat
      <4> DEFINE a == i - 1
      <4>1. a \in Nat
        BY <3>1
      <4> HIDE DEF a
      <4>2. a \div BlockSize \in Nat /\ a % BlockSize \in 0 .. BlockSize - 1
        BY <3>1, <4>1, DivMod
      <4>3. a % BlockSize \in Nat
        BY <3>1, <4>2
      <4> QED
        BY <4>2, <4>3 DEF a
    <3>3. q + 1 \in 1 .. nb /\ r \in 1 .. Len(Block(s, q + 1)) /\ i = Edge(s, q) + ((i - 1) % BlockSize) + 1
      BY <1>1, Within
    <3>4. (q + 1) - 1 = q
      BY <3>2
    <3>5. Edge(s, q) \in Nat
      <4> DEFINE k == q + 1
      <4>1. k \in 1 .. nb /\ k - 1 = q
        BY <3>3, <3>4
      <4> HIDE DEF k
      <4>2. Edge(s, k - 1) \in Nat
        BY <1>1, <4>1, BlockPiece
      <4> QED
        BY <4>1, <4>2
    <3> HIDE DEF q
    <3> QED
      BY <3>2, <3>3, <3>5
  <2>2. (q + 1) - 1 = q
    <3>1. i - 1 \in Nat /\ BlockSize \in Nat \ {0}
      BY GangAlgoAssumption
    <3>2. q \in Nat
      BY <3>1, DivMod
    <3> QED
      BY <3>2
  <2> HIDE DEF q, r, form
  <2>3. Out(q + 1)[r] = form.out[Edge(s, (q + 1) - 1) + r]
    BY <1>2, <2>1
  <2>4. Out(q + 1)[r] = form.out[i]
    BY <2>1, <2>2, <2>3
  <2> QED
    BY <2>4 DEF q, r
<1>4. form = [total |-> o.total, out |-> [i \in 1 .. n |-> form.out[i]]]
  <2>1. Fold(g, z, Ordered(S, backward)) = Fold(g, z, Ordered(s, backward))
    BY <1>1, Offsets DEF nb
  <2>2. o.total = Fold(g, z, Ordered(S, backward))
    BY DEF ScanForm
  <2> HIDE DEF o
  <2> QED
    BY <2>1, <2>2 DEF ScanForm
<1>5. ~(BlockCount(s) <= 1)
  BY <1>1
<1>6. ScanCall(g, m, om, type, s, base, incl, backward, scan)
        = [total |-> o.total,
           out   |-> [i \in 1 .. n |-> Out((i - 1) \div BlockSize + 1)[((i - 1) % BlockSize) + 1]]]
  <2> HIDE DEF o, form
  <2>1. scan[Sums(g, m, s, 0)] = o
    BY DEF o, Answers
  <2> QED
    BY <1>5, <2>1, Zenon DEF ScanCall, Out
<1>7. [i \in 1 .. n |-> Out((i - 1) \div BlockSize + 1)[((i - 1) % BlockSize) + 1]]
        = [i \in 1 .. n |-> form.out[i]]
  BY <1>3
<1> HIDE DEF form, o, Out, n
<1> QED
  BY <1>4, <1>6, <1>7 DEF form

(* A number of a small type is one of a larger type.                       *)
LEMMA Widened ==
  ASSUME NEW D, NEW E, D \subseteq E, NEW s \in Seq(D)
  PROVE  s \in Seq(E)
<1>1. Len(s) \in Nat /\ s \in [1 .. Len(s) -> D]
  BY LenProperties
<1>2. s \in [1 .. Len(s) -> E]
  BY <1>1
<1> QED
  BY <1>1, <1>2, IsASeq

(* The results of the blocks, which are stored in the type of the entries. *)
LEMMA ResultsOf ==
  ASSUME NEW m \in Nat \ {0}, NEW E, Word(m) \subseteq E, NEW g, Foldable(g, 0, E),
         Closed(g, Word(m)), NEW s \in Seq(Word(m)), BlockCount(s) > 1
  PROVE  /\ Sums(g, m, s, 0) \in Seq(E) /\ Sums(g, m, s, 0) \in Seq(Word(m))
         /\ Results(Sums(g, m, s, 0), g, 0, s)
         /\ Len(Sums(g, m, s, 0)) < Len(s)
<1> DEFINE D == Word(m)
           h == Into(m, g)
           S == Sums(g, m, s, 0)
           nb == BlockCount(s)
<1>1. \A x, y \in D : g[<<x, y>>] \in D /\ h[<<x, y>>] = g[<<x, y>>]
  <2>1. \A x, y \in Word(m) : Into(m, g)[<<x, y>>] = g[<<x, y>>]
    BY Stored
  <2> QED
    BY <2>1 DEF Closed
<1>2. h = Into(m, g)
  OBVIOUS
<1>3. 0 \in D
  BY DEF Word
<1> HIDE DEF h, D
<1>4. D \subseteq E /\ s \in Seq(D)
  BY DEF D
<1>5. Foldable(h, 0, D) /\ Steps(g, D, D)
  <2>1. \A x, y, w \in D : g[<<g[<<x, y>>], w>>] = g[<<x, g[<<y, w>>]>>]
    BY <1>4 DEF Foldable
  <2>2. \A x \in D : g[<<0, x>>] = x
    BY <1>4 DEF Foldable
  <2>3. ASSUME NEW x \in D, NEW y \in D, NEW w \in D
        PROVE  h[<<h[<<x, y>>], w>>] = h[<<x, h[<<y, w>>]>>]
    <3>1. /\ h[<<x, y>>] = g[<<x, y>>] /\ g[<<x, y>>] \in D
          /\ h[<<y, w>>] = g[<<y, w>>] /\ g[<<y, w>>] \in D
      BY <1>1
    <3>2. /\ h[<<g[<<x, y>>], w>>] = g[<<g[<<x, y>>], w>>]
          /\ h[<<x, g[<<y, w>>]>>] = g[<<x, g[<<y, w>>]>>]
      BY <1>1, <3>1
    <3> QED
      BY <2>1, <3>1, <3>2
  <2>4. \A x \in D : h[<<0, x>>] = x
    BY <1>1, <1>3, <2>2
  <2>5. Steps(h, D, D) /\ Steps(g, D, D)
    BY <1>1 DEF Steps
  <2> QED
    BY <1>3, <2>3, <2>4, <2>5 DEF Foldable
<1>6. S \in Seq(D) /\ Len(S) = nb /\ \A j \in 1 .. nb : S[j] = Fold(h, 0, Block(s, j))
  BY <1>2, <1>4, <1>5, FoldOfSums
<1>7. nb > 1 /\ nb = BlockCount(s) /\ nb < Len(s)
  BY Edges
<1> HIDE DEF S, nb
<1>8. ASSUME NEW j \in 1 .. nb PROVE S[j] = Fold(g, 0, Block(s, j))
  <2> DEFINE b == Block(s, j)
  <2>1. b \in Seq(D) /\ Len(b) \in Nat
    BY <1>4, <1>7, BlockPiece
  <2>2. S[j] = Fold(h, 0, b)
    BY <1>6
  <2> HIDE DEF b
  <2>3. \A i \in 0 .. Len(b) : Loop(h, 0, b)[i] = Loop(g, 0, b)[i]
    BY <1>1, <1>3, <1>5, <2>1, LoopSame
  <2> QED
    BY <2>1, <2>2, <2>3 DEF Fold, b
<1>9. S \in Seq(E)
  BY <1>4, <1>6, Widened
<1> QED
  BY <1>6, <1>7, <1>8, <1>9 DEF S, nb, D, Results

(* What holds the running totals of the entries holds those of the blocks. *)
LEMMA HoldsOfSums ==
  ASSUME NEW D, NEW g, NEW e, Foldable(g, e, D), NEW backward, Commutes(backward, g, D),
         NEW z \in D, NEW s \in Seq(D), BlockCount(s) > 1, NEW S \in Seq(D), Results(S, g, e, s),
         NEW m, NEW type, Holds(m, type, g, z, s, backward)
  PROVE  Holds(m, type, g, z, S, backward)
<1> DEFINE n == Len(s)
           nb == BlockCount(s)
           L == Loop(g, z, Ordered(s, backward))
           K == Loop(g, z, Ordered(S, backward))
<1>1. /\ n \in Nat /\ nb \in Nat /\ nb > 1 /\ nb = BlockCount(s)
      /\ Len(S) = nb /\ \A j \in 1 .. nb : S[j] = Fold(g, e, Block(s, j))
  BY Edges DEF Results
<1> HIDE DEF nb
<1>2. \A j \in 0 .. nb : Edge(s, j) \in 0 .. n
  BY <1>1, Edges
<1>3. \A i \in 0 .. n : As(m, type, L[i]) = L[i]
  BY DEF Holds
<1>4. ASSUME NEW j \in 0 .. nb PROVE \E i \in 0 .. n : K[j] = L[i]
  <2>1. CASE backward
    <3>1. \A x, y \in D : g[<<x, y>>] = g[<<y, x>>]
      BY <2>1 DEF Commutes
    <3>2. Loop(g, z, Reverse(S))[j] = Loop(g, z, Reverse(s))[n - Edge(s, nb - j)]
      BY <1>1, <3>1, BlocksBackward
    <3>3. nb - j \in 0 .. nb
      BY <1>1
    <3>4. n - Edge(s, nb - j) \in 0 .. n
      BY <1>1, <1>2, <3>3
    <3> QED
      BY <2>1, <3>2, <3>4 DEF Ordered
  <2>2. CASE ~backward
    <3>1. Loop(g, z, S)[j] = Loop(g, z, s)[Edge(s, j)]
      BY <1>1, BlocksForward
    <3> QED
      BY <1>2, <2>2, <3>1 DEF Ordered
  <2> QED
    BY <2>1, <2>2
<1> HIDE DEF n
<1>5. \A j \in 0 .. nb : As(m, type, K[j]) = K[j]
  BY <1>3, <1>4
<1> QED
  BY <1>1, <1>5 DEF Holds

(* A call of scan whose recursive call, if it makes one, is right.         *)
LEMMA ScanCallRight ==
  ASSUME NEW m \in Nat \ {0}, NEW om \in Nat \ {0}, Word(m) \subseteq Word(om),
         NEW g, Foldable(g, 0, Word(om)), Closed(g, Word(m)), Closed(g, Word(om)),
         NEW s \in Seq(Word(m)), NEW backward, Commutes(backward, g, Word(om)),
         NEW type, NEW base, NEW z \in Word(om), z = As(om, type, base),
         Holds(om, type, g, z, s, backward), NEW incl, NEW scan,
         BlockCount(s) > 1 => Answers(scan, g, m, s, Sums(g, m, s, 0), z, backward)
  PROVE  ScanCall(g, m, om, type, s, base, incl, backward, scan) = ScanForm(g, z, s, incl, backward)
<1>0. s \in Seq(Word(om))
  BY Widened
<1>1. CASE BlockCount(s) <= 1
  <2>1. ScanSerial(g, om, type, s, base, incl, backward) = ScanForm(g, z, s, incl, backward)
    BY <1>0, ScanSerialForm
  <2> QED
    BY <1>1, <2>1, Zenon DEF ScanCall
<1>2. CASE ~(BlockCount(s) <= 1)
  <2>1. BlockCount(s) > 1
    <3>1. Len(s) \in Nat
      OBVIOUS
    <3>2. BlockCount(s) \in Nat
      BY <3>1, EnoughBlocks DEF BlockCount
    <3> QED
      BY <1>2, <3>2
  <2> DEFINE S == Sums(g, m, s, 0)
  <2>2. S \in Seq(Word(om)) /\ Results(S, g, 0, s)
    BY <2>1, ResultsOf
  <2>3. Answers(scan, g, m, s, S, z, backward)
    BY <2>1
  <2> HIDE DEF S
  <2> QED
    BY <1>0, <2>1, <2>2, <2>3, ScanCallForm
<1> QED
  BY <1>1, <1>2

(* A call of scan that cuts its array into blocks, given o for the blocks' *)
(* results.                                                                *)
Spread(g, om, s, o, incl, backward) ==
  LET Out(j) == ScanSerial(g, om, Unsigned(om), Block(s, j), o.out[j], incl, backward).out
  IN  [total |-> o.total,
       out   |-> [i \in 1 .. Len(s) |-> Out((i - 1) \div BlockSize + 1)[((i - 1) % BlockSize) + 1]]]

(* A call of scan depends on the recursion at the blocks' results only.    *)
LEMMA ScanLocal ==
  ASSUME NEW g, NEW m, NEW om, NEW type, NEW s, NEW base, NEW incl, NEW backward,
         NEW q, NEW r, ~(BlockCount(s) <= 1) => q[Sums(g, m, s, 0)] = r[Sums(g, m, s, 0)]
  PROVE  ScanCall(g, m, om, type, s, base, incl, backward, q)
           = ScanCall(g, m, om, type, s, base, incl, backward, r)
<1>1. CASE BlockCount(s) <= 1
  BY <1>1, Zenon DEF ScanCall
<1>2. CASE ~(BlockCount(s) <= 1)
  <2>1. ScanCall(g, m, om, type, s, base, incl, backward, q)
          = Spread(g, om, s, q[Sums(g, m, s, 0)], incl, backward)
    BY <1>2, Zenon DEF ScanCall, Spread
  <2>2. ScanCall(g, m, om, type, s, base, incl, backward, r)
          = Spread(g, om, s, r[Sums(g, m, s, 0)], incl, backward)
    BY <1>2, Zenon DEF ScanCall, Spread
  <2> QED
    BY <1>2, <2>1, <2>2
<1> QED
  BY <1>1, <1>2

(* r is a solution of scan's equation.                                     *)
Recursion(r, g, om, type, base, backward) ==
  r = [t \in Seq(Word(om)) |-> ScanCall(g, om, om, type, t, base, Exclusive, backward, r)]

(* It has one: the blocks' results are fewer than the entries.             *)
LEMMA Recursive ==
  ASSUME NEW om \in Nat \ {0}, NEW g, Foldable(g, 0, Word(om)), Closed(g, Word(om)),
         NEW type, NEW base, NEW backward
  PROVE  \E r : Recursion(r, g, om, type, base, backward)
<1> DEFINE E == Word(om)
           Next1(r, t) == ScanCall(g, om, om, type, t, base, Exclusive, backward, r)
           Sub(t) == Sums(g, om, t, 0)
           More(t) == ~(BlockCount(t) <= 1)
           Solves(r, n) == \A t \in Seq(E) : Len(t) < n => r[t] = Next1(r, t)
           P == {n \in Nat : \E r : Solves(r, n)}
<1>1. \A t \in Seq(E) : Len(t) \in Nat /\ (More(t) => Sub(t) \in Seq(E) /\ Len(Sub(t)) < Len(t))
  <2> SUFFICES ASSUME NEW t \in Seq(E)
               PROVE  Len(t) \in Nat /\ (More(t) => Sub(t) \in Seq(E) /\ Len(Sub(t)) < Len(t))
    OBVIOUS
  <2>1. Len(t) \in Nat
    OBVIOUS
  <2>2. BlockCount(t) \in Nat
    BY <2>1, EnoughBlocks DEF BlockCount
  <2>3. More(t) => BlockCount(t) > 1
    BY <2>2
  <2> HIDE DEF More
  <2> QED
    BY <2>1, <2>3, ResultsOf
<1>2. \A q, r : \A t \in Seq(E) : (More(t) => q[Sub(t)] = r[Sub(t)]) => Next1(q, t) = Next1(r, t)
  BY ScanLocal
<1> HIDE DEF Next1, Sub, More
<1>3. 0 \in P
  <2>1. \A t \in Seq(E) : ~(Len(t) < 0)
    BY <1>1
  <2>2. Solves(0, 0)
    BY <2>1
  <2> QED
    BY <2>2
<1>4. ASSUME NEW n \in Nat, n \in P PROVE n + 1 \in P
  <2>1. PICK r : Solves(r, n)
    BY <1>4
  <2> DEFINE q == [t \in Seq(E) |-> IF Len(t) < n THEN r[t] ELSE Next1(r, t)]
  <2>2. ASSUME NEW t \in Seq(E), Len(t) < n + 1 PROVE q[t] = Next1(q, t)
    <3>1. q[t] = Next1(r, t)
      BY <2>1
    <3>2. More(t) => q[Sub(t)] = r[Sub(t)]
      <4>1. More(t) => Sub(t) \in Seq(E) /\ Len(Sub(t)) < n
        BY <1>1, <2>2
      <4> QED
        BY <4>1
    <3> HIDE DEF q
    <3> QED
      BY <1>2, <3>1, <3>2
  <2> HIDE DEF q
  <2>3. Solves(q, n + 1)
    BY <2>2
  <2> HIDE DEF Solves
  <2> QED
    BY <2>3
<1>5. \A n \in Nat : \E r : Solves(r, n)
  <2> HIDE DEF P
  <2>1. ASSUME NEW n \in Nat PROVE n \in P
    <3>1. \A i \in 0 .. n : i \in P
      BY <1>3, <1>4, UpTo
    <3> QED
      BY <3>1
  <2> HIDE DEF Solves
  <2> QED
    BY <2>1 DEF P
<1> HIDE DEF P
<1>6. ASSUME NEW q, NEW r, NEW n \in Nat, Solves(q, n), Solves(r, n)
      PROVE  \A t \in Seq(E) : Len(t) < n => q[t] = r[t]
  <2> DEFINE Q == {k \in Nat : \A t \in Seq(E) : Len(t) = k /\ k < n => q[t] = r[t]}
  <2>1. ASSUME NEW k \in Nat, \A j \in 0 .. k - 1 : j \in Q PROVE k \in Q
    <3> SUFFICES ASSUME NEW t \in Seq(E), Len(t) = k, k < n PROVE q[t] = r[t]
      OBVIOUS
    <3>1. q[t] = Next1(q, t) /\ r[t] = Next1(r, t)
      BY <1>6
    <3>2. ASSUME More(t) PROVE q[Sub(t)] = r[Sub(t)]
      <4>1. Sub(t) \in Seq(E) /\ Len(Sub(t)) < k /\ Len(Sub(t)) \in Nat
        BY <1>1, <3>2
      <4>2. Len(Sub(t)) \in 0 .. k - 1 /\ Len(Sub(t)) < n
        BY <4>1
      <4>3. Len(Sub(t)) \in Q
        BY <2>1, <4>2
      <4> QED
        BY <4>1, <4>2, <4>3
    <3> HIDE DEF Solves, Q
    <3> QED
      BY <1>2, <3>1, <3>2
  <2> HIDE DEF Q
  <2>2. \A k \in Nat : k \in Q
    BY <2>1, Course
  <2>3. ASSUME NEW t \in Seq(E), Len(t) < n PROVE q[t] = r[t]
    <3>1. Len(t) \in Q /\ Len(t) \in Nat
      BY <1>1, <2>2
    <3> QED
      BY <2>3, <3>1 DEF Q
  <2> QED
    BY <2>3
<1> DEFINE G(n) == CHOOSE r : Solves(r, n)
           R == [t \in Seq(E) |-> G(Len(t) + 1)[t]]
<1>7. \A n \in Nat : Solves(G(n), n)
  <2> SUFFICES ASSUME NEW n \in Nat PROVE Solves(G(n), n)
    OBVIOUS
  <2>1. \E r : Solves(r, n)
    BY <1>5
  <2> HIDE DEF Solves
  <2> QED
    BY <2>1
<1> HIDE DEF G
<1>8. ASSUME NEW t \in Seq(E) PROVE R[t] = Next1(R, t)
  <2> DEFINE n == Len(t) + 1
  <2>1. n \in Nat /\ Len(t) < n
    BY <1>1
  <2>2. R[t] = G(n)[t]
    OBVIOUS
  <2>3. Solves(G(n), n)
    BY <1>7, <2>1
  <2>4. R[t] = Next1(G(n), t)
    BY <2>1, <2>2, <2>3
  <2>5. ASSUME More(t) PROVE R[Sub(t)] = G(n)[Sub(t)]
    <3> DEFINE k == Len(Sub(t)) + 1
    <3>1. Sub(t) \in Seq(E) /\ k \in Nat /\ Len(Sub(t)) < k /\ k <= n
      BY <1>1, <2>5
    <3>2. R[Sub(t)] = G(k)[Sub(t)]
      BY <3>1
    <3>3. Solves(G(k), k)
      BY <1>7, <3>1
    <3> HIDE DEF R, k, n
    <3>4. Solves(G(n), k)
      <4>1. \A u \in Seq(E) : Len(u) < k => Len(u) < n
        BY <1>1, <2>1, <3>1
      <4> QED
        BY <2>3, <4>1
    <3> HIDE DEF Solves
    <3> QED
      BY <1>6, <3>1, <3>2, <3>3, <3>4
  <2> HIDE DEF R, n, Solves
  <2> QED
    BY <1>2, <2>4, <2>5
<1>9. R = [t \in Seq(E) |-> Next1(R, t)]
  <2>1. R = [t \in Seq(E) |-> R[t]]
    OBVIOUS
  <2> HIDE DEF R
  <2> QED
    BY <1>8, <2>1, Zenon
<1> HIDE DEF R
<1>10. Recursion(R, g, om, type, base, backward)
  BY <1>9, Zenon DEF Recursion, Next1
<1> QED
  BY <1>10

(* scan, however often it calls itself.                                    *)
LEMMA ScanFolds ==
  ASSUME NEW im \in Nat \ {0}, NEW om \in Nat \ {0}, im <= om, NEW g, Foldable(g, 0, Word(om)),
         Closed(g, Word(im)), Closed(g, Word(om)), NEW s \in Seq(Word(im)),
         NEW backward, Commutes(backward, g, Word(om)), NEW type, NEW base,
         NEW z \in Word(om), z = As(om, type, base), Holds(om, type, g, z, s, backward), NEW incl
  PROVE  Scan(g, im, om, type, s, base, incl, backward) = ScanForm(g, z, s, incl, backward)
<1> DEFINE E == Word(om)
           Next1(r, t) == ScanCall(g, om, om, type, t, base, Exclusive, backward, r)
           scan == CHOOSE r : r = [t \in Seq(E) |-> Next1(r, t)]
           Sub(t) == Sums(g, om, t, 0)
           Fits(t) == Holds(om, type, g, z, t, backward)
           Right(t) == scan[t] = ScanForm(g, z, t, Exclusive, backward)
<1>1. Scan(g, im, om, type, s, base, incl, backward)
        = ScanCall(g, im, om, type, s, base, incl, backward, scan)
  BY Zenon DEF Scan, Exclusive
<1>2. \A t \in Seq(E) : BlockCount(t) > 1 =>
        /\ Sub(t) \in Seq(E) /\ Len(Sub(t)) < Len(t)
        /\ Fits(t) => Fits(Sub(t))
  <2> SUFFICES ASSUME NEW t \in Seq(E), BlockCount(t) > 1
               PROVE  /\ Sub(t) \in Seq(E) /\ Len(Sub(t)) < Len(t)
                      /\ Fits(t) => Fits(Sub(t))
    OBVIOUS
  <2>1. Word(om) \subseteq Word(om)
    OBVIOUS
  <2>2. Sub(t) \in Seq(E) /\ Len(Sub(t)) < Len(t) /\ Results(Sub(t), g, 0, t)
    BY <2>1, ResultsOf
  <2> HIDE DEF Sub, scan
  <2> QED
    BY <2>2, HoldsOfSums
<1>3. scan = [t \in Seq(E) |-> Next1(scan, t)]
  <2>1. \E r : Recursion(r, g, om, type, base, backward)
    BY Recursive
  <2>2. \E r : r = [t \in Seq(E) |-> Next1(r, t)]
    BY <2>1, Zenon DEF Recursion
  <2> HIDE DEF Next1
  <2> QED
    BY <2>2, Zenon
<1> HIDE DEF scan
<1>4. ASSUME NEW t \in Seq(E), Fits(t), BlockCount(t) > 1 => Right(Sub(t)) PROVE Right(t)
  <2>1. Word(om) \subseteq Word(om)
    OBVIOUS
  <2>2. BlockCount(t) > 1 => Answers(scan, g, om, t, Sums(g, om, t, 0), z, backward)
    BY <1>4 DEF Answers
  <2>3. Next1(scan, t) = ScanForm(g, z, t, Exclusive, backward)
    BY <1>4, <2>1, <2>2, ScanCallRight
  <2> HIDE DEF Next1
  <2> QED
    BY <1>3, <2>3
<1> HIDE DEF Sub, Fits, Right, Next1
<1> DEFINE P == {n \in Nat : \A t \in Seq(E) : Len(t) = n /\ Fits(t) => Right(t)}
<1>5. ASSUME NEW n \in Nat, \A k \in 0 .. n - 1 : k \in P PROVE n \in P
  <2> SUFFICES ASSUME NEW t \in Seq(E), Len(t) = n, Fits(t) PROVE Right(t)
    OBVIOUS
  <2>1. ASSUME BlockCount(t) > 1 PROVE Right(Sub(t))
    <3>1. Sub(t) \in Seq(E) /\ Len(Sub(t)) < n /\ Fits(Sub(t))
      BY <1>2, <2>1
    <3>2. Len(Sub(t)) \in 0 .. n - 1
      BY <3>1
    <3>3. Len(Sub(t)) \in P
      BY <3>2, <1>5
    <3> QED
      BY <3>1, <3>3
  <2> QED
    BY <1>4, <2>1
<1> HIDE DEF P
<1>6. \A n \in Nat : n \in P
  BY <1>5, Course
<1>7. \A t \in Seq(E) : Fits(t) => Right(t)
  <2>1. \A t \in Seq(E) : Len(t) \in P
    BY <1>6
  <2> QED
    BY <2>1 DEF P
<1>8. Word(im) \subseteq E
  BY DEF Word
<1>9. BlockCount(s) > 1 => Answers(scan, g, im, s, Sums(g, im, s, 0), z, backward)
  <2> SUFFICES ASSUME BlockCount(s) > 1 PROVE Answers(scan, g, im, s, Sums(g, im, s, 0), z, backward)
    OBVIOUS
  <2> DEFINE S == Sums(g, im, s, 0)
  <2>1. S \in Seq(Word(om)) /\ Results(S, g, 0, s)
    BY <1>8, ResultsOf
  <2>2. s \in Seq(Word(om))
    BY <1>8, Widened
  <2> HIDE DEF S
  <2>3. Holds(om, type, g, z, S, backward)
    BY <2>1, <2>2, HoldsOfSums
  <2>4. Right(S)
    BY <1>7, <2>1, <2>3 DEF Fits
  <2> QED
    BY <2>4 DEF S, Answers, Right
<1>10. ScanCall(g, im, om, type, s, base, incl, backward, scan) = ScanForm(g, z, s, incl, backward)
  <2> HIDE DEF E
  <2> QED
    BY <1>8, <1>9, ScanCallRight DEF E
<1> QED
  BY <1>1, <1>10

(* A fold of the first entries is what the loop has come to behind them.   *)
LEMMA Prefix ==
  ASSUME NEW D, NEW s \in Seq(D), NEW t \in Seq(D), Piece(t, s, 0), NEW g, NEW z
  PROVE  Fold(g, z, t) = Loop(g, z, s)[Len(t)]
<1>1. Len(t) \in Nat /\ Len(s) \in Nat
  OBVIOUS
<1>2. z = Loop(g, z, s)[0]
  BY <1>1, LoopSteps
<1>3. \A i \in 0 .. Len(t) : Loop(g, z, t)[i] = Loop(g, z, s)[0 + i]
  <2> DEFINE a == z
  <2>1. a = Loop(g, z, s)[0] /\ 0 \in Nat
    BY <1>2
  <2> HIDE DEF a
  <2>2. \A i \in 0 .. Len(t) : Loop(g, a, t)[i] = Loop(g, z, s)[0 + i]
    BY <2>1, LoopOn
  <2> QED
    BY <2>2 DEF a
<1>4. Len(t) \in 0 .. Len(t) /\ 0 + Len(t) = Len(t)
  BY <1>1
<1> QED
  BY <1>3, <1>4 DEF Fold

(* The entries of an array that the loop has seen when it writes entry i.  *)
Above(s, i, incl, backward) ==
  IF backward THEN Reverse(SubSeq(s, IF incl THEN i ELSE i + 1, Len(s)))
  ELSE SubSeq(s, 1, IF incl THEN i ELSE i - 1)

LEMMA AboveFolds ==
  ASSUME NEW D, NEW s \in Seq(D), NEW n, n = Len(s), NEW i \in 1 .. n, NEW g, NEW z,
         NEW incl, NEW backward
  PROVE  Fold(g, z, Above(s, i, incl, backward))
           = Loop(g, z, Ordered(s, backward))[Seen(Place(n, i, backward), incl)]
<1>1. n \in Nat
  OBVIOUS
<1>2. CASE ~backward
  <2> DEFINE k == Seen(i, incl)
             t == SubSeq(s, 0 + 1, k)
  <2>1. k \in Nat /\ 0 <= k /\ k <= n /\ 0 + 1 = 1 /\ 0 \in Nat /\ k - 0 = k
    BY <1>1 DEF Seen
  <2>2. Above(s, i, incl, backward) = t
    BY <1>2, <2>1 DEF Above, Seen
  <2> HIDE DEF k
  <2>3. t \in Seq(D) /\ Len(t) = k - 0 /\ \A h \in 1 .. k - 0 : t[h] = s[0 + h]
    BY <2>1, Slice
  <2> HIDE DEF t
  <2>4. Piece(t, s, 0)
    BY <2>1, <2>3 DEF Piece
  <2>5. Fold(g, z, t) = Loop(g, z, s)[k]
    <3>1. Fold(g, z, t) = Loop(g, z, s)[Len(t)]
      BY <2>3, <2>4, Prefix
    <3> QED
      BY <2>1, <2>3, <3>1
  <2>6. Ordered(s, backward) = s /\ Seen(Place(n, i, backward), incl) = k
    BY <1>2 DEF Ordered, Place, k
  <2> QED
    BY <2>2, <2>5, <2>6
<1>3. CASE backward
  <2> DEFINE lo == IF incl THEN i - 1 ELSE i
             t == SubSeq(s, lo + 1, n)
             k == n - lo
  <2>1. lo \in Nat /\ lo <= n /\ k \in Nat /\ lo + k = n /\ n - n = 0
    BY <1>1
  <2>2. Above(s, i, incl, backward) = Reverse(t)
    <3>1. lo + 1 = IF incl THEN i ELSE i + 1
      BY <1>1
    <3> HIDE DEF lo
    <3> QED
      BY <1>3, <3>1 DEF Above
  <2>3. k = Seen(Place(n, i, backward), incl)
    BY <1>1, <1>3 DEF Seen, Place
  <2> HIDE DEF lo
  <2>4. t \in Seq(D) /\ Len(t) = k /\ \A h \in 1 .. k : t[h] = s[lo + h]
    <3>1. n \in Nat /\ lo \in Nat /\ lo <= n /\ n <= Len(s)
      BY <1>1, <2>1
    <3> QED
      BY <3>1, Slice
  <2> HIDE DEF t, k
  <2>5. Piece(t, s, lo)
    BY <2>1, <2>4 DEF Piece
  <2>6. Piece(Reverse(t), Reverse(s), n - (lo + k))
    BY <2>1, <2>4, <2>5, PieceReversed
  <2>7. Piece(Reverse(t), Reverse(s), 0)
    BY <2>1, <2>6
  <2>8. Reverse(t) \in Seq(D) /\ Len(Reverse(t)) = k /\ Reverse(s) \in Seq(D)
    BY <2>4, Reversed
  <2>9. Fold(g, z, Reverse(t)) = Loop(g, z, Reverse(s))[k]
    <3>1. Fold(g, z, Reverse(t)) = Loop(g, z, Reverse(s))[Len(Reverse(t))]
      BY <2>7, <2>8, Prefix
    <3> QED
      BY <2>8, <3>1
  <2>10. Ordered(s, backward) = Reverse(s)
    BY <1>3 DEF Ordered
  <2> QED
    BY <2>2, <2>3, <2>9, <2>10
<1> QED
  BY <1>2, <1>3

(* For every array, of any length, and every block size: each entry that   *)
(* scan writes, and its total, is what one loop over the array makes of    *)
(* the entries before it, or behind it, although the array is overwritten  *)
(* as it is read and the blocks are scanned in parallel, when the          *)
(* operation is associative, 0 is its left identity, it is commutative if  *)
(* the scan goes back, it stays in the type of the input, and the type of  *)
(* the caller's zero, whatever it is, holds the running totals.            *)
THEOREM ScanCorrect == CheckSpec => []ScanIsSerial
<1>1. Given => ScanIsSerial
  <2> DEFINE n == Len(array)
             Entries(i) == IF back THEN Reverse(SubSeq(array, IF inclusive THEN i ELSE i + 1, n))
                           ELSE SubSeq(array, 1, IF inclusive THEN i ELSE i - 1)
             E == Word(OutMod)
             e == ScanZero
  <2> SUFFICES ASSUME Given, Scannable
               PROVE  Scan(f, mod, OutMod, zeroType, array, zero, inclusive, back) =
                        [total |-> Fold(f, e, IF back THEN Reverse(array) ELSE array),
                         out   |-> [i \in 1 .. n |-> Fold(f, e, Entries(i))]]
    BY Zenon DEF ScanIsSerial
  <2>1. /\ mod \in Nat \ {0} /\ OutMod \in Nat \ {0} /\ mod <= OutMod
        /\ Word(mod) \subseteq E /\ DOMAIN f = E \X E /\ array \in Seq(Word(mod)) /\ OutMod > 0
    BY GangAlgoAssumption, GangAlgoCheckAssumption DEF Given, Word
  <2>1a. e \in E
    BY <2>1, AsType DEF Given, ScanZero
  <2>2. \A x, y \in E : f[<<x, y>>] \in E
    BY DEF Given
  <2>3. Closed(f, E)
    BY <2>1, <2>2 DEF Closed
  <2>4. Closed(f, Word(mod))
    BY <2>1 DEF Closed, Scannable
  <2>5. Foldable(f, 0, E)
    <3>1. 0 \in E
      BY <2>1 DEF Word
    <3> QED
      BY <2>2, <3>1 DEF Foldable, Steps, Scannable, Associative, LeftIdentity
  <2>6. Commutes(back, f, E)
    <3>1. CASE back
      BY <3>1 DEF Scannable, Commutative, Commutes
    <3>2. CASE ~back
      BY <3>2 DEF Commutes
    <3> QED
      BY <3>1, <3>2
  <2>7. Scan(f, mod, OutMod, zeroType, array, zero, inclusive, back) = ScanForm(f, e, array, inclusive, back)
    <3>1. e = As(OutMod, zeroType, zero)
      BY DEF ScanZero
    <3> HIDE DEF e, E
    <3>2. Holds(OutMod, zeroType, f, e, array, back)
      BY DEF Scannable, Holds, Ordered, e
    <3> QED
      BY <2>1, <2>1a, <2>3, <2>4, <2>5, <2>6, <3>1, <3>2, ScanFolds DEF E
  <2> HIDE DEF e
  <2>8. ASSUME NEW i \in 1 .. n
        PROVE  Fold(f, e, Entries(i)) = Loop(f, e, Ordered(array, back))[Seen(Place(n, i, back), inclusive)]
    <3>1. Above(array, i, inclusive, back) = Entries(i)
      BY Zenon DEF Above
    <3> HIDE DEF Entries
    <3> QED
      BY <2>1, <3>1, AboveFolds
  <2> HIDE DEF Entries
  <2>9. ScanForm(f, e, array, inclusive, back)
          = [total |-> Fold(f, e, IF back THEN Reverse(array) ELSE array),
             out   |-> [i \in 1 .. n |-> Fold(f, e, Entries(i))]]
    BY <2>8 DEF ScanForm, Ordered
  <2> QED
    BY <2>7, <2>9
<1> QED
  BY <1>1, GivenKept, PTL

-----------------------------------------------------------------------------
(* Counts.                                                                 *)

(* A number of a type is stored unchanged.                                 *)
LEMMA Small ==
  ASSUME NEW m \in Nat, NEW a \in 0 .. m - 1
  PROVE  a % m = a
BY SMT

(* It wraps at most once when it is less than twice the modulus.           *)
LEMMA WrapOnce ==
  ASSUME NEW m \in Nat \ {0}, NEW a \in Nat, a < 2 * m
  PROVE  a % m = IF a < m THEN a ELSE a - m
<1> DEFINE q == a \div m
           b == a % m
<1>1. q \in Nat /\ b \in 0 .. m - 1 /\ a = m * q + b
  BY DivMod
<1> HIDE DEF q, b
<1>2. q = 0 \/ q = 1 \/ q >= 2
  BY <1>1
<1>3. CASE q = 0
  <2>1. m * q = 0
    BY <1>3
  <2>2. a = b /\ a < m
    BY <1>1, <2>1
  <2> QED
    BY <2>2 DEF b
<1>4. CASE q = 1
  <2>1. m * q = m
    BY <1>4
  <2>2. a = m + b
    BY <1>1, <2>1
  <2>3. ~(a < m) /\ b = a - m
    BY <1>1, <2>2
  <2> QED
    BY <2>3 DEF b
<1>5. CASE q >= 2
  <2>1. 2 * m <= q * m /\ q * m = m * q
    BY <1>1, <1>5, ProductMono
  <2> QED
    BY <1>1, <2>1
<1> QED
  BY <1>2, <1>3, <1>4, <1>5

(* How many numbers of T are at most i.                                    *)
Upto(T, i) == Cardinality({h \in T : h <= i})

(* It grows by one at each number of T.                                    *)
LEMMA UptoSteps ==
  ASSUME NEW T \in SUBSET (Nat \ {0})
  PROVE  /\ Upto(T, 0) = 0
         /\ \A i \in Nat : Upto(T, i) \in Nat
         /\ \A i \in Nat : Upto(T, i + 1) = Upto(T, i) + IF i + 1 \in T THEN 1 ELSE 0
<1> DEFINE U(i) == {h \in T : h <= i}
<1>0. \A h \in T : h \in Nat /\ 0 < h
  OBVIOUS
<1>1. Upto(T, 0) = 0
  <2>1. U(0) = {}
    <3>1. \A h \in T : ~(h <= 0)
      BY <1>0
    <3> QED
      BY <3>1
  <2> QED
    BY <2>1, FS_EmptySet DEF Upto
<1>2. ASSUME NEW i \in Nat PROVE IsFiniteSet(U(i)) /\ Cardinality(U(i)) \in Nat
  <2>1. U(i) \subseteq 1 .. i
    <3>1. \A h \in T : h <= i => h \in 1 .. i
      BY <1>0
    <3> QED
      BY <3>1
  <2>2. IsFiniteSet(1 .. i)
    BY FS_Interval
  <2> HIDE DEF U
  <2> QED
    BY <2>1, <2>2, FS_Subset, FS_CardinalityType
<1>3. ASSUME NEW i \in Nat
      PROVE  Cardinality(U(i + 1)) = Cardinality(U(i)) + IF i + 1 \in T THEN 1 ELSE 0
  <2>1. CASE i + 1 \in T
    <3>1. U(i + 1) = U(i) \cup {i + 1} /\ i + 1 \notin U(i)
      <4>1. \A h \in T : h <= i + 1 <=> h <= i \/ h = i + 1
        BY <1>0
      <4>2. ~(i + 1 <= i)
        OBVIOUS
      <4> QED
        BY <2>1, <4>1, <4>2
    <3> HIDE DEF U
    <3> QED
      BY <2>1, <3>1, <1>2, FS_AddElement
  <2>2. CASE i + 1 \notin T
    <3>1. U(i + 1) = U(i)
      <4>1. \A h \in T : h <= i + 1 <=> h <= i \/ h = i + 1
        BY <1>0
      <4> QED
        BY <2>2, <4>1
    <3> HIDE DEF U
    <3> QED
      BY <2>2, <3>1, <1>2
  <2> QED
    BY <2>1, <2>2
<1> QED
  BY <1>1, <1>2, <1>3 DEF Upto

(* So it grows no faster than i.                                           *)
LEMMA UptoGrows ==
  ASSUME NEW T \in SUBSET (Nat \ {0}), NEW c \in Nat, NEW n \in Nat
  PROVE  Upto(T, c + n) - Upto(T, c) \in 0 .. n
<1> DEFINE P == {i \in Nat : Upto(T, c + i) - Upto(T, c) \in 0 .. i}
<1>1. /\ \A i \in Nat : Upto(T, i) \in Nat
      /\ \A i \in Nat : Upto(T, i + 1) = Upto(T, i) + IF i + 1 \in T THEN 1 ELSE 0
  BY UptoSteps
<1>2. 0 \in P
  <2>1. c + 0 = c /\ Upto(T, c) \in Nat
    BY <1>1
  <2> QED
    BY <2>1
<1>3. ASSUME NEW i \in 0 .. n - 1, i \in P PROVE i + 1 \in P
  <2>1. c + (i + 1) = (c + i) + 1 /\ c + i \in Nat
    OBVIOUS
  <2>2. Upto(T, c + (i + 1)) = Upto(T, c + i) + IF (c + i) + 1 \in T THEN 1 ELSE 0
    BY <1>1, <2>1
  <2>3. Upto(T, c + i) \in Nat /\ Upto(T, c) \in Nat
    BY <1>1, <2>1
  <2>4. Upto(T, c + i) - Upto(T, c) \in 0 .. i
    BY <1>3
  <2>5. Upto(T, c + (i + 1)) - Upto(T, c) \in 0 .. i + 1
    <3> DEFINE x == Upto(T, c + i)
               y == Upto(T, c)
               w == IF (c + i) + 1 \in T THEN 1 ELSE 0
    <3>1. w \in 0 .. 1
      OBVIOUS
    <3>2. Upto(T, c + (i + 1)) = x + w
      BY <2>2
    <3> HIDE DEF x, y, w
    <3>3. x \in Nat /\ y \in Nat /\ x - y \in 0 .. i
      BY <2>3, <2>4 DEF x, y
    <3>4. (x + w) - y \in 0 .. i + 1
      BY <3>1, <3>3
    <3> QED
      BY <3>2, <3>4 DEF y
  <2> QED
    BY <2>5
<1> HIDE DEF P
<1>4. \A i \in 0 .. n : i \in P
  BY <1>2, <1>3, UpTo
<1> QED
  BY <1>4 DEF P

(* The indices of the entries that are there.                              *)
Here(s, m) == {h \in 1 .. Len(s) : s[h] # Absent(m)}

(* g counts, in a type that holds less than cm, the entries that are there.*)
Tallies(g, cm, m) ==
  \A x \in Word(cm), y \in Word(m) : g[<<x, y>>] = (x + IF y = Absent(m) THEN 0 ELSE 1) % cm

(* tally++ does, also when the result is stored once more.                 *)
LEMMA TallyTallies ==
  ASSUME NEW m \in Nat \ {0}, NEW cm \in Nat \ {0}
  PROVE  Tallies(Tally(cm, m), cm, m) /\ Tallies(Into(cm, Tally(cm, m)), cm, m)
<1>1. ASSUME NEW x \in Word(cm), NEW y \in Word(m)
      PROVE  /\ <<x, y>> \in DOMAIN Tally(cm, m)
             /\ Tally(cm, m)[<<x, y>>] = (x + IF y = Absent(m) THEN 0 ELSE 1) % cm
  BY DEF Tally
<1>2. ASSUME NEW x \in Word(cm), NEW y \in Word(m)
      PROVE  Into(cm, Tally(cm, m))[<<x, y>>] = (x + IF y = Absent(m) THEN 0 ELSE 1) % cm
  <2> DEFINE a == x + IF y = Absent(m) THEN 0 ELSE 1
             b == a % cm
  <2>1. a \in Nat
    BY DEF Word
  <2> HIDE DEF a
  <2>2. b \in 0 .. cm - 1
    BY <2>1, DivMod
  <2>3. Into(cm, Tally(cm, m))[<<x, y>>] = b % cm
    <3> DEFINE g == Tally(cm, m)
    <3>1. <<x, y>> \in DOMAIN g /\ g[<<x, y>>] = b
      BY <1>1 DEF a
    <3> HIDE DEF g, b
    <3>2. Into(cm, g)[<<x, y>>] = b % cm
      BY <3>1 DEF Into
    <3> QED
      BY <3>2 DEF g
  <2> HIDE DEF b
  <2>4. b % cm = b
    BY <2>2
  <2> QED
    BY <2>3, <2>4 DEF a, b
<1> QED
  BY <1>1, <1>2 DEF Tallies

(* Counting the entries of a piece, from 0, with a number that can hold as *)
(* many as the piece has.                                                  *)
LEMMA TallyLoop ==
  ASSUME NEW m \in Nat \ {0}, NEW cm \in Nat, NEW s \in Seq(Word(m)), NEW t \in Seq(Word(m)),
         NEW c \in Nat, Piece(t, s, c), Len(t) < cm, NEW g, Tallies(g, cm, m)
  PROVE  \A i \in 0 .. Len(t) : Loop(g, 0, t)[i] = Upto(Here(s, m), c + i) - Upto(Here(s, m), c)
<1> DEFINE T == Here(s, m)
           n == Len(t)
           d(i) == Upto(T, c + i) - Upto(T, c)
           P == {i \in Nat : i \in 0 .. n => Loop(g, 0, t)[i] = d(i)}
<1>1. n \in Nat /\ n < cm /\ Len(s) \in Nat /\ c + n <= Len(s) /\ \A i \in 1 .. n : t[i] = s[c + i] /\ t[i] \in Word(m)
  BY ElementOfSeq DEF Piece
<1>2. T \in SUBSET (Nat \ {0})
  BY DEF Here
<1>3. Loop(g, 0, t)[0] = 0 /\ \A i \in 1 .. n : Loop(g, 0, t)[i] = g[<<Loop(g, 0, t)[i - 1], t[i]>>]
  BY <1>1, LoopSteps
<1> HIDE DEF T
<1>4. /\ \A i \in Nat : Upto(T, i) \in Nat
      /\ \A i \in Nat : Upto(T, i + 1) = Upto(T, i) + IF i + 1 \in T THEN 1 ELSE 0
  BY <1>2, UptoSteps
<1> HIDE DEF n
<1>5. 0 \in P
  <2>1. c + 0 = c /\ Upto(T, c) \in Nat
    BY <1>4
  <2> QED
    BY <1>3, <2>1
<1>6. ASSUME NEW i \in 0 .. n - 1, i \in P PROVE i + 1 \in P
  <2> DEFINE w == IF t[i + 1] = Absent(m) THEN 0 ELSE 1
             x == Loop(g, 0, t)[i]
  <2>1. /\ i \in Nat /\ i \in 0 .. n /\ i + 1 \in 1 .. n /\ i + 1 \in Nat /\ (i + 1) - 1 = i
        /\ c + (i + 1) = (c + i) + 1 /\ c + i \in Nat /\ (c + i) + 1 \in 1 .. Len(s)
    <3>1. n \in Nat /\ Len(s) \in Nat /\ c + n <= Len(s)
      BY <1>1
    <3> HIDE DEF P
    <3> QED
      BY <3>1
  <2>2. x = d(i)
    BY <2>1, <1>6
  <2>3. d(i) \in 0 .. i
    BY <1>2, <2>1, UptoGrows
  <2>4. t[i + 1] = s[(c + i) + 1] /\ t[i + 1] \in Word(m)
    <3> DEFINE h == i + 1
    <3>1. h \in 1 .. n /\ c + h = (c + i) + 1
      BY <2>1
    <3> HIDE DEF h
    <3>2. t[h] = s[c + h] /\ t[h] \in Word(m)
      BY <1>1, <3>1
    <3> QED
      BY <3>1, <3>2 DEF h
  <2>5. w = IF (c + i) + 1 \in T THEN 1 ELSE 0
    BY <2>1, <2>4 DEF T, Here
  <2>6. d(i + 1) = d(i) + w
    <3>1. Upto(T, (c + i) + 1) = Upto(T, c + i) + w
      BY <1>4, <2>1, <2>5
    <3>2. Upto(T, c + i) \in Nat /\ Upto(T, c) \in Nat /\ w \in 0 .. 1
      <4>1. c + i \in Nat /\ c \in Nat
        BY <2>1
      <4>2. Upto(T, c + i) \in Nat /\ Upto(T, c) \in Nat
        BY <1>4, <4>1
      <4>3. w \in 0 .. 1
        OBVIOUS
      <4> QED
        BY <4>2, <4>3
    <3>3. Upto(T, c + (i + 1)) = Upto(T, c + i) + w
      BY <2>1, <3>1
    <3> HIDE DEF w
    <3> QED
      BY <3>2, <3>3
  <2>7. w \in 0 .. 1
    OBVIOUS
  <2>8. Loop(g, 0, t)[i + 1] = g[<<x, t[i + 1]>>]
    BY <1>3, <2>1
  <2> HIDE DEF x, d
  <2>9. x \in Word(cm)
    BY <1>1, <2>1, <2>2, <2>3 DEF Word
  <2>10. g[<<x, t[i + 1]>>] = (x + w) % cm
    BY <2>4, <2>9 DEF Tallies
  <2> HIDE DEF w
  <2>11. (x + w) % cm = x + w
    <3>1. x + w \in 0 .. cm - 1
      <4>1. x \in 0 .. i /\ i \in Nat
        BY <2>1, <2>2, <2>3
      <4>2. i < n /\ n \in Nat /\ n < cm
        BY <1>1
      <4> HIDE DEF P
      <4> QED
        BY <2>7, <4>1, <4>2
    <3> QED
      BY <3>1, Small
  <2>12. Loop(g, 0, t)[i + 1] = d(i + 1)
    BY <2>2, <2>6, <2>8, <2>10, <2>11
  <2> QED
    BY <2>1, <2>12
<1> HIDE DEF P
<1>7. \A i \in 0 .. n : i \in P
  BY <1>1, <1>5, <1>6, UpTo
<1> QED
  BY <1>1, <1>7 DEF P, T, n

(* g adds two numbers of a type.                                           *)
Adds(g, m) == \A x, y \in Word(m) : g[<<x, y>>] = (x + y) % m

(* Addition does, also when the result is stored once more; it wraps at    *)
(* most once; and it is associative, with 0 for its identity.              *)
LEMMA SumAdds ==
  ASSUME NEW m \in Nat \ {0}
  PROVE  /\ Adds(Sum(m), m) /\ Adds(Into(m, Sum(m)), m)
         /\ Closed(Sum(m), Word(m)) /\ Foldable(Sum(m), 0, Word(m))
<1> DEFINE D == Word(m)
           g == Sum(m)
<1>1. g \in [D \X D -> D] /\ \A x, y \in D : g[<<x, y>>] = (x + y) % m
  BY SumType
<1>2. D = 0 .. m - 1 /\ 0 \in D
  BY DEF Word
<1> HIDE DEF g
<1>3. \A x, y \in D : <<x, y>> \in DOMAIN g /\ g[<<x, y>>] \in D
  BY <1>1
<1> HIDE DEF D
<1>4. Closed(g, Word(m))
  BY <1>3 DEF Closed, D
<1>5. \A x, y \in D : Into(m, g)[<<x, y>>] = g[<<x, y>>]
  BY <1>4, Stored DEF D
<1>6. ASSUME NEW x \in D, NEW y \in D
      PROVE  g[<<x, y>>] = IF x + y < m THEN x + y ELSE (x + y) - m
  <2>1. x \in Nat /\ y \in Nat /\ x + y \in Nat /\ x + y < 2 * m
    BY <1>2
  <2>2. (x + y) % m = IF x + y < m THEN x + y ELSE (x + y) - m
    BY <2>1, WrapOnce
  <2> QED
    BY <1>1, <2>2
<1>7. ASSUME NEW x \in D, NEW y \in D, NEW w \in D
      PROVE  g[<<g[<<x, y>>], w>>] = g[<<x, g[<<y, w>>]>>]
  <2> DEFINE p == g[<<x, y>>]
             q == g[<<y, w>>]
  <2>1. p \in D /\ q \in D
    BY <1>3
  <2>2. /\ p = IF x + y < m THEN x + y ELSE (x + y) - m
        /\ q = IF y + w < m THEN y + w ELSE (y + w) - m
    BY <1>6
  <2> HIDE DEF p, q
  <2>3. /\ g[<<p, w>>] = IF p + w < m THEN p + w ELSE (p + w) - m
        /\ g[<<x, q>>] = IF x + q < m THEN x + q ELSE (x + q) - m
    BY <1>6, <2>1
  <2>4. g[<<p, w>>] = g[<<x, q>>]
    BY <1>2, <2>1, <2>2, <2>3
  <2> QED
    BY <2>4 DEF p, q
<1>8. ASSUME NEW x \in D PROVE g[<<0, x>>] = x
  <2>1. x \in Nat /\ x < m /\ 0 + x = x
    BY <1>2
  <2>2. g[<<0, x>>] = IF 0 + x < m THEN 0 + x ELSE 0 + x - m
    BY <1>2, <1>6
  <2> QED
    BY <2>1, <2>2
<1>9. Foldable(g, 0, D)
  BY <1>2, <1>3, <1>7, <1>8 DEF Foldable, Steps
<1> QED
  BY <1>1, <1>4, <1>5, <1>9 DEF Adds, D, g

(* u rises below m by the n numbers of S.                                  *)
Climbs(u, S, n, m) ==
  /\ \A j \in 0 .. n : u[j] \in 0 .. m - 1
  /\ \A j \in 1 .. n : S[j] \in Nat /\ u[j] = u[j - 1] + S[j]

(* Sums that do not wrap: the loop comes to u, whose differences it adds.  *)
LEMMA SumLoop ==
  ASSUME NEW m \in Nat, NEW n \in Nat, NEW u, NEW S, Len(S) = n,
         Climbs(u, S, n, m), NEW g, Adds(g, m)
  PROVE  \A j \in 0 .. n : Loop(g, u[0], S)[j] = u[j]
<1> DEFINE L == Loop(g, u[0], S)
           P == {j \in Nat : j \in 0 .. n => L[j] = u[j]}
<1>0. /\ \A j \in 0 .. n : u[j] \in 0 .. m - 1
      /\ \A j \in 1 .. n : S[j] \in Nat /\ u[j] = u[j - 1] + S[j]
  BY DEF Climbs
<1>1. L[0] = u[0] /\ \A j \in 1 .. n : L[j] = g[<<L[j - 1], S[j]>>]
  BY LoopSteps
<1> HIDE DEF L
<1>2. 0 \in P
  BY <1>1
<1>3. ASSUME NEW j \in 0 .. n - 1, j \in P PROVE j + 1 \in P
  <2> DEFINE x == u[j]
             y == S[j + 1]
  <2>1. j \in 0 .. n /\ j + 1 \in 1 .. n /\ j + 1 \in 0 .. n /\ (j + 1) - 1 = j
    OBVIOUS
  <2>2. L[j] = x
    BY <2>1, <1>3
  <2>3. y \in Nat /\ u[j + 1] = x + y
    BY <1>0, <2>1
  <2>4. x \in 0 .. m - 1 /\ u[j + 1] \in 0 .. m - 1
    BY <1>0, <2>1
  <2>5. L[j + 1] = g[<<L[j], y>>]
    BY <1>1, <2>1
  <2> HIDE DEF x, y
  <2>6. y \in 0 .. m - 1 /\ x + y \in 0 .. m - 1
    BY <2>3, <2>4
  <2>7. g[<<x, y>>] = (x + y) % m
    BY <2>4, <2>6 DEF Adds, Word
  <2>8. (x + y) % m = x + y
    BY <2>6, Small
  <2>9. L[j + 1] = u[j + 1]
    BY <2>2, <2>3, <2>5, <2>7, <2>8
  <2> QED
    BY <2>9
<1> HIDE DEF P
<1>4. \A j \in 0 .. n : j \in P
  BY <1>2, <1>3, UpTo
<1> QED
  BY <1>4 DEF P, L

(* No block is longer than BlockSize.                                      *)
LEMMA BlockFits ==
  ASSUME NEW D, NEW s \in Seq(D), NEW nb, nb = BlockCount(s), nb > 1, NEW j \in 1 .. nb
  PROVE  Len(Block(s, j)) <= BlockSize /\ BlockSize < Len(s)
<1> DEFINE n == Len(s)
           lo == Edge(s, j - 1)
           hi == Edge(s, j)
<1>1. n \in Nat /\ nb \in Nat /\ n <= nb * BlockSize /\ 1 * BlockSize < n
  <2>1. n \in Nat /\ nb = (n + BlockSize - 1) \div BlockSize
    BY DEF BlockCount
  <2> HIDE DEF n
  <2>2. nb \in Nat /\ n <= nb * BlockSize /\ \A i \in 0 .. nb - 1 : i * BlockSize < n
    BY <2>1, EnoughBlocks
  <2>3. 1 \in 0 .. nb - 1
    BY <2>2
  <2> QED
    BY <2>1, <2>2, <2>3
<1>2. /\ lo \in Nat /\ hi \in Nat /\ Len(Block(s, j)) \in Nat
      /\ lo + Len(Block(s, j)) = hi
  BY BlockPiece
<1>3. lo = (j - 1) * BlockSize
  BY Edges
<1>4. BlockSize \in Nat /\ j \in Nat
  BY <1>1, GangAlgoAssumption
<1>5. j * BlockSize = (j - 1) * BlockSize + BlockSize
  BY <1>4
<1>6. hi <= j * BlockSize
  <2>1. CASE j = nb
    BY <1>1, <2>1 DEF Edge
  <2>2. CASE j # nb
    <3>1. hi = j * BlockSize
      BY <2>2 DEF Edge
    <3> QED
      BY <1>2, <3>1
  <2> QED
    BY <2>1, <2>2
<1> HIDE DEF lo, hi, n
<1>7. Len(Block(s, j)) <= BlockSize
  <2> DEFINE e == j * BlockSize
  <2>1. e = lo + BlockSize /\ hi <= e
    BY <1>3, <1>5, <1>6
  <2> HIDE DEF e
  <2> QED
    BY <1>2, <1>4, <2>1
<1>8. BlockSize < n
  BY <1>1, <1>4
<1> QED
  BY <1>7, <1>8 DEF n

(* What the parts of a count find, each in its block.                      *)
LEMMA BlockCounts ==
  ASSUME NEW m \in Nat, BlockSize < m, NEW s \in Seq(Word(m)), NEW nb, nb = BlockCount(s), nb > 1
  PROVE  /\ Sums(Tally(m, m), m, s, 0) \in Seq(0 .. BlockSize)
         /\ Len(Sums(Tally(m, m), m, s, 0)) = nb
         /\ \A j \in 1 .. nb :
              Upto(Here(s, m), Edge(s, j))
                = Upto(Here(s, m), Edge(s, j - 1)) + Sums(Tally(m, m), m, s, 0)[j]
<1> DEFINE T == Here(s, m)
           D == Word(m)
           g == Into(m, Tally(m, m))
           S == Sums(Tally(m, m), m, s, 0)
           u(j) == Upto(T, Edge(s, j))
<1>1. m \in Nat \ {0} /\ nb \in Nat /\ s \in Seq(D) /\ BlockSize \in Nat
  BY GangAlgoAssumption, Edges
<1>2. T \in SUBSET (Nat \ {0})
  BY DEF Here
<1>3. S = [j \in 1 .. nb |-> Fold(g, 0, Block(s, j))]
  BY Zenon DEF Sums, ReduceSerial
<1>4. Tallies(g, m, m)
  BY <1>1, TallyTallies
<1> HIDE DEF g, S, T
<1>5. ASSUME NEW j \in 1 .. nb
      PROVE  S[j] \in 0 .. BlockSize /\ u(j) = u(j - 1) + S[j]
  <2> DEFINE b == Block(s, j)
             c == Edge(s, j - 1)
             l == Len(b)
  <2>1. c \in Nat /\ b \in Seq(D) /\ l \in Nat /\ c + l = Edge(s, j) /\ Piece(b, s, c)
    BY <1>1, BlockPiece
  <2>2. l <= BlockSize
    BY <1>1, BlockFits
  <2>3. S[j] = Loop(g, 0, b)[l]
    BY <1>3 DEF Fold
  <2> HIDE DEF b, c, D
  <2>4. Loop(g, 0, b)[l] = Upto(T, c + l) - Upto(T, c)
    <3>1. \A i \in 0 .. Len(b) : Loop(g, 0, b)[i] = Upto(T, c + i) - Upto(T, c)
      <4>1. Len(b) < m
        BY <1>1, <2>1, <2>2
      <4> QED
        BY <1>1, <1>4, <2>1, <4>1, TallyLoop DEF T, D
    <3>2. l \in 0 .. Len(b)
      BY <2>1
    <3> QED
      BY <3>1, <3>2
  <2> HIDE DEF l
  <2>5. Upto(T, c + l) - Upto(T, c) \in 0 .. l
    BY <1>2, <2>1, UptoGrows
  <2>6. Upto(T, c + l) \in Nat /\ Upto(T, c) \in Nat
    <3>1. c + l \in Nat
      BY <2>1
    <3> QED
      BY <1>2, <2>1, <3>1, UptoSteps
  <2>7. S[j] \in 0 .. BlockSize
    BY <1>1, <2>1, <2>2, <2>3, <2>4, <2>5
  <2>8. Upto(T, c + l) = Upto(T, c) + S[j]
    BY <2>3, <2>4, <2>6
  <2> QED
    BY <2>1, <2>7, <2>8 DEF c
<1>6. S = [j \in 1 .. nb |-> S[j]]
  BY <1>3
<1>7. S \in Seq(0 .. BlockSize) /\ Len(S) = nb
  BY <1>1, <1>5, <1>6, Built
<1> QED
  BY <1>5, <1>7 DEF S, T

(* All the entries that are there.                                         *)
LEMMA UptoAll ==
  ASSUME NEW T, NEW n \in Nat, T \subseteq 1 .. n
  PROVE  Upto(T, n) = Cardinality(T)
<1>1. \A h \in T : h <= n
  OBVIOUS
<1>2. {h \in T : h <= n} = T
  BY <1>1
<1> QED
  BY <1>2 DEF Upto

(* Adding up the blocks' counts: at each edge, as many as there are before *)
(* it.                                                                     *)
LEMMA CountsAdded ==
  ASSUME NEW m \in Nat, BlockSize < m, NEW s \in Seq(Word(m)), NEW nb, nb = BlockCount(s), nb > 1,
         Len(s) < SizeMod, NEW g, Adds(g, SizeMod)
  PROVE  \A j \in 0 .. nb :
           Loop(g, 0, Sums(Tally(m, m), m, s, 0))[j] = Upto(Here(s, m), Edge(s, j))
<1> DEFINE T == Here(s, m)
           n == Len(s)
           S == Sums(Tally(m, m), m, s, 0)
           u == [j \in 0 .. nb |-> Upto(T, Edge(s, j))]
<1>1. n \in Nat /\ nb \in Nat /\ Edge(s, 0) = 0 /\ \A j \in 0 .. nb : Edge(s, j) \in 0 .. n
  BY Edges
<1>2. T \in SUBSET (Nat \ {0})
  BY DEF Here
<1>3. /\ S \in Seq(0 .. BlockSize) /\ Len(S) = nb
      /\ \A j \in 1 .. nb : Upto(T, Edge(s, j)) = Upto(T, Edge(s, j - 1)) + S[j]
  BY BlockCounts
<1> HIDE DEF T, S
<1>4. SizeMod \in Nat
  BY GangAlgoAssumption
<1> HIDE DEF n
<1>5. ASSUME NEW j \in 0 .. nb PROVE u[j] \in 0 .. SizeMod - 1
  <2> DEFINE c == Edge(s, j)
  <2>1. c \in 0 .. n /\ c \in Nat
    BY <1>1
  <2> HIDE DEF c
  <2>2. Upto(T, 0 + c) - Upto(T, 0) \in 0 .. c
    BY <1>1, <1>2, <2>1, UptoGrows
  <2>3. Upto(T, 0) = 0 /\ Upto(T, c) \in Nat
    BY <1>1, <1>2, <2>1, UptoSteps
  <2>4. Upto(T, c) \in 0 .. SizeMod - 1
    <3>1. 0 + c = c /\ n < SizeMod
      BY <2>1, <1>1 DEF n
    <3>2. Upto(T, c) <= c
      BY <2>1, <2>2, <2>3, <3>1
    <3> QED
      BY <1>1, <1>4, <2>1, <2>3, <3>1, <3>2
  <2>5. u[j] = Upto(T, c)
    BY DEF c
  <2> QED
    BY <2>4, <2>5
<1>6. u[0] = 0
  <2>1. Upto(T, 0) = 0
    BY <1>2, UptoSteps
  <2>2. u[0] = Upto(T, Edge(s, 0))
    BY <1>1
  <2> QED
    BY <1>1, <2>1, <2>2
<1>7. ASSUME NEW j \in 1 .. nb PROVE S[j] \in Nat /\ u[j] = u[j - 1] + S[j]
  <2>1. j \in 0 .. nb /\ j - 1 \in 0 .. nb
    BY <1>1
  <2>2. S[j] \in 0 .. BlockSize
    BY <1>3, ElementOfSeq
  <2> QED
    BY <1>3, <2>1, <2>2
<1>8. \A j \in 0 .. nb : u[j] = Upto(T, Edge(s, j))
  OBVIOUS
<1> HIDE DEF u
<1>9. \A j \in 0 .. nb : Loop(g, u[0], S)[j] = u[j]
  <2>1. Climbs(u, S, nb, SizeMod)
    BY <1>5, <1>7 DEF Climbs
  <2> QED
    BY <1>1, <1>3, <1>4, <2>1, SumLoop
<1> QED
  BY <1>6, <1>8, <1>9 DEF S, T

(* The array is a piece of itself.                                         *)
LEMMA WholePiece ==
  ASSUME NEW D, NEW s \in Seq(D)
  PROVE  Len(s) \in Nat /\ Piece(s, s, 0)
<1>1. Len(s) \in Nat /\ 0 + Len(s) <= Len(s) /\ \A i \in 1 .. Len(s) : 0 + i = i
  OBVIOUS
<1> QED
  BY <1>1 DEF Piece

(* count.                                                                  *)
LEMMA CountRight ==
  ASSUME NEW m \in Nat, BlockSize < m, NEW s \in Seq(Word(m)), Len(s) < SizeMod
  PROVE  Count(m, s) = Cardinality(Here(s, m))
<1> DEFINE T == Here(s, m)
           n == Len(s)
           nb == BlockCount(s)
<1>1. m \in Nat \ {0} /\ SizeMod \in Nat \ {0} /\ BlockSize \in Nat /\ n \in Nat
  BY GangAlgoAssumption
<1>2. T \subseteq 1 .. n /\ T \in SUBSET (Nat \ {0})
  BY DEF Here
<1>3. nb \in Nat /\ n <= nb * BlockSize
  <2> HIDE DEF n
  <2> QED
    BY <1>1, EnoughBlocks DEF BlockCount, n
<1> HIDE DEF T
<1>4. Upto(T, n) = Cardinality(T) /\ Upto(T, 0) = 0 /\ Upto(T, n) \in Nat
  BY <1>1, <1>2, UptoAll, UptoSteps
<1>5. CASE nb <= 1
  <2> DEFINE g == Into(m, Tally(m, m))
  <2>1. n <= BlockSize
    <3>1. nb = 0 \/ nb = 1
      BY <1>3, <1>5
    <3>2. 0 * BlockSize = 0 /\ 1 * BlockSize = BlockSize
      BY <1>1
    <3> HIDE DEF nb, n
    <3> QED
      BY <1>1, <1>3, <3>1, <3>2
  <2>2. Count(m, s) = Loop(g, 0, s)[n]
    BY <1>5, Zenon DEF Count, CountSerial, ReduceSerial, Fold
  <2>3. Tallies(g, m, m)
    BY <1>1, TallyTallies
  <2> HIDE DEF g
  <2>4. \A i \in 0 .. Len(s) : Loop(g, 0, s)[i] = Upto(T, 0 + i) - Upto(T, 0)
    <3>1. Len(s) < m /\ 0 \in Nat
      BY <1>1, <2>1
    <3>2. Piece(s, s, 0)
      BY WholePiece
    <3> QED
      BY <1>1, <2>3, <3>1, <3>2, TallyLoop DEF T
  <2>5. n \in 0 .. Len(s) /\ 0 + n = n
    BY <1>1
  <2> HIDE DEF n
  <2> QED
    BY <1>4, <2>2, <2>4, <2>5 DEF T
<1>6. CASE ~(nb <= 1)
  <2> DEFINE S == Sums(Tally(m, m), m, s, 0)
             g == Into(SizeMod, Sum(SizeMod))
  <2>1. nb > 1 /\ nb = BlockCount(s)
    BY <1>3, <1>6
  <2>2. Count(m, s) = Loop(g, 0, S)[Len(S)]
    BY <1>6, Zenon DEF Count, ReduceSerial, Fold
  <2>3. Adds(g, SizeMod)
    BY <1>1, SumAdds
  <2>4. Len(S) = nb
    BY <2>1, BlockCounts
  <2> HIDE DEF nb, g
  <2>5. \A j \in 0 .. nb : Loop(g, 0, S)[j] = Upto(T, Edge(s, j))
    BY <2>1, <2>3, CountsAdded DEF T
  <2>6. Edge(s, nb) = n /\ nb \in 0 .. nb
    BY <1>3, <2>1, Edges
  <2> HIDE DEF S
  <2> QED
    BY <1>4, <2>2, <2>4, <2>5, <2>6 DEF T
<1> QED
  BY <1>5, <1>6

(* Where the entries go that are there: one behind the other.              *)
Packed(T, b, e) == {<<Upto(T, i - 1), i - 1>> : i \in {i \in T : b < i /\ i <= e}}

(* packSerial, for a range whose output begins where the entries before it *)
(* end.                                                                    *)
LEMMA PackSerialRight ==
  ASSUME NEW m \in Nat \ {0}, NEW s \in Seq(Word(m)), Len(s) < SizeMod,
         NEW b \in Nat, NEW e \in Nat, b <= e, e <= Len(s), NEW o, o = Upto(Here(s, m), b)
  PROVE  /\ PackSerial(m, s, b, e, o).count = Upto(Here(s, m), e) - Upto(Here(s, m), b)
         /\ PackSerial(m, s, b, e, o).writes = Packed(Here(s, m), b, e)
<1> DEFINE T == Here(s, m)
           t == SubSeq(s, b + 1, e)
           k == Loop(Tally(SizeMod, m), 0, t)
           l == e - b
           I == {i \in b .. e - 1 : s[i + 1] # Absent(m)}
<1>1. SizeMod \in Nat \ {0} /\ l \in Nat /\ b + l = e /\ Len(s) \in Nat
  BY GangAlgoAssumption
<1>2. t \in Seq(Word(m)) /\ Len(t) = l /\ \A i \in 1 .. l : t[i] = s[b + i]
  BY Slice
<1>3. T \in SUBSET (Nat \ {0}) /\ \A i \in Nat : i \in T <=> i \in 1 .. Len(s) /\ s[i] # Absent(m)
  BY DEF Here
<1>4. /\ PackSerial(m, s, b, e, o).count = k[l]
      /\ PackSerial(m, s, b, e, o).writes = {<<o + k[i - b], i>> : i \in I}
  BY DEF PackSerial
<1> HIDE DEF t, T
<1>5. \A i \in 0 .. l : k[i] = Upto(T, b + i) - Upto(T, b)
  <2> DEFINE g == Tally(SizeMod, m)
  <2>1. Tallies(g, SizeMod, m)
    BY <1>1, TallyTallies
  <2>2. Piece(t, s, b)
    BY <1>1, <1>2 DEF Piece
  <2>3. Len(t) < SizeMod
    BY <1>1, <1>2
  <2> HIDE DEF g, l
  <2>4. \A i \in 0 .. Len(t) : Loop(g, 0, t)[i] = Upto(T, b + i) - Upto(T, b)
    BY <1>1, <1>2, <2>1, <2>2, <2>3, TallyLoop DEF T
  <2> QED
    BY <1>2, <2>4 DEF g
<1> HIDE DEF k
<1>6. k[l] = Upto(T, e) - Upto(T, b)
  <2>1. l \in 0 .. l
    BY <1>1
  <2> HIDE DEF l
  <2> QED
    BY <1>1, <1>5, <2>1
<1>7. ASSUME NEW i \in b .. e - 1 PROVE o + k[i - b] = Upto(T, i)
  <2>1. i - b \in 0 .. l /\ b + (i - b) = i /\ i \in Nat
    BY <1>1
  <2>2. k[i - b] = Upto(T, i) - Upto(T, b)
    BY <1>5, <2>1
  <2>3. Upto(T, i) \in Nat /\ Upto(T, b) \in Nat
    BY <1>3, <2>1, UptoSteps
  <2>4. o = Upto(T, b)
    BY DEF T
  <2> QED
    BY <2>2, <2>3, <2>4
<1>8. {<<o + k[i - b], i>> : i \in I} = Packed(T, b, e)
  <2> DEFINE R == {i \in T : b < i /\ i <= e}
  <2>1. \A i \in I : i + 1 \in R /\ (i + 1) - 1 = i /\ o + k[i - b] = Upto(T, i)
    BY <1>1, <1>3, <1>7
  <2>2. \A i \in R : i - 1 \in I /\ i - 1 \in b .. e - 1 /\ o + k[(i - 1) - b] = Upto(T, i - 1)
    <3>1. \A i \in R : i \in Nat /\ i - 1 \in b .. e - 1 /\ (i - 1) + 1 = i /\ s[i] # Absent(m)
      BY <1>1, <1>3
    <3>2. \A i \in R : i - 1 \in I
      BY <3>1
    <3> HIDE DEF R, I
    <3> QED
      BY <3>1, <3>2, <1>7
  <2> HIDE DEF I, R
  <2>3. ASSUME NEW i \in I PROVE \E h \in R : <<o + k[i - b], i>> = <<Upto(T, h - 1), h - 1>>
    <3> DEFINE h == i + 1
    <3>1. h \in R /\ h - 1 = i /\ o + k[i - b] = Upto(T, i)
      BY <2>1
    <3> HIDE DEF h
    <3> QED
      BY <3>1
  <2>4. ASSUME NEW h \in R PROVE \E i \in I : <<o + k[i - b], i>> = <<Upto(T, h - 1), h - 1>>
    BY <2>2
  <2>5. Packed(T, b, e) = {<<Upto(T, h - 1), h - 1>> : h \in R}
    BY DEF Packed, R
  <2> QED
    BY <2>3, <2>4, <2>5
<1> QED
  BY <1>4, <1>6, <1>8 DEF T

(* The blocks' ranges of the output are one behind the other.              *)
LEMMA PackOffsetsRight ==
  ASSUME NEW m \in Nat, BlockSize < m, NEW s \in Seq(Word(m)), Len(s) < SizeMod,
         NEW nb, nb = BlockCount(s), nb > 1
  PROVE  /\ PackOffsets(m, s).total = Cardinality(Here(s, m))
         /\ \A j \in 1 .. nb : PackOffsets(m, s).out[j] = Upto(Here(s, m), Edge(s, j - 1))
<1> DEFINE T == Here(s, m)
           n == Len(s)
           S == Sums(Tally(m, m), m, s, 0)
           g == Sum(SizeMod)
           E == Word(SizeMod)
<1>1. SizeMod \in Nat \ {0} /\ BlockSize \in Nat /\ n \in Nat /\ nb \in Nat /\ n < SizeMod
  BY GangAlgoAssumption, Edges
<1>2. T \subseteq 1 .. n /\ Edge(s, nb) = n
  BY Edges DEF Here
<1>3. Adds(g, SizeMod) /\ Closed(g, E) /\ Foldable(g, 0, E) /\ 0 \in E
  BY <1>1, SumAdds DEF Foldable
<1>4. S \in Seq(0 .. BlockSize) /\ Len(S) = nb
  BY BlockCounts
<1>5. BlockSize < n
  <2>1. 1 \in 1 .. nb
    BY <1>1
  <2> QED
    BY <2>1, BlockFits
<1>6. 0 .. BlockSize \subseteq E
  BY <1>1, <1>5 DEF Word
<1>7. PackOffsets(m, s) = Scan(g, SizeMod, SizeMod, Unsigned(SizeMod), S, 0, Exclusive, Exclusive)
  BY Zenon DEF PackOffsets, Exclusive
<1> HIDE DEF T, g, S
<1>8. \A j \in 0 .. nb : Loop(g, 0, S)[j] = Upto(T, Edge(s, j))
  BY <1>1, <1>3, CountsAdded DEF T, S
<1> HIDE DEF E, n
<1>9. S \in Seq(E)
  BY <1>4, <1>6, Widened
<1>10. Scan(g, SizeMod, SizeMod, Unsigned(SizeMod), S, 0, Exclusive, Exclusive) = ScanForm(g, 0, S, Exclusive, Exclusive)
  <2>1. Commutes(Exclusive, g, E)
    BY DEF Commutes, Exclusive
  <2>2. SizeMod <= SizeMod
    BY <1>1
  <2>3. /\ As(SizeMod, Unsigned(SizeMod), 0) = 0
        /\ Holds(SizeMod, Unsigned(SizeMod), g, 0, S, Exclusive)
    BY <1>1, <1>3, <1>9, ScanOwnForm DEF E
  <2> QED
    BY <1>1, <1>3, <1>9, <2>1, <2>2, <2>3, ScanFolds DEF E
<1>11. /\ ScanForm(g, 0, S, Exclusive, Exclusive).total = Loop(g, 0, S)[nb]
       /\ \A j \in 1 .. nb : ScanForm(g, 0, S, Exclusive, Exclusive).out[j] = Loop(g, 0, S)[j - 1]
  BY <1>4 DEF ScanForm, Ordered, Exclusive, Seen, Place, Fold
<1>12. Loop(g, 0, S)[nb] = Cardinality(T)
  <2>1. nb \in 0 .. nb
    BY <1>1
  <2>2. Upto(T, n) = Cardinality(T)
    BY <1>1, <1>2, UptoAll
  <2> QED
    BY <1>2, <1>8, <2>1, <2>2
<1>13. ASSUME NEW j \in 1 .. nb PROVE Loop(g, 0, S)[j - 1] = Upto(T, Edge(s, j - 1))
  <2>1. j - 1 \in 0 .. nb
    BY <1>1
  <2> QED
    BY <1>8, <2>1
<1> QED
  BY <1>7, <1>10, <1>11, <1>12, <1>13 DEF T

(* pack.                                                                   *)
LEMMA PackRight ==
  ASSUME NEW m \in Nat, BlockSize < m, NEW s \in Seq(Word(m)), Len(s) < SizeMod
  PROVE  Pack(m, s) = [count |-> Cardinality(Here(s, m)), writes |-> Packed(Here(s, m), 0, Len(s))]
<1> DEFINE T == Here(s, m)
           n == Len(s)
           nb == BlockCount(s)
<1>1. m \in Nat \ {0} /\ BlockSize \in Nat /\ n \in Nat /\ 0 <= n
  BY GangAlgoAssumption
<1>2. T \subseteq 1 .. n /\ T \in SUBSET (Nat \ {0})
  BY DEF Here
<1>3. nb \in Nat
  <2> HIDE DEF n
  <2> QED
    BY <1>1, EnoughBlocks DEF BlockCount, n
<1>4. Upto(T, 0) = 0 /\ Upto(T, n) = Cardinality(T) /\ Upto(T, n) \in Nat
  <2> HIDE DEF T, n
  <2> QED
    BY <1>1, <1>2, UptoAll, UptoSteps
<1>5. CASE nb <= 1
  <2> DEFINE p == PackSerial(m, s, 0, n, 0)
  <2>1. Pack(m, s) = p
    BY <1>5, Zenon DEF Pack
  <2>2. p.count = Upto(T, n) - Upto(T, 0) /\ p.writes = Packed(T, 0, n)
    <3> DEFINE o == 0
    <3>1. o = Upto(Here(s, m), 0)
      BY <1>4
    <3> HIDE DEF o
    <3>2. /\ PackSerial(m, s, 0, n, o).count = Upto(T, n) - Upto(T, 0)
          /\ PackSerial(m, s, 0, n, o).writes = Packed(T, 0, n)
      BY <1>1, <3>1, PackSerialRight
    <3> QED
      BY <3>2 DEF o
  <2>3. p = [count |-> p.count, writes |-> p.writes]
    BY DEF PackSerial
  <2> HIDE DEF p, T, n
  <2>4. p.count = Cardinality(T)
    BY <1>4, <2>2
  <2> QED
    BY <2>1, <2>2, <2>3, <2>4 DEF T, n
<1>6. CASE ~(nb <= 1)
  <2> DEFINE offsets == PackOffsets(m, s)
             Writes(j) == PackSerial(m, s, (j - 1) * BlockSize,
                                     (j - 1) * BlockSize + Len(Block(s, j)), offsets.out[j]).writes
  <2>1. nb > 1 /\ nb = BlockCount(s)
    BY <1>3, <1>6
  <2>2. Pack(m, s) = [count |-> offsets.total, writes |-> UNION {Writes(j) : j \in 1 .. nb}]
    BY <1>6, Zenon DEF Pack
  <2>3. /\ offsets.total = Cardinality(T)
        /\ \A j \in 1 .. nb : offsets.out[j] = Upto(T, Edge(s, j - 1))
    <3> HIDE DEF nb
    <3> QED
      BY <2>1, PackOffsetsRight
  <2> HIDE DEF offsets, nb
  <2>4. ASSUME NEW j \in 1 .. nb PROVE Writes(j) = Packed(T, Edge(s, j - 1), Edge(s, j))
    <3> DEFINE b == Edge(s, j - 1)
               e == Edge(s, j)
               o == offsets.out[j]
               l == Len(Block(s, j))
    <3>1. b \in Nat /\ e \in Nat /\ e <= Len(s) /\ l \in Nat \ {0} /\ b + l = e
      BY <2>1, BlockPiece
    <3>2. b = (j - 1) * BlockSize
      BY <2>1, Edges
    <3>3. o = Upto(Here(s, m), b)
      BY <2>3
    <3>4. Writes(j) = PackSerial(m, s, b, e, o).writes
      <4>1. Writes(j) = PackSerial(m, s, (j - 1) * BlockSize, (j - 1) * BlockSize + l, o).writes
        OBVIOUS
      <4> HIDE DEF Writes, b, e, l, o
      <4> QED
        BY <3>1, <3>2, <4>1
    <3> HIDE DEF Writes, b, e, l, o
    <3>5. b <= e
      BY <3>1
    <3>6. PackSerial(m, s, b, e, o).writes = Packed(T, b, e)
      BY <1>1, <3>1, <3>3, <3>5, PackSerialRight
    <3> QED
      BY <3>4, <3>6 DEF b, e
  <2>5. UNION {Writes(j) : j \in 1 .. nb} = Packed(T, 0, n)
    <3> DEFINE R(b, e) == {i \in T : b < i /\ i <= e}
               w(i) == <<Upto(T, i - 1), i - 1>>
    <3>1. \A b, e : Packed(T, b, e) = {w(i) : i \in R(b, e)}
      BY Zenon DEF Packed
    <3>2. ASSUME NEW j \in 1 .. nb PROVE R(Edge(s, j - 1), Edge(s, j)) \subseteq R(0, n)
      <4> DEFINE b == Edge(s, j - 1)
                 e == Edge(s, j)
      <4>1. b \in Nat /\ e \in Nat /\ e <= n
        BY <2>1, BlockPiece
      <4> HIDE DEF b, e
      <4>2. \A i \in T : i <= e /\ b < i => 0 < i /\ i <= n
        BY <1>1, <1>2, <4>1
      <4>3. R(b, e) \subseteq R(0, n)
        BY <4>2
      <4> QED
        BY <4>3 DEF b, e
    <3>3. ASSUME NEW i \in R(0, n) PROVE \E j \in 1 .. nb : i \in R(Edge(s, j - 1), Edge(s, j))
      <4> DEFINE q == (i - 1) \div BlockSize
                 r == ((i - 1) % BlockSize) + 1
                 j == q + 1
      <4>1. i \in T /\ i \in 1 .. n /\ i - 1 \in Nat /\ BlockSize \in Nat \ {0}
        BY <1>2, GangAlgoAssumption
      <4>2. q \in Nat /\ (i - 1) % BlockSize \in 0 .. BlockSize - 1
        BY <4>1, DivMod
      <4>3. j \in 1 .. nb /\ r \in 1 .. Len(Block(s, j)) /\ i = Edge(s, q) + ((i - 1) % BlockSize) + 1
        BY <2>1, <4>1, Within
      <4>4. j - 1 = q
        BY <4>2
      <4> HIDE DEF q, j
      <4>5. /\ Edge(s, q) \in Nat /\ Edge(s, j) \in Nat /\ Len(Block(s, j)) \in Nat
            /\ Edge(s, q) + Len(Block(s, j)) = Edge(s, j)
        <5>1. /\ Edge(s, j - 1) \in Nat /\ Edge(s, j) \in Nat /\ Len(Block(s, j)) \in Nat
              /\ Edge(s, j - 1) + Len(Block(s, j)) = Edge(s, j)
          BY <2>1, <4>3, BlockPiece
        <5> QED
          BY <4>4, <5>1
      <4>6. i = Edge(s, q) + r
        BY <4>1, <4>2, <4>3, <4>5
      <4> HIDE DEF r
      <4>7. Edge(s, q) < i /\ i <= Edge(s, j)
        BY <4>3, <4>5, <4>6
      <4>8. i \in R(Edge(s, j - 1), Edge(s, j))
        BY <4>1, <4>4, <4>7
      <4> QED
        BY <4>3, <4>8
    <3> HIDE DEF R, w, Writes
    <3>4. \A j \in 1 .. nb : Writes(j) = {w(i) : i \in R(Edge(s, j - 1), Edge(s, j))}
      BY <2>4, <3>1
    <3>5. Packed(T, 0, n) = {w(i) : i \in R(0, n)}
      BY <3>1
    <3>6. \A p : p \in Packed(T, 0, n) <=> \E j \in 1 .. nb : p \in Writes(j)
      BY <3>2, <3>3, <3>4, <3>5
    <3> QED
      BY <3>6
  <2> HIDE DEF Writes
  <2> QED
    BY <2>2, <2>3, <2>5
<1> QED
  BY <1>5, <1>6

LEMMA PresentHere ==
  ASSUME Given
  PROVE  Present = Here(array, mod)
<1>1. array \in Seq(Word(mod))
  BY DEF Given
<1>2. DOMAIN array = 1 .. Len(array)
  BY <1>1
<1> QED
  BY <1>2 DEF Present, Here

(* For every array, of any length, and every block size: pack writes the   *)
(* entries that are there, all of them, in their order, from position 0 on *)
(* without a gap and no position twice, whatever block each is in, and     *)
(* returns how many they are.                                              *)
THEOREM PackCorrect == CheckSpec => []PackIsSerial
<1>1. Given => PackIsSerial
  <2> SUFFICES ASSUME Given PROVE PackIsSerial
    OBVIOUS
  <2> DEFINE T == Here(array, mod)
             n == Len(array)
             p(i) == <<Cardinality({h \in T : h < i}), i - 1>>
  <2>1. mod \in Nat /\ BlockSize < mod /\ array \in Seq(Word(mod)) /\ n < SizeMod /\ n \in Nat
    BY DEF Given
  <2>2. Pack(mod, array) = [count |-> Cardinality(T), writes |-> Packed(T, 0, n)]
    BY <2>1, PackRight
  <2>3. T \subseteq 1 .. n
    BY DEF Here
  <2>4. Present = T
    BY PresentHere
  <2> HIDE DEF T, n
  <2>5. ASSUME NEW i \in T PROVE p(i) = <<Upto(T, i - 1), i - 1>>
    <3>1. \A h \in T : h < i <=> h <= i - 1
      BY <2>1, <2>3
    <3>2. {h \in T : h < i} = {h \in T : h <= i - 1}
      BY <3>1
    <3> QED
      BY <3>2 DEF Upto
  <2>6. {i \in T : 0 < i /\ i <= n} = T
    <3>1. \A i \in T : 0 < i /\ i <= n
      BY <2>1, <2>3
    <3> QED
      BY <3>1
  <2>7. Packed(T, 0, n) = {p(i) : i \in T}
    <3>1. Packed(T, 0, n) = {<<Upto(T, i - 1), i - 1>> : i \in T}
      BY <2>6, Zenon DEF Packed
    <3> HIDE DEF p
    <3> QED
      BY <2>5, <3>1
  <2> QED
    BY <2>2, <2>4, <2>7 DEF PackIsSerial
<1> QED
  BY <1>1, GivenKept, PTL

-----------------------------------------------------------------------------
(* Lanes.                                                                  *)

(* Less than the divisor, it is divided to 0.                              *)
LEMMA SmallQuotient ==
  ASSUME NEW m \in Nat \ {0}, NEW a \in 0 .. m - 1
  PROVE  a \div m = 0
<1> DEFINE q == a \div m
           r == a % m
<1>0. a \in Nat /\ m \in Nat
  OBVIOUS
<1>1. q \in Nat /\ r \in 0 .. m - 1 /\ a = m * q + r
  BY <1>0, DivMod
<1>2. r = a
  BY <1>0, Small
<1> HIDE DEF q, r
<1>3. m * q = 0 /\ q * m = m * q
  <2>1. m * q \in Nat
    BY <1>1
  <2> DEFINE e == m * q
  <2>2. e \in Nat /\ a = e + r
    BY <1>1, <2>1
  <2> HIDE DEF e
  <2>3. e = 0
    BY <1>2, <2>2
  <2> QED
    BY <1>1, <2>3 DEF e
<1>4. q >= 1 => 1 * m <= q * m
  BY <1>1, ProductMono
<1>5. q = 0
  BY <1>1, <1>3, <1>4
<1> QED
  BY <1>5 DEF q

(* Words whose lanes do not overflow are added lane by lane.               *)
LEMMA WordsAdded ==
  ASSUME NEW a, NEW b, Len(a) \in Nat,
         \A l \in 1 .. Len(a) : a[l] \in Nat /\ b[l] \in Nat /\ a[l] + b[l] < LaneMod
  PROVE  AddWords(a, b) = [l \in 1 .. Len(a) |-> a[l] + b[l]]
<1> DEFINE n == Len(a)
           Next1(r, l) == IF l = 0 THEN 0 ELSE (a[l] + b[l] + r[l - 1]) \div LaneMod
           none == [l \in 0 .. n |-> 0]
           carry == CHOOSE r : r = [l \in 0 .. n |-> Next1(r, l)]
<1>1. LaneMod \in Nat \ {0} /\ n \in Nat
  BY GangAlgoAssumption
<1>2. ASSUME NEW l \in 1 .. n
      PROVE  (a[l] + b[l] + 0) \div LaneMod = 0 /\ (a[l] + b[l] + 0) % LaneMod = a[l] + b[l]
  <2> DEFINE y == a[l]
             w == b[l]
             x == y + w + 0
  <2>1. y \in Nat /\ w \in Nat /\ y + w < LaneMod
    OBVIOUS
  <2> HIDE DEF y, w
  <2>2. x \in 0 .. LaneMod - 1 /\ x = y + w
    BY <1>1, <2>1
  <2> HIDE DEF x
  <2>3. x % LaneMod = x /\ x \div LaneMod = 0
    BY <1>1, <2>2, Small, SmallQuotient
  <2>4. x \div LaneMod = 0 /\ x % LaneMod = y + w
    BY <2>2, <2>3
  <2> QED
    BY <2>4 DEF x, y, w
<1>3. none = [l \in 0 .. n |-> Next1(none, l)]
  <2>1. ASSUME NEW l \in 0 .. n PROVE Next1(none, l) = 0
    <3>1. CASE l = 0
      BY <3>1
    <3>2. CASE l # 0
      <4>1. l \in 1 .. n /\ l - 1 \in 0 .. n
        BY <3>2
      <4>2. none[l - 1] = 0
        BY <4>1
      <4> HIDE DEF none
      <4> QED
        BY <1>2, <3>2, <4>1, <4>2
    <3> QED
      BY <3>1, <3>2
  <2> QED
    BY <2>1
<1>4. carry = [l \in 0 .. n |-> Next1(carry, l)]
  <2> HIDE DEF none
  <2> QED
    BY <1>3, Zenon
<1>5. AddWords(a, b) = [l \in 1 .. n |-> (a[l] + b[l] + carry[l - 1]) % LaneMod]
  BY Zenon DEF AddWords
<1> HIDE DEF carry, n
<1> DEFINE P == {l \in Nat : l \in 0 .. n => carry[l] = 0}
<1>6. 0 \in P
  BY <1>4
<1>7. ASSUME NEW l \in 0 .. n - 1, l \in P PROVE l + 1 \in P
  <2>1. l + 1 \in 1 .. n /\ l + 1 \in 0 .. n /\ (l + 1) - 1 = l /\ l \in 0 .. n /\ l + 1 # 0
    BY <1>1
  <2>2. carry[l] = 0
    BY <2>1, <1>7
  <2>3. carry[l + 1] = (a[l + 1] + b[l + 1] + carry[l]) \div LaneMod
    BY <1>4, <2>1
  <2>4. carry[l + 1] = 0
    BY <1>2, <2>1, <2>2, <2>3
  <2> QED
    BY <2>4
<1> HIDE DEF P
<1>8. \A l \in 0 .. n : l \in P
  BY <1>1, <1>6, <1>7, UpTo
<1>9. ASSUME NEW l \in 1 .. n PROVE (a[l] + b[l] + carry[l - 1]) % LaneMod = a[l] + b[l]
  <2>1. l - 1 \in 0 .. n
    BY <1>1
  <2>2. carry[l - 1] = 0
    BY <1>8, <2>1 DEF P
  <2> QED
    BY <1>2, <2>2
<1> QED
  BY <1>5, <1>9 DEF n

(* The first k lanes of a word come to u[k], all n of them to x.           *)
Comes(a, n, x) ==
  \E u : /\ u[0] = 0 /\ u[n] = x
         /\ \A l \in 0 .. n : u[l] \in 0 .. x
         /\ \A l \in 1 .. n : a[l] \in Nat /\ u[l] = u[l - 1] + a[l]

(* Adding up the lanes of a word to what was counted before.               *)
LEMMA LanesAdded ==
  ASSUME NEW n \in Nat, NEW a, Len(a) = n, NEW x \in Nat, Comes(a, n, x),
         NEW m \in Nat \ {0}, NEW z \in Nat, z + x < m
  PROVE  Fold(Sum(m), z, a) = z + x
<1>1. PICK u : /\ u[0] = 0 /\ u[n] = x
               /\ \A l \in 0 .. n : u[l] \in 0 .. x
               /\ \A l \in 1 .. n : a[l] \in Nat /\ u[l] = u[l - 1] + a[l]
  BY DEF Comes
<1> DEFINE v == [l \in 0 .. n |-> z + u[l]]
           g == Sum(m)
<1>2. ASSUME NEW l \in 0 .. n PROVE v[l] \in 0 .. m - 1
  <2>1. u[l] \in 0 .. x /\ v[l] = z + u[l]
    BY <1>1
  <2> HIDE DEF v
  <2> QED
    BY <2>1
<1>3. ASSUME NEW l \in 1 .. n PROVE a[l] \in Nat /\ v[l] = v[l - 1] + a[l]
  <2>1. l \in 0 .. n /\ l - 1 \in 0 .. n
    OBVIOUS
  <2>2. v[l] = z + u[l] /\ v[l - 1] = z + u[l - 1] /\ u[l - 1] \in 0 .. x /\ a[l] \in Nat /\ u[l] = u[l - 1] + a[l]
    BY <1>1, <2>1
  <2> HIDE DEF v
  <2> QED
    BY <2>2
<1>4. Climbs(v, a, n, m)
  BY <1>2, <1>3 DEF Climbs
<1>5. v[0] = z /\ v[n] = z + x
  BY <1>1
<1>6. Adds(g, m)
  BY SumAdds
<1> HIDE DEF v, g
<1>7. \A j \in 0 .. n : Loop(g, v[0], a)[j] = v[j]
  BY <1>4, <1>6, SumLoop
<1> QED
  BY <1>5, <1>7 DEF Fold, g

(* The entries of an array of bool that are set.                           *)
Ones(s) == {h \in 1 .. Len(s) : s[h] = 1}

(* A word comes to the entries that are set in it.                         *)
LEMMA WordComes ==
  ASSUME NEW s \in Seq({0, 1}), NEW n \in Nat \ {0}, NEW c \in Nat, c + n <= Len(s)
  PROVE  /\ Len(SubSeq(s, c + 1, c + n)) = n
         /\ \A l \in 1 .. n : SubSeq(s, c + 1, c + n)[l] \in 0 .. 1
         /\ \A l \in 0 .. n : /\ Upto(Ones(s), c + l) - Upto(Ones(s), c) \in Nat
                              /\ Upto(Ones(s), c + l) - Upto(Ones(s), c)
                                   <= Upto(Ones(s), c + n) - Upto(Ones(s), c)
         /\ \A l \in 1 .. n : Upto(Ones(s), c + l) = Upto(Ones(s), (c + l) - 1) + SubSeq(s, c + 1, c + n)[l]
<1> DEFINE T == Ones(s)
           hi == c + n
           b == SubSeq(s, c + 1, hi)
<1>1. hi \in Nat /\ c <= hi /\ hi <= Len(s) /\ hi - c = n /\ Len(s) \in Nat
  OBVIOUS
<1> HIDE DEF hi
<1>2. b \in Seq({0, 1}) /\ Len(b) = n /\ \A l \in 1 .. n : b[l] = s[c + l]
  <2>1. /\ b \in Seq({0, 1}) /\ Len(b) = hi - c
        /\ \A l \in 1 .. hi - c : b[l] = s[c + l]
    BY <1>1, Slice
  <2> HIDE DEF b
  <2> QED
    BY <1>1, <2>1
<1> HIDE DEF b
<1>3. ASSUME NEW l \in 1 .. n PROVE b[l] \in 0 .. 1
  <2>1. b[l] \in {0, 1}
    BY <1>2, ElementOfSeq
  <2> QED
    BY <2>1
<1>4. T \in SUBSET (Nat \ {0}) /\ \A h \in 1 .. Len(s) : h \in T <=> s[h] = 1
  BY DEF Ones
<1> HIDE DEF T
<1>5. \A i \in Nat : Upto(T, i + 1) = Upto(T, i) + IF i + 1 \in T THEN 1 ELSE 0
  BY <1>4, UptoSteps
<1>6. \A i \in Nat : Upto(T, i) \in Nat
  BY <1>4, UptoSteps
<1>7. ASSUME NEW l \in 0 .. n
      PROVE  /\ Upto(T, c + l) - Upto(T, c) \in Nat
             /\ Upto(T, c + l) - Upto(T, c) <= Upto(T, hi) - Upto(T, c)
  <2> DEFINE e == c + l
             d == n - l
  <2>1. l \in Nat /\ e \in Nat /\ d \in Nat /\ e + d = hi
    BY DEF hi
  <2>2. Upto(T, c + l) - Upto(T, c) \in 0 .. l
    BY <1>4, <2>1, UptoGrows
  <2> HIDE DEF e, d
  <2>3. Upto(T, e + d) - Upto(T, e) \in 0 .. d
    BY <1>4, <2>1, UptoGrows
  <2>4. Upto(T, e) \in Nat /\ Upto(T, hi) \in Nat /\ Upto(T, c) \in Nat
    BY <1>1, <1>6, <2>1
  <2>5. Upto(T, e) <= Upto(T, hi)
    BY <2>1, <2>3, <2>4
  <2>6. Upto(T, e) - Upto(T, c) \in 0 .. l
    BY <2>2 DEF e
  <2>7. Upto(T, e) - Upto(T, c) \in Nat /\ Upto(T, e) - Upto(T, c) <= Upto(T, hi) - Upto(T, c)
    BY <2>1, <2>4, <2>5, <2>6
  <2> QED
    BY <2>7 DEF e
<1>8. ASSUME NEW l \in 1 .. n PROVE Upto(T, c + l) = Upto(T, (c + l) - 1) + b[l]
  <2> DEFINE e == c + l
  <2>1. e \in 1 .. Len(s) /\ e - 1 \in Nat /\ (e - 1) + 1 = e
    BY <1>1
  <2>2. b[l] = s[e] /\ b[l] \in 0 .. 1
    BY <1>2, <1>3
  <2> HIDE DEF e
  <2>3. b[l] = IF e \in T THEN 1 ELSE 0
    BY <1>4, <2>1, <2>2
  <2>4. Upto(T, (e - 1) + 1) = Upto(T, e - 1) + IF (e - 1) + 1 \in T THEN 1 ELSE 0
    BY <1>5, <2>1
  <2>5. Upto(T, e) = Upto(T, e - 1) + b[l]
    BY <2>1, <2>3, <2>4
  <2> QED
    BY <2>5 DEF e
<1> QED
  BY <1>2, <1>3, <1>7, <1>8 DEF T, b, hi

(* A word of n lanes none of which is above j.                             *)
InLanes(x, n, j) == Len(x) = n /\ \A l \in 1 .. n : x[l] \in 0 .. j

(* One more word, added before a lane can overflow.                        *)
LEMMA LanesStep ==
  ASSUME NEW s \in Seq({0, 1}), NEW n \in Nat \ {0}, NEW c \in Nat, c + n <= Len(s),
         NEW j \in Nat, j + 1 < LaneMod, NEW x, InLanes(x, n, j), NEW k \in Nat, Comes(x, n, k)
  PROVE  /\ InLanes(AddWords(x, SubSeq(s, c + 1, c + n)), n, j + 1)
         /\ Comes(AddWords(x, SubSeq(s, c + 1, c + n)), n,
                  k + (Upto(Ones(s), c + n) - Upto(Ones(s), c)))
<1> DEFINE T == Ones(s)
           b == SubSeq(s, c + 1, c + n)
           y == AddWords(x, b)
           d(l) == Upto(T, c + l) - Upto(T, c)
<1>1. LaneMod \in Nat
  BY GangAlgoAssumption
<1>2. /\ Len(b) = n /\ \A l \in 1 .. n : b[l] \in 0 .. 1
      /\ \A l \in 0 .. n : d(l) \in Nat /\ d(l) <= d(n)
      /\ \A l \in 1 .. n : Upto(T, c + l) = Upto(T, (c + l) - 1) + b[l]
  BY WordComes
<1>3. T \in SUBSET (Nat \ {0})
  BY DEF Ones
<1> HIDE DEF T, b
<1>4. \A i \in Nat : Upto(T, i) \in Nat
  BY <1>3, UptoSteps
<1>5. Len(x) = n /\ \A l \in 1 .. n : x[l] \in 0 .. j
  BY DEF InLanes
<1>6. y = [l \in 1 .. n |-> x[l] + b[l]]
  <2>1. ASSUME NEW l \in 1 .. n PROVE x[l] \in Nat /\ b[l] \in Nat /\ x[l] + b[l] < LaneMod
    <3> DEFINE p == x[l]
               q == b[l]
    <3>1. p \in 0 .. j /\ q \in 0 .. 1
      BY <1>2, <1>5
    <3> HIDE DEF p, q
    <3>2. p \in Nat /\ q \in Nat /\ p + q < LaneMod
      BY <1>1, <3>1
    <3> QED
      BY <3>2 DEF p, q
  <2>2. AddWords(x, b) = [l \in 1 .. Len(x) |-> x[l] + b[l]]
    <3>1. \A l \in 1 .. Len(x) : x[l] \in Nat /\ b[l] \in Nat /\ x[l] + b[l] < LaneMod
      BY <1>5, <2>1
    <3>2. Len(x) \in Nat
      BY <1>5
    <3> QED
      BY <3>1, <3>2, WordsAdded
  <2> QED
    BY <1>5, <2>2
<1>7. \A l \in 1 .. n : y[l] = x[l] + b[l]
  <2> HIDE DEF y
  <2> QED
    BY <1>6
<1>8. ASSUME NEW l \in 1 .. n PROVE y[l] \in 0 .. j + 1
  <2> DEFINE p == x[l]
             q == b[l]
  <2>1. p \in 0 .. j /\ q \in 0 .. 1 /\ y[l] = p + q
    BY <1>2, <1>5, <1>7
  <2> HIDE DEF p, q, y
  <2> QED
    BY <2>1
<1>9. InLanes(y, n, j + 1)
  <2>1. y = [l \in 1 .. n |-> y[l]]
    <3> HIDE DEF y
    <3> QED
      BY <1>6
  <2> HIDE DEF y
  <2>2. Len(y) = n
    BY <1>8, <2>1, Built
  <2> QED
    BY <1>8, <2>2 DEF InLanes
<1>10. Comes(y, n, k + d(n))
  <2>1. PICK u : /\ u[0] = 0 /\ u[n] = k
                 /\ \A l \in 0 .. n : u[l] \in 0 .. k
                 /\ \A l \in 1 .. n : x[l] \in Nat /\ u[l] = u[l - 1] + x[l]
    BY DEF Comes
  <2> DEFINE v == [l \in 0 .. n |-> u[l] + d(l)]
             e == d(n)
  <2>2. \A l \in 0 .. n : v[l] = u[l] + d(l)
    OBVIOUS
  <2>3. e \in Nat /\ n \in 0 .. n /\ 0 \in 0 .. n
    <3>1. n \in 0 .. n /\ 0 \in 0 .. n
      OBVIOUS
    <3> QED
      BY <1>2, <3>1
  <2> HIDE DEF y, v
  <2>4. v[0] = 0 /\ v[n] = k + e
    <3>1. d(0) = 0
      <4>1. Upto(T, c) \in Nat
        BY <1>4
      <4>2. c + 0 = c
        OBVIOUS
      <4> QED
        BY <4>1, <4>2
    <3>2. v[0] = u[0] + d(0) /\ v[n] = u[n] + e
      BY <2>2, <2>3
    <3> HIDE DEF d, e
    <3> QED
      BY <2>1, <3>1, <3>2
  <2>5. ASSUME NEW l \in 0 .. n PROVE v[l] \in 0 .. k + e
    <3> DEFINE p == u[l]
               q == d(l)
    <3>1. p \in 0 .. k /\ q \in Nat /\ q <= e /\ v[l] = p + q
      BY <1>2, <2>1, <2>2
    <3> HIDE DEF p, q, e
    <3> QED
      BY <2>3, <3>1
  <2>6. ASSUME NEW l \in 1 .. n PROVE y[l] \in Nat /\ v[l] = v[l - 1] + y[l]
    <3> DEFINE h == c + l
               p == x[l]
               q == b[l]
               U == Upto(T, h - 1)
               a == u[l - 1]
               C == Upto(T, c)
    <3>1. l \in 0 .. n /\ l - 1 \in 0 .. n /\ h \in Nat /\ h - 1 \in Nat /\ c + (l - 1) = h - 1
      OBVIOUS
    <3>2. v[l] = u[l] + (Upto(T, h) - C) /\ v[l - 1] = a + (U - C)
      BY <2>2, <3>1
    <3>3. Upto(T, h) = U + q /\ u[l] = a + p /\ y[l] = p + q
      BY <1>2, <1>7, <2>1
    <3>4. p \in 0 .. j /\ q \in 0 .. 1
      BY <1>2, <1>5
    <3>5. U \in Nat /\ C \in Nat
      BY <1>4, <3>1
    <3>6. a \in Nat
      BY <2>1, <3>1
    <3> HIDE DEF h, p, q, U, a, C
    <3> QED
      BY <3>2, <3>3, <3>4, <3>5, <3>6
  <2> HIDE DEF e
  <2>7. Comes(y, n, k + e)
    BY <2>4, <2>5, <2>6 DEF Comes
  <2> QED
    BY <2>7 DEF e
<1> QED
  BY <1>9, <1>10 DEF y, b, T

(* Word j of an array.                                                     *)
WordOf(s, lanes, j) == SubSeq(s, j * lanes + 1, j * lanes + lanes)

(* r is what the loop over the words comes to after each of them.          *)
Added(r, s, lanes, w, n) ==
  /\ Words(s, lanes, w, n) = r[n]
  /\ r[0] = [l \in 1 .. lanes |-> 0]
  /\ \A j \in 1 .. n : r[j] = AddWords(r[j - 1], WordOf(s, lanes, w + (j - 1)))

(* The equation of that loop has a solution.                               *)
LEMMA WordsSteps ==
  ASSUME NEW s, NEW lanes, NEW w, NEW n \in Nat
  PROVE  \E r : Added(r, s, lanes, w, n)
<1> DEFINE none == [l \in 1 .. lanes |-> 0]
           step(x, j) == AddWords(x, WordOf(s, lanes, w + (j - 1)))
           Solves(r, k) == r[0] = none /\ \A j \in 1 .. k : r[j] = step(r[j - 1], j)
           P == {k \in Nat : \E r : Solves(r, k)}
           Next1(r, j) == IF j = 0 THEN none
                          ELSE LET i == (w + j - 1) * lanes
                               IN  AddWords(r[j - 1], SubSeq(s, i + 1, i + lanes))
<1>1. 0 \in P
  <2> DEFINE r == [j \in 0 .. 0 |-> none]
  <2>1. r[0] = none
    OBVIOUS
  <2> HIDE DEF r, none, step
  <2>2. Solves(r, 0)
    BY <2>1
  <2> QED
    BY <2>2
<1>2. \A r, j : Next1(r, j) = IF j = 0 THEN none ELSE step(r[j - 1], j)
  BY Zenon DEF WordOf
<1> HIDE DEF none, step, Next1
<1>3. ASSUME NEW k \in 0 .. n - 1, k \in P PROVE k + 1 \in P
  <2>1. PICK r : Solves(r, k)
    BY <1>3
  <2> DEFINE q == [j \in 0 .. k + 1 |-> IF j = k + 1 THEN step(r[j - 1], j) ELSE r[j]]
  <2>2. ASSUME NEW j \in 1 .. k + 1 PROVE q[j] = step(q[j - 1], j)
    <3>1. j \in 0 .. k + 1 /\ j - 1 \in 0 .. k + 1 /\ j - 1 # k + 1
      OBVIOUS
    <3>2. q[j - 1] = r[j - 1]
      BY <3>1
    <3>3. q[j] = step(r[j - 1], j)
      <4>1. CASE j = k + 1
        BY <3>1, <4>1
      <4>2. CASE j # k + 1
        <5>1. j \in 1 .. k
          BY <4>2
        <5> QED
          BY <3>1, <4>2, <5>1, <2>1
      <4> QED
        BY <4>1, <4>2
    <3> QED
      BY <3>2, <3>3
  <2>3. q[0] = none
    BY <2>1
  <2> HIDE DEF q
  <2>4. Solves(q, k + 1)
    BY <2>2, <2>3
  <2> HIDE DEF Solves
  <2> QED
    BY <2>4
<1> HIDE DEF P
<1>4. \A k \in 0 .. n : k \in P
  BY <1>1, <1>3, UpTo
<1>5. PICK q : Solves(q, n)
  <2>1. n \in P
    BY <1>4
  <2> HIDE DEF Solves
  <2> QED
    BY <2>1 DEF P
<1> DEFINE r == [j \in 0 .. n |-> q[j]]
<1>6. r = [j \in 0 .. n |-> Next1(r, j)]
  <2>1. ASSUME NEW j \in 0 .. n PROVE q[j] = Next1(r, j)
    <3>1. CASE j = 0
      BY <1>2, <1>5, <3>1
    <3>2. CASE j # 0
      <4>1. j \in 1 .. n /\ j - 1 \in 0 .. n
        BY <3>2
      <4>2. q[j] = step(q[j - 1], j) /\ r[j - 1] = q[j - 1]
        BY <1>5, <4>1
      <4> HIDE DEF r
      <4> QED
        BY <1>2, <3>2, <4>2
    <3> QED
      BY <3>1, <3>2
  <2> QED
    BY <2>1
<1> HIDE DEF r
<1> DEFINE rr == CHOOSE t : t = [j \in 0 .. n |-> Next1(t, j)]
<1>7. rr = [j \in 0 .. n |-> Next1(rr, j)]
  BY <1>6, Zenon
<1>8. Words(s, lanes, w, n) = rr[n]
  BY Zenon DEF Words, Next1, none
<1> HIDE DEF rr
<1>9. rr[0] = none /\ \A j \in 1 .. n : rr[j] = step(rr[j - 1], j)
  <2>1. 0 \in 0 .. n /\ \A j \in 1 .. n : j \in 0 .. n /\ j # 0
    OBVIOUS
  <2> QED
    BY <1>2, <1>7, <2>1
<1>10. /\ rr[0] = [l \in 1 .. lanes |-> 0]
       /\ \A j \in 1 .. n : rr[j] = AddWords(rr[j - 1], WordOf(s, lanes, w + (j - 1)))
  BY <1>9 DEF none, step
<1>11. Added(rr, s, lanes, w, n)
  BY <1>8, <1>10 DEF Added
<1> QED
  BY <1>11

(* The lanes of n words come to the entries that are set in them, when the *)
(* words are too few for a lane to overflow.                               *)
LEMMA WordsCome ==
  ASSUME NEW s \in Seq({0, 1}), NEW lanes \in Nat \ {0}, NEW w \in Nat, NEW n \in Nat, n < LaneMod,
         (w + n) * lanes <= Len(s)
  PROVE  /\ Len(Words(s, lanes, w, n)) = lanes
         /\ Comes(Words(s, lanes, w, n), lanes,
                  Upto(Ones(s), (w + n) * lanes) - Upto(Ones(s), w * lanes))
<1> DEFINE T == Ones(s)
           d(j) == Upto(T, (w + j) * lanes) - Upto(T, w * lanes)
<1>0. PICK r : Added(r, s, lanes, w, n)
  BY WordsSteps
<1>1. /\ Words(s, lanes, w, n) = r[n]
      /\ r[0] = [l \in 1 .. lanes |-> 0]
      /\ \A j \in 1 .. n : r[j] = AddWords(r[j - 1], WordOf(s, lanes, w + (j - 1)))
  BY <1>0 DEF Added
<1> DEFINE P == {j \in Nat : j \in 0 .. n => InLanes(r[j], lanes, j) /\ d(j) \in Nat /\ Comes(r[j], lanes, d(j))}
<1>2. T \in SUBSET (Nat \ {0})
  BY DEF Ones
<1>3. \A i \in Nat : Upto(T, i) \in Nat
  BY <1>2, UptoSteps
<1>4. Len(s) \in Nat /\ LaneMod \in Nat
  BY GangAlgoAssumption
<1> HIDE DEF T
<1>5. 0 \in P
  <2> DEFINE x == r[0]
  <2>1. x = [l \in 1 .. lanes |-> 0]
    BY <1>1
  <2> HIDE DEF x
  <2>2. \A l \in 1 .. lanes : x[l] = 0
    BY <2>1
  <2>3. x \in Seq(0 .. 0) /\ Len(x) = lanes
    <3>1. x = [l \in 1 .. lanes |-> x[l]] /\ \A l \in 1 .. lanes : x[l] \in 0 .. 0
      BY <2>1, <2>2
    <3> QED
      BY <3>1, Built
  <2>4. InLanes(x, lanes, 0)
    BY <2>2, <2>3 DEF InLanes
  <2>5. Comes(x, lanes, 0)
    <3> DEFINE u == [l \in 0 .. lanes |-> 0]
    <3>1. /\ u[0] = 0 /\ u[lanes] = 0
          /\ \A l \in 0 .. lanes : u[l] \in 0 .. 0
      OBVIOUS
    <3>2. \A l \in 1 .. lanes : x[l] \in Nat /\ u[l] = u[l - 1] + x[l]
      <4>1. \A l \in 1 .. lanes : l \in 0 .. lanes /\ l - 1 \in 0 .. lanes
        OBVIOUS
      <4> QED
        BY <2>2, <4>1
    <3> HIDE DEF u
    <3> QED
      BY <3>1, <3>2 DEF Comes
  <2>6. d(0) = 0
    <3> DEFINE c == w * lanes
    <3>1. c \in Nat /\ (w + 0) * lanes = c
      OBVIOUS
    <3> HIDE DEF c
    <3>2. Upto(T, c) \in Nat
      BY <1>3, <3>1
    <3>3. Upto(T, c) - Upto(T, c) = 0
      BY <3>2
    <3> QED
      BY <3>1, <3>3 DEF c
  <2> HIDE DEF d
  <2> QED
    BY <2>4, <2>5, <2>6 DEF x
<1>6. ASSUME NEW j \in 0 .. n - 1, j \in P PROVE j + 1 \in P
  <2> DEFINE c == (w + j) * lanes
             x == r[j]
             e == Upto(T, c + lanes) - Upto(T, c)
  <2>1. j \in Nat /\ j \in 0 .. n /\ j + 1 \in 1 .. n /\ (j + 1) - 1 = j /\ j + 1 < LaneMod
    BY <1>4
  <2>2. c \in Nat /\ c + lanes = (w + (j + 1)) * lanes
    <3>1. w + j \in Nat /\ w + (j + 1) = (w + j) + 1
      BY <2>1
    <3> QED
      BY <3>1
  <2>3. c + lanes <= Len(s)
    <3>1. w + (j + 1) \in Nat /\ w + n \in Nat /\ w + (j + 1) <= w + n
      BY <2>1
    <3>2. (w + (j + 1)) * lanes <= (w + n) * lanes /\ (w + (j + 1)) * lanes \in Nat /\ (w + n) * lanes \in Nat
      BY <3>1, ProductMono
    <3> DEFINE p == (w + (j + 1)) * lanes
               q == (w + n) * lanes
    <3>3. p <= q /\ p \in Nat /\ q \in Nat /\ q <= Len(s) /\ c + lanes = p
      BY <2>2, <3>2
    <3> HIDE DEF p, q, c
    <3> QED
      BY <1>4, <3>3
  <2>4. InLanes(x, lanes, j) /\ d(j) \in Nat /\ Comes(x, lanes, d(j))
    BY <2>1, <1>6
  <2>5. r[j + 1] = AddWords(x, SubSeq(s, c + 1, c + lanes))
    <3>1. r[j + 1] = AddWords(r[(j + 1) - 1], WordOf(s, lanes, w + ((j + 1) - 1)))
      BY <1>1, <2>1
    <3> QED
      BY <2>1, <3>1 DEF WordOf
  <2>6. d(j + 1) = d(j) + e /\ e \in Nat
    <3> DEFINE A == Upto(T, w * lanes)
               B == Upto(T, c)
               C == Upto(T, c + lanes)
    <3>1. A \in Nat /\ B \in Nat /\ C \in Nat
      <4>1. w * lanes \in Nat /\ c \in Nat /\ c + lanes \in Nat
        BY <2>2
      <4> HIDE DEF c
      <4> QED
        BY <1>3, <4>1
    <3>2. C - B \in 0 .. lanes
      <4> HIDE DEF c
      <4> QED
        BY <1>2, <2>2, UptoGrows
    <3>3. d(j + 1) = C - A /\ d(j) = B - A
      <4>1. d(j + 1) = Upto(T, (w + (j + 1)) * lanes) - A
        OBVIOUS
      <4> HIDE DEF d
      <4> QED
        BY <2>2, <4>1 DEF d
    <3> HIDE DEF d, A, B, C
    <3>4. C - A = (B - A) + (C - B) /\ C - B \in Nat
      BY <3>1, <3>2
    <3> QED
      BY <3>3, <3>4 DEF B, C
  <2> HIDE DEF c, x, d
  <2>7. /\ InLanes(AddWords(x, SubSeq(s, c + 1, c + lanes)), lanes, j + 1)
        /\ Comes(AddWords(x, SubSeq(s, c + 1, c + lanes)), lanes, d(j) + e)
    BY <2>1, <2>2, <2>3, <2>4, LanesStep DEF T
  <2>8. d(j) + e \in Nat
    BY <2>4, <2>6
  <2> HIDE DEF e
  <2> QED
    BY <2>1, <2>5, <2>6, <2>7, <2>8
<1> HIDE DEF P
<1>7. \A j \in 0 .. n : j \in P
  BY <1>5, <1>6, UpTo
<1>8. n \in P /\ n \in 0 .. n
  BY <1>7
<1> HIDE DEF d
<1>9. InLanes(r[n], lanes, n) /\ Comes(r[n], lanes, d(n))
  BY <1>8 DEF P
<1> QED
  BY <1>1, <1>9 DEF InLanes, d, T

(* The counting of an array of bool by words.                              *)
LEMMA CountLanesRight ==
  ASSUME NEW s \in Seq({0, 1}), Len(s) < SizeMod, NEW lanes \in Nat \ {0},
         Len(s) % (lanes * Rows) = 0
  PROVE  CountLanes(s, lanes) = Cardinality(Ones(s))
<1> DEFINE T == Ones(s)
           h == lanes * Rows
           n == Len(s) \div h
           g == Sum(SizeMod)
           group(k) == Words(s, lanes, (k - 1) * Rows, Rows)
           Next1(r, k) == IF k = 0 THEN 0 ELSE Fold(g, r[k - 1], group(k))
           r == CHOOSE r : r = [k \in 0 .. n |-> Next1(r, k)]
           u(k) == Upto(T, k * h)
           form == [k \in 0 .. n |-> u(k)]
<1>1. /\ Rows \in Nat \ {0} /\ Rows < LaneMod /\ SizeMod \in Nat \ {0} /\ Len(s) \in Nat
      /\ LaneMod \in Nat
  BY GangAlgoAssumption
<1>2. h \in Nat \ {0}
  <2>1. 1 * Rows <= lanes * Rows /\ lanes * Rows \in Nat
    BY <1>1, ProductMono
  <2> QED
    BY <1>1, <2>1
<1>3. T \subseteq 1 .. Len(s) /\ T \in SUBSET (Nat \ {0})
  BY DEF Ones
<1>4. CountLanes(s, lanes) = r[n]
  BY Zenon DEF CountLanes
<1>5. Len(s) % h = 0
  OBVIOUS
<1> HIDE DEF T, r, g
<1>6. \A i \in Nat : Upto(T, i) \in Nat
  BY <1>3, UptoSteps
<1>7. Upto(T, 0) = 0 /\ Upto(T, Len(s)) = Cardinality(T)
  BY <1>1, <1>3, UptoSteps, UptoAll
<1>8. n \in Nat /\ n * h = Len(s)
  <2> HIDE DEF h
  <2>1. n \in Nat /\ Len(s) = h * n + (Len(s) % h)
    BY <1>1, <1>2, DivMod
  <2> HIDE DEF n
  <2>2. n * h = h * n /\ h * n \in Nat
    BY <1>2, <2>1
  <2> QED
    BY <1>5, <2>1, <2>2
<1>9. ASSUME NEW k \in 1 .. n PROVE Fold(g, u(k - 1), group(k)) = u(k)
  <2> DEFINE w == (k - 1) * Rows
             a == w * lanes
             b == (w + Rows) * lanes
             A == Upto(T, a)
             B == Upto(T, b)
  <2>1. k - 1 \in Nat /\ k \in Nat /\ w \in Nat /\ w + Rows = k * Rows
    <3>1. k - 1 \in Nat /\ k \in Nat
      BY <1>8
    <3>2. (k - 1) * Rows \in Nat /\ k * Rows = (k - 1) * Rows + Rows
      BY <1>1, <3>1
    <3> QED
      BY <3>1, <3>2
  <2>2. a = (k - 1) * h /\ b = k * h
    <3>1. ((k - 1) * Rows) * lanes = (k - 1) * (lanes * Rows)
      BY <1>1, <2>1
    <3>2. (k * Rows) * lanes = k * (lanes * Rows)
      BY <1>1, <2>1
    <3> HIDE DEF h
    <3>3. b = (k * Rows) * lanes
      BY <2>1
    <3> QED
      BY <3>1, <3>2, <3>3 DEF h
  <2> HIDE DEF h
  <2>3. a \in Nat /\ b \in Nat /\ a <= b /\ b <= Len(s)
    <3>1. (k - 1) * h \in Nat /\ k * h \in Nat /\ (k - 1) * h <= k * h
      BY <1>2, <2>1, ProductMono
    <3>2. k * h <= n * h
      BY <1>2, <1>8, <2>1, ProductMono
    <3> QED
      BY <1>8, <2>2, <3>1, <3>2
  <2> HIDE DEF w, a, b, n
  <2>4. A \in Nat /\ B \in Nat /\ A <= B /\ B < SizeMod
    <3>1. A \in Nat /\ B \in Nat
      BY <1>6, <2>3
    <3>2. A <= B
      <4> DEFINE d == b - a
      <4>1. d \in Nat /\ a + d = b
        BY <2>3
      <4> HIDE DEF d
      <4>2. Upto(T, a + d) - Upto(T, a) \in 0 .. d
        BY <1>3, <2>3, <4>1, UptoGrows
      <4>3. B - A \in 0 .. d
        BY <4>1, <4>2
      <4> HIDE DEF A, B
      <4> QED
        BY <3>1, <4>3
    <3>3. B <= b
      <4>1. Upto(T, 0 + b) - Upto(T, 0) \in 0 .. b
        <5>1. 0 \in Nat /\ b \in Nat
          BY <2>3
        <5> QED
          BY <1>3, <5>1, UptoGrows
      <4>2. 0 + b = b
        BY <2>3
      <4>3. B - 0 \in 0 .. b
        BY <1>7, <4>1, <4>2
      <4> HIDE DEF A, B
      <4> QED
        BY <3>1, <4>3
    <3> HIDE DEF A, B
    <3> QED
      BY <1>1, <2>3, <3>1, <3>2, <3>3
  <2>5. Len(group(k)) = lanes /\ Comes(group(k), lanes, B - A)
    <3>1. (w + Rows) * lanes <= Len(s)
      BY <2>3 DEF b
    <3>2. /\ Len(Words(s, lanes, w, Rows)) = lanes
          /\ Comes(Words(s, lanes, w, Rows), lanes,
                   Upto(Ones(s), (w + Rows) * lanes) - Upto(Ones(s), w * lanes))
      BY <1>1, <2>1, <3>1, WordsCome
    <3> QED
      BY <3>2 DEF w, a, b, T
  <2> HIDE DEF A, B, group
  <2>6. B - A \in Nat /\ A + (B - A) < SizeMod /\ A + (B - A) = B /\ lanes \in Nat
    BY <1>1, <2>4
  <2>7. Fold(g, A, group(k)) = A + (B - A)
    <3> DEFINE x == B - A
               e == group(k)
    <3>1. Len(e) = lanes /\ Comes(e, lanes, x) /\ x \in Nat /\ A + x < SizeMod /\ A \in Nat
      BY <2>4, <2>5, <2>6
    <3> HIDE DEF x, e
    <3>2. Fold(Sum(SizeMod), A, e) = A + x
      BY <1>1, <2>6, <3>1, LanesAdded
    <3> QED
      BY <3>2 DEF x, e, g
  <2>8. u(k - 1) = A /\ u(k) = B
    BY <2>2 DEF A, B
  <2> HIDE DEF u
  <2> QED
    BY <2>6, <2>7, <2>8
<1> HIDE DEF group, h, n
<1>10. u(0) = 0
  <2>1. 0 * h = 0
    BY <1>2
  <2> QED
    BY <1>7, <2>1
<1> HIDE DEF u
<1>11. form = [k \in 0 .. n |-> Next1(form, k)]
  <2>1. ASSUME NEW k \in 0 .. n PROVE Next1(form, k) = u(k)
    <3>1. CASE k = 0
      BY <1>10, <3>1
    <3>2. CASE k # 0
      <4>1. k \in 1 .. n /\ k - 1 \in 0 .. n
        BY <1>8, <3>2
      <4>2. form[k - 1] = u(k - 1)
        BY <4>1
      <4> HIDE DEF form
      <4> QED
        BY <1>9, <3>2, <4>1, <4>2
    <3> QED
      BY <3>1, <3>2
  <2> HIDE DEF Next1
  <2> QED
    BY <2>1
<1>12. r = [k \in 0 .. n |-> Next1(r, k)]
  <2> HIDE DEF form
  <2> QED
    BY <1>11, Zenon DEF r
<1> DEFINE P == {k \in Nat : k \in 0 .. n => r[k] = u(k)}
<1>13. 0 \in P
  BY <1>8, <1>10, <1>12
<1>14. ASSUME NEW k \in 0 .. n - 1, k \in P PROVE k + 1 \in P
  <2>1. k + 1 \in 1 .. n /\ k + 1 \in 0 .. n /\ (k + 1) - 1 = k /\ k \in 0 .. n /\ k + 1 # 0
    BY <1>8
  <2>2. r[k] = u(k)
    BY <2>1, <1>14
  <2>3. r[k + 1] = Fold(g, r[k], group(k + 1))
    BY <1>12, <2>1
  <2>4. Fold(g, u((k + 1) - 1), group(k + 1)) = u(k + 1)
    BY <1>9, <2>1
  <2>5. r[k + 1] = u(k + 1)
    BY <2>1, <2>2, <2>3, <2>4
  <2> QED
    BY <2>5
<1> HIDE DEF P
<1>15. \A k \in 0 .. n : k \in P
  BY <1>8, <1>13, <1>14, UpTo
<1>16. r[n] = u(n)
  BY <1>8, <1>15 DEF P
<1>17. u(n) = Cardinality(T)
  BY <1>7, <1>8 DEF u
<1> QED
  BY <1>4, <1>16, <1>17 DEF T

(* Entry by entry.                                                         *)
LEMMA PlainCount ==
  ASSUME NEW s \in Seq({0, 1}), Len(s) < SizeMod
  PROVE  Fold(Sum(SizeMod), 0, s) = Cardinality(Ones(s))
<1> DEFINE T == Ones(s)
           n == Len(s)
           g == Sum(SizeMod)
           u == [j \in 0 .. n |-> Upto(T, j)]
<1>1. n \in Nat /\ SizeMod \in Nat \ {0} /\ n < SizeMod /\ \A j \in 1 .. n : s[j] \in {0, 1}
  BY GangAlgoAssumption, ElementOfSeq
<1>2. T \in SUBSET (Nat \ {0}) /\ T \subseteq 1 .. n /\ \A j \in 1 .. n : j \in T <=> s[j] = 1
  BY DEF Ones
<1>3. Adds(g, SizeMod)
  BY <1>1, SumAdds
<1> HIDE DEF T, n, g
<1>4. /\ Upto(T, 0) = 0 /\ Upto(T, n) = Cardinality(T)
      /\ \A j \in Nat : Upto(T, j + 1) = Upto(T, j) + IF j + 1 \in T THEN 1 ELSE 0
      /\ \A j \in Nat : Upto(T, j) \in Nat /\ Upto(T, 0 + j) - Upto(T, 0) \in 0 .. j
  BY <1>1, <1>2, UptoSteps, UptoAll, UptoGrows
<1>5. ASSUME NEW j \in 0 .. n PROVE u[j] \in 0 .. SizeMod - 1
  <2> DEFINE v == Upto(T, j)
  <2>1. v \in Nat /\ v - 0 \in 0 .. j /\ j \in Nat
    <3>1. j \in Nat /\ 0 + j = j
      BY <1>1
    <3> QED
      BY <1>4, <3>1
  <2>2. u[j] = v
    OBVIOUS
  <2> HIDE DEF v
  <2> QED
    BY <1>1, <2>1, <2>2
<1>6. ASSUME NEW j \in 1 .. n PROVE s[j] \in Nat /\ u[j] = u[j - 1] + s[j]
  <2>1. j - 1 \in Nat /\ j - 1 \in 0 .. n /\ j \in 0 .. n /\ (j - 1) + 1 = j
    BY <1>1
  <2>2. Upto(T, (j - 1) + 1) = Upto(T, j - 1) + IF (j - 1) + 1 \in T THEN 1 ELSE 0
    BY <1>4, <2>1
  <2>3. s[j] = IF j \in T THEN 1 ELSE 0
    BY <1>1, <1>2
  <2>4. u[j] = Upto(T, j) /\ u[j - 1] = Upto(T, j - 1)
    BY <2>1
  <2> HIDE DEF u
  <2> QED
    BY <2>1, <2>2, <2>3, <2>4
<1>7. u[0] = 0 /\ u[n] = Cardinality(T)
  BY <1>1, <1>4
<1> HIDE DEF u
<1>8. Climbs(u, s, n, SizeMod)
  BY <1>5, <1>6 DEF Climbs
<1>9. \A j \in 0 .. n : Loop(g, u[0], s)[j] = u[j]
  BY <1>1, <1>3, <1>8, SumLoop DEF n
<1>10. Loop(g, 0, s)[n] = Cardinality(T)
  BY <1>1, <1>7, <1>9
<1> QED
  BY <1>10 DEF Fold, T, n, g

(* The widest words that fit, or entry by entry.                           *)
LEMMA CountBitsRight ==
  ASSUME NEW s \in Seq({0, 1}), Len(s) < SizeMod, NEW address
  PROVE  CountBits(s, address) = Cardinality(Ones(s))
<1> DEFINE F == {lanes \in Lanes : Len(s) % (lanes * Rows) = 0 /\ address % lanes = 0}
<1>1. CASE F = {}
  <2>1. CountBits(s, address) = Fold(Sum(SizeMod), 0, s)
    BY <1>1, Zenon DEF CountBits
  <2> QED
    BY <2>1, PlainCount
<1>2. CASE F # {}
  <2>1. CountBits(s, address) = CountLanes(s, Max(F))
    BY <1>2, Zenon DEF CountBits
  <2>2. F \subseteq 1 .. SizeMod - 1 /\ \A lanes \in F : Len(s) % (lanes * Rows) = 0
    BY GangAlgoAssumption
  <2> HIDE DEF F
  <2>3. \E x \in F : \A y \in F : x >= y
    <3> DEFINE T == {SizeMod - l : l \in F}
    <3>0. SizeMod \in Nat
      BY GangAlgoAssumption
    <3>1. T \in SUBSET Nat /\ T # {}
      <4>1. \A l \in F : SizeMod - l \in Nat
        BY <2>2, <3>0
      <4> QED
        BY <1>2, <4>1, Zenon
    <3>2. PICK t \in T : \A y \in T : t <= y
      <4> HIDE DEF T
      <4> QED
        BY <3>1, Smallest
    <3>3. PICK x \in F : t = SizeMod - x
      OBVIOUS
    <3>4. ASSUME NEW y \in F PROVE x >= y
      <4>1. SizeMod - x <= SizeMod - y
        BY <3>2, <3>3
      <4>2. x \in Nat /\ y \in Nat
        BY <2>2
      <4> QED
        BY <3>0, <4>1, <4>2
    <3> QED
      BY <3>4
  <2>4. Max(F) \in F
    BY <2>3, Zenon DEF Max
  <2>5. \A lanes \in F : lanes \in Nat \ {0}
    BY <2>2, GangAlgoAssumption
  <2>6. Max(F) \in Nat \ {0} /\ Len(s) % (Max(F) * Rows) = 0
    BY <2>2, <2>4, <2>5, Zenon
  <2> QED
    BY <2>1, <2>6, CountLanesRight
<1> QED
  BY <1>1, <1>2

(* For every array, of any length, and every block size: count returns how *)
(* many entries are there, and so does the counting of an array of bool,   *)
(* by words, however many lanes a word has, or entry by entry, wherever    *)
(* the array lies: no lane overflows, and no sum.                          *)
THEOREM CountCorrect == CheckSpec => []CountExact
<1>1. Given => CountExact
  <2> SUFFICES ASSUME Given PROVE CountExact
    OBVIOUS
  <2>1. Count(mod, array) = Cardinality(Present)
    <3>1. mod \in Nat /\ BlockSize < mod /\ array \in Seq(Word(mod)) /\ Len(array) < SizeMod
      BY DEF Given
    <3>2. Count(mod, array) = Cardinality(Here(array, mod))
      BY <3>1, CountRight
    <3> QED
      BY <3>2, PresentHere
  <2>2. ASSUME NEW address \in Addresses
        PROVE  CountBits(bits, address) = Cardinality({i \in DOMAIN bits : bits[i] = 1})
    <3>1. bits \in Seq({0, 1}) /\ Len(bits) < SizeMod
      BY DEF Given
    <3>2. CountBits(bits, address) = Cardinality(Ones(bits))
      BY <3>1, CountBitsRight
    <3>3. {i \in DOMAIN bits : bits[i] = 1} = Ones(bits)
      <4>1. DOMAIN bits = 1 .. Len(bits)
        BY <3>1
      <4> QED
        BY <4>1 DEF Ones
    <3> QED
      BY <3>2, <3>3
  <2> QED
    BY <2>1, <2>2 DEF CountExact
<1> QED
  BY <1>1, GivenKept, PTL

-----------------------------------------------------------------------------
(* Dedup.                                                                  *)

(* Size is no position and no key, so that it can stand for max().         *)
LEMMA SentinelApart == Sentinel \notin Position
BY DedupAssumption DEF Sentinel, Position

(* No flag is set in the beginning.                                        *)
LEMMA InitInv == Init => Inv
BY SentinelApart DEF Init, Inv, TypeOK, Competing, Settling, Key

(* A position of the first job tests the flag of its key.                  *)
LEMMA TestInv == ASSUME Inv, NEW i \in Position, Test(i) PROVE Inv'
<1> USE SentinelApart DEF Key
<1>1. TypeOK' BY DEF Inv, TypeOK, Test, Goto, history
<1>2. Competing' BY DEF Inv, TypeOK, Competing, Test, Goto, history
<1>3. Settling' BY DEF Settling, Test
<1>4. (round = 3 => AllDone)' BY DEF Test
<1>. QED BY <1>1, <1>2, <1>3, <1>4 DEF Inv

(* ... and takes it, or finds it taken.                                    *)
LEMMA ClaimInv == ASSUME Inv, NEW i \in Position, Claim(i) PROVE Inv'
<1> USE SentinelApart DEF Key
<1>0. round = 1
  BY DEF Inv, TypeOK, Settling, Claim, history
<1>1. original[i] \in Key /\ data = original
  BY <1>0 DEF Inv, TypeOK, Competing, Claim
<1>2. TypeOK' BY <1>1 DEF Inv, TypeOK, Claim, Goto, history
<1>3. Competing' BY <1>0, <1>1 DEF Inv, TypeOK, Competing, Claim, Goto, history
<1>4. Settling' BY <1>0 DEF Settling, Claim
<1>5. (round = 3 => AllDone)' BY <1>0 DEF Claim
<1>. QED BY <1>2, <1>3, <1>4, <1>5 DEF Inv

(* Between the jobs every key of the array has a winner among its          *)
(* positions, and its flag names it.                                       *)
LEMMA NextJobInv == ASSUME Inv, NextJob PROVE Inv'
<1> USE SentinelApart DEF Key
<1>1. TypeOK' BY DEF Inv, TypeOK, NextJob, AllDone
<1>2. Competing' BY DEF Competing, NextJob
<1>3. Settling'
  BY DEF Inv, TypeOK, Competing, Settling, NextJob, AllDone
<1>4. (round = 3 => AllDone)' BY DEF NextJob
<1>. QED BY <1>1, <1>2, <1>3, <1>4 DEF Inv

(* A position of the second job learns whether it has won.                 *)
LEMMA LookInv == ASSUME Inv, NEW i \in Position, Look(i) PROVE Inv'
<1> USE SentinelApart DEF Key
<1>1. TypeOK' BY DEF Inv, TypeOK, Look, Goto, history
<1>2. Competing' BY DEF Competing, Look
<1>3. Settling' BY DEF Inv, TypeOK, Settling, Look, Goto, history
<1>4. (round = 3 => AllDone)' BY DEF Look
<1>. QED BY <1>1, <1>2, <1>3, <1>4 DEF Inv

(* The winner gives the flag of its key back, and no other flag.           *)
LEMMA ResetInv == ASSUME Inv, NEW i \in Position, Reset(i) PROVE Inv'
<1> USE SentinelApart DEF Key
<1>0. round = 2
  BY DEF Inv, TypeOK, Competing, AllDone, Reset
<1>1. original[i] \in Key /\ winner[original[i]] = i /\ data[i] = original[i]
  BY <1>0 DEF Inv, TypeOK, Settling, Reset
<1>2. TypeOK' BY <1>1 DEF Inv, TypeOK, Reset, Goto, history
<1>3. Competing' BY <1>0 DEF Competing, Reset
<1>4. Settling' BY <1>0, <1>1 DEF Inv, TypeOK, Settling, Reset, Goto, history
<1>5. (round = 3 => AllDone)' BY <1>0 DEF Reset
<1>. QED BY <1>2, <1>3, <1>4, <1>5 DEF Inv

(* A position that has lost erases itself, and no other position.          *)
LEMMA LoseInv == ASSUME Inv, NEW i \in Position, Lose(i) PROVE Inv'
<1> USE SentinelApart DEF Key
<1>0. round = 2
  BY DEF Inv, TypeOK, Competing, AllDone, Lose
<1>1. TypeOK' BY DEF Inv, TypeOK, Lose, Goto, history
<1>2. Competing' BY <1>0 DEF Competing, Lose
<1>3. Settling' BY <1>0 DEF Inv, TypeOK, Settling, Lose, Goto, history
<1>4. (round = 3 => AllDone)' BY <1>0 DEF Lose
<1>. QED BY <1>1, <1>2, <1>3, <1>4 DEF Inv

(* Whatever the array and however the positions of a job interleave, the   *)
(* flag of a key names one of its positions from the moment it is taken    *)
(* until that position gives it back.                                      *)
THEOREM DedupInvariant == Spec => []Inv
<1>1. Inv /\ [Next]_vars => Inv'
  <2>. SUFFICES ASSUME Inv, [Next]_vars PROVE Inv'
    OBVIOUS
  <2>1. CASE \E i \in Position : Test(i) \/ Claim(i) \/ Look(i) \/ Reset(i) \/ Lose(i)
    BY <2>1, TestInv, ClaimInv, LookInv, ResetInv, LoseInv
  <2>2. CASE NextJob
    BY <2>2, NextJobInv
  <2>3. CASE Return
    BY <2>3 DEF Return, Inv, TypeOK, Competing, Settling, AllDone, history
  <2>4. CASE Terminated \/ UNCHANGED vars
    BY <2>4 DEF Terminated, vars, history, Inv, TypeOK, Competing, Settling, AllDone
  <2>. QED BY <2>1, <2>2, <2>3, <2>4 DEF Next
<1>. QED BY InitInv, <1>1, PTL DEF Spec

(* When dedup returns, one copy of every key of the array is left, the one *)
(* at the winner's position, and the flags are clear for the next call.    *)
THEOREM DedupCorrect == Spec => []Deduplicated
<1>1. Inv => Deduplicated
  <2>. SUFFICES ASSUME Inv, round = 3 PROVE
         /\ \A i \in Position : data[i] \in {original[i], Sentinel}
         /\ \A i \in Position : original[i] # Sentinel =>
              \E w \in Position : {j \in Position : data[j] = original[i]} = {w}
         /\ \A k \in Key : index[k] = Sentinel
    BY DEF Deduplicated
  <2>. USE SentinelApart DEF Key
  <2>1. ASSUME NEW i \in Position PROVE data[i] \in {original[i], Sentinel}
    BY DEF Inv, TypeOK, Settling
  <2>2. ASSUME NEW i \in Position, original[i] # Sentinel PROVE
          \E w \in Position : {j \in Position : data[j] = original[i]} = {w}
    <3>. DEFINE w == winner[original[i]]
    <3>1. w \in Position /\ original[w] = original[i]
      BY <2>2 DEF Inv, TypeOK, Settling
    <3>2. data[w] = original[i]
      BY <2>2, <3>1 DEF Inv, TypeOK, Settling, AllDone
    <3>3. ASSUME NEW j \in Position, data[j] = original[i] PROVE j = w
      BY <2>2, <3>1, <3>3 DEF Inv, TypeOK, Settling, AllDone
    <3>. QED BY <3>1, <3>2, <3>3
  <2>3. ASSUME NEW k \in Key PROVE index[k] = Sentinel
    <3>. SUFFICES ASSUME index[k] # Sentinel PROVE FALSE
      OBVIOUS
    <3>1. winner[k] \in Position /\ original[winner[k]] = k
      BY DEF Inv, TypeOK, Settling
    <3>. QED BY <3>1 DEF Inv, TypeOK, Settling, AllDone
  <2>. QED BY <2>1, <2>2, <2>3
<1>. QED BY <1>1, DedupInvariant, PTL
=============================================================================
