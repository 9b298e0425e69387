------------------------------ MODULE GangAlgo ------------------------------
(***************************************************************************)
(* The parallel algorithms of GangUtil (utils/Gang.h): reduce, scan, count *)
(* and pack cut an array into blocks, which the parts of a submit work on  *)
(* one after the other, and combine the results of the blocks by a         *)
(* recursive call.  A part reads and writes its own block only, so a block *)
(* is one step here and the order of blocks does not matter.               *)
(*                                                                         *)
(* Arrays are sequences of the numbers below a modulus, that of their      *)
(* integral type; a binary function f is a function on pairs.  A loop or a *)
(* recursive call is a recursive function.                                 *)
(***************************************************************************)
EXTENDS Integers, SequencesExt

CONSTANTS
  BlockSize,    (* BLOCK_SIZE                                              *)
  SizeMod,      (* size_t holds the numbers below SizeMod                  *)
  Lanes,        (* the numbers of entries counted as one word: 8, 4 and 2  *)
  Rows,         (* words added up before their lanes are: 128              *)
  LaneMod       (* the range of a lane: 256                                *)

ASSUME GangAlgoAssumption ==
  /\ {BlockSize, SizeMod, Rows, LaneMod} \subseteq Nat
  /\ BlockSize > 1
  /\ Lanes \subseteq 1 .. SizeMod - 1
  /\ 0 < Rows /\ Rows < LaneMod

Word(mod) == 0 .. mod - 1

Sum(mod) == [p \in Word(mod) \X Word(mod) |-> (p[1] + p[2]) % mod]

(* f, its result stored in a variable of the type with that modulus.       *)
Into(mod, f) == [p \in DOMAIN f |-> f[p] % mod]

(* A variable of type z holds numbers below z.mod or, if z is signed, from *)
(* -z.mod / 2 on.  What it makes of v, read as a number of the type mod.   *)
As(mod, z, v) ==
  LET w == v % z.mod
  IN  (IF z.signed /\ 2 * w >= z.mod THEN w - z.mod ELSE w) % mod

(* f, a function of two numbers of the type mod, its result kept in a      *)
(* variable of type z.                                                     *)
Through(mod, z, f) == [p \in DOMAIN f |-> As(mod, z, f[p])]

Unsigned(mod) == [mod |-> mod, signed |-> FALSE]

(* std::numeric_limits<T>::max() marks an entry that is not there.         *)
Absent(mod) == mod - 1

(* Adds an entry of an array to a count of the entries that are there.     *)
Tally(countMod, mod) ==
  [p \in Word(countMod) \X Word(mod) |-> (p[1] + IF p[2] = Absent(mod) THEN 0 ELSE 1) % countMod]

(* A loop that does r = f(r, s[i]) for each entry in turn: r after i of    *)
(* them, and after all.                                                    *)
Loop(f, zero, s) ==
  LET r[i \in 0 .. Len(s)] == IF i = 0 THEN zero ELSE f[<<r[i - 1], s[i]>>]
  IN  r

Fold(f, zero, s) == Loop(f, zero, s)[Len(s)]

-----------------------------------------------------------------------------
(* nb *)
BlockCount(s) == (Len(s) + BlockSize - 1) \div BlockSize

(* Fault: the last block of a whole number of blocks is empty. *)
BlockRemainder(s, j) ==
  LET i == (j - 1) * BlockSize IN
  SubSeq(s, i + 1, i + IF j = BlockCount(s) THEN Len(s) % BlockSize ELSE BlockSize)

(* Block j, counted from 1: the entries from i to i + len - 1.             *)
Block(s, j) ==
  LET i == (j - 1) * BlockSize IN
  SubSeq(s, i + 1, i + IF j = BlockCount(s) THEN Len(s) - i ELSE BlockSize)

(* T r = zero: the result has the type of the array's entries, and zero is *)
(* given here as a number of it.                                           *)
ReduceSerial(f, mod, s, zero) == Fold(Into(mod, f), zero, s)

(* sums: groupSubmit(nb, ...) with reduceSerial for each block.            *)
Sums(f, mod, s, zero) ==
  [j \in 1 .. BlockCount(s) |-> ReduceSerial(f, mod, Block(s, j), zero)]

-----------------------------------------------------------------------------
Reduce(f, mod, s, zero) ==
  LET reduce[t \in Seq(Word(mod))] ==
        IF BlockCount(t) <= 1 THEN ReduceSerial(f, mod, t, zero)
        ELSE reduce[Sums(f, mod, t, zero)]
  IN  reduce[s]

-----------------------------------------------------------------------------
(* Fault: out[i] is written before in[i] is read. *)
ScanEntryHasty(f, a, i, inclusive) ==
  LET out == [a.out EXCEPT ![i] = a.total]
      r   == f[<<a.total, out[i]>>]
  IN  [total |-> r, out |-> IF inclusive THEN [out EXCEPT ![i] = r] ELSE out]

(* "out and in may point to the same place": the array is overwritten as   *)
(* the loop goes along.                                                    *)
ScanEntry(f, a, i, inclusive) ==
  LET r == f[<<a.total, a.out[i]>>]
  IN  [total |-> r, out |-> [a.out EXCEPT ![i] = IF inclusive THEN r ELSE a.total]]

ScanLoop(f, s, zero, inclusive, back) ==
  LET n == Len(s)
      scan[k \in 0 .. n] ==
        IF k = 0 THEN [total |-> zero, out |-> s]
        ELSE ScanEntry(f, scan[k - 1], IF back THEN n + 1 - k ELSE k, inclusive)
  IN  scan[n]

(* auto r = zero: the running total has the type z of zero, whatever the   *)
(* type mod of f, of the entries written and of the total returned.        *)
ScanSerial(f, mod, z, s, zero, inclusive, back) ==
  ScanLoop(Through(mod, z, f), s, As(mod, z, zero), inclusive, back)

(* A call of scan, given what it returns for each array of sums.  The      *)
(* blocks are reduced from (U)0, not from zero, and in the type of the     *)
(* input; the scan of their results gives each block its zero, which has   *)
(* the type of the output.                                                 *)
ScanCall(f, inMod, outMod, z, s, zero, inclusive, back, scan) ==
  IF BlockCount(s) <= 1 THEN ScanSerial(f, outMod, z, s, zero, inclusive, back)
  ELSE LET offsets  == scan[Sums(f, inMod, s, 0)]
           Out(j)   == ScanSerial(f, outMod, Unsigned(outMod), Block(s, j), offsets.out[j],
                                  inclusive, back).out
       IN  [total |-> offsets.total,
            out   |-> [i \in 1 .. Len(s) |->
                         Out((i - 1) \div BlockSize + 1)[((i - 1) % BlockSize) + 1]]]

(* The sums are scanned in place, in the type of the output, from the      *)
(* caller's zero.                                                          *)
Scan(f, inMod, outMod, z, s, zero, inclusive, back) ==
  LET scan[t \in Seq(Word(outMod))] ==
        ScanCall(f, outMod, outMod, z, t, zero, FALSE, back, scan)
  IN  ScanCall(f, inMod, outMod, z, s, zero, inclusive, back, scan)

-----------------------------------------------------------------------------
(* The entries of a block that are there, counted in the type of entries.  *)
CountSerial(mod, s) == ReduceSerial(Tally(mod, mod), mod, s, 0)

Count(mod, s) ==
  IF BlockCount(s) <= 1 THEN CountSerial(mod, s)
  ELSE ReduceSerial(Sum(SizeMod), SizeMod, Sums(Tally(mod, mod), mod, s, 0), 0)

(* Addition of two words, lane by lane from the lowest.  The carry of the  *)
(* last lane is lost.                                                      *)
AddWords(a, b) ==
  LET carry[l \in 0 .. Len(a)] ==
        IF l = 0 THEN 0 ELSE (a[l] + b[l] + carry[l - 1]) \div LaneMod
  IN  [l \in 1 .. Len(a) |-> (a[l] + b[l] + carry[l - 1]) % LaneMod]

(* rr: n words behind the first w, each entry of s a lane, added up.       *)
Words(s, lanes, w, n) ==
  LET rr[j \in 0 .. n] ==
        IF j = 0 THEN [l \in 1 .. lanes |-> 0]
        ELSE LET i == (w + j - 1) * lanes
             IN  AddWords(rr[j - 1], SubSeq(s, i + 1, i + lanes))
  IN  rr[n]

(* Fault: all words are added up before their lanes are. *)
CountLanesOnce(s, lanes) ==
  Fold(Sum(SizeMod), 0, Words(s, lanes, 0, Len(s) \div lanes))

(* An array of bool whose length is a multiple of Rows words of so many    *)
(* lanes: the lanes are added up after every Rows words.                   *)
CountLanes(s, lanes) ==
  LET n == Len(s) \div (lanes * Rows)
      r[k \in 0 .. n] ==
        IF k = 0 THEN 0
        ELSE Fold(Sum(SizeMod), r[k - 1], Words(s, lanes, (k - 1) * Rows, Rows))
  IN  r[n]

(* An array of bool at an address is counted with the widest words that    *)
(* divide its length and its address, or entry by entry.                   *)
CountBits(s, address) ==
  LET Fitting == {lanes \in Lanes : Len(s) % (lanes * Rows) = 0 /\ address % lanes = 0}
  IN  IF Fitting = {} THEN Fold(Sum(SizeMod), 0, s) ELSE CountLanes(s, Max(Fitting))

-----------------------------------------------------------------------------
(* What packSerial returns, and the entries it writes: <<k, i>> for        *)
(* out[k] = f(i), where out begins at position from.  The overload for an  *)
(* array of bool is not modelled.                                          *)
PackSerial(mod, s, b, e, from) ==
  LET k == Loop(Tally(SizeMod, mod), 0, SubSeq(s, b + 1, e))
  IN  [count  |-> k[e - b],
       writes |-> {<<from + k[i - b], i>> : i \in {i \in b .. e - 1 : s[i + 1] # Absent(mod)}}]

(* Fault: each block begins where it should end. *)
PackOffsetsLate(mod, s) ==
  Scan(Sum(SizeMod), SizeMod, SizeMod, Unsigned(SizeMod), Sums(Tally(mod, mod), mod, s, 0), 0,
       TRUE, FALSE)

(* Where each block begins in the output, and how long the output is.      *)
PackOffsets(mod, s) ==
  Scan(Sum(SizeMod), SizeMod, SizeMod, Unsigned(SizeMod), Sums(Tally(mod, mod), mod, s, 0), 0,
       FALSE, FALSE)

(* pack, given an array to write to: out is a reference to an rvalue       *)
(* whatever the caller passes, so that pack throws when it is null and     *)
(* never allocates.                                                        *)
Pack(mod, s) ==
  IF BlockCount(s) <= 1 THEN PackSerial(mod, s, 0, Len(s), 0)
  ELSE LET offsets   == PackOffsets(mod, s)
           Writes(j) == LET i == (j - 1) * BlockSize
                        IN  PackSerial(mod, s, i, i + Len(Block(s, j)), offsets.out[j]).writes
       IN  [count  |-> offsets.total,
            writes |-> UNION {Writes(j) : j \in 1 .. BlockCount(s)}]
=============================================================================
