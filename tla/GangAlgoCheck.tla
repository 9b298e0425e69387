--------------------------- MODULE GangAlgoCheck ---------------------------
(***************************************************************************)
(* Module GangAlgo over every small array, against what each algorithm     *)
(* returns when it is written as one loop over the array; and, with        *)
(* PartitionCheck, every small argument of submit.                         *)
(***************************************************************************)
EXTENDS GangAlgo, PartitionCheck, FiniteSets

CONSTANTS
  InMods,       (* the types of arrays                                     *)
  OutMod,       (* the type of results                                     *)
  ZeroTypes,    (* the types of the zeros a caller passes                  *)
  Operations,   (* f: the operations a caller passes                       *)
  MaxLength,    (* bound: longest array                                    *)
  MaxBits,      (* bound: longest array of bool                            *)
  Addresses     (* the addresses of arrays of bool                         *)

(* A block's count must fit the type of the array, an operation stay in    *)
(* the type of results, and an array's length is a size_t.                 *)
ASSUME GangAlgoCheckAssumption ==
  /\ \A mod \in InMods : mod \in Nat /\ BlockSize < mod /\ mod <= OutMod
  /\ OutMod \in Nat /\ BlockSize < OutMod
  /\ \A z \in ZeroTypes : z.mod \in Nat \ {0} /\ z.signed \in BOOLEAN
  /\ Operations \subseteq [Word(OutMod) \X Word(OutMod) -> Word(OutMod)]
  /\ {MaxLength, MaxBits} \subseteq 0 .. SizeMod - 1
  /\ Addresses \subseteq Nat

VARIABLES array, mod, f, zeroType, zero, inclusive, back, bits

algoVars == <<array, mod, f, zeroType, zero, inclusive, back, bits>>

Call ==
  /\ mod \in InMods
  /\ array \in UNION {[1 .. n -> Word(mod)] : n \in 0 .. MaxLength}
  /\ f \in Operations
  /\ zeroType \in ZeroTypes /\ zero \in Word(zeroType.mod)
  /\ inclusive \in BOOLEAN /\ back \in BOOLEAN
  /\ bits = <<>>

NoCall ==
  /\ mod = OutMod /\ array = <<>> /\ f = Sum(OutMod) /\ zeroType = Unsigned(OutMod) /\ zero = 0
  /\ inclusive = FALSE /\ back = FALSE

BitsCall == NoCall /\ bits \in UNION {[1 .. n -> {0, 1}] : n \in 1 .. MaxBits}

(* One call of an algorithm, or one of submit. *)
CheckInit ==
  \/ (Call \/ BitsCall) /\ start = 0 /\ end = 0 /\ granular = 1 /\ num = 1
  \/ JobInit /\ NoCall /\ bits = <<>>

CheckSpec == CheckInit /\ [][UNCHANGED <<jobVars, algoVars>>]_<<jobVars, algoVars>>

-----------------------------------------------------------------------------
Associative(D) == \A x, y, z \in D : f[<<f[<<x, y>>], z>>] = f[<<x, f[<<y, z>>]>>]

Commutative(D) == \A x, y \in D : f[<<x, y>>] = f[<<y, x>>]

LeftIdentity(e, D) == \A x \in D : f[<<e, x>>] = x

(* The zero of reduce, which becomes a number of the type of the entries,  *)
(* and of scan, which is read as one of the output's type.                 *)
ReduceZero == As(mod, zeroType, zero)
ScanZero == As(OutMod, zeroType, zero)

(* What the caller of reduce must provide: every block, and every level of *)
(* the recursion, begins with zero.                                        *)
Reducible == /\ Associative(Word(mod)) /\ LeftIdentity(ReduceZero, Word(mod))
             /\ \A x, y \in Word(mod) : f[<<x, y>>] \in Word(mod)

(* What the caller of scan must provide: the blocks are reduced from 0     *)
(* whatever zero is, forward even when the scan goes back, and in the type *)
(* of the input; the running totals of one loop over the array are numbers *)
(* of zero's type, in which a scan of at most one block keeps them.        *)
Scannable ==
  /\ Associative(Word(OutMod))
  /\ LeftIdentity(0, Word(OutMod))
  /\ back => Commutative(Word(OutMod))
  /\ \A x, y \in Word(mod) : f[<<x, y>>] \in Word(mod)
  /\ LET totals == Loop(f, ScanZero, IF back THEN Reverse(array) ELSE array)
     IN  \A i \in 0 .. Len(array) : As(OutMod, zeroType, totals[i]) = totals[i]

(* reduce is one loop over the array, however it is cut into blocks and    *)
(* however often.                                                          *)
ReduceIsSerial == Reducible => Reduce(f, mod, array, ReduceZero) = Fold(f, ReduceZero, array)

(* Each entry of scan's output is the fold of the entries before it, or    *)
(* behind it, also when the output is the input array.                     *)
ScanIsSerial ==
  LET n == Len(array)
      Before(i) == IF back THEN Reverse(SubSeq(array, IF inclusive THEN i ELSE i + 1, n))
                   ELSE SubSeq(array, 1, IF inclusive THEN i ELSE i - 1)
  IN  Scannable =>
        Scan(f, mod, OutMod, zeroType, array, zero, inclusive, back) =
          [total |-> Fold(f, ScanZero, IF back THEN Reverse(array) ELSE array),
           out   |-> [i \in 1 .. n |-> Fold(f, ScanZero, Before(i))]]

(* The indices of the entries that are there.                              *)
Present == {i \in DOMAIN array : array[i] # Absent(mod)}

(* count, and the counting of an array of bool eight, four or two entries  *)
(* at a time or one by one, find every entry.                              *)
CountExact ==
  /\ Count(mod, array) = Cardinality(Present)
  /\ \A address \in Addresses :
       CountBits(bits, address) = Cardinality({i \in DOMAIN bits : bits[i] = 1})

(* pack writes the entries that are there, in their order and without a    *)
(* gap, and no position twice although the blocks are packed in parallel.  *)
PackIsSerial ==
  Pack(mod, array) =
    [count  |-> Cardinality(Present),
     writes |-> {<<Cardinality({h \in Present : h < i}), i - 1>> : i \in Present}]
=============================================================================
