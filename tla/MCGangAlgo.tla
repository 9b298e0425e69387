----------------------------- MODULE MCGangAlgo -----------------------------
(* The algorithms of GangUtil for TLC: four operations on small arrays. *)
EXTENDS GangAlgoCheck

Binary(Op(_, _)) == [p \in Word(OutMod) \X Word(OutMod) |-> Op(p[1], p[2])]

(* Addition, minimum, maximum, and an operation that is not commutative:   *)
(* the last number that is not zero.                                       *)
MCOperations ==
  {Sum(OutMod), Binary(LAMBDA x, y : IF x < y THEN x ELSE y),
   Binary(LAMBDA x, y : IF x > y THEN x ELSE y), Binary(LAMBDA x, y : IF y = 0 THEN x ELSE y)}

(* A zero of the results' type, and one of a narrower signed type.         *)
MCZeroTypes == {Unsigned(OutMod), [mod |-> 2, signed |-> TRUE]}
=============================================================================
