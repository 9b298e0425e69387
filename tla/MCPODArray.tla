----------------------------- MODULE MCPODArray -----------------------------
(***************************************************************************)
(* Instances of PODArray for TLC: template parameters for which the first  *)
(* storage, every doubling and every power of two of reserve come within   *)
(* reach of arrays of a few elements.                                      *)
(***************************************************************************)
EXTENDS PODArray, TLC

Template(bytes, initial, right, left) ==
  [ELEMENT_SIZE |-> bytes, INITIAL_SIZE |-> initial, pad_right_ |-> right, pad_left_ |-> left]

(* Nothing distinguishes the array objects. *)
MCSymmetry == Permutations(Arrays)

MCValues == {0, 1}

MCBlocks == 1 .. 3

(* Vector and PODArray of elements whose size is a power of two.           *)
MCLayouts == {Template(8, 40, 15, 16), Template(16, 32, 15, 16), Template(8, 16, 0, 0)}

(* Vector of a type of twelve bytes. *)
MCLayoutsTwelve == {Template(12, 64, 15, 16)}
============================================================================
