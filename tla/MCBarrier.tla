------------------------------ MODULE MCBarrier ------------------------------
(* BarrierSystem for TLC. *)
EXTENDS BarrierSystem
=============================================================================
