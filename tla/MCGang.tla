------------------------------- MODULE MCGang -------------------------------
(* The thread pool for TLC. *)
EXTENDS GangProperties
=============================================================================
