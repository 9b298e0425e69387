----------------------------- MODULE MCThriftRPC -----------------------------
(* The Thrift programs for TLC: one client runs on the server's host, the   *)
(* other on a host that was started earlier.                                *)
EXTENDS ThriftRPC, TLC

CONSTANTS c1, c2

MCClientUp == (c1 :> 0) @@ (c2 :> 1)
=============================================================================
