----------------------------- MODULE Partition -----------------------------
(***************************************************************************)
(* How Gang::submit divides a range of indices among the threads           *)
(* (utils/Gang.h).  Pure arithmetic: no state.  size_t arithmetic is taken *)
(* not to wrap, which the users of the module assume of their arguments.   *)
(***************************************************************************)
EXTENDS Integers

Least(a, b) == IF a <= b THEN a ELSE b

(* Fault: rounded up by one granule even when there is nothing left over. *)
PartCountOneMore(len, granular, limit) == Least(len \div granular + 1, limit)

(* The number of parts: as many as there are granules, at most limit.      *)
PartCount(len, granular, limit) == Least((len + granular - 1) \div granular, limit)

(* Fault: the remainder is dropped. *)
PartSizeEven(len, parts, i) == len \div parts

(* sz[i] *)
PartSize(len, parts, i) ==
  len \div parts + (IF i < len % parts THEN 1 ELSE 0)

(* The loop that accumulates b: Begins(..)[i] is where range i begins, and *)
(* Begins(..)[parts] is where the last one ends.                           *)
Begins(start, len, parts) ==
  LET b[i \in 0 .. parts] ==
        IF i = 0 THEN start ELSE b[i - 1] + PartSize(len, parts, i - 1)
  IN  b

(* Fault: the longer parts are counted too often. *)
CutOff(start, len, parts, i) == start + i * (len \div parts + 1)

(* What the loop makes, in closed form: the code has no such expression,   *)
(* and CutIsBegins is what ties it to the loop.                            *)
Cut(start, len, parts, i) ==
  start + i * (len \div parts) + Least(i, len % parts)
=============================================================================
