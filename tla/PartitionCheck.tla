--------------------------- MODULE PartitionCheck ---------------------------
(***************************************************************************)
(* Module Partition over every small argument of submit.                   *)
(***************************************************************************)
EXTENDS Partition

CONSTANTS
  MaxEnd,       (* bound: largest end                                      *)
  MaxGranular,  (* bound: largest granular                                 *)
  MaxNum        (* bound: largest number of threads                        *)

ASSUME PartitionCheckAssumption == {MaxEnd, MaxGranular, MaxNum} \subseteq Nat \ {0}

VARIABLES start, end, granular, num

jobVars == <<start, end, granular, num>>

JobInit ==
  /\ end \in 0 .. MaxEnd
  /\ start \in 0 .. end
  /\ granular \in 1 .. MaxGranular
  /\ num \in 1 .. MaxNum

JobSpec == JobInit /\ [][UNCHANGED jobVars]_jobVars

JobLength == end - start

JobParts == PartCount(JobLength, granular, num)

(* Part i of the job is the indices from Begins[i] up to Begins[i+1] - 1.  *)
Bound(i) == Begins(start, JobLength, JobParts)[i]

(* No index is left out of a submit: n is zero only when there is nothing  *)
(* to do, and otherwise the ranges tile [start, end) in order.             *)
RangesTile ==
  IF JobParts = 0 THEN JobLength = 0
  ELSE /\ Bound(0) = start
       /\ Bound(JobParts) = end
       /\ \A i \in 0 .. JobParts - 1 : Bound(i) <= Bound(i + 1)
       /\ \A x \in start .. end - 1 :
            \E i \in 0 .. JobParts - 1 : Bound(i) <= x /\ x < Bound(i + 1)

(* Nobody is woken for nothing, and the load is even: no part is empty, no *)
(* two differ by more than one index, and there is a part for every full   *)
(* granule until every thread has one.                                     *)
RangesFair ==
  JobParts > 0 =>
    /\ \A i, j \in 0 .. JobParts - 1 :
         /\ PartSize(JobLength, JobParts, i) > 0
         /\ PartSize(JobLength, JobParts, i) <= PartSize(JobLength, JobParts, j) + 1
    /\ JobParts = num \/ (JobParts - 1) * granular < JobLength

(* The closed form other modules use is what the loop computes.            *)
CutIsBegins ==
  JobParts > 0 => \A i \in 0 .. JobParts : Cut(start, JobLength, JobParts, i) = Bound(i)
=============================================================================
