------------------------------ MODULE ForkJoin ------------------------------
(***************************************************************************)
(* What Gang::submit promises its caller: it splits the work into parts,   *)
(* each part is run once, by the thread of its number, and submit returns  *)
(* only when every part has finished.  Jobs follow one another.            *)
(*                                                                         *)
(* An exception of the submitter's own part leaves submit early: the other *)
(* threads go on with the job, and the caller may only destroy the gang.   *)
(* Nothing is promised to a caller that submits again.                     *)
(***************************************************************************)
EXTENDS Naturals

CONSTANT Thread   (* the threads of the gang, numbered from 0 *)

VARIABLES
  status,       (* "idle", "busy" (inside submit), "left" (the job goes on *)
                (* without the submitter), "closed" or "broken"            *)
  parts,        (* the threads that have a part of the current job         *)
  started,      (* how often each thread has begun a part of this job      *)
  finished      (* how often each thread has completed one                 *)

vars == <<status, parts, started, finished>>

None == [t \in Thread |-> 0]

Init ==
  /\ status = "idle"
  /\ parts = {}
  /\ started = None
  /\ finished = None

Submit(P) ==
  /\ status = "idle"
  /\ status' = "busy"
  /\ parts' = P
  /\ started' = None
  /\ finished' = None

Start(t) ==
  /\ status # "idle"
  /\ t \in parts
  /\ started[t] = 0
  /\ started' = [started EXCEPT ![t] = 1]
  /\ UNCHANGED <<status, parts, finished>>

Finish(t) ==
  /\ status # "idle"
  /\ started[t] = 1
  /\ finished[t] = 0
  /\ finished' = [finished EXCEPT ![t] = 1]
  /\ UNCHANGED <<status, parts, started>>

Return ==
  /\ status = "busy"
  /\ \A t \in parts : finished[t] = 1
  /\ status' = "idle"
  /\ UNCHANGED <<parts, started, finished>>

(* The submitter's part throws: nobody is left behind if it is the only    *)
(* one.                                                                    *)
Leave ==
  /\ status = "busy"
  /\ started[0] = 1 /\ finished[0] = 0
  /\ status' = IF parts = {0} THEN "idle" ELSE "left"
  /\ UNCHANGED <<parts, started, finished>>

(* The caller submits for all that: anything may happen from now on.       *)
Break == status = "left" /\ status' = "broken"

Anything == status = "broken" /\ status' = "broken"

(* The gang is destroyed.                                                  *)
Close ==
  /\ status \in {"idle", "left"}
  /\ status' = "closed"
  /\ UNCHANGED <<parts, started, finished>>

Next ==
  \/ \E P \in SUBSET Thread : Submit(P)
  \/ \E t \in Thread : Start(t) \/ Finish(t)
  \/ Return
  \/ Leave
  \/ Break
  \/ Anything
  \/ Close

Spec == Init /\ [][Next]_vars
=============================================================================
