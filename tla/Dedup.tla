------------------------------- MODULE Dedup -------------------------------
(***************************************************************************)
(* GangUtil::dedup of utils/Gang.h: two jobs of a Gang, one after the      *)
(* other, that remove duplicate integers from an array in parallel.  In    *)
(* the first the positions of a key compete for the key's flag, in the     *)
(* second all but the winner erase themselves.  submit runs every position *)
(* once (module ForkJoin); how the positions of a job interleave is left   *)
(* open, so any number of threads will do.                                 *)
(***************************************************************************)
EXTENDS Naturals

CONSTANT Size   (* n: the number of positions; keys are less than n        *)

ASSUME DedupAssumption == Size \in Nat

Position == 0 .. Size - 1

Key == Position

(* The largest value of T in the array, of size_t in the flags. *)
Sentinel == Size

VARIABLES
  data,         (* the array                                               *)
  index,        (* the flags, one for each key                             *)
  round,        (* the first or the second job, or dedup has returned      *)
  pc,           (* where each position of the job is                       *)
  original,     (* history: the array dedup was called with                *)
  winner        (* history: the flags between the two jobs                 *)

history == <<original, winner>>
vars == <<data, index, round, pc, history>>

TypeOK ==
  /\ original \in [Position -> Key \cup {Sentinel}]
  /\ data \in [Position -> Key \cup {Sentinel}]
  /\ index \in [Key -> Position \cup {Sentinel}]
  /\ winner \in [Key -> Position \cup {Sentinel}]
  /\ round \in 1 .. 3
  /\ pc \in [Position -> {"run", "claim", "reset", "lose", "done"}]

(* "Assumes that flags is already allocated and cleared to SENTINEL." *)
Init ==
  /\ original \in [Position -> Key \cup {Sentinel}]
  /\ data = original
  /\ index = [k \in Key |-> Sentinel]
  /\ winner = [k \in Key |-> Sentinel]
  /\ round = 1
  /\ pc = [i \in Position |-> "run"]

Goto(i, label) == pc' = [pc EXCEPT ![i] = label]

-----------------------------------------------------------------------------
(* The first job *)

(* The key is valid and its flag has not been seen taken ... *)
Test(i) ==
  /\ round = 1 /\ pc[i] = "run"
  /\ Goto(i, IF data[i] # Sentinel /\ index[data[i]] = Sentinel THEN "claim" ELSE "done")
  /\ UNCHANGED <<data, index, round, history>>

(* ... by the compare-and-swap of the flag, which may be too late. *)
Claim(i) ==
  /\ pc[i] = "claim"
  /\ index' = IF index[data[i]] = Sentinel THEN [index EXCEPT ![data[i]] = i] ELSE index
  /\ Goto(i, "done")
  /\ UNCHANGED <<data, round, history>>

AllDone == \A i \in Position : pc[i] = "done"

(* Fault: the second job does not wait for the first. *)
NextJobEarly ==
  /\ round = 1 /\ \E i \in Position : pc[i] = "done"
  /\ round' = 2
  /\ winner' = index
  /\ pc' = [i \in Position |-> "run"]
  /\ UNCHANGED <<data, index, original>>

(* The first submit returns and the second begins. *)
NextJob ==
  /\ round = 1 /\ AllDone
  /\ round' = 2
  /\ winner' = index
  /\ pc' = [i \in Position |-> "run"]
  /\ UNCHANGED <<data, index, original>>

-----------------------------------------------------------------------------
(* The second job *)

(* Fault: a flag that has been reset counts as won. *)
LookLenient(i) ==
  /\ round = 2 /\ pc[i] = "run"
  /\ Goto(i, IF data[i] = Sentinel THEN "done"
             ELSE IF index[data[i]] \in {i, Sentinel} THEN "reset" ELSE "lose")
  /\ UNCHANGED <<data, index, round, history>>

Look(i) ==
  /\ round = 2 /\ pc[i] = "run"
  /\ Goto(i, IF data[i] = Sentinel THEN "done"
             ELSE IF index[data[i]] = i THEN "reset" ELSE "lose")
  /\ UNCHANGED <<data, index, round, history>>

Reset(i) ==
  /\ pc[i] = "reset"
  /\ index' = [index EXCEPT ![data[i]] = Sentinel]
  /\ Goto(i, "done")
  /\ UNCHANGED <<data, round, history>>

Lose(i) ==
  /\ pc[i] = "lose"
  /\ data' = [data EXCEPT ![i] = Sentinel]
  /\ Goto(i, "done")
  /\ UNCHANGED <<index, round, history>>

Return ==
  /\ round = 2 /\ AllDone
  /\ round' = 3
  /\ UNCHANGED <<data, index, pc, history>>

Terminated == round = 3 /\ UNCHANGED vars

Next ==
  \/ \E i \in Position : Test(i) \/ Claim(i) \/ Look(i) \/ Reset(i) \/ Lose(i)
  \/ NextJob \/ Return \/ Terminated

Spec == Init /\ [][Next]_vars

-----------------------------------------------------------------------------
(* "Sets all duplicate values in the array to SENTINEL and resets flags to *)
(* SENTINEL": of every key that was in the array exactly one copy is left, *)
(* where it was, and the flags can be used again.                          *)
Deduplicated ==
  round = 3 =>
    /\ \A i \in Position : data[i] \in {original[i], Sentinel}
    /\ \A i \in Position : original[i] # Sentinel =>
         \E w \in Position : {j \in Position : data[j] = original[i]} = {w}
    /\ \A k \in Key : index[k] = Sentinel

(* In the first job flags are only taken by positions of their key, and a  *)
(* position is done only when its key's flag is taken.                     *)
Competing ==
  round = 1 =>
    /\ data = original
    /\ \A k \in Key : index[k] # Sentinel => original[index[k]] = k
    /\ \A i \in Position :
         /\ pc[i] \in {"run", "claim", "done"}
         /\ pc[i] = "claim" => original[i] # Sentinel
         /\ pc[i] = "done" /\ original[i] # Sentinel => index[original[i]] # Sentinel

(* In the second job the winner keeps its key and gives the flag back; the *)
(* others erase themselves, whether they find the flag before or after it  *)
(* has been given back.                                                    *)
Settling ==
  round # 1 =>
    /\ \A k \in Key :
         /\ winner[k] # Sentinel => original[winner[k]] = k
         /\ index[k] # Sentinel => index[k] = winner[k]
    /\ \A i \in Position :
         LET k == original[i] IN
         IF k = Sentinel THEN data[i] = Sentinel /\ pc[i] \in {"run", "done"}
         ELSE /\ winner[k] # Sentinel
              /\ IF winner[k] = i
                 THEN /\ pc[i] \in {"run", "reset", "done"}
                      /\ data[i] = k
                      /\ index[k] = IF pc[i] = "done" THEN Sentinel ELSE i
                 ELSE /\ pc[i] \in {"run", "lose", "done"}
                      /\ data[i] = IF pc[i] = "done" THEN Sentinel ELSE k

(* The inductive invariant. *)
Inv ==
  /\ TypeOK
  /\ Competing
  /\ Settling
  /\ round = 3 => AllDone
=============================================================================
