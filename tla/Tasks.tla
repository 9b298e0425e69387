------------------------------- MODULE Tasks -------------------------------
(***************************************************************************)
(* One job of a Gang (utils/Gang.h): TasksImpl::run, executed by the       *)
(* threads that have a part of the job, on the ranges submit or            *)
(* submitPerCpu made.  With work stealing every range has a shared cursor  *)
(* from which threads take chunks by fetch-and-add, first from their own   *)
(* range and then from every other; without it a thread runs its range.    *)
(*                                                                         *)
(* One action is one atomic access to a cursor or one call f(i).           *)
(***************************************************************************)
EXTENDS Partition, FiniteSets

CONSTANTS
  Num,          (* num: the threads of the gang                            *)
  CpuNum,       (* copies of every range: 1 for submit, cpu_num for        *)
                (* submitPerCpu                                            *)
  Start, End,   (* the indices of the job                                  *)
  Granular,     (* granular, which is also the chunk size                  *)
  SizeMod       (* number of values of a size_t                            *)

Length == End - Start

(* n, the number of threads that take part *)
Parts == PartCount(Length, Granular, Num \div CpuNum)

(* Nothing wraps around: not even a cursor that every thread has pushed    *)
(* beyond the end of its range.  submit returns at once when n is zero,    *)
(* and submitPerCpu aborts when n is no multiple of cpu_num.               *)
ASSUME TasksAssumption ==
  /\ Num \in Nat \ {0} /\ CpuNum \in Nat \ {0}
  /\ Start \in Nat /\ End \in Nat /\ Start <= End
  /\ Granular \in Nat \ {0}
  /\ SizeMod \in Nat
  /\ Parts > 0
  /\ CpuNum = 1 \/ Parts % CpuNum = 0
  /\ End + (Parts + 1) * Granular < SizeMod

(* The threads that take part.  Thread 0 is the submitter. *)
Part == 0 .. Parts - 1

(* ranges.size(), and the ranges' subscripts *)
RangeCount == Parts * CpuNum

Ranges == 0 .. RangeCount - 1

Index == Start .. End - 1

First(r) == Cut(Start, Length, Parts, r % Parts)     \* ranges[r].b, initially

Limit(r) == Cut(Start, Length, Parts, (r % Parts) + 1) \* ranges[r].e

VARIABLES
  worksteal,    (* worksteal, the same throughout the job                  *)
  b,            (* ranges[r].b, the shared cursor                          *)
  pc,           (* where each thread is in run                             *)
  offset,       (* t_offset                                                *)
  next,         (* b_i: the next index of the chunk a thread holds         *)
  stop,         (* end_b_i                                                 *)
  ran           (* history: how often f was called on behalf of each range *)

vars == <<worksteal, b, pc, offset, next, stop, ran>>

TypeOK ==
  /\ worksteal \in BOOLEAN
  /\ b \in [Ranges -> 0 .. SizeMod - 1]
  /\ pc \in [Part -> {"begin", "fetch", "exec", "done"}]
  /\ offset \in [Part -> 0 .. RangeCount]
  /\ next \in [Part -> 0 .. SizeMod - 1]
  /\ stop \in [Part -> 0 .. SizeMod - 1]
  /\ ran \in [Ranges -> [Index -> Nat]]

Init ==
  /\ worksteal \in BOOLEAN
  /\ b = [r \in Ranges |-> First(r)]
  /\ pc = [t \in Part |-> "begin"]
  /\ offset = [t \in Part |-> 0]
  /\ next = [t \in Part |-> 0]
  /\ stop = [t \in Part |-> 0]
  /\ ran = [r \in Ranges |-> [x \in Index |-> 0]]

(* size_t addition *)
Plus(x, y) == IF x + y < SizeMod THEN x + y ELSE x + y - SizeMod

(* (id + t_offset) % ranges.size() *)
Victim(t, o) == IF t + o < RangeCount THEN t + o ELSE t + o - RangeCount

At(t) == Victim(t, offset[t])

Goto(t, label) == pc' = [pc EXCEPT ![t] = label]

Hold(t, from, to) ==
  /\ next' = [next EXCEPT ![t] = from]
  /\ stop' = [stop EXCEPT ![t] = to]
  /\ Goto(t, "exec")

(* run(t) is called. *)
BeginSteal(t) ==
  /\ pc[t] = "begin" /\ worksteal
  /\ Goto(t, "fetch")
  /\ UNCHANGED <<worksteal, b, offset, next, stop, ran>>

(* Fault: the last index of a range is left out. *)
BeginStaticShort(t) ==
  /\ pc[t] = "begin" /\ ~worksteal
  /\ Hold(t, b[t], Limit(t) - 1)
  /\ UNCHANGED <<worksteal, b, offset, ran>>

BeginStatic(t) ==
  /\ pc[t] = "begin" /\ ~worksteal
  /\ Hold(t, b[t], Limit(t))
  /\ UNCHANGED <<worksteal, b, offset, ran>>

(* Fault: the chunk is not cut off at the end of the range. *)
FetchUnclipped(t) ==
  /\ pc[t] = "fetch"
  /\ b[At(t)] < Limit(At(t))
  /\ b' = [b EXCEPT ![At(t)] = Plus(@, Granular)]
  /\ Hold(t, b[At(t)], Plus(b[At(t)], Granular))
  /\ UNCHANGED <<worksteal, offset, ran>>

(* __sync_fetch_and_add finds work in the range ... *)
Fetch(t) ==
  /\ pc[t] = "fetch"
  /\ b[At(t)] < Limit(At(t))
  /\ b' = [b EXCEPT ![At(t)] = Plus(@, Granular)]
  /\ Hold(t, b[At(t)], Least(Plus(b[At(t)], Granular), Limit(At(t))))
  /\ UNCHANGED <<worksteal, offset, ran>>

(* Fault: a thread stops at the first exhausted range. *)
FetchNothingStop(t) ==
  /\ pc[t] = "fetch"
  /\ b[At(t)] >= Limit(At(t))
  /\ b' = [b EXCEPT ![At(t)] = Plus(@, Granular)]
  /\ Goto(t, "done")
  /\ UNCHANGED <<worksteal, offset, next, stop, ran>>

(* Fault: a thread stays with a range that is exhausted. *)
FetchNothingStay(t) ==
  /\ pc[t] = "fetch"
  /\ b[At(t)] >= Limit(At(t))
  /\ b' = [b EXCEPT ![At(t)] = Plus(@, Granular)]
  /\ UNCHANGED <<worksteal, pc, offset, next, stop, ran>>

(* Fault: a thread waits for more work in a range that is exhausted. *)
FetchNothingWait(t) ==
  /\ pc[t] = "fetch"
  /\ b[At(t)] >= Limit(At(t))
  /\ UNCHANGED vars

(* ... or finds it exhausted, and pushes the cursor on all the same. *)
FetchNothing(t) ==
  /\ pc[t] = "fetch"
  /\ b[At(t)] >= Limit(At(t))
  /\ b' = [b EXCEPT ![At(t)] = Plus(@, Granular)]
  /\ offset' = [offset EXCEPT ![t] = @ + 1]
  /\ Goto(t, IF offset[t] + 1 < RangeCount THEN "fetch" ELSE "done")
  /\ UNCHANGED <<worksteal, next, stop, ran>>

(* f(next) *)
Call(t) ==
  /\ pc[t] = "exec"
  /\ next[t] < stop[t]
  /\ ran' = [ran EXCEPT ![At(t)][next[t]] = @ + 1]
  /\ next' = [next EXCEPT ![t] = @ + 1]
  /\ UNCHANGED <<worksteal, b, pc, offset, stop>>

EndChunk(t) ==
  /\ pc[t] = "exec"
  /\ next[t] >= stop[t]
  /\ Goto(t, IF worksteal THEN "fetch" ELSE "done")
  /\ UNCHANGED <<worksteal, b, offset, next, stop, ran>>

Steal(t) == BeginSteal(t) \/ Fetch(t) \/ FetchNothing(t)

Execute(t) == BeginStatic(t) \/ Call(t) \/ EndChunk(t)

Run(t) == Steal(t) \/ Execute(t)

Terminated == (\A t \in Part : pc[t] = "done") /\ UNCHANGED vars

Next == (\E t \in Part : Run(t)) \/ Terminated

Spec == Init /\ [][Next]_vars

(* Every thread is scheduled and f returns. *)
FairSpec == Spec /\ \A t \in Part : WF_vars(Run(t))

-----------------------------------------------------------------------------
Done == \A t \in Part : pc[t] = "done"

(* The ranges somebody runs: all of them when threads steal, else only the *)
(* first n, whatever the number of copies.                                 *)
Owed == IF worksteal THEN Ranges ELSE Part

(* Every index of every range has been passed to f exactly once when the   *)
(* last thread is done, and none ever twice: no chunk is handed to two     *)
(* threads and none falls between two fetches.                             *)
ExactlyOnce ==
  \A r \in Ranges, x \in Index :
    /\ ran[r][x] <= 1
    /\ ran[r][x] = 1 => First(r) <= x /\ x < Limit(r)
    /\ Done /\ r \in Owed /\ First(r) <= x /\ x < Limit(r) => ran[r][x] = 1

(* A thread that leaves run without an index in hand leaves no index       *)
(* unclaimed behind: what is missing is in the hands of others.            *)
NothingLeftBehind ==
  \A t \in Part : pc[t] = "done" =>
    \A r \in (IF worksteal THEN Ranges ELSE {t}), x \in Index :
      First(r) <= x /\ x < Limit(r) /\ ran[r][x] = 0 =>
        \E u \in Part \ {t} :
          pc[u] = "exec" /\ At(u) = r /\ next[u] <= x /\ x < stop[u]

(***************************************************************************)
(* The inductive invariant.                                                *)
(***************************************************************************)
(* How many steps thread t has to go before it comes to range r. *)
Distance(t, r) == IF t <= r THEN r - t ELSE r - t + RangeCount

(* The threads that have found range r exhausted. *)
Passed(r) == {t \in Part : Distance(t, r) < offset[t]}

(* Of range r, the indices from First(r) up to Claimed(r) have been handed *)
(* out.                                                                    *)
Claimed(r) ==
  IF worksteal THEN b[r]
  ELSE IF r \in Part /\ pc[r] # "begin" THEN Limit(r) ELSE First(r)

(* Thread t is going to call f(x) for range r. *)
Holds(t, r, x) == pc[t] = "exec" /\ At(t) = r /\ next[t] <= x /\ x < stop[t]

OffsetOK ==
  \A t \in Part :
    /\ pc[t] \in {"fetch", "exec", "begin"} => offset[t] < RangeCount
    /\ pc[t] = "done" /\ worksteal => offset[t] = RangeCount
    /\ ~worksteal => offset[t] = 0 /\ pc[t] # "fetch"

(* A chunk lies within its range and has been handed out. *)
ChunkOK ==
  \A t \in Part : pc[t] = "exec" =>
    /\ First(At(t)) <= next[t]
    /\ stop[t] <= Limit(At(t))
    /\ stop[t] <= Claimed(At(t))

(* Threads pass exhausted ranges only, and a cursor moves on by one        *)
(* granule for each thread that passes.                                    *)
CursorOK ==
  \A r \in Ranges :
    /\ First(r) <= b[r]
    /\ ~worksteal => b[r] = First(r)
    /\ Passed(r) # {} => Limit(r) <= b[r]
    /\ b[r] < Limit(r) + (Cardinality(Passed(r)) + 1) * Granular

(* An index that has been handed out has either been run or is in the      *)
(* hands of a thread; any other has not been touched.                      *)
RanOK ==
  \A r \in Ranges, x \in Index :
    LET Inside == First(r) <= x /\ x < Limit(r) /\ x < Claimed(r)
        Held   == \E t \in Part : Holds(t, r, x)
    IN  /\ ran[r][x] = IF Inside /\ ~Held THEN 1 ELSE 0
        /\ \A t, u \in Part : Holds(t, r, x) /\ Holds(u, r, x) => t = u

Inv == TypeOK /\ OffsetOK /\ ChunkOK /\ CursorOK /\ RanOK

(* Threads go on adding to an exhausted cursor, once each: it stays below  *)
(* SizeMod, so an exhausted range never looks full of work again.          *)
CursorBounded ==
  \A r \in Ranges : First(r) <= b[r] /\ b[r] < Limit(r) + (Parts + 1) * Granular

(* Every thread runs out of work. *)
Terminates == <>Done
=============================================================================
