--------------------------- MODULE GangProperties ---------------------------
(***************************************************************************)
(* What the thread pool of module Gang guarantees.                         *)
(***************************************************************************)
EXTENDS Gang

(* The submitter is not inside submit; it has begun to destroy the gang.   *)
Closing == pc[Main] \in {"dtor", "one", "drain", "join", "done"}

Executing(t) == pc[t] \in {"task", "run"}

(* submit frees the previous job object (tasks.reset) without a lock: no   *)
(* thread may still be about to use it or using it, even one that was held *)
(* up between abb and its test of flag while later jobs came and went, or  *)
(* one whose job the submitter left by an exception: the caller may        *)
(* destroy the gang after that.  It may not submit again.                  *)
NoStaleTask ==
  protocol # "broken" =>
    /\ ~Undefined
    /\ pc[Main] = "idle" /\ protocol = "kept" => \A t \in Worker : ~Executing(t)

(* reinit stores into abb2.total and abb2.awaited while threads of the     *)
(* previous job may still be inside ab_barrier_wait(&abb2): each of them   *)
(* has been released already, and none of them is going to count down or   *)
(* reset the counter that is being replaced.  (An exception of the         *)
(* submitter's part leaves abb2 a member short: a further reinit is not    *)
(* covered.)                                                               *)
ReinitUndisturbed ==
  protocol = "kept" /\ pc[Main] \in {"idle", "reflag", "retotal", "reawaited"} =>
    \A t \in Thread :
      /\ abb2Pc[t] \notin {"dec", "reset", "read", "store"}
      /\ abb2Pc[t] \in {"check", "wait", "sleep"} => abb2Gen[t] # abb2Generation
      /\ abb2Pc[t] = "sleep" => \E u \in Thread : abb2Pc[u] = "wake"

(* The constructor leaves flag uninitialised; no thread looks at it before *)
(* the first reinit has stored it, in particular not the workers of a gang *)
(* that is destroyed without ever having been used.                        *)
FlagInitialised == \A t \in Thread : pc[t] = "flag" => flag # Unset

(* submit has run every part once when it returns; after an exception of   *)
(* the submitter's part the others still run theirs at most once, until    *)
(* the caller submits again.                                               *)
Status ==
  CASE protocol = "broken"                        -> "broken"
    [] protocol # "broken" /\ Closing             -> "closed"
    [] protocol = "kept"   /\ pc[Main] = "idle"   -> "idle"
    [] protocol = "left"   /\ pc[Main] = "idle"   -> "left"
    [] OTHER                                      -> "busy"

FJ == INSTANCE ForkJoin WITH status <- Status, parts <- 0 .. n - 1

ImplementsForkJoin == FJ!Spec

(* A part of a job with several has thrown, on a worker or on the          *)
(* submitter.                                                              *)
Thrown ==
  \/ protocol # "kept"
  \/ \E w \in Worker : pc[w] = "exit" /\ started[w] > finished[w]

(* Every submit returns, unless one of its parts throws.                   *)
SubmitReturns == (pc[Main] = "reflag") ~> (pc[Main] = "idle" \/ Thrown)

(* ~Gang releases and joins every worker.                                  *)
DestructorReturns == (pc[Main] = "dtor") ~> (pc[Main] = "done")

(* ~Gang releases and joins several workers too, unless a worker was the   *)
(* last to count down: with total already 1, ab_barrier_wait_end wakes     *)
(* nobody.  (A part that threw may have left workers behind in abb2.)      *)
WorkerLast == abbTotal = 1 /\ \E w \in Worker : abbPc[w] = "wake"

DestructorReturnsUnlessWorkerLast ==
  (pc[Main] = "dtor") ~> (pc[Main] = "done" \/ Thrown \/ WorkerLast)

-----------------------------------------------------------------------------
(* The inductive invariant behind the safety properties.                   *)

(* ~Gang has given abb a total of one: abb is no barrier any more.         *)
Draining == pc[Main] \in {"drain", "join", "done"}

(* flag is that of a job nobody has been let into yet.                     *)
Renewed ==
  \/ pc[Main] \in {"retotal", "reawaited"}
  \/ pc[Main] = "abb" /\ ~abb!Released(Main)

(* Everybody has been let into the job of flag, and abb2 has not yet       *)
(* released the threads that have a part of it.                            *)
Open == flag.gen = abb2Generation + 1 /\ ~Renewed

(* The threads abb2 waits for. *)
Members == 0 .. abb2Total - 1

PlacesOK ==
  /\ pc[Main] # "exit"
  /\ \A w \in Worker :
       pc[w] \in {"abb", "shutdown", "gen", "flag", "task", "run", "abb2", "exit"}
  /\ \A t \in Thread :
       abbPc[t] # "out" => pc[t] = "abb" \/ (t = Main /\ pc[t] = "drain")
  /\ \A t \in Thread : abb2Pc[t] # "out" => pc[t] = "abb2"
  /\ shutdown <=> (pc[Main] = "one" \/ Draining)
  /\ IF Draining THEN pc[Main] = "drain" => drains < Num ELSE drains = 0

AbbOK == ~Draining => abb!BarrierInv(Thread)

(* Between the two stores of reinit the total is that of the new job and   *)
(* the counter that of the old one.                                        *)
Abb2OK ==
  /\ abb2Total <= Num
  /\ IF pc[Main] = "reawaited"
     THEN abb2!StateOK(Members)
     ELSE abb2!BarrierInv(Members)

(* abb2 lags behind abb by at most the job that is open, and flag names    *)
(* the job abb has let everybody into last, or the one to come.            *)
RoundsOK ==
  /\ \/ flag = Unset /\ abb2Generation = 0
     \/ flag.gen \in {abb2Generation, abb2Generation + 1}
  /\ flag.gen <= tasks
  /\ Renewed => abbGeneration = abb2Generation /\ flag.gen = abbGeneration + 1
  /\ ~Renewed /\ ~Draining =>
       abbGeneration = IF flag = Unset THEN 0 ELSE flag.gen
  /\ flag # Unset /\ pc[Main] # "retotal" => flag.n = abb2Total

(* abb opens once for each submit of several parts. *)
LapsOK ==
  ~Draining => /\ abbGeneration <= tasks
               /\ pc[Main] = "reflag" \/ Renewed => abbGeneration < tasks

(* Where the submitter is tells the state of the job. *)
SubmitOK ==
  /\ pc[Main] = "reflag" \/ Renewed =>
       n > 1 /\ \A t \in Thread : started[t] = 0 /\ finished[t] = 0
  /\ pc[Main] = "reawaited" => abb2Total = n
  /\ Renewed \/ pc[Main] \in {"shutdown", "gen", "flag", "abb2"} => n > 1 /\ flag.n = n
  /\ protocol = "left" => pc[Main] = "idle" \/ Closing
  /\ pc[Main] = "idle" /\ protocol = "kept" => ~Open
  /\ pc[Main] \in {"reflag", "return"} => ~Open
  /\ pc[Main] \in {"abb", "shutdown", "gen", "flag"} => Renewed \/ Open
  /\ pc[Main] \in {"task", "run"} => IF n = 1 THEN ~Open ELSE Open
  /\ pc[Main] = "return" \/ (pc[Main] = "abb2" /\ ~Open) =>
       \A t \in 0 .. n - 1 : finished[t] = 1
  /\ Open => n > 1 /\ flag.n = n

(* The thread has left abb, or is leaving it, and has still to find out    *)
(* whether the job has a part for it.                                      *)
Coming(t) ==
  \/ pc[t] \in {"gen", "flag"}
  \/ ~shutdown /\ pc[t] = "shutdown"
  \/ ~shutdown /\ pc[t] = "abb" /\ abb!Released(t)

(* A thread that comes to an open job has not run its part; one that comes *)
(* too late has none.  Threads leave abb2 when the job is no longer open.  *)
ThreadOK(t) ==
  /\ Coming(t) =>
       /\ flag # Unset
       /\ IF Open
          THEN t < flag.n => started[t] = 0 /\ finished[t] = 0
          ELSE t >= flag.n \/ Renewed
  /\ pc[t] = "flag" /\ ~Draining => lgen[t] = abbGeneration
  /\ pc[t] \in {"task", "run"} => t < n /\ finished[t] = 0 /\ (Open \/ t = Main)
  /\ pc[t] = "task" => started[t] = 0 /\ tasks > 0
  /\ pc[t] = "run" => started[t] = 1 /\ job[t] = tasks
  /\ pc[t] = "abb2" => IF Open
                       THEN t < flag.n /\ finished[t] = 1 /\ ~abb2!Released(t)
                       ELSE abb2!Released(t)

(* abb2 keeps its invariant, with the threads of the current job as its    *)
(* members; it is behind abb by at most the open job; and every thread is  *)
(* where the rounds it has seen put it.                                    *)
JobsOK ==
  /\ Abb2OK
  /\ RoundsOK
  /\ SubmitOK
  /\ \A t \in Thread : ThreadOK(t)

(* Whatever the caller does, abb is a barrier for all threads until ~Gang; *)
(* and the jobs go their way, abandoned ones included, as long as the      *)
(* caller does not submit another after it caught an exception (Gang::run, *)
(* submit, reinit and ~Gang).                                              *)
Inv ==
  /\ TypeOK
  /\ PlacesOK
  /\ AbbOK
  /\ LapsOK
  /\ protocol # "kept" => flag # Unset
  /\ protocol # "broken" => JobsOK

(* The fast path of abb2, which wakes nobody, is not taken by a thread     *)
(* others may be waiting for.                                              *)
WakeOK == (abb2Total > 1 \/ Num = 1) /\ abb2!SleepersOK
=============================================================================
