-------------------------------- MODULE Gang --------------------------------
(***************************************************************************)
(* The thread pool of utils/Gang.h: class Gang, with its two barriers.     *)
(*                                                                         *)
(* Num threads: thread 0 is the one that constructs the gang, submits jobs *)
(* and destroys it; threads 1 .. Num-1 execute Gang::loop.  Everybody      *)
(* meets at abb to begin a job; the threads that have a part of it meet at *)
(* abb2 to end it.  flag tells a thread that comes out of abb whether the  *)
(* job has a part for it.                                                  *)
(*                                                                         *)
(* One action is one access to shared memory, one system call or one call  *)
(* of the job's code.  A job is the number of the submit that installed    *)
(* it; how its indices are divided is the subject of module Tasks.         *)
(***************************************************************************)
EXTENDS Integers, FiniteSets

CONSTANTS
  Num,          (* num: the threads of the gang, the submitter included    *)
  GenMod,       (* number of distinct barrier generations                  *)
  UIntMax,      (* largest unsigned                                        *)
  BarOverflow,  (* BAR_OVERFLOW                                            *)
  BarWasLast,   (* BAR_WAS_LAST: flag has room for part counts below it    *)
  MaxSubmits,   (* bound: submits the program makes                        *)
  MayThrow      (* whether the submitted function may throw                *)

Main == 0

Thread == 0 .. Num - 1

Worker == Thread \ {Main}

ASSUME GangAssumption ==
  /\ Num \in Nat /\ Num > 0 /\ Num < BarWasLast
  /\ MaxSubmits \in Nat /\ MaxSubmits + 2 < GenMod
  /\ GenMod \in Nat /\ BarWasLast \in Nat
  /\ MayThrow \in BOOLEAN
  /\ BarOverflow \in Nat /\ UIntMax \in Nat
  /\ Num <= BarOverflow /\ BarOverflow + Num < UIntMax

VARIABLES
  abbTotal, abbAwaited, abbGeneration, abbPc, abbGen,
  abb2Total, abb2Awaited, abb2Generation, abb2Pc, abb2Gen,
  flag,         (* the generation the last job belongs to, and its parts   *)
  tasks,        (* the job `tasks` points to (0: null)                     *)
  shutdown,
  pc,           (* where each thread is outside the barriers               *)
  lgen,         (* run's local `state`: abb's generation as thread t saw it*)
  n,            (* submit's local n                                        *)
  drains,       (* ~Gang's loop variable i                                 *)
  job,          (* history: the job thread t is executing (0: none)        *)
  started,      (* history: parts of the current job each thread has begun *)
  finished,     (* history: and completed                                  *)
  protocol      (* history: whether an exception has left submit early     *)

abbVars  == <<abbTotal, abbAwaited, abbGeneration, abbPc, abbGen>>
abb2Vars == <<abb2Total, abb2Awaited, abb2Generation, abb2Pc, abb2Gen>>
history  == <<job, started, finished, protocol>>
vars == <<abbVars, abb2Vars, flag, tasks, shutdown, pc, lgen, n, drains, history>>

abb == INSTANCE Barrier WITH
         total <- abbTotal, awaited <- abbAwaited,
         generation <- abbGeneration, bpc <- abbPc, bgen <- abbGen

abb2 == INSTANCE Barrier WITH
          total <- abb2Total, awaited <- abb2Awaited,
          generation <- abb2Generation, bpc <- abb2Pc, bgen <- abb2Gen

PcValues == {"idle", "reflag", "retotal", "reawaited", "return",   \* submit
             "abb", "shutdown", "gen", "flag", "task", "run", "abb2",   \* run
             "dtor", "one", "drain", "join", "done", "exit"}    \* ~Gang, loop

(* "kept", "left": an exception of the submitter's own part has left       *)
(* submit while the others may be at their parts; "broken": the caller has *)
(* caught it and submitted again, for all that.                            *)
Protocols == {"kept", "left", "broken"}

(* The constructor leaves flag uninitialised. *)
Unset == [gen |-> -1, n |-> 0]

TypeOK ==
  /\ abb!BarrierTypeOK
  /\ abb2!BarrierTypeOK
  /\ flag \in [gen : -1 .. GenMod - 1, n : 0 .. BarWasLast - 1]
  /\ tasks \in 0 .. MaxSubmits
  /\ shutdown \in BOOLEAN
  /\ pc \in [Thread -> PcValues]
  /\ lgen \in [Thread -> -1 .. GenMod - 1]
  /\ n \in 0 .. Num
  /\ drains \in 0 .. Num
  /\ job \in [Thread -> 0 .. MaxSubmits]
  /\ started \in [Thread -> Nat]
  /\ finished \in [Thread -> Nat]
  /\ protocol \in Protocols

(* The constructor: the workers are created and go straight to run. *)
Init ==
  /\ abb!BarrierInit(Num)
  /\ abb2!BarrierInit(Num)
  /\ flag = Unset
  /\ tasks = 0
  /\ shutdown = FALSE
  /\ pc = [t \in Thread |-> IF t = Main THEN "idle" ELSE "abb"]
  /\ lgen = [t \in Thread |-> -1]
  /\ n = 0
  /\ drains = 0
  /\ job = [t \in Thread |-> 0]
  /\ started = [t \in Thread |-> 0]
  /\ finished = [t \in Thread |-> 0]
  /\ protocol = "kept"

Goto(t, label) == pc' = [pc EXCEPT ![t] = label]

At(t, label) == pc[t] = label

-----------------------------------------------------------------------------
(* submit and reinit, on the submitting thread *)

(* A job of k parts replaces the previous one, which is freed whoever may  *)
(* still be at it.  One part is run on the spot; zero parts are a return   *)
(* without effect.  (Bound: a caller that submits after an exception left  *)
(* parts behind does it once: nothing is promised from there on.)          *)
Submit(k) ==
  /\ At(Main, "idle")
  /\ tasks < MaxSubmits /\ protocol # "broken"
  /\ n' = k
  /\ tasks' = tasks + 1
  /\ started' = [t \in Thread |-> 0]
  /\ finished' = [t \in Thread |-> 0]
  /\ protocol' = IF protocol = "left" THEN "broken" ELSE protocol
  /\ Goto(Main, IF k = 1 THEN "task" ELSE "reflag")
  /\ UNCHANGED <<abbVars, abb2Vars, flag, shutdown, lgen, drains, job>>

StoreFlag ==
  /\ At(Main, "reflag")
  /\ flag' = [gen |-> abb!NextGen(abbGeneration), n |-> n]
  /\ Goto(Main, "retotal")
  /\ UNCHANGED <<abbVars, abb2Vars, tasks, shutdown, lgen, n, drains, history>>

StoreTotal ==
  /\ At(Main, "retotal")
  /\ abb2Total' = n
  /\ Goto(Main, "reawaited")
  /\ UNCHANGED <<abbVars, abb2Awaited, abb2Generation, abb2Pc, abb2Gen,
                 flag, tasks, shutdown, lgen, n, drains, history>>

StoreAwaited ==
  /\ At(Main, "reawaited")
  /\ abb2Awaited' = n
  /\ Goto(Main, "abb")
  /\ UNCHANGED <<abbVars, abb2Total, abb2Generation, abb2Pc, abb2Gen,
                 flag, tasks, shutdown, lgen, n, drains, history>>

Reinit == StoreFlag \/ StoreTotal \/ StoreAwaited

-----------------------------------------------------------------------------
(* run(t): loop calls it again on a worker, submit returns on the submitter *)

AfterRun(t) == IF t = Main THEN "return" ELSE "abb"

WaitAbb(t) ==
  /\ At(t, "abb")
  /\ abb!Wait(t)
  /\ IF abbPc'[t] = "out" THEN Goto(t, "shutdown") ELSE UNCHANGED pc
  /\ UNCHANGED <<abb2Vars, flag, tasks, shutdown, lgen, n, drains, history>>

(* throw "quit" ends loop. *)
TestShutdown(t) ==
  /\ At(t, "shutdown")
  /\ Goto(t, IF shutdown THEN "exit" ELSE "gen")
  /\ UNCHANGED <<abbVars, abb2Vars, flag, tasks, shutdown, lgen, n, drains, history>>

LoadGen(t) ==
  /\ At(t, "gen")
  /\ lgen' = [lgen EXCEPT ![t] = abbGeneration]
  /\ Goto(t, "flag")
  /\ UNCHANGED <<abbVars, abb2Vars, flag, tasks, shutdown, n, drains, history>>

(* Fault: any flag will do, even that of a later job. *)
ExcludedByNumber(t) == t >= flag.n

(* flag is newer than the round this thread came for, or names fewer parts *)
(* than t + 1.                                                             *)
Excluded(t) == flag.gen > lgen[t] \/ t >= flag.n

LoadFlag(t) ==
  /\ At(t, "flag")
  /\ lgen' = [lgen EXCEPT ![t] = -1]
  /\ Goto(t, IF Excluded(t) THEN AfterRun(t) ELSE "task")
  /\ UNCHANGED <<abbVars, abb2Vars, flag, tasks, shutdown, n, drains, history>>

(* tasks->run(t): the pointer is read, then the job's code executes. *)
StartTask(t) ==
  /\ At(t, "task")
  /\ job' = [job EXCEPT ![t] = tasks]
  /\ started' = [started EXCEPT ![t] = @ + 1]
  /\ Goto(t, "run")
  /\ UNCHANGED <<abbVars, abb2Vars, flag, tasks, shutdown, lgen, n, drains,
                 finished, protocol>>

(* Fault: abb2 is left out. *)
FinishTaskNoWait(t) ==
  /\ At(t, "run")
  /\ job' = [job EXCEPT ![t] = 0]
  /\ finished' = [finished EXCEPT ![t] = @ + 1]
  /\ Goto(t, AfterRun(t))
  /\ UNCHANGED <<abbVars, abb2Vars, flag, tasks, shutdown, lgen, n, drains,
                 started, protocol>>

FinishTask(t) ==
  /\ At(t, "run")
  /\ job' = [job EXCEPT ![t] = 0]
  /\ finished' = [finished EXCEPT ![t] = @ + 1]
  /\ Goto(t, IF t = Main /\ n = 1 THEN "return" ELSE "abb2")
  /\ UNCHANGED <<abbVars, abb2Vars, flag, tasks, shutdown, lgen, n, drains,
                 started, protocol>>

(* The others may still be at the job the exception takes the submitter    *)
(* out of.                                                                 *)
Leaving(t) == t = Main /\ n > 1 /\ protocol = "kept"

(* Fault: an exception counts as the end of the part. *)
ThrowSwallowed(t) ==
  /\ MayThrow
  /\ At(t, "run")
  /\ Goto(t, IF t = Main THEN "idle" ELSE "abb2")
  /\ job' = [job EXCEPT ![t] = 0]
  /\ protocol' = IF Leaving(t) THEN "left" ELSE protocol
  /\ UNCHANGED <<abbVars, abb2Vars, flag, tasks, shutdown, lgen, n, drains,
                 started, finished>>

(* An exception ends a worker for good (loop's catch (...)); on the        *)
(* submitter it leaves submit, whose caller may catch it, and submit again *)
(* or destroy the gang.                                                    *)
Throw(t) ==
  /\ MayThrow
  /\ At(t, "run")
  /\ Goto(t, IF t = Main THEN "idle" ELSE "exit")
  /\ job' = [job EXCEPT ![t] = 0]
  /\ protocol' = IF Leaving(t) THEN "left" ELSE protocol
  /\ UNCHANGED <<abbVars, abb2Vars, flag, tasks, shutdown, lgen, n, drains,
                 started, finished>>

WaitAbb2(t) ==
  /\ At(t, "abb2")
  /\ abb2!Wait(t)
  /\ IF abb2Pc'[t] = "out" THEN Goto(t, AfterRun(t)) ELSE UNCHANGED pc
  /\ UNCHANGED <<abbVars, flag, tasks, shutdown, lgen, n, drains, history>>

Run(t) ==
  \/ WaitAbb(t) \/ TestShutdown(t) \/ LoadGen(t) \/ LoadFlag(t)
  \/ StartTask(t) \/ FinishTask(t) \/ Throw(t) \/ WaitAbb2(t)

(* submit returns to its caller. *)
Return ==
  /\ At(Main, "return")
  /\ Goto(Main, "idle")
  /\ UNCHANGED <<abbVars, abb2Vars, flag, tasks, shutdown, lgen, n, drains, history>>

(* A signal makes futex_wait return early on either barrier. *)
Interrupt(t) ==
  /\ \/ abb!Interrupt(t) /\ UNCHANGED abb2Vars
     \/ abb2!Interrupt(t) /\ UNCHANGED abbVars
  /\ UNCHANGED <<flag, tasks, shutdown, pc, lgen, n, drains, history>>

-----------------------------------------------------------------------------
(* ~Gang, on the submitting thread *)

Close ==
  /\ At(Main, "idle")
  /\ Goto(Main, "dtor")
  /\ UNCHANGED <<abbVars, abb2Vars, flag, tasks, shutdown, lgen, n, drains, history>>

(* Fault: shutdown is not set. *)
SetShutdownForgotten ==
  /\ At(Main, "dtor")
  /\ Goto(Main, "one")
  /\ UNCHANGED <<abbVars, abb2Vars, flag, tasks, shutdown, lgen, n, drains, history>>

SetShutdown ==
  /\ At(Main, "dtor")
  /\ shutdown' = TRUE
  /\ Goto(Main, "one")
  /\ UNCHANGED <<abbVars, abb2Vars, flag, tasks, lgen, n, drains, history>>

SetTotal ==
  /\ At(Main, "one")
  /\ abbTotal' = 1
  /\ Goto(Main, "drain")
  /\ UNCHANGED <<abbAwaited, abbGeneration, abbPc, abbGen, abb2Vars,
                 flag, tasks, shutdown, lgen, n, drains, history>>

(* ab_barrier_wait_start and, for the last thread, the stores.  The loop   *)
(* makes at most num calls.                                                *)
Drain ==
  /\ At(Main, "drain")
  /\ abb!WaitStart(Main) \/ abb!Publish(Main)
  /\ UNCHANGED <<abb2Vars, flag, tasks, shutdown, pc, lgen, n, drains, history>>

(* Fault: the fast path of ab_barrier_wait_end, though total is 1 by now. *)
DrainWakeFast ==
  /\ At(Main, "drain")
  /\ abbPc[Main] = "wake"
  /\ IF abbTotal > 1 THEN abb!WakeAll(Main, "out") ELSE abb!Goto(Main, "out")
  /\ Goto(Main, "join")
  /\ UNCHANGED <<abbTotal, abbAwaited, abbGeneration, abbGen, abb2Vars,
                 flag, tasks, shutdown, lgen, n, drains, history>>

DrainWake ==
  /\ At(Main, "drain")
  /\ abbPc[Main] = "wake"
  /\ abb!WakeAll(Main, "out")
  /\ Goto(Main, "join")
  /\ UNCHANGED <<abbTotal, abbAwaited, abbGeneration, abbGen, abb2Vars,
                 flag, tasks, shutdown, lgen, n, drains, history>>

DrainCheck ==
  /\ At(Main, "drain")
  /\ abbPc[Main] = "check"
  /\ abbPc' = [abbPc EXCEPT ![Main] = "out"]
  /\ drains' = drains + 1
  /\ Goto(Main, IF abbAwaited > BarOverflow \/ drains' = Num THEN "join" ELSE "drain")
  /\ UNCHANGED <<abbTotal, abbAwaited, abbGeneration, abbGen, abb2Vars,
                 flag, tasks, shutdown, lgen, n, history>>

Join ==
  /\ At(Main, "join")
  /\ \A w \in Worker : At(w, "exit")
  /\ Goto(Main, "done")
  /\ UNCHANGED <<abbVars, abb2Vars, flag, tasks, shutdown, lgen, n, drains, history>>

Destroy == SetShutdown \/ SetTotal \/ Drain \/ DrainWake \/ DrainCheck \/ Join

-----------------------------------------------------------------------------
(* What the submitting thread does without being asked: to submit and to   *)
(* destroy the gang are the caller's decisions.                            *)
MainStep == Reinit \/ Run(Main) \/ Return \/ Destroy

(* A thread executes a part of a job that submit has freed, or one beyond  *)
(* the job's ranges: what follows is not defined, and not modelled.        *)
Undefined == \E t \in Thread : At(t, "run") /\ (job[t] # tasks \/ t >= n)

Terminated == (At(Main, "done") \/ Undefined) /\ UNCHANGED vars

Next ==
  \/ /\ ~Undefined
     /\ \/ \E k \in 1 .. Num : Submit(k)
        \/ Close
        \/ MainStep
        \/ \E t \in Worker : Run(t)
        \/ \E t \in Thread : Interrupt(t)
  \/ Terminated

Spec == Init /\ [][Next]_vars

(* The scheduler runs every thread, futex calls and join return when they  *)
(* can, and the submitted function returns.  Signals are not guaranteed.   *)
FairSpec ==
  /\ Spec
  /\ WF_vars(~Undefined /\ MainStep)
  /\ \A t \in Worker : WF_vars(~Undefined /\ Run(t))
=============================================================================
