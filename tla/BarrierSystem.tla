---------------------------- MODULE BarrierSystem ----------------------------
(***************************************************************************)
(* One ab_barrier_t shared by a fixed team of threads, each of which calls *)
(* ab_barrier_wait over and over, as the threads of a Gang do on abb.      *)
(* MaxRounds bounds the number of rounds; it is below GenMod, so the       *)
(* generation word does not wrap.                                          *)
(***************************************************************************)
EXTENDS Barrier

CONSTANT MaxRounds

ASSUME BarrierSystemAssumption ==
  /\ MaxRounds \in Nat
  /\ MaxRounds < GenMod
  /\ Thread # {}

Init == BarrierInit(Cardinality(Thread))

Step(t) == (bpc[t] = "out" => generation < MaxRounds) /\ Wait(t)

Next == \E t \in Thread : Step(t) \/ Interrupt(t)

Spec == Init /\ [][Next]_barrierVars

(* Every thread is scheduled.  A thread asleep in the kernel has no step   *)
(* of its own, and no signal is guaranteed to arrive.                      *)
FairSpec == Spec /\ \A t \in Thread : WF_barrierVars(Step(t))

-----------------------------------------------------------------------------
TypeOK == BarrierTypeOK

(* The inductive invariant: the object's own, and no thread is more than   *)
(* one generation behind.                                                  *)
Inv ==
  /\ BarrierInv(Thread)
  /\ generation <= MaxRounds
  /\ \A t \in Thread : bgen[t] >= generation - 1
  /\ \A t \in Thread : bpc[t] \in {"dec"} \cup Publishing => generation < MaxRounds

(* A thread that reads generation g in wait_start is in its (g+1)-st wait. *)
ArrivedCount ==
  [t \in Thread |-> IF bpc[t] = "dec" THEN bgen[t] ELSE bgen[t] + 1]

LeftCount ==
  [t \in Thread |-> IF bpc[t] = "out" THEN bgen[t] + 1 ELSE bgen[t]]

R == INSTANCE Rendezvous WITH arrived <- ArrivedCount, left <- LeftCount

(* The barrier implements a rendezvous: nobody leaves ab_barrier_wait      *)
(* before everybody has arrived, round after round, although the threads   *)
(* share one counter that is reset while late threads are still leaving.   *)
ImplementsRendezvous == R!Spec

(* No wake-up is lost: a thread asleep on the futex leaves the barrier,    *)
(* whatever the order of the last thread's stores, its futex_wake and the  *)
(* sleeper's own test of the generation.                                   *)
SleepersLeave ==
  \A t \in Thread : (bpc[t] = "sleep" /\ generation < MaxRounds) ~> (bpc[t] = "out")
=============================================================================
