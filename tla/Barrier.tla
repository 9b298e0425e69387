------------------------------- MODULE Barrier -------------------------------
(***************************************************************************)
(* ab_barrier_t of utils/Gang.h: a reusable barrier built from one atomic  *)
(* counter (awaited), one generation word and a futex on that word.        *)
(*                                                                         *)
(* The module models one barrier object and the threads inside             *)
(* ab_barrier_wait.  Every step is one access to shared memory or one      *)
(* system call.  Memory is sequentially consistent.  The shared words are  *)
(* variables of the object; bpc and bgen are the program counter and the   *)
(* local `state` of each thread that is inside ab_barrier_wait.            *)
(*                                                                         *)
(* Abstractions.  generation starts at 0 and only ever grows by BAR_INCR,  *)
(* so it is counted in units of BAR_INCR, modulo GenMod (2^23 in the       *)
(* code).  The BAR_WAS_LAST bit of the returned state is the choice of     *)
(* program counter after the decrement.  do_spin gives up after a bounded  *)
(* number of reads, so a waiter whose generation has not changed may call  *)
(* futex_wait at any time; both values of `spin` then behave alike.        *)
(***************************************************************************)
EXTENDS Integers, FiniteSets

CONSTANTS
  Thread,       (* the threads that may call ab_barrier_wait               *)
  GenMod,       (* number of distinct generations before the word wraps    *)
  UIntMax,      (* the largest value of the unsigned counter awaited       *)
  BarOverflow   (* BAR_OVERFLOW: above it, awaited has gone below zero     *)

ASSUME BarrierAssumption ==
  /\ IsFiniteSet(Thread)
  /\ GenMod \in Nat /\ GenMod > 1
  /\ BarOverflow \in Nat /\ UIntMax \in Nat
  /\ Cardinality(Thread) <= BarOverflow /\ BarOverflow < UIntMax

VARIABLES
  total,        (* bar->total                                              *)
  awaited,      (* bar->awaited, unsigned                                  *)
  generation,   (* bar->generation / BAR_INCR                              *)
  bpc,          (* where each thread is inside ab_barrier_wait             *)
  bgen          (* the generation each thread read last (-1: none yet)     *)

barrierVars == <<total, awaited, generation, bpc, bgen>>

BpcValues == {"out", "dec", "reset", "read", "store", "wake",
              "check", "wait", "sleep"}

BarrierTypeOK ==
  /\ total \in 0 .. UIntMax
  /\ awaited \in 0 .. UIntMax
  /\ generation \in 0 .. GenMod - 1
  /\ bpc \in [Thread -> BpcValues]
  /\ bgen \in [Thread -> -1 .. GenMod - 1]

(***************************************************************************)
(* Unsigned arithmetic.                                                    *)
(***************************************************************************)
(* Fault: the counter as a signed number. *)
DecSigned(a) == a - 1

Dec(a) == IF a = 0 THEN UIntMax ELSE a - 1

NextGen(g) == IF g = GenMod - 1 THEN 0 ELSE g + 1

Goto(t, label) == bpc' = [bpc EXCEPT ![t] = label]

(* ab_barrier_init *)
BarrierInit(count) ==
  /\ total = count
  /\ awaited = count
  /\ generation = 0
  /\ bpc = [t \in Thread |-> "out"]
  /\ bgen = [t \in Thread |-> -1]

-----------------------------------------------------------------------------
(* ab_barrier_wait_start *)

(* Load the generation. *)
Load(t) ==
  /\ bpc[t] = "out"
  /\ bgen' = [bgen EXCEPT ![t] = generation]
  /\ Goto(t, "dec")
  /\ UNCHANGED <<total, awaited, generation>>

(* Fault: one thread too early. *)
ArriveEarly(t) ==
  /\ bpc[t] = "dec"
  /\ awaited' = Dec(awaited)
  /\ Goto(t, IF awaited' <= 1 THEN "reset" ELSE "check")
  /\ UNCHANGED <<total, generation, bgen>>

(* Decrement awaited; the thread that brings it to zero is the last one. *)
Arrive(t) ==
  /\ bpc[t] = "dec"
  /\ awaited' = Dec(awaited)
  /\ Goto(t, IF awaited' = 0 THEN "reset" ELSE "check")
  /\ UNCHANGED <<total, generation, bgen>>

-----------------------------------------------------------------------------
(* ab_barrier_wait_end, the last thread *)

(* Fault: the counter is left at zero. *)
ResetForgotten(t) ==
  /\ bpc[t] = "reset"
  /\ Goto(t, "read")
  /\ UNCHANGED <<total, awaited, generation, bgen>>

Reset(t) ==
  /\ bpc[t] = "reset"
  /\ awaited' = total
  /\ Goto(t, "read")
  /\ UNCHANGED <<total, generation, bgen>>

(* bar->generation + BAR_INCR is a plain read followed by an atomic store. *)
ReadGen(t) ==
  /\ bpc[t] = "read"
  /\ bgen' = [bgen EXCEPT ![t] = generation]
  /\ Goto(t, "store")
  /\ UNCHANGED <<total, awaited, generation>>

StoreGen(t) ==
  /\ bpc[t] = "store"
  /\ generation' = NextGen(bgen[t])
  /\ Goto(t, "wake")
  /\ UNCHANGED <<total, awaited, bgen>>

(* futex_wake(.., INT_MAX): every thread asleep on the word goes back to   *)
(* its loop; thread t itself goes on to label.                             *)
WakeAll(t, label) ==
  bpc' = [u \in Thread |->
            IF u = t THEN label
            ELSE IF bpc[u] = "sleep" THEN "wait" ELSE bpc[u]]

(* The fast path skips the system call when the barrier has one member. *)
Wake(t) ==
  /\ bpc[t] = "wake"
  /\ IF total > 1 THEN WakeAll(t, "out") ELSE Goto(t, "out")
  /\ UNCHANGED <<total, awaited, generation, bgen>>

-----------------------------------------------------------------------------
(* ab_barrier_wait_end, the other threads *)

(* Fault: the comparison is turned round. *)
CheckReversed(t) ==
  /\ bpc[t] = "check"
  /\ Goto(t, IF awaited <= BarOverflow THEN "out" ELSE "wait")
  /\ UNCHANGED <<total, awaited, generation, bgen>>

(* A counter that has gone below zero means that the barrier is being      *)
(* destroyed: leave at once.                                               *)
Check(t) ==
  /\ bpc[t] = "check"
  /\ Goto(t, IF awaited > BarOverflow THEN "out" ELSE "wait")
  /\ UNCHANGED <<total, awaited, generation, bgen>>

(* The generation moved on: leave. *)
Leave(t) ==
  /\ bpc[t] = "wait"
  /\ generation # bgen[t]
  /\ Goto(t, "out")
  /\ UNCHANGED <<total, awaited, generation, bgen>>

(* Fault: the thread sleeps without the kernel's test of the word. *)
SleepUntested(t) ==
  /\ bpc[t] = "wait"
  /\ Goto(t, "sleep")
  /\ UNCHANGED <<total, awaited, generation, bgen>>

(* The spin gave up and the kernel found the generation unchanged. *)
Sleep(t) ==
  /\ bpc[t] = "wait"
  /\ generation = bgen[t]
  /\ Goto(t, "sleep")
  /\ UNCHANGED <<total, awaited, generation, bgen>>

(* A signal ends futex_wait; the loop tests the generation again. *)
Interrupt(t) ==
  /\ bpc[t] = "sleep"
  /\ Goto(t, "wait")
  /\ UNCHANGED <<total, awaited, generation, bgen>>

WaitStart(t) == Load(t) \/ Arrive(t)

Publish(t) == Reset(t) \/ ReadGen(t) \/ StoreGen(t)

WaitEnd(t) == Publish(t) \/ Wake(t) \/ Check(t) \/ Leave(t) \/ Sleep(t)

(* ab_barrier_wait *)
Wait(t) == WaitStart(t) \/ WaitEnd(t)

-----------------------------------------------------------------------------
(* The invariant of the object, for a barrier whose members are the set P. *)

Waiting == {"check", "wait", "sleep"}

Publishing == {"reset", "read", "store"}

(* The thread is on its way out: the generation it came for is over. *)
Released(t) ==
  bpc[t] = "wake" \/ (bpc[t] \in Waiting /\ bgen[t] # generation)

(* The members that have not arrived at the current generation yet. *)
Missing(P) == {t \in P : bpc[t] \in {"out", "dec"} \/ Released(t)}

(* Only members are at the current generation; everybody else is done with *)
(* an earlier one.                                                         *)
StateOK(P) ==
  \A t \in Thread :
    /\ bpc[t] \in {"dec"} \cup Publishing => t \in P /\ bgen[t] = generation
    /\ bpc[t] \in {"out", "wake"} => bgen[t] < generation
    /\ bpc[t] \in Waiting => bgen[t] <= generation
    /\ bpc[t] \in Waiting /\ t \notin P => bgen[t] < generation

(* While the last thread publishes the next generation, every other member *)
(* waits for it.                                                           *)
LeaderOK(P) ==
  \A t \in Thread : bpc[t] \in Publishing =>
    /\ \A u \in P \ {t} : bpc[u] \in Waiting /\ bgen[u] = generation
    /\ awaited = IF bpc[t] = "reset" THEN 0 ELSE total

(* Otherwise awaited counts the members that are still to arrive. *)
CountOK(P) ==
  (\A t \in Thread : bpc[t] \notin Publishing) =>
    /\ Missing(P) # {}
    /\ awaited = Cardinality(Missing(P))

BarrierInv(P) ==
  /\ BarrierTypeOK
  /\ total = Cardinality(P)
  /\ StateOK(P)
  /\ LeaderOK(P)
  /\ CountOK(P)

(* Whoever is asleep though its generation is over is about to be woken.   *)
SleepersOK ==
  \A t \in Thread :
    bpc[t] = "sleep" /\ bgen[t] # generation => \E u \in Thread : bpc[u] = "wake"
=============================================================================
