--------------------------- MODULE BarrierProofs ---------------------------
(***************************************************************************)
(* ab_barrier_t is a rendezvous, for any number of threads and rounds.     *)
(***************************************************************************)
EXTENDS BarrierSystem, FiniteSetTheorems, TLAPS

USE DEF Waiting, Publishing, Released

-----------------------------------------------------------------------------
(* BarrierInv(P) is preserved by every step a thread takes inside          *)
(* ab_barrier_wait, for every member set P: one lemma per action.          *)

(* The members that are still to arrive are finitely many, and so fewer    *)
(* than BAR_OVERFLOW.                                                      *)
LEMMA MissingFinite ==
  ASSUME NEW P \in SUBSET Thread
  PROVE  /\ IsFiniteSet(P)
         /\ Cardinality(P) \in 0 .. BarOverflow
         /\ IsFiniteSet(Missing(P))
         /\ Cardinality(Missing(P)) \in 0 .. BarOverflow
         /\ Cardinality(P) <= Cardinality(Thread)
<1>1. Missing(P) \in SUBSET P
  BY DEF Missing
<1>2. IsFiniteSet(P) /\ Cardinality(P) <= Cardinality(Thread)
  BY FS_Subset, BarrierAssumption
<1>3. IsFiniteSet(Missing(P)) /\ Cardinality(Missing(P)) <= Cardinality(P)
  BY <1>1, <1>2, FS_Subset
<1>4. Cardinality(Thread) \in Nat /\ Cardinality(P) \in Nat /\ Cardinality(Missing(P)) \in Nat
  BY <1>2, <1>3, FS_CardinalityType, BarrierAssumption
<1> QED
  BY <1>2, <1>3, <1>4, BarrierAssumption

(* Nobody publishes while a member has not arrived. *)
LEMMA NotPublishing ==
  ASSUME NEW P \in SUBSET Thread, LeaderOK(P),
         NEW t \in P, bpc[t] \notin Publishing,
         bpc[t] \notin Waiting \/ bgen[t] # generation
  PROVE  \A u \in Thread : bpc[u] \notin Publishing
BY DEF LeaderOK

(* A step that changes neither the counter, nor who is missing, nor who    *)
(* publishes keeps the count right.                                        *)
LEMMA CountKept ==
  ASSUME NEW P \in SUBSET Thread, CountOK(P),
         UNCHANGED awaited,
         Missing(P)' = Missing(P),
         \A u \in Thread : bpc'[u] \in Publishing <=> bpc[u] \in Publishing
  PROVE  CountOK(P)'
BY DEF CountOK

LEMMA LoadKeepsInv ==
  ASSUME NEW P \in SUBSET Thread, BarrierInv(P), NEW t \in P, Load(t)
  PROVE  BarrierInv(P)'
<1> USE DEF BarrierInv, BarrierTypeOK, BpcValues, Load, Goto
<1>1. BarrierTypeOK'
  OBVIOUS
<1>2. (total = Cardinality(P))'
  OBVIOUS
<1>3. StateOK(P)'
  BY DEF StateOK
<1>4. \A u \in Thread : bpc[u] \notin Publishing
  BY NotPublishing
<1>5. LeaderOK(P)'
  BY <1>4 DEF LeaderOK
<1>6. Missing(P)' = Missing(P)
  BY DEF Missing
<1>7. CountOK(P)'
  BY <1>4, <1>6, CountKept
<1> QED
  BY <1>1, <1>2, <1>3, <1>5, <1>7

LEMMA ArriveKeepsInv ==
  ASSUME NEW P \in SUBSET Thread, BarrierInv(P), NEW t \in Thread, Arrive(t)
  PROVE  BarrierInv(P)'
<1> USE DEF BarrierInv, BarrierTypeOK, BpcValues, Arrive, Goto
<1>1. t \in P /\ bgen[t] = generation
  BY DEF StateOK
<1>2. \A u \in Thread : bpc[u] \notin Publishing
  BY <1>1, NotPublishing
<1>3. t \in Missing(P)
  BY <1>1 DEF Missing
<1>4. awaited = Cardinality(Missing(P)) /\ awaited \in Nat \ {0}
  <2>1. awaited = Cardinality(Missing(P))
    BY <1>2 DEF CountOK
  <2>2. Cardinality(Missing(P)) # 0
    BY <1>3, MissingFinite, FS_EmptySet
  <2> QED
    BY <2>1, <2>2, MissingFinite
<1>5. awaited' = awaited - 1
  BY <1>4 DEF Dec
<1>6. Missing(P)' = Missing(P) \ {t}
  BY <1>1 DEF Missing
<1>7. awaited' = Cardinality(Missing(P)') /\ IsFiniteSet(Missing(P)')
  BY <1>3, <1>4, <1>5, <1>6, MissingFinite, FS_RemoveElement
<1>8. BarrierTypeOK'
  BY <1>4, <1>5, BarrierAssumption
<1>9. StateOK(P)'
  BY <1>1 DEF StateOK
<1>10. CASE awaited' = 0
  <2>1. Missing(P) \ {t} = {}
    BY <1>6, <1>7, <1>10, FS_EmptySet
  <2>2. \A u \in P \ {t} : bpc[u] \in Waiting /\ bgen[u] = generation
    BY <1>2, <2>1 DEF Missing
  <2>3. bpc' = [bpc EXCEPT ![t] = "reset"]
    BY <1>10
  <2>4. LeaderOK(P)'
    BY <1>2, <1>10, <2>2, <2>3 DEF LeaderOK
  <2>5. CountOK(P)'
    BY <2>3 DEF CountOK
  <2> QED
    BY <1>8, <1>9, <2>4, <2>5
<1>11. CASE awaited' # 0
  <2>1. bpc' = [bpc EXCEPT ![t] = "check"]
    BY <1>11
  <2>2. LeaderOK(P)'
    BY <1>2, <2>1 DEF LeaderOK
  <2>3. Missing(P)' # {}
    BY <1>7, <1>11, FS_EmptySet
  <2>4. CountOK(P)'
    BY <1>7, <2>3 DEF CountOK
  <2> QED
    BY <1>8, <1>9, <2>2, <2>4
<1> QED
  BY <1>10, <1>11

-----------------------------------------------------------------------------
(* The last thread. *)

LEMMA ResetKeepsInv ==
  ASSUME NEW P \in SUBSET Thread, BarrierInv(P), NEW t \in Thread, Reset(t)
  PROVE  BarrierInv(P)'
<1> USE DEF BarrierInv, BarrierTypeOK, BpcValues, Reset, Goto
<1>1. BarrierTypeOK'
  OBVIOUS
<1>2. StateOK(P)'
  BY DEF StateOK
<1>3. t \in P /\ \A u \in P \ {t} : bpc[u] \in Waiting
  BY DEF StateOK, LeaderOK
<1>4. LeaderOK(P)'
  BY <1>3 DEF LeaderOK, StateOK
<1>5. bpc'[t] \in Publishing
  OBVIOUS
<1>6. CountOK(P)'
  BY <1>5 DEF CountOK
<1> QED
  BY <1>1, <1>2, <1>4, <1>6

LEMMA ReadGenKeepsInv ==
  ASSUME NEW P \in SUBSET Thread, BarrierInv(P), NEW t \in Thread, ReadGen(t)
  PROVE  BarrierInv(P)'
<1> USE DEF BarrierInv, BarrierTypeOK, BpcValues, ReadGen, Goto
<1>1. BarrierTypeOK'
  OBVIOUS
<1>2. StateOK(P)'
  BY DEF StateOK
<1>3. LeaderOK(P)'
  BY DEF LeaderOK, StateOK
<1>4. bpc'[t] \in Publishing
  OBVIOUS
<1>5. CountOK(P)'
  BY <1>4 DEF CountOK
<1> QED
  BY <1>1, <1>2, <1>3, <1>5

(* The new generation makes every member missing again, all at once. *)
LEMMA StoreGenKeepsInv ==
  ASSUME NEW P \in SUBSET Thread, BarrierInv(P), NEW t \in Thread, StoreGen(t),
         generation < GenMod - 1
  PROVE  BarrierInv(P)'
<1> USE DEF BarrierInv, BarrierTypeOK, BpcValues, StoreGen, Goto
<1>1. t \in P /\ bgen[t] = generation
  BY DEF StateOK
<1>2. generation' = generation + 1
  BY <1>1, BarrierAssumption DEF NextGen
<1>3. \A u \in P \ {t} : bpc[u] \in Waiting /\ bgen[u] = generation
  BY DEF LeaderOK
<1>4. \A u \in Thread \ {t} : bpc[u] \notin Publishing \cup {"dec"}
  BY <1>3 DEF StateOK
<1>5. BarrierTypeOK'
  BY <1>2, BarrierAssumption
<1>6. StateOK(P)'
  BY <1>1, <1>2, <1>4 DEF StateOK
<1>7. \A u \in Thread : bpc'[u] \notin Publishing
  BY <1>4
<1>8. LeaderOK(P)'
  BY <1>7 DEF LeaderOK
<1>9. Missing(P)' = P
  <2>1. \A u \in P \ {t} : bpc'[u] \in Waiting /\ bgen'[u] # generation'
    BY <1>2, <1>3
  <2>2. bpc'[t] = "wake"
    OBVIOUS
  <2> QED
    BY <2>1, <2>2 DEF Missing
<1>10. awaited' = Cardinality(P)
  BY DEF LeaderOK
<1>11. CountOK(P)'
  BY <1>1, <1>9, <1>10 DEF CountOK
<1> QED
  BY <1>5, <1>6, <1>8, <1>11

(* Waking changes the place of sleepers within ab_barrier_wait_end only.   *)
LEMMA WakeKeepsInv ==
  ASSUME NEW P \in SUBSET Thread, BarrierInv(P), NEW t \in Thread, Wake(t)
  PROVE  BarrierInv(P)'
<1> USE DEF BarrierInv, BarrierTypeOK, BpcValues, Wake, WakeAll, Goto
<1>1. /\ bpc' \in [Thread -> BpcValues]
      /\ bpc[t] = "wake" /\ bpc'[t] = "out"
      /\ \A u \in Thread \ {t} :
           \/ bpc'[u] = bpc[u]
           \/ bpc[u] = "sleep" /\ bpc'[u] = "wait"
  <2>1. CASE total > 1
    BY <2>1
  <2>2. CASE ~(total > 1)
    BY <2>2
  <2> QED
    BY <2>1, <2>2
<1>2. UNCHANGED <<total, awaited, generation, bgen>>
  OBVIOUS
<1> HIDE DEF Wake
<1>3. BarrierTypeOK'
  BY <1>1, <1>2
<1>4. StateOK(P)'
  BY <1>1, <1>2 DEF StateOK
<1>5. LeaderOK(P)'
  BY <1>1, <1>2 DEF LeaderOK
<1>6. Missing(P)' = Missing(P)
  BY <1>1, <1>2 DEF Missing
<1>7. \A u \in Thread : bpc'[u] \in Publishing <=> bpc[u] \in Publishing
  BY <1>1
<1>8. CountOK(P)'
  BY <1>2, <1>6, <1>7, CountKept
<1> QED
  BY <1>2, <1>3, <1>4, <1>5, <1>8

-----------------------------------------------------------------------------
(* The other threads. *)

(* No counter of a barrier in use exceeds BAR_OVERFLOW: the test does not  *)
(* let anybody through.                                                    *)
LEMMA NoOverflow ==
  ASSUME NEW P \in SUBSET Thread, BarrierInv(P)
  PROVE  awaited <= BarOverflow
<1>1. CASE \E t \in Thread : bpc[t] \in Publishing
  BY <1>1, MissingFinite, BarrierAssumption DEF BarrierInv, LeaderOK
<1>2. CASE \A t \in Thread : bpc[t] \notin Publishing
  BY <1>2, MissingFinite, BarrierAssumption DEF BarrierInv, CountOK
<1> QED
  BY <1>1, <1>2

(* Moves among the places of a waiting thread. *)
LEMMA WaiterMoves ==
  ASSUME NEW P \in SUBSET Thread, BarrierInv(P), NEW t \in Thread,
         bpc[t] \in Waiting,
         bpc' \in [Thread -> BpcValues],
         bpc'[t] \in Waiting,
         \A u \in Thread \ {t} : bpc'[u] = bpc[u],
         UNCHANGED <<total, awaited, generation, bgen>>
  PROVE  BarrierInv(P)'
<1> USE DEF BarrierInv, BarrierTypeOK, BpcValues
<1>1. BarrierTypeOK'
  OBVIOUS
<1>2. StateOK(P)'
  BY DEF StateOK
<1>3. LeaderOK(P)'
  BY DEF LeaderOK
<1>4. Missing(P)' = Missing(P)
  BY DEF Missing
<1>5. CountOK(P)'
  BY <1>4, CountKept
<1> QED
  BY <1>1, <1>2, <1>3, <1>5

LEMMA CheckKeepsInv ==
  ASSUME NEW P \in SUBSET Thread, BarrierInv(P), NEW t \in Thread, Check(t)
  PROVE  BarrierInv(P)' /\ bpc'[t] = "wait"
<1>1. awaited <= BarOverflow /\ awaited \in Nat
  <2>1. awaited \in Nat
    BY BarrierAssumption DEF BarrierInv, BarrierTypeOK
  <2> QED
    BY <2>1, NoOverflow
<1>2. ~(awaited > BarOverflow)
  BY <1>1, BarrierAssumption
<1>3. bpc' = [bpc EXCEPT ![t] = "wait"]
  BY <1>2 DEF Check, Goto
<1> QED
  BY <1>3, WaiterMoves DEF Check, BarrierInv, BarrierTypeOK, BpcValues

LEMMA SleepKeepsInv ==
  ASSUME NEW P \in SUBSET Thread, BarrierInv(P), NEW t \in Thread,
         Sleep(t) \/ Interrupt(t)
  PROVE  BarrierInv(P)'
BY WaiterMoves DEF Sleep, Interrupt, Goto, BarrierInv, BarrierTypeOK, BpcValues

(* A thread that leaves was counted as missing since the generation moved. *)
LEMMA LeaveKeepsInv ==
  ASSUME NEW P \in SUBSET Thread, BarrierInv(P), NEW t \in Thread, Leave(t)
  PROVE  BarrierInv(P)'
<1> USE DEF BarrierInv, BarrierTypeOK, BpcValues, Leave, Goto
<1>1. BarrierTypeOK'
  OBVIOUS
<1>2. StateOK(P)'
  BY DEF StateOK
<1>3. LeaderOK(P)'
  BY DEF LeaderOK
<1>4. Missing(P)' = Missing(P)
  BY DEF Missing
<1>5. CountOK(P)'
  BY <1>4, CountKept
<1> QED
  BY <1>1, <1>2, <1>3, <1>5

-----------------------------------------------------------------------------
(* ab_barrier_wait, called by members only, keeps the barrier consistent   *)
(* as long as the generation does not wrap.                                *)
LEMMA WaitKeepsInv ==
  ASSUME NEW P \in SUBSET Thread, BarrierInv(P), NEW t \in Thread,
         Wait(t) \/ Interrupt(t),
         bpc[t] = "out" => t \in P,
         generation < GenMod - 1
  PROVE  BarrierInv(P)'
<1>1. CASE Load(t)
  BY <1>1, LoadKeepsInv DEF Load
<1>2. CASE Arrive(t)
  BY <1>2, ArriveKeepsInv
<1>3. CASE Reset(t)
  BY <1>3, ResetKeepsInv
<1>4. CASE ReadGen(t)
  BY <1>4, ReadGenKeepsInv
<1>5. CASE StoreGen(t)
  BY <1>5, StoreGenKeepsInv
<1>6. CASE Wake(t)
  BY <1>6, WakeKeepsInv
<1>7. CASE Check(t)
  BY <1>7, CheckKeepsInv
<1>8. CASE Leave(t)
  BY <1>8, LeaveKeepsInv
<1>9. CASE Sleep(t) \/ Interrupt(t)
  BY <1>9, SleepKeepsInv
<1> QED
  BY <1>1, <1>2, <1>3, <1>4, <1>5, <1>6, <1>7, <1>8, <1>9
     DEF Wait, WaitStart, WaitEnd, Publish

-----------------------------------------------------------------------------
(* What a step of ab_barrier_wait shows to whoever uses the barrier.       *)

(* Whatever state the barrier is in, a step keeps its types and its total  *)
(* and takes nobody else in or out.                                        *)
LEMMA WaitKeepsTypes ==
  ASSUME BarrierTypeOK, NEW t \in Thread, Wait(t) \/ Interrupt(t)
  PROVE  /\ BarrierTypeOK'
         /\ total' = total
         /\ \A u \in Thread \ {t} : bpc'[u] = "out" <=> bpc[u] = "out"
<1> USE BarrierAssumption DEF BarrierTypeOK, BpcValues, Goto
<1>1. CASE Load(t) \/ ReadGen(t)
  BY <1>1 DEF Load, ReadGen
<1>2. CASE Arrive(t)
  <2>1. awaited' \in 0 .. UIntMax
    BY <1>2 DEF Arrive, Dec
  <2> QED
    BY <1>2, <2>1 DEF Arrive
<1>3. CASE Reset(t)
  BY <1>3 DEF Reset
<1>4. CASE StoreGen(t)
  <2>1. generation' \in 0 .. GenMod - 1
    BY <1>4 DEF StoreGen, NextGen
  <2> QED
    BY <1>4, <2>1 DEF StoreGen
<1>5. CASE Wake(t)
  BY <1>5 DEF Wake, WakeAll
<1>6. CASE Check(t) \/ Leave(t) \/ Sleep(t) \/ Interrupt(t)
  BY <1>6 DEF Check, Leave, Sleep, Interrupt
<1> QED
  BY <1>1, <1>2, <1>3, <1>4, <1>5, <1>6 DEF Wait, WaitStart, WaitEnd, Publish

(* A step moves the generation, and then everybody inside is released and  *)
(* every member is inside and was not; or it does not, and then only a     *)
(* released thread leaves and nobody else's release changes.               *)
LEMMA WaitShape ==
  ASSUME NEW P \in SUBSET Thread, BarrierInv(P), NEW t \in Thread,
         Wait(t) \/ Interrupt(t),
         bpc[t] = "out" => t \in P,
         generation < GenMod - 1
  PROVE  \/ /\ generation' = generation
            /\ bpc'[t] = "out" => Released(t)
            /\ \A u \in Thread : bpc'[u] # "out" => (Released(u)' <=> Released(u))
         \/ /\ generation' = generation + 1
            /\ t \in P /\ bpc'[t] # "out"
            /\ \A u \in P : bpc[u] # "out" /\ ~Released(u)
            /\ \A u \in Thread : bpc'[u] # "out" => Released(u)'
<1> USE DEF BarrierInv, BarrierTypeOK, BpcValues, Goto
<1>1. CASE Load(t) \/ ReadGen(t)
  BY <1>1 DEF Load, ReadGen, StateOK
<1>2. CASE Arrive(t)
  BY <1>2 DEF Arrive, StateOK
<1>3. CASE Reset(t)
  BY <1>3 DEF Reset
<1>4. CASE StoreGen(t)
  <2>1. t \in P /\ bgen[t] = generation
    BY <1>4 DEF StoreGen, StateOK
  <2>2. generation' = generation + 1
    BY <1>4, <2>1, BarrierAssumption DEF StoreGen, NextGen
  <2>3. \A u \in P \ {t} : bpc[u] \in Waiting /\ bgen[u] = generation
    BY <1>4 DEF StoreGen, LeaderOK
  <2>4. \A u \in Thread : bpc'[u] # "out" => Released(u)'
    BY <1>4, <2>2, <2>3 DEF StoreGen, StateOK
  <2> QED
    BY <1>4, <2>1, <2>2, <2>3, <2>4 DEF StoreGen
<1>5. CASE Wake(t)
  BY <1>5 DEF Wake, WakeAll
<1>6. CASE Check(t)
  BY <1>6, CheckKeepsInv DEF Check
<1>7. CASE Leave(t) \/ Sleep(t) \/ Interrupt(t)
  BY <1>7 DEF Leave, Sleep, Interrupt
<1> QED
  BY <1>1, <1>2, <1>3, <1>4, <1>5, <1>6, <1>7 DEF Wait, WaitStart, WaitEnd, Publish

(* Once everybody inside is released, the threads only leave, whatever     *)
(* the counter and the total are.                                          *)
LEMMA QuietStep ==
  ASSUME NEW P \in SUBSET Thread, BarrierTypeOK, StateOK(P),
         \A u \in Thread : bpc[u] # "out" => Released(u),
         NEW t \in Thread, Wait(t) \/ Interrupt(t), bpc[t] # "out"
  PROVE  /\ StateOK(P)'
         /\ UNCHANGED <<generation, awaited>>
         /\ \A u \in Thread : bpc'[u] # "out" => Released(u)'
<1> USE DEF BarrierTypeOK, BpcValues, StateOK, Goto
<1>1. CASE Wake(t)
  BY <1>1 DEF Wake, WakeAll
<1>2. CASE Check(t) \/ Leave(t) \/ Interrupt(t)
  BY <1>2 DEF Check, Leave, Interrupt
<1> QED
  BY <1>1, <1>2 DEF Wait, WaitStart, WaitEnd, Publish, Load, Arrive, Reset,
                    ReadGen, StoreGen, Sleep

(* A barrier that everybody inside is leaving can be given new members.    *)
LEMMA QuietInv ==
  ASSUME NEW P \in SUBSET Thread
  PROVE  /\ BarrierTypeOK /\ StateOK(P) /\ P # {}
         /\ total = Cardinality(P) /\ awaited = total
         /\ \A u \in Thread : bpc[u] # "out" => Released(u)
         => BarrierInv(P)
<1> SUFFICES ASSUME BarrierTypeOK, StateOK(P), P # {},
                    total = Cardinality(P), awaited = total,
                    \A u \in Thread : bpc[u] # "out" => Released(u)
             PROVE  BarrierInv(P)
  OBVIOUS
<1>1. Missing(P) = P
  BY DEF Missing
<1>2. \A u \in Thread : bpc[u] \notin Publishing
  OBVIOUS
<1> QED
  BY <1>1, <1>2 DEF BarrierInv, LeaderOK, CountOK

(* Who is a member matters only for those who are not being released.      *)
LEMMA QuietStateOK ==
  ASSUME NEW P \in SUBSET Thread, NEW Q \in SUBSET Thread,
         BarrierTypeOK, StateOK(P),
         \A u \in Thread : bpc[u] # "out" => Released(u)
  PROVE  StateOK(Q)
BY DEF BarrierTypeOK, StateOK

(* No wake-up is lost, unless the last thread takes the fast path although *)
(* another one sleeps.                                                     *)
LEMMA SleepersKept ==
  ASSUME BarrierTypeOK, SleepersOK, NEW t \in Thread, Wait(t) \/ Interrupt(t),
         total > 1 \/ \A u \in Thread : u = t
  PROVE  SleepersOK'
<1> USE DEF BarrierTypeOK, BpcValues, SleepersOK, Goto
<1>1. CASE Wake(t)
  BY <1>1 DEF Wake, WakeAll
<1>2. CASE StoreGen(t)
  BY <1>2 DEF StoreGen
<1>3. CASE ~Wake(t) /\ ~StoreGen(t)
  BY <1>3 DEF Wait, WaitStart, WaitEnd, Publish, Load, Arrive, Reset, ReadGen,
              Check, Leave, Sleep, Interrupt
<1> QED
  BY <1>1, <1>2, <1>3

-----------------------------------------------------------------------------
(* The system: all the threads wait round after round.                     *)

LEMMA InitInv == Init => Inv
<1> SUFFICES ASSUME Init PROVE Inv
  OBVIOUS
<1> USE BarrierAssumption, BarrierSystemAssumption
<1>1. Cardinality(Thread) \in Nat
  BY FS_CardinalityType
<1>2. BarrierTypeOK
  BY <1>1 DEF Init, BarrierInit, BarrierTypeOK, BpcValues
<1>3. Missing(Thread) = Thread
  BY DEF Init, BarrierInit, Missing
<1>4. BarrierInv(Thread)
  BY <1>2, <1>3 DEF Init, BarrierInit, BarrierInv, StateOK, LeaderOK, CountOK
<1> QED
  BY <1>4 DEF Init, BarrierInit, Inv

(* What the steps leave in place, whichever of them is taken: only the     *)
(* last thread moves the generation, by one, when all the others wait at   *)
(* it, and a thread that reads the generation reads the current one.       *)
LEMMA StepShape ==
  ASSUME Inv, NEW t \in Thread, Step(t) \/ Interrupt(t)
  PROVE  /\ generation' \in {generation, generation + 1}
         /\ generation' # generation =>
              /\ generation < MaxRounds
              /\ bgen' = bgen
              /\ \A u \in Thread : bgen[u] = generation
                                   /\ bpc'[u] \notin {"dec"} \cup Publishing
         /\ generation' = generation =>
              \A u \in Thread :
                /\ bgen'[u] = bgen[u] \/ bgen'[u] = generation
                /\ bpc'[u] \in {"dec"} \cup Publishing =>
                     bpc[u] \in {"dec"} \cup Publishing \/ generation < MaxRounds
<1> USE DEF Inv, BarrierInv, BarrierTypeOK
<1>1. CASE StoreGen(t)
  <2>1. bgen[t] = generation /\ \A u \in Thread \ {t} : bgen[u] = generation /\ bpc[u] \in Waiting
    BY <1>1 DEF StoreGen, StateOK, LeaderOK
  <2>2. generation < MaxRounds /\ generation \in Nat
    BY <1>1 DEF StoreGen
  <2>3. generation' = generation + 1
    BY <1>1, <2>1, <2>2, BarrierAssumption, BarrierSystemAssumption DEF StoreGen, NextGen
  <2>4. \A u \in Thread : bpc'[u] \notin {"dec"} \cup Publishing
    BY <1>1, <2>1 DEF StoreGen, Goto
  <2> QED
    BY <1>1, <2>1, <2>2, <2>3, <2>4 DEF StoreGen
<1>2. CASE ~StoreGen(t)
  <2>1. generation' = generation
    BY <1>2 DEF Step, Wait, WaitStart, WaitEnd, Publish, Load, Arrive, Reset,
                ReadGen, Wake, Check, Leave, Sleep, Interrupt
  <2>2. \A u \in Thread : bgen'[u] = bgen[u] \/ bgen'[u] = generation
    BY <1>2 DEF Step, Wait, WaitStart, WaitEnd, Publish, Load, Arrive, Reset,
                ReadGen, Wake, Check, Leave, Sleep, Interrupt
  <2>3. \A u \in Thread : bpc'[u] \in {"dec"} \cup Publishing =>
          bpc[u] \in {"dec"} \cup Publishing \/ generation < MaxRounds
    BY <1>2 DEF Step, Wait, WaitStart, WaitEnd, Publish, Load, Arrive, Reset,
                ReadGen, Wake, WakeAll, Check, Leave, Sleep, Interrupt, Goto
  <2>4. generation \in Int
    OBVIOUS
  <2> QED
    BY <2>1, <2>2, <2>3, <2>4
<1> QED
  BY <1>1, <1>2

LEMMA StepInv ==
  ASSUME Inv, NEW t \in Thread, Step(t) \/ Interrupt(t)
  PROVE  Inv'
<1>1. generation \in Nat /\ GenMod \in Nat /\ MaxRounds \in Nat
      /\ generation <= MaxRounds /\ MaxRounds < GenMod
      /\ bgen \in [Thread -> -1 .. GenMod - 1]
  BY BarrierAssumption, BarrierSystemAssumption DEF Inv, BarrierInv, BarrierTypeOK
<1>2. BarrierInv(Thread)'
  <2>1. CASE StoreGen(t)
    <3>1. generation < MaxRounds
      BY <2>1 DEF Inv, StoreGen
    <3> QED
      BY <1>1, <2>1, <3>1, StoreGenKeepsInv DEF Inv
  <2>2. CASE ~StoreGen(t)
    BY <2>2, LoadKeepsInv, ArriveKeepsInv, ResetKeepsInv, ReadGenKeepsInv, WakeKeepsInv,
       CheckKeepsInv, LeaveKeepsInv, SleepKeepsInv
       DEF Inv, Step, Wait, WaitStart, WaitEnd, Publish
  <2> QED
    BY <2>1, <2>2
<1>3. (generation <= MaxRounds)'
  BY <1>1, StepShape
<1>4. (\A u \in Thread : bgen[u] >= generation - 1)'
  <2>1. CASE generation' = generation
    BY <1>1, <2>1, StepShape DEF Inv
  <2>2. CASE generation' # generation
    BY <1>1, <2>2, StepShape
  <2> QED
    BY <2>1, <2>2
<1>5. (\A u \in Thread : bpc[u] \in {"dec"} \cup Publishing => generation < MaxRounds)'
  BY StepShape DEF Inv
<1> QED
  BY <1>2, <1>3, <1>4, <1>5 DEF Inv

(* The conjunction Inv holds throughout: the unsigned counter is the       *)
(* number of members still to arrive whenever nobody is resetting it, and  *)
(* while somebody is, everybody else waits.                                *)
THEOREM BarrierSafety == Spec => []Inv
<1>1. Inv /\ [Next]_barrierVars => Inv'
  <2> SUFFICES ASSUME Inv, [Next]_barrierVars PROVE Inv'
    OBVIOUS
  <2>1. CASE Next
    BY <2>1, StepInv DEF Next
  <2>2. CASE UNCHANGED barrierVars
    BY <2>2 DEF barrierVars, Inv, BarrierInv, BarrierTypeOK, StateOK, LeaderOK,
                CountOK, Missing
  <2> QED
    BY <2>1, <2>2
<1> QED
  BY InitInv, <1>1, PTL DEF Spec

(* Every variable keeps its type; in particular the generation is never    *)
(* read or stored beyond its word and awaited never passes below zero.     *)
THEOREM BarrierTypes == Spec => []TypeOK
<1>1. Inv => TypeOK
  BY DEF Inv, BarrierInv, TypeOK
<1> QED
  BY <1>1, BarrierSafety, PTL

-----------------------------------------------------------------------------
(* Refinement *)

LEMMA RInit == Init => R!Init
BY DEF Init, BarrierInit, R!Init, ArrivedCount, LeftCount

(* A step that is neither the decrement nor a departure is invisible.      *)
LEMMA Invisible ==
  ASSUME \A u \in Thread : ArrivedCount'[u] = ArrivedCount[u]
                           /\ LeftCount'[u] = LeftCount[u]
  PROVE  UNCHANGED <<ArrivedCount, LeftCount>>
BY DEF ArrivedCount, LeftCount

LEMMA RArrive ==
  ASSUME Inv, NEW t \in Thread, Arrive(t)
  PROVE  R!Arrive(t)
<1> USE DEF Inv, BarrierInv, BarrierTypeOK, Arrive, Goto
<1>1. ArrivedCount[t] = bgen[t] /\ LeftCount[t] = bgen[t]
  BY DEF ArrivedCount, LeftCount
<1>2. ArrivedCount' = [ArrivedCount EXCEPT ![t] = @ + 1]
  BY <1>1 DEF ArrivedCount
<1>3. UNCHANGED LeftCount
  BY DEF LeftCount
<1> QED
  BY <1>1, <1>2, <1>3 DEF R!Arrive

(* Whoever leaves is one generation behind, and everybody has arrived at   *)
(* that one.                                                               *)
LEMMA RDepart ==
  ASSUME Inv, NEW t \in Thread,
         bpc \in [Thread -> BpcValues], bpc[t] \in {"wake", "wait"},
         bgen[t] < generation,
         bpc'[t] = "out",
         \A u \in Thread \ {t} : (bpc'[u] = "dec" <=> bpc[u] = "dec")
                                 /\ (bpc'[u] = "out" <=> bpc[u] = "out"),
         UNCHANGED bgen
  PROVE  R!Depart(t)
<1>1. generation \in Nat /\ bgen \in [Thread -> Int]
      /\ \A u \in Thread : bgen[u] >= generation - 1
  BY BarrierAssumption DEF Inv, BarrierInv, BarrierTypeOK
<1>2. bgen[t] = generation - 1
  BY <1>1
<1>3. \A u \in Thread : ArrivedCount[u] >= generation
  BY <1>1 DEF Inv, BarrierInv, StateOK, ArrivedCount
<1>4. LeftCount[t] = generation - 1 /\ LeftCount' = [LeftCount EXCEPT ![t] = @ + 1]
  BY <1>1, <1>2 DEF LeftCount
<1>5. UNCHANGED ArrivedCount
  BY DEF ArrivedCount
<1>6. \A u \in Thread : LeftCount[t] < ArrivedCount[u]
  <2> SUFFICES ASSUME NEW u \in Thread PROVE generation - 1 < ArrivedCount[u]
    BY <1>4
  <2>1. ArrivedCount[u] \in Int
    BY <1>1 DEF ArrivedCount
  <2> QED
    BY <1>1, <1>3, <2>1
<1> QED
  BY <1>4, <1>5, <1>6 DEF R!Depart

LEMMA RStep ==
  ASSUME Inv, NEW t \in Thread, Step(t) \/ Interrupt(t)
  PROVE  R!Next \/ UNCHANGED R!vars
<1> USE DEF R!vars
<1>1. /\ generation \in Nat
      /\ bpc \in [Thread -> BpcValues]
      /\ bgen \in [Thread -> Int]
      /\ \A u \in Thread : bgen[u] >= generation - 1
      /\ StateOK(Thread)
  BY BarrierAssumption DEF Inv, BarrierInv, BarrierTypeOK
<1>2. CASE Arrive(t)
  BY <1>2, RArrive DEF R!Next
<1>3. CASE Wake(t) \/ Leave(t)
  <2>1. bpc[t] \in {"wake", "wait"} /\ bgen[t] < generation
    BY <1>1, <1>3 DEF Wake, Leave, StateOK
  <2>2. /\ bpc'[t] = "out"
        /\ \A u \in Thread \ {t} : (bpc'[u] = "dec" <=> bpc[u] = "dec")
                                  /\ (bpc'[u] = "out" <=> bpc[u] = "out")
        /\ UNCHANGED bgen
    <3>1. CASE Leave(t)
      BY <1>1, <3>1 DEF Leave, Goto
    <3>2. CASE Wake(t) /\ total > 1
      BY <1>1, <3>2 DEF Wake, WakeAll
    <3>3. CASE Wake(t) /\ ~(total > 1)
      BY <1>1, <3>3 DEF Wake, Goto
    <3> QED
      BY <1>3, <3>1, <3>2, <3>3
  <2>3. R!Depart(t)
    BY <1>1, <2>1, <2>2, RDepart
  <2> QED
    BY <2>3 DEF R!Next
<1>4. CASE Load(t)
  <2>1. bgen[t] = generation - 1
    BY <1>1, <1>4 DEF Load, StateOK
  <2>2. \A u \in Thread : ArrivedCount'[u] = ArrivedCount[u] /\ LeftCount'[u] = LeftCount[u]
    BY <1>1, <1>4, <2>1 DEF Load, Goto, ArrivedCount, LeftCount
  <2> QED
    BY <2>2, Invisible
<1>5. CASE ReadGen(t)
  <2>1. bgen' = bgen
    BY <1>1, <1>5 DEF ReadGen, StateOK
  <2>2. \A u \in Thread : ArrivedCount'[u] = ArrivedCount[u] /\ LeftCount'[u] = LeftCount[u]
    BY <1>1, <1>5, <2>1 DEF ReadGen, Goto, ArrivedCount, LeftCount
  <2> QED
    BY <2>2, Invisible
<1>6. CASE Reset(t) \/ StoreGen(t) \/ Sleep(t) \/ Interrupt(t)
  <2>1. \A u \in Thread : ArrivedCount'[u] = ArrivedCount[u] /\ LeftCount'[u] = LeftCount[u]
    BY <1>1, <1>6 DEF Reset, StoreGen, Sleep, Interrupt, Goto, ArrivedCount, LeftCount
  <2> QED
    BY <2>1, Invisible
<1>7. CASE Check(t)
  <2>1. bpc'[t] = "wait"
    BY <1>7, CheckKeepsInv DEF Inv
  <2>2. \A u \in Thread : ArrivedCount'[u] = ArrivedCount[u] /\ LeftCount'[u] = LeftCount[u]
    BY <1>1, <1>7, <2>1 DEF Check, Goto, ArrivedCount, LeftCount
  <2> QED
    BY <2>2, Invisible
<1> QED
  BY <1>2, <1>3, <1>4, <1>5, <1>6, <1>7 DEF Step, Wait, WaitStart, WaitEnd, Publish

(* The barrier implements the abstract rendezvous: in every behaviour a    *)
(* thread leaves its k-th ab_barrier_wait only after every thread has      *)
(* arrived at its k-th.                                                    *)
THEOREM BarrierRefinement == Spec => ImplementsRendezvous
<1>1. Inv /\ [Next]_barrierVars => [R!Next]_R!vars
  <2> SUFFICES ASSUME Inv, [Next]_barrierVars PROVE [R!Next]_R!vars
    OBVIOUS
  <2>1. CASE Next
    BY <2>1, RStep DEF Next
  <2>2. CASE UNCHANGED barrierVars
    BY <2>2 DEF barrierVars, R!vars, ArrivedCount, LeftCount
  <2> QED
    BY <2>1, <2>2
<1> QED
  BY RInit, <1>1, BarrierSafety, PTL DEF Spec, R!Spec, ImplementsRendezvous
=============================================================================
