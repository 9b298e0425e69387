----------------------------- MODULE GangProofs -----------------------------
(***************************************************************************)
(* The thread pool keeps its promises for any number of threads, parts and *)
(* submits, thrown parts and destruction included.  Each of its barriers   *)
(* is an instance of the one whose invariant BarrierProofs proves.         *)
(***************************************************************************)
EXTENDS GangProperties, FiniteSetTheorems, TLAPS

A == INSTANCE BarrierProofs WITH MaxRounds <- MaxSubmits,
       total <- abbTotal, awaited <- abbAwaited,
       generation <- abbGeneration, bpc <- abbPc, bgen <- abbGen

B == INSTANCE BarrierProofs WITH MaxRounds <- MaxSubmits,
       total <- abb2Total, awaited <- abb2Awaited,
       generation <- abb2Generation, bpc <- abb2Pc, bgen <- abb2Gen

-----------------------------------------------------------------------------
(* The two barriers of the gang and those of the lemmas are the same.      *)

LEMMA SameSets ==
  ASSUME NEW S
  PROVE  /\ abb!Cardinality(S) = Cardinality(S) /\ A!Cardinality(S) = Cardinality(S)
         /\ abb2!Cardinality(S) = Cardinality(S) /\ B!Cardinality(S) = Cardinality(S)
         /\ A!IsFiniteSet(S) <=> IsFiniteSet(S)
         /\ B!IsFiniteSet(S) <=> IsFiniteSet(S)
BY DEF abb!Cardinality, A!Cardinality, abb2!Cardinality, B!Cardinality, Cardinality,
       A!IsFiniteSet, B!IsFiniteSet, IsFiniteSet

LEMMA SameAbb ==
  ASSUME NEW P, NEW t
  PROVE  /\ A!BarrierTypeOK <=> abb!BarrierTypeOK
         /\ A!BarrierInv(P) <=> abb!BarrierInv(P)
         /\ A!Released(t) <=> abb!Released(t)
         /\ A!Wait(t) <=> abb!Wait(t)
         /\ A!Interrupt(t) <=> abb!Interrupt(t)
<1>1. A!BarrierTypeOK <=> abb!BarrierTypeOK
  BY DEF A!BarrierTypeOK, abb!BarrierTypeOK, A!BpcValues, abb!BpcValues
<1>2. A!Released(t) <=> abb!Released(t)
  BY DEF A!Released, abb!Released, A!Waiting, abb!Waiting
<1>3. A!Missing(P) = abb!Missing(P)
  BY DEF A!Missing, abb!Missing, A!Released, abb!Released, A!Waiting, abb!Waiting
<1>4. A!BarrierInv(P) <=> abb!BarrierInv(P)
  BY <1>1, <1>3, SameSets
     DEF A!BarrierInv, abb!BarrierInv, A!StateOK, abb!StateOK, A!LeaderOK, abb!LeaderOK,
         A!CountOK, abb!CountOK, A!Waiting, abb!Waiting, A!Publishing, abb!Publishing
<1>5. A!Wait(t) <=> abb!Wait(t)
  BY DEF A!Wait, abb!Wait, A!WaitStart, abb!WaitStart, A!WaitEnd, abb!WaitEnd,
         A!Publish, abb!Publish, A!Load, abb!Load, A!Arrive, abb!Arrive,
         A!Reset, abb!Reset, A!ReadGen, abb!ReadGen, A!StoreGen, abb!StoreGen,
         A!Wake, abb!Wake, A!WakeAll, abb!WakeAll, A!Check, abb!Check,
         A!Leave, abb!Leave, A!Sleep, abb!Sleep, A!Goto, abb!Goto,
         A!Dec, abb!Dec, A!NextGen, abb!NextGen
<1>6. A!Interrupt(t) <=> abb!Interrupt(t)
  BY DEF A!Interrupt, abb!Interrupt, A!Goto, abb!Goto
<1> QED
  BY <1>1, <1>2, <1>4, <1>5, <1>6

LEMMA SameAbb2 ==
  ASSUME NEW P, NEW t
  PROVE  /\ B!BarrierTypeOK <=> abb2!BarrierTypeOK
         /\ B!StateOK(P) <=> abb2!StateOK(P)
         /\ B!BarrierInv(P) <=> abb2!BarrierInv(P)
         /\ B!Released(t) <=> abb2!Released(t)
         /\ B!Wait(t) <=> abb2!Wait(t)
         /\ B!Interrupt(t) <=> abb2!Interrupt(t)
<1>1. B!BarrierTypeOK <=> abb2!BarrierTypeOK
  BY DEF B!BarrierTypeOK, abb2!BarrierTypeOK, B!BpcValues, abb2!BpcValues
<1>2. B!Released(t) <=> abb2!Released(t)
  BY DEF B!Released, abb2!Released, B!Waiting, abb2!Waiting
<1>3. B!Missing(P) = abb2!Missing(P)
  BY DEF B!Missing, abb2!Missing, B!Released, abb2!Released, B!Waiting, abb2!Waiting
<1>4. B!StateOK(P) <=> abb2!StateOK(P)
  BY DEF B!StateOK, abb2!StateOK, B!Waiting, abb2!Waiting, B!Publishing, abb2!Publishing
<1>5. B!BarrierInv(P) <=> abb2!BarrierInv(P)
  BY <1>1, <1>3, <1>4, SameSets
     DEF B!BarrierInv, abb2!BarrierInv, B!LeaderOK, abb2!LeaderOK,
         B!CountOK, abb2!CountOK, B!Waiting, abb2!Waiting, B!Publishing, abb2!Publishing
<1>6. B!Wait(t) <=> abb2!Wait(t)
  BY DEF B!Wait, abb2!Wait, B!WaitStart, abb2!WaitStart, B!WaitEnd, abb2!WaitEnd,
         B!Publish, abb2!Publish, B!Load, abb2!Load, B!Arrive, abb2!Arrive,
         B!Reset, abb2!Reset, B!ReadGen, abb2!ReadGen, B!StoreGen, abb2!StoreGen,
         B!Wake, abb2!Wake, B!WakeAll, abb2!WakeAll, B!Check, abb2!Check,
         B!Leave, abb2!Leave, B!Sleep, abb2!Sleep, B!Goto, abb2!Goto,
         B!Dec, abb2!Dec, B!NextGen, abb2!NextGen
<1>7. B!Interrupt(t) <=> abb2!Interrupt(t)
  BY DEF B!Interrupt, abb2!Interrupt, B!Goto, abb2!Goto
<1> QED
  BY <1>1, <1>2, <1>4, <1>5, <1>6, <1>7

(* The threads of a job. *)
LEMMA Parts ==
  ASSUME NEW k \in 0 .. Num
  PROVE  /\ IsFiniteSet(0 .. k - 1) /\ Cardinality(0 .. k - 1) = k
         /\ 0 .. k - 1 \subseteq Thread
         /\ k > 0 => Main \in 0 .. k - 1
<1>1. k \in Nat /\ k <= Num /\ Num \in Nat
  BY GangAssumption
<1>2. IsFiniteSet(0 .. k - 1) /\ Cardinality(0 .. k - 1) = k
  BY <1>1, FS_Interval
<1> QED
  BY <1>1, <1>2 DEF Thread, Main

LEMMA BarriersAssumption ==
  /\ A!BarrierAssumption /\ B!BarrierAssumption
  /\ A!BarrierSystemAssumption /\ B!BarrierSystemAssumption
<1>1. IsFiniteSet(Thread) /\ Cardinality(Thread) = Num
  BY Parts, GangAssumption DEF Thread
<1>2. A!BarrierAssumption /\ B!BarrierAssumption
  BY <1>1, SameSets, GangAssumption DEF A!BarrierAssumption, B!BarrierAssumption
<1>3. Thread # {} /\ MaxSubmits < GenMod
  <2>1. 0 \in Thread
    BY GangAssumption DEF Thread
  <2> QED
    BY <2>1, GangAssumption
<1>4. A!BarrierSystemAssumption /\ B!BarrierSystemAssumption
  BY <1>3, GangAssumption DEF A!BarrierSystemAssumption, B!BarrierSystemAssumption
<1> QED
  BY <1>2, <1>4

(* The same in the next state. *)
LEMMA SameNow ==
  /\ A!BarrierTypeOK <=> abb!BarrierTypeOK
  /\ \A P : A!BarrierInv(P) <=> abb!BarrierInv(P)
  /\ \A t : A!Released(t) <=> abb!Released(t)
  /\ B!BarrierTypeOK <=> abb2!BarrierTypeOK
  /\ \A P : B!StateOK(P) <=> abb2!StateOK(P)
  /\ \A P : B!BarrierInv(P) <=> abb2!BarrierInv(P)
  /\ \A t : B!Released(t) <=> abb2!Released(t)
BY SameAbb, SameAbb2

LEMMA SameNext ==
  (/\ A!BarrierTypeOK <=> abb!BarrierTypeOK
   /\ \A P : A!BarrierInv(P) <=> abb!BarrierInv(P)
   /\ \A t : A!Released(t) <=> abb!Released(t)
   /\ B!BarrierTypeOK <=> abb2!BarrierTypeOK
   /\ \A P : B!StateOK(P) <=> abb2!StateOK(P)
   /\ \A P : B!BarrierInv(P) <=> abb2!BarrierInv(P)
   /\ \A t : B!Released(t) <=> abb2!Released(t))'
BY SameNow, PTL

-----------------------------------------------------------------------------
(* The steps of the barriers as the gang sees them.                        *)

LEMMA AbbTypes ==
  ASSUME abb!BarrierTypeOK, NEW t \in Thread, abb!Wait(t) \/ abb!Interrupt(t)
  PROVE  /\ abb!BarrierTypeOK'
         /\ abbTotal' = abbTotal
         /\ \A u \in Thread \ {t} : abbPc'[u] = "out" <=> abbPc[u] = "out"
<1>1. A!BarrierTypeOK /\ (A!Wait(t) \/ A!Interrupt(t))
  BY SameAbb
<1>2. /\ A!BarrierTypeOK'
      /\ abbTotal' = abbTotal
      /\ \A u \in Thread \ {t} : abbPc'[u] = "out" <=> abbPc[u] = "out"
  BY <1>1, BarriersAssumption, A!WaitKeepsTypes
<1> QED
  BY <1>2, SameNext

LEMMA AbbStep ==
  ASSUME abb!BarrierInv(Thread), NEW t \in Thread,
         abb!Wait(t) \/ abb!Interrupt(t),
         abbGeneration < GenMod - 1
  PROVE  /\ abb!BarrierInv(Thread)'
         /\ \/ /\ abbGeneration' = abbGeneration
               /\ abbPc'[t] = "out" => abb!Released(t)
               /\ \A u \in Thread : abbPc'[u] # "out" => (abb!Released(u)' <=> abb!Released(u))
            \/ /\ abbGeneration' = abbGeneration + 1
               /\ abbPc'[t] # "out"
               /\ \A u \in Thread : abbPc[u] # "out" /\ ~abb!Released(u)
               /\ \A u \in Thread : abbPc'[u] # "out" => abb!Released(u)'
<1>1. A!BarrierInv(Thread) /\ (A!Wait(t) \/ A!Interrupt(t))
  BY SameAbb
<1>2. A!BarrierInv(Thread)'
  BY <1>1, BarriersAssumption, A!WaitKeepsInv
<1>3. \/ /\ abbGeneration' = abbGeneration
         /\ abbPc'[t] = "out" => A!Released(t)
         /\ \A u \in Thread : abbPc'[u] # "out" => (A!Released(u)' <=> A!Released(u))
      \/ /\ abbGeneration' = abbGeneration + 1
         /\ t \in Thread /\ abbPc'[t] # "out"
         /\ \A u \in Thread : abbPc[u] # "out" /\ ~A!Released(u)
         /\ \A u \in Thread : abbPc'[u] # "out" => A!Released(u)'
  BY <1>1, BarriersAssumption, A!WaitShape
<1> QED
  BY <1>2, <1>3, SameNow, SameNext

LEMMA Abb2Types ==
  ASSUME abb2!BarrierTypeOK, NEW t \in Thread, abb2!Wait(t) \/ abb2!Interrupt(t)
  PROVE  /\ abb2!BarrierTypeOK'
         /\ abb2Total' = abb2Total
         /\ \A u \in Thread \ {t} : abb2Pc'[u] = "out" <=> abb2Pc[u] = "out"
<1>1. B!BarrierTypeOK /\ (B!Wait(t) \/ B!Interrupt(t))
  BY SameAbb2
<1>2. /\ B!BarrierTypeOK'
      /\ abb2Total' = abb2Total
      /\ \A u \in Thread \ {t} : abb2Pc'[u] = "out" <=> abb2Pc[u] = "out"
  BY <1>1, BarriersAssumption, B!WaitKeepsTypes
<1> QED
  BY <1>2, SameNext

LEMMA Abb2Step ==
  ASSUME NEW P \in SUBSET Thread,
         abb2!BarrierInv(P), NEW t \in Thread,
         abb2!Wait(t) \/ abb2!Interrupt(t),
         abb2Pc[t] = "out" => t \in P,
         abb2Generation < GenMod - 1
  PROVE  /\ abb2!BarrierInv(P)'
         /\ \/ /\ abb2Generation' = abb2Generation
               /\ abb2Pc'[t] = "out" => abb2!Released(t)
               /\ \A u \in Thread : abb2Pc'[u] # "out" => (abb2!Released(u)' <=> abb2!Released(u))
            \/ /\ abb2Generation' = abb2Generation + 1
               /\ t \in P /\ abb2Pc'[t] # "out"
               /\ \A u \in P : abb2Pc[u] # "out" /\ ~abb2!Released(u)
               /\ \A u \in Thread : abb2Pc'[u] # "out" => abb2!Released(u)'
<1>1. B!BarrierInv(P) /\ (B!Wait(t) \/ B!Interrupt(t))
  BY SameAbb2
<1>2. B!BarrierInv(P)'
  BY <1>1, BarriersAssumption, B!WaitKeepsInv
<1>3. \/ /\ abb2Generation' = abb2Generation
         /\ abb2Pc'[t] = "out" => B!Released(t)
         /\ \A u \in Thread : abb2Pc'[u] # "out" => (B!Released(u)' <=> B!Released(u))
      \/ /\ abb2Generation' = abb2Generation + 1
         /\ t \in P /\ abb2Pc'[t] # "out"
         /\ \A u \in P : abb2Pc[u] # "out" /\ ~B!Released(u)
         /\ \A u \in Thread : abb2Pc'[u] # "out" => B!Released(u)'
  BY <1>1, BarriersAssumption, B!WaitShape
<1> QED
  BY <1>2, <1>3, SameNow, SameNext

(* abb2 while reinit replaces its members. *)
LEMMA Abb2Quiet ==
  ASSUME NEW P \in SUBSET Thread,
         abb2!BarrierTypeOK, abb2!StateOK(P),
         \A u \in Thread : abb2Pc[u] # "out" => abb2!Released(u)
  PROVE  /\ \A Q \in SUBSET Thread : abb2!StateOK(Q)
         /\ \A t \in Thread :
              (abb2!Wait(t) \/ abb2!Interrupt(t)) /\ abb2Pc[t] # "out" =>
                /\ abb2!StateOK(P)'
                /\ UNCHANGED abb2Generation
                /\ \A u \in Thread : abb2Pc'[u] # "out" => abb2!Released(u)'
<1>1. /\ B!BarrierTypeOK /\ B!StateOK(P)
      /\ \A u \in Thread : abb2Pc[u] # "out" => B!Released(u)
  BY SameNow
<1>2. ASSUME NEW Q \in SUBSET Thread
      PROVE  abb2!StateOK(Q)
  BY <1>1, BarriersAssumption, SameNow, B!QuietStateOK
<1>3. ASSUME NEW t \in Thread, abb2!Wait(t) \/ abb2!Interrupt(t), abb2Pc[t] # "out"
      PROVE  /\ abb2!StateOK(P)'
             /\ UNCHANGED abb2Generation
             /\ \A u \in Thread : abb2Pc'[u] # "out" => abb2!Released(u)'
  <2>1. B!Wait(t) \/ B!Interrupt(t)
    BY <1>3, SameAbb2
  <2>2. /\ B!StateOK(P)'
        /\ UNCHANGED <<abb2Generation, abb2Awaited>>
        /\ \A u \in Thread : abb2Pc'[u] # "out" => B!Released(u)'
    BY <1>1, <1>3, <2>1, BarriersAssumption, B!QuietStep
  <2> QED
    BY <2>2, SameNext
<1> QED
  BY <1>2, <1>3

LEMMA Abb2Renewed ==
  \A P \in SUBSET Thread :
    /\ abb2!BarrierTypeOK /\ abb2!StateOK(P) /\ P # {}
    /\ abb2Total = Cardinality(P) /\ abb2Awaited = abb2Total
    /\ \A u \in Thread : abb2Pc[u] # "out" => abb2!Released(u)
    => abb2!BarrierInv(P)
<1> SUFFICES ASSUME NEW P \in SUBSET Thread,
                    abb2!BarrierTypeOK, abb2!StateOK(P), P # {},
                    abb2Total = Cardinality(P), abb2Awaited = abb2Total,
                    \A u \in Thread : abb2Pc[u] # "out" => abb2!Released(u)
             PROVE  abb2!BarrierInv(P)
  OBVIOUS
<1>1. B!BarrierInv(P)
  BY BarriersAssumption, SameNow, SameSets, B!QuietInv
<1> QED
  BY <1>1, SameNow

LEMMA Abb2RenewedNext ==
  (\A P \in SUBSET Thread :
     /\ abb2!BarrierTypeOK /\ abb2!StateOK(P) /\ P # {}
     /\ abb2Total = Cardinality(P) /\ abb2Awaited = abb2Total
     /\ \A u \in Thread : abb2Pc[u] # "out" => abb2!Released(u)
     => abb2!BarrierInv(P))'
BY Abb2Renewed, PTL

(* A step that leaves a barrier alone leaves what is known of it alone. *)
LEMMA AbbFrame ==
  ASSUME UNCHANGED abbVars
  PROVE  /\ abb!BarrierTypeOK' <=> abb!BarrierTypeOK
         /\ abb!BarrierInv(Thread)' <=> abb!BarrierInv(Thread)
         /\ \A t : abb!Released(t)' <=> abb!Released(t)
<1> USE DEF abbVars, abb!Waiting, abb!Publishing
<1>1. abb!BarrierTypeOK' <=> abb!BarrierTypeOK
  BY DEF abb!BarrierTypeOK
<1>2. \A t : abb!Released(t)' <=> abb!Released(t)
  BY DEF abb!Released
<1>3. abb!Missing(Thread)' = abb!Missing(Thread)
  BY <1>2 DEF abb!Missing
<1>4. abb!BarrierInv(Thread)' <=> abb!BarrierInv(Thread)
  BY <1>1, <1>3 DEF abb!BarrierInv, abb!StateOK, abb!LeaderOK, abb!CountOK
<1> QED
  BY <1>1, <1>2, <1>4

LEMMA Abb2Frame ==
  ASSUME UNCHANGED abb2Vars
  PROVE  /\ abb2!BarrierTypeOK' <=> abb2!BarrierTypeOK
         /\ \A P : abb2!StateOK(P)' <=> abb2!StateOK(P)
         /\ \A P : abb2!BarrierInv(P)' <=> abb2!BarrierInv(P)
         /\ \A t : abb2!Released(t)' <=> abb2!Released(t)
<1> USE DEF abb2Vars, abb2!Waiting, abb2!Publishing
<1>1. abb2!BarrierTypeOK' <=> abb2!BarrierTypeOK
  BY DEF abb2!BarrierTypeOK
<1>2. \A t : abb2!Released(t)' <=> abb2!Released(t)
  BY DEF abb2!Released
<1>3. \A P : abb2!StateOK(P)' <=> abb2!StateOK(P)
  BY DEF abb2!StateOK
<1>4. ASSUME NEW P
      PROVE  abb2!BarrierInv(P)' <=> abb2!BarrierInv(P)
  <2>1. abb2!Missing(P)' = abb2!Missing(P)
    BY <1>2 DEF abb2!Missing
  <2> QED
    BY <1>1, <1>3, <2>1 DEF abb2!BarrierInv, abb2!LeaderOK, abb2!CountOK
<1> QED
  BY <1>1, <1>2, <1>3, <1>4

-----------------------------------------------------------------------------
(* The steps outside the barriers. *)

LEMMA Outside ==
  ASSUME Inv, UNCHANGED <<abbVars, abb2Vars>>,
         pc'[Main] = "reawaited" <=> pc[Main] = "reawaited",
         Draining => Draining'
  PROVE  /\ abb!BarrierTypeOK' /\ abb2!BarrierTypeOK'
         /\ AbbOK' /\ (Abb2OK => Abb2OK')
         /\ \A t : (abb!Released(t)' <=> abb!Released(t))
                  /\ (abb2!Released(t)' <=> abb2!Released(t))
<1> USE DEF Inv
<1>1. abb!BarrierTypeOK' /\ abb2!BarrierTypeOK'
  BY AbbFrame, Abb2Frame DEF TypeOK
<1>2. AbbOK'
  BY AbbFrame DEF AbbOK
<1>3. Members' = Members
  BY DEF abb2Vars, Members
<1>4. Abb2OK => Abb2OK'
  BY <1>3, Abb2Frame DEF Abb2OK, abb2Vars
<1> QED
  BY <1>1, <1>2, <1>4, AbbFrame, Abb2Frame

(* The jobs go their way unless the protocol is broken. *)
LEMMA InvNext ==
  ASSUME TypeOK', PlacesOK', AbbOK', LapsOK',
         protocol' # "kept" => flag' # Unset,
         protocol' # "broken" => JobsOK'
  PROVE  Inv'
BY DEF Inv

LEMMA MainIsThread == Main \in Thread /\ Thread = Worker \cup {Main} /\ Main \notin Worker
BY GangAssumption DEF Main, Thread, Worker

LEMMA TestShutdownKeepsInv ==
  ASSUME Inv, NEW t \in Thread, TestShutdown(t)
  PROVE  Inv'
<1> USE DEF Inv, TestShutdown, Goto, At, history
<1>1. pc \in [Thread -> PcValues] /\ pc[t] = "shutdown" /\ (t = Main => ~shutdown)
  BY DEF TypeOK, PlacesOK, Draining
<1>2. /\ abb!BarrierTypeOK' /\ abb2!BarrierTypeOK'
      /\ AbbOK' /\ (Abb2OK => Abb2OK')
      /\ \A u : (abb!Released(u)' <=> abb!Released(u))
               /\ (abb2!Released(u)' <=> abb2!Released(u))
  BY <1>1, MainIsThread, Outside DEF Draining
<1>3. TypeOK'
  BY <1>2 DEF TypeOK, PcValues
<1>4. PlacesOK'
  BY <1>1 DEF PlacesOK, Draining, abbVars, abb2Vars, Worker
<1>5. /\ Draining' <=> Draining
      /\ Renewed' <=> Renewed
      /\ Open' <=> Open
      /\ \A u \in Thread : Coming(u)' => Coming(u)
  BY <1>1, <1>2 DEF PlacesOK, Draining, Renewed, Open, Coming, abb2Vars
<1>6. LapsOK'
  BY <1>1, <1>5, MainIsThread DEF LapsOK, abbVars
<1> SUFFICES ASSUME TypeOK, PlacesOK, AbbOK, LapsOK, JobsOK PROVE JobsOK'
  BY <1>2, <1>3, <1>4, <1>6, InvNext
<1> HIDE DEF Inv
<1> USE DEF JobsOK
<1>7. RoundsOK'
  BY <1>1, <1>5 DEF RoundsOK, abbVars, abb2Vars
<1>8. SubmitOK'
  BY <1>1, <1>5 DEF SubmitOK, Closing, abbVars, abb2Vars
<1>9. \A u \in Thread : ThreadOK(u)'
  BY <1>1, <1>2, <1>5 DEF ThreadOK, abbVars
<1> QED
  BY <1>2, <1>7, <1>8, <1>9

LEMMA LoadGenKeepsInv ==
  ASSUME Inv, NEW t \in Thread, LoadGen(t)
  PROVE  Inv'
<1> USE DEF Inv, LoadGen, Goto, At, history
<1>1. pc \in [Thread -> PcValues] /\ pc[t] = "gen"
  BY DEF TypeOK
<1>2. /\ abb!BarrierTypeOK' /\ abb2!BarrierTypeOK'
      /\ AbbOK' /\ (Abb2OK => Abb2OK')
      /\ \A u : (abb!Released(u)' <=> abb!Released(u))
               /\ (abb2!Released(u)' <=> abb2!Released(u))
  BY <1>1, MainIsThread, Outside DEF Draining
<1>3. TypeOK'
  <2>1. abbGeneration \in -1 .. GenMod - 1
    BY GangAssumption DEF TypeOK, abb!BarrierTypeOK
  <2> QED
    BY <1>2, <2>1 DEF TypeOK, PcValues
<1>4. PlacesOK'
  BY <1>1 DEF PlacesOK, Draining, abbVars, abb2Vars, Worker
<1>5. /\ Draining' <=> Draining
      /\ Renewed' <=> Renewed
      /\ Open' <=> Open
      /\ \A u \in Thread : Coming(u)' <=> Coming(u)
  BY <1>1, <1>2 DEF PlacesOK, Draining, Renewed, Open, Coming, abb2Vars
<1>6. LapsOK'
  BY <1>1, <1>5, MainIsThread DEF LapsOK, abbVars
<1> SUFFICES ASSUME TypeOK, PlacesOK, AbbOK, LapsOK, JobsOK PROVE JobsOK'
  BY <1>2, <1>3, <1>4, <1>6, InvNext
<1> HIDE DEF Inv
<1> USE DEF JobsOK
<1>7. RoundsOK'
  BY <1>1, <1>5 DEF RoundsOK, abbVars, abb2Vars
<1>8. SubmitOK'
  BY <1>1, <1>5 DEF SubmitOK, Closing, abbVars, abb2Vars
<1>9. \A u \in Thread : ThreadOK(u)'
  BY <1>1, <1>2, <1>5 DEF TypeOK, ThreadOK, abbVars
<1> QED
  BY <1>2, <1>7, <1>8, <1>9

(* Whoever goes on to a part comes in time for it, and the submitter is    *)
(* never turned away.                                                      *)
LEMMA FlagTest ==
  ASSUME Inv, JobsOK, NEW t \in Thread, pc[t] = "flag"
  PROVE  /\ ~Excluded(t) => /\ Open /\ t < n /\ tasks > 0
                            /\ started[t] = 0 /\ finished[t] = 0
         /\ t = Main => ~Excluded(t)
<1> USE DEF Inv, JobsOK
<1>1. Coming(t)
  BY DEF Coming
<1>2. flag.gen \in Int /\ flag.n \in Int /\ lgen[t] \in Int /\ t \in Int /\ abbGeneration \in Int
  BY GangAssumption DEF TypeOK, Thread, abb!BarrierTypeOK
<1>3. ASSUME ~Excluded(t)
      PROVE  Open /\ t < n /\ tasks > 0 /\ started[t] = 0 /\ finished[t] = 0
  <2>1. flag.gen <= lgen[t] /\ t < flag.n
    BY <1>2, <1>3 DEF Excluded
  <2>2. Renewed => ~Draining
    BY DEF Renewed, Draining
  <2>3. ~Renewed
    BY <1>2, <2>1, <2>2 DEF ThreadOK, RoundsOK
  <2>4. Open
    BY <1>1, <1>2, <2>1, <2>3 DEF ThreadOK
  <2>5. tasks > 0
    BY <2>4 DEF Open, RoundsOK, TypeOK, abb2!BarrierTypeOK
  <2> QED
    BY <1>1, <2>1, <2>4, <2>5 DEF ThreadOK, SubmitOK
<1>4. ASSUME t = Main
      PROVE  ~Excluded(t)
  <2>1. ~Renewed /\ ~Draining /\ Open /\ n > 1 /\ flag.n = n
    BY <1>4 DEF Renewed, Draining, SubmitOK
  <2>2. flag # Unset
    BY <1>1 DEF ThreadOK
  <2>3. lgen[t] = abbGeneration /\ abbGeneration = flag.gen
    BY <2>1, <2>2 DEF ThreadOK, RoundsOK
  <2> QED
    BY <1>2, <1>4, <2>1, <2>3 DEF Excluded, Main
<1> QED
  BY <1>3, <1>4

LEMMA LoadFlagKeepsInv ==
  ASSUME Inv, NEW t \in Thread, LoadFlag(t)
  PROVE  Inv'
<1> USE DEF Inv, LoadFlag, Goto, At, history
<1>1. /\ pc \in [Thread -> PcValues] /\ pc[t] = "flag"
      /\ pc' \in {[pc EXCEPT ![t] = l] : l \in {AfterRun(t), "task"}}
      /\ pc'[t] \in {AfterRun(t), "task"}
  BY DEF TypeOK
<1>2. abbPc[t] = "out" /\ ~abb!Released(t)
  BY <1>1 DEF PlacesOK, abb!Released, abb!Waiting
<1>3. /\ abb!BarrierTypeOK' /\ abb2!BarrierTypeOK'
      /\ AbbOK' /\ (Abb2OK => Abb2OK')
      /\ \A u : (abb!Released(u)' <=> abb!Released(u))
               /\ (abb2!Released(u)' <=> abb2!Released(u))
  BY <1>1, MainIsThread, Outside DEF Draining, AfterRun
<1>4. TypeOK'
  <2>1. lgen' \in [Thread -> -1 .. GenMod - 1]
    BY GangAssumption DEF TypeOK
  <2> QED
    BY <1>1, <1>3, <2>1 DEF TypeOK, PcValues, AfterRun
<1>5. PlacesOK'
  BY <1>1, MainIsThread DEF PlacesOK, Draining, abbVars, abb2Vars, Worker, AfterRun
<1>6. /\ Draining' <=> Draining
      /\ Renewed' <=> Renewed
      /\ Open' <=> Open
      /\ \A u \in Thread : Coming(u)' => Coming(u)
  BY <1>1, <1>2, <1>3 DEF Draining, Renewed, Open, Coming, abb2Vars, AfterRun
<1>7. LapsOK'
  BY <1>1, <1>6, MainIsThread DEF LapsOK, abbVars, AfterRun
<1> SUFFICES ASSUME TypeOK, PlacesOK, AbbOK, LapsOK, JobsOK PROVE JobsOK'
  BY <1>3, <1>4, <1>5, <1>7, InvNext
<1> HIDE DEF Inv
<1> USE DEF JobsOK
<1>8. \/ /\ pc' = [pc EXCEPT ![t] = "abb"]
         /\ t # Main
      \/ /\ pc' = [pc EXCEPT ![t] = "task"]
         /\ Open /\ t < n /\ tasks > 0 /\ started[t] = 0 /\ finished[t] = 0
  BY <1>1, FlagTest DEF AfterRun
<1>9. RoundsOK'
  BY <1>1, <1>8, <1>6 DEF RoundsOK, abbVars, abb2Vars
<1>10. SubmitOK'
  BY <1>1, <1>8, <1>6 DEF SubmitOK, Closing, abbVars, abb2Vars
<1>11. ASSUME NEW u \in Thread
       PROVE  ThreadOK(u)'
  <2>1. u # t => lgen'[u] = lgen[u] /\ pc'[u] = pc[u]
    BY <1>1, <1>8 DEF TypeOK
  <2> QED
    BY <1>1, <1>8, <1>3, <1>6, <2>1 DEF ThreadOK, abbVars
<1> QED
  BY <1>3, <1>9, <1>10, <1>11

LEMMA StartTaskKeepsInv ==
  ASSUME Inv, NEW t \in Thread, StartTask(t)
  PROVE  Inv'
<1> USE DEF Inv, StartTask, Goto, At
<1>1. pc \in [Thread -> PcValues] /\ pc[t] = "task"
  BY DEF TypeOK
<1>2. /\ abb!BarrierTypeOK' /\ abb2!BarrierTypeOK'
      /\ AbbOK' /\ (Abb2OK => Abb2OK')
      /\ \A u : (abb!Released(u)' <=> abb!Released(u))
               /\ (abb2!Released(u)' <=> abb2!Released(u))
  BY <1>1, MainIsThread, Outside DEF Draining
<1>3. TypeOK'
  <2>1. job' \in [Thread -> 0 .. MaxSubmits] /\ started' \in [Thread -> Nat]
    BY DEF TypeOK
  <2> QED
    BY <1>2, <2>1 DEF TypeOK, PcValues
<1>4. PlacesOK'
  BY <1>1 DEF PlacesOK, Draining, abbVars, abb2Vars, Worker
<1>5. /\ Draining' <=> Draining
      /\ Renewed' <=> Renewed
      /\ Open' <=> Open
      /\ \A u \in Thread : Coming(u)' => Coming(u)
  BY <1>1, <1>2 DEF PlacesOK, Draining, Renewed, Open, Coming, abb2Vars
<1>6. LapsOK'
  BY <1>1, <1>5, MainIsThread DEF LapsOK, abbVars
<1> SUFFICES ASSUME TypeOK, PlacesOK, AbbOK, LapsOK, JobsOK PROVE JobsOK'
  BY <1>2, <1>3, <1>4, <1>6, InvNext
<1> HIDE DEF Inv
<1> USE DEF JobsOK
<1>7. started[t] = 0 /\ finished[t] = 0 /\ t < n /\ (Open \/ t = Main)
  BY <1>1 DEF ThreadOK
<1>8. started' = [started EXCEPT ![t] = 1]
  BY <1>7 DEF TypeOK
<1>9. RoundsOK'
  BY <1>1, <1>5 DEF RoundsOK, abbVars, abb2Vars
<1>10. SubmitOK'
  <2>1. ~Renewed /\ pc[Main] # "reflag"
    BY <1>1, <1>7 DEF Open, Renewed, SubmitOK
  <2> QED
    BY <1>1, <1>5, <2>1 DEF SubmitOK, Closing, abbVars, abb2Vars
<1>11. ASSUME NEW u \in Thread
       PROVE  ThreadOK(u)'
  <2>1. CASE u = t
    <3>1. pc'[t] = "run" /\ started'[t] = 1 /\ job'[t] = tasks
      BY <1>1, <1>8 DEF TypeOK
    <3> QED
      BY <1>1, <1>7, <1>5, <2>1, <3>1 DEF ThreadOK, Coming
  <2>2. CASE u # t
    <3>1. pc'[u] = pc[u] /\ started'[u] = started[u] /\ job'[u] = job[u]
      BY <1>1, <1>8, <2>2 DEF TypeOK
    <3> QED
      BY <1>1, <1>2, <1>5, <3>1 DEF ThreadOK, abbVars
  <2> QED
    BY <2>1, <2>2
<1> QED
  BY <1>2, <1>9, <1>10, <1>11

LEMMA FinishTaskKeepsInv ==
  ASSUME Inv, NEW t \in Thread, FinishTask(t)
  PROVE  Inv'
<1> USE DEF Inv, FinishTask, Goto, At
<1>1. /\ pc \in [Thread -> PcValues] /\ pc[t] = "run"
      /\ \/ t = Main /\ n = 1 /\ pc' = [pc EXCEPT ![t] = "return"]
         \/ ~(t = Main /\ n = 1) /\ pc' = [pc EXCEPT ![t] = "abb2"]
  BY DEF TypeOK
<1>2. /\ abb!BarrierTypeOK' /\ abb2!BarrierTypeOK'
      /\ AbbOK' /\ (Abb2OK => Abb2OK')
      /\ \A u : (abb!Released(u)' <=> abb!Released(u))
               /\ (abb2!Released(u)' <=> abb2!Released(u))
  BY <1>1, MainIsThread, Outside DEF Draining
<1>3. TypeOK'
  <2>1. job' \in [Thread -> 0 .. MaxSubmits] /\ finished' \in [Thread -> Nat]
    BY GangAssumption DEF TypeOK
  <2> QED
    BY <1>1, <1>2, <2>1 DEF TypeOK, PcValues
<1>4. PlacesOK'
  BY <1>1 DEF PlacesOK, Draining, abbVars, abb2Vars, Worker
<1>5. /\ Draining' <=> Draining
      /\ Renewed' <=> Renewed
      /\ Open' <=> Open
      /\ \A u \in Thread : Coming(u)' => Coming(u)
  BY <1>1, <1>2 DEF PlacesOK, Draining, Renewed, Open, Coming, abb2Vars
<1>6. LapsOK'
  BY <1>1, <1>5, MainIsThread DEF LapsOK, abbVars
<1> SUFFICES ASSUME TypeOK, PlacesOK, AbbOK, LapsOK, JobsOK PROVE JobsOK'
  BY <1>2, <1>3, <1>4, <1>6, InvNext
<1> HIDE DEF Inv
<1> USE DEF JobsOK
<1>7. finished[t] = 0 /\ t < n /\ (Open \/ t = Main)
  BY <1>1 DEF ThreadOK
<1>8. finished' = [finished EXCEPT ![t] = 1]
  BY <1>7 DEF TypeOK
<1>9. \/ t = Main /\ n = 1 /\ ~Open /\ pc' = [pc EXCEPT ![t] = "return"]
      \/ Open /\ n > 1 /\ flag.n = n /\ pc' = [pc EXCEPT ![t] = "abb2"]
  <2>1. CASE t = Main /\ n = 1
    BY <1>1, <2>1 DEF SubmitOK
  <2>2. CASE ~(t = Main /\ n = 1)
    <3>1. Open
      BY <1>1, <1>7, <2>2 DEF SubmitOK
    <3> QED
      BY <1>1, <2>2, <3>1 DEF SubmitOK
  <2> QED
    BY <2>1, <2>2
<1>10. RoundsOK'
  BY <1>1, <1>9, <1>5 DEF RoundsOK, abbVars, abb2Vars
<1>11. SubmitOK'
  <2>1. ~Renewed /\ pc[Main] # "reflag"
    BY <1>1, <1>7 DEF Open, Renewed, SubmitOK
  <2>2. pc'[Main] = "return" =>
          \/ pc[Main] = "return"
          \/ t = Main /\ n = 1 /\ ~Open
    BY <1>1, <1>9
  <2>3. pc'[Main] = "return" => \A u \in 0 .. n - 1 : finished'[u] = 1
    <3>1. CASE pc[Main] = "return"
      BY <1>8, <3>1 DEF SubmitOK, TypeOK
    <3>2. CASE t = Main /\ n = 1
      BY <1>8, <3>2 DEF Main, TypeOK
    <3> QED
      BY <2>2, <3>1, <3>2
  <2>4. pc'[Main] = "abb2" /\ ~Open => \A u \in 0 .. n - 1 : finished'[u] = 1
    BY <1>1, <1>8, <1>9 DEF SubmitOK, TypeOK
  <2> QED
    BY <1>1, <1>9, <1>5, <2>1, <2>3, <2>4 DEF SubmitOK, Closing, abbVars, abb2Vars
<1>12. ~abb2!Released(t)
  BY <1>1 DEF PlacesOK, abb2!Released, abb2!Waiting
<1>13. ASSUME NEW u \in Thread
       PROVE  ThreadOK(u)'
  <2>1. u # t => pc'[u] = pc[u] /\ finished'[u] = finished[u] /\ job'[u] = job[u]
    BY <1>1, <1>8 DEF TypeOK
  <2> QED
    BY <1>1, <1>2, <1>7, <1>8, <1>9, <1>5, <1>12, <2>1 DEF TypeOK, ThreadOK, abbVars
<1> QED
  BY <1>2, <1>10, <1>11, <1>13

LEMMA ThrowKeepsInv ==
  ASSUME Inv, NEW t \in Thread, Throw(t)
  PROVE  Inv'
<1> USE DEF Inv, Throw, Goto, At
<1>1. /\ pc \in [Thread -> PcValues] /\ pc[t] = "run"
      /\ \/ t = Main /\ pc' = [pc EXCEPT ![t] = "idle"]
         \/ t # Main /\ pc' = [pc EXCEPT ![t] = "exit"]
  BY DEF TypeOK
<1>2. /\ abb!BarrierTypeOK' /\ abb2!BarrierTypeOK'
      /\ AbbOK' /\ (Abb2OK => Abb2OK')
      /\ \A u : (abb!Released(u)' <=> abb!Released(u))
               /\ (abb2!Released(u)' <=> abb2!Released(u))
  BY <1>1, MainIsThread, Outside DEF Draining
<1>3. TypeOK'
  <2>1. job' \in [Thread -> 0 .. MaxSubmits] /\ protocol' \in Protocols
    BY GangAssumption DEF TypeOK, Protocols
  <2> QED
    BY <1>1, <1>2, <2>1 DEF TypeOK, PcValues
<1>4. PlacesOK'
  BY <1>1, MainIsThread DEF PlacesOK, Draining, abbVars, abb2Vars
<1>5. /\ Draining' <=> Draining
      /\ Renewed' <=> Renewed
      /\ Open' <=> Open
      /\ \A u \in Thread : Coming(u)' => Coming(u)
  BY <1>1, <1>2 DEF PlacesOK, Draining, Renewed, Open, Coming, abb2Vars
<1>6. LapsOK'
  BY <1>1, <1>5, MainIsThread DEF LapsOK, abbVars
<1>7. CASE protocol = "broken"
  BY <1>2, <1>3, <1>4, <1>6, <1>7, InvNext DEF Leaving
<1>8. CASE protocol # "broken"
  <2> USE DEF JobsOK
  <2>1. JobsOK
    BY <1>8
  <2>2. Leaving(t) => Open /\ flag # Unset
    <3> SUFFICES ASSUME Leaving(t) PROVE Open /\ flag # Unset
      OBVIOUS
    <3>1. Open
      BY <1>1, <2>1 DEF Leaving, SubmitOK, TypeOK
    <3>2. abb2Generation \in Nat
      BY DEF TypeOK, abb2!BarrierTypeOK
    <3> QED
      BY <3>1, <3>2 DEF Open, Unset
  <2>3. RoundsOK'
    BY <1>1, <1>5, <2>1 DEF RoundsOK, abbVars, abb2Vars
  <2>4. t = Main => protocol = "kept" /\ (n = 1 => ~Open) /\ n \in Nat
    BY <1>1, <1>8, <2>1, GangAssumption
       DEF SubmitOK, Closing, TypeOK, Protocols
  <2>5. SubmitOK'
    <3>1. t = Main => n = 1 \/ n > 1
      BY <1>1, <2>1, <2>4 DEF ThreadOK, Main
    <3>2. CASE t = Main
      BY <1>1, <1>5, <2>1, <2>4, <3>1, <3>2 DEF SubmitOK, Closing, Renewed, Leaving
    <3>3. CASE t # Main
      <4>1. protocol' = protocol
        BY <3>3 DEF Leaving
      <4> QED
        BY <1>1, <1>5, <2>1, <3>3, <4>1 DEF SubmitOK, Closing, abbVars, abb2Vars
    <3> QED
      BY <3>2, <3>3
  <2>6. ASSUME NEW u \in Thread
        PROVE  ThreadOK(u)'
    <3>1. u # t => pc'[u] = pc[u] /\ job'[u] = job[u]
      BY <1>1 DEF TypeOK
    <3> QED
      BY <1>1, <1>2, <1>5, <2>1, <3>1 DEF ThreadOK, abbVars
  <2> QED
    BY <1>2, <1>3, <1>4, <1>6, <2>1, <2>2, <2>3, <2>5, <2>6, InvNext
<1> QED
  BY <1>7, <1>8

-----------------------------------------------------------------------------
(* The submitter's own steps. *)

LEMMA ReturnKeepsInv ==
  ASSUME Inv, Return \/ Close
  PROVE  Inv'
<1> USE DEF Inv, Return, Close, Goto, At, history
<1>1. /\ pc \in [Thread -> PcValues]
      /\ \/ pc[Main] = "return" /\ pc' = [pc EXCEPT ![Main] = "idle"]
         \/ pc[Main] = "idle" /\ pc' = [pc EXCEPT ![Main] = "dtor"]
  BY DEF TypeOK
<1>2. /\ abb!BarrierTypeOK' /\ abb2!BarrierTypeOK'
      /\ AbbOK' /\ (Abb2OK => Abb2OK')
      /\ \A u : (abb!Released(u)' <=> abb!Released(u))
               /\ (abb2!Released(u)' <=> abb2!Released(u))
  BY <1>1, MainIsThread, Outside DEF Draining
<1>3. TypeOK'
  BY <1>1, <1>2 DEF TypeOK, PcValues
<1>4. PlacesOK'
  BY <1>1, MainIsThread DEF PlacesOK, Draining, abbVars, abb2Vars
<1>5. /\ Draining' <=> Draining
      /\ Renewed' <=> Renewed
      /\ Open' <=> Open
      /\ \A u \in Thread : Coming(u)' => Coming(u)
  BY <1>1, <1>2, MainIsThread DEF PlacesOK, Draining, Renewed, Open, Coming, abb2Vars
<1>6. LapsOK'
  BY <1>1, <1>5, MainIsThread DEF LapsOK, abbVars
<1> SUFFICES ASSUME TypeOK, PlacesOK, AbbOK, LapsOK, JobsOK PROVE JobsOK'
  BY <1>2, <1>3, <1>4, <1>6, InvNext
<1> HIDE DEF Inv
<1> USE DEF JobsOK
<1>7. RoundsOK'
  BY <1>1, <1>5, MainIsThread DEF RoundsOK, abbVars, abb2Vars
<1>8. SubmitOK'
  BY <1>1, <1>5, MainIsThread DEF SubmitOK, Closing, abbVars, abb2Vars
<1>9. \A u \in Thread : ThreadOK(u)'
  BY <1>1, <1>2, <1>5, MainIsThread DEF ThreadOK, abbVars
<1> QED
  BY <1>2, <1>7, <1>8, <1>9

LEMMA SetShutdownKeepsInv ==
  ASSUME Inv, SetShutdown
  PROVE  Inv'
<1> USE DEF Inv, SetShutdown, Goto, At, history
<1>1. pc \in [Thread -> PcValues] /\ pc[Main] = "dtor" /\ pc' = [pc EXCEPT ![Main] = "one"]
  BY DEF TypeOK
<1>2. /\ abb!BarrierTypeOK' /\ abb2!BarrierTypeOK'
      /\ AbbOK' /\ (Abb2OK => Abb2OK')
      /\ \A u : (abb!Released(u)' <=> abb!Released(u))
               /\ (abb2!Released(u)' <=> abb2!Released(u))
  BY <1>1, MainIsThread, Outside DEF Draining
<1>3. TypeOK'
  BY <1>1, <1>2 DEF TypeOK, PcValues
<1>4. PlacesOK'
  BY <1>1, MainIsThread DEF PlacesOK, Draining, abbVars, abb2Vars
<1>5. /\ Draining' <=> Draining
      /\ Renewed' <=> Renewed
      /\ Open' <=> Open
      /\ \A u \in Thread : Coming(u)' => Coming(u)
  BY <1>1, <1>2, MainIsThread DEF PlacesOK, Draining, Renewed, Open, Coming, abb2Vars
<1>6. LapsOK'
  BY <1>1, <1>5, MainIsThread DEF LapsOK, abbVars
<1> SUFFICES ASSUME TypeOK, PlacesOK, AbbOK, LapsOK, JobsOK PROVE JobsOK'
  BY <1>2, <1>3, <1>4, <1>6, InvNext
<1> HIDE DEF Inv
<1> USE DEF JobsOK
<1>7. RoundsOK'
  BY <1>1, <1>5, MainIsThread DEF RoundsOK, abbVars, abb2Vars
<1>8. SubmitOK'
  BY <1>1, <1>5, MainIsThread DEF SubmitOK, Closing, abbVars, abb2Vars
<1>9. \A u \in Thread : ThreadOK(u)'
  BY <1>1, <1>2, <1>5, MainIsThread DEF ThreadOK, abbVars
<1> QED
  BY <1>2, <1>7, <1>8, <1>9

(* Unless the submitter has left it early, no worker has a part of the     *)
(* last job any more: the new one may replace it.                          *)
LEMMA SubmitKeepsInv ==
  ASSUME Inv, NEW k \in 1 .. Num, Submit(k)
  PROVE  Inv'
<1> USE DEF Inv, Submit, Goto, At
<1>1. /\ pc \in [Thread -> PcValues] /\ pc[Main] = "idle"
      /\ k \in Nat /\ tasks \in Nat /\ n' \in Nat
      /\ \/ k = 1 /\ pc' = [pc EXCEPT ![Main] = "task"]
         \/ k > 1 /\ pc' = [pc EXCEPT ![Main] = "reflag"]
  <2>1. pc \in [Thread -> PcValues] /\ pc[Main] = "idle" /\ tasks \in Nat
    BY GangAssumption DEF TypeOK
  <2>2. k \in Nat /\ n' = k /\ (k = 1 \/ k > 1)
    BY GangAssumption
  <2>3. CASE k = 1
    BY <2>1, <2>2, <2>3
  <2>4. CASE k > 1
    <3>1. k # 1
      BY <2>2, <2>4
    <3> QED
      BY <2>1, <2>2, <2>4, <3>1
  <2> QED
    BY <2>2, <2>3, <2>4
<1>2. /\ abb!BarrierTypeOK' /\ abb2!BarrierTypeOK'
      /\ AbbOK' /\ (Abb2OK => Abb2OK')
      /\ \A u : (abb!Released(u)' <=> abb!Released(u))
               /\ (abb2!Released(u)' <=> abb2!Released(u))
  BY <1>1, MainIsThread, Outside DEF Draining
<1>3. TypeOK'
  <2>1. tasks' \in 0 .. MaxSubmits /\ n' \in 0 .. Num
    BY <1>1, GangAssumption DEF TypeOK
  <2>2. pc' \in [Thread -> PcValues]
    BY <1>1 DEF PcValues
  <2>3. /\ started' \in [Thread -> Nat]
        /\ finished' \in [Thread -> Nat]
        /\ protocol' \in Protocols
    BY DEF TypeOK, Protocols
  <2> QED
    BY <1>2, <2>1, <2>2, <2>3 DEF TypeOK
<1>4. PlacesOK'
  BY <1>1, MainIsThread DEF PlacesOK, Draining, abbVars, abb2Vars
<1>5. /\ ~Draining /\ ~Draining'
      /\ ~Renewed /\ ~Renewed'
      /\ Open' <=> Open
      /\ \A u \in Thread : Coming(u)' => Coming(u)
  BY <1>1, <1>2, MainIsThread DEF PlacesOK, Draining, Renewed, Open, Coming, abb2Vars
<1>6. abbGeneration \in Nat /\ abbGeneration' < tasks' /\ tasks' = tasks + 1
  BY <1>1, <1>5 DEF TypeOK, LapsOK, abbVars, abb!BarrierTypeOK
<1>7. LapsOK'
  BY <1>1, <1>6 DEF LapsOK, abbVars
<1> SUFFICES ASSUME protocol = "kept", TypeOK, PlacesOK, AbbOK, LapsOK, JobsOK PROVE JobsOK'
  BY <1>2, <1>3, <1>4, <1>7, InvNext DEF TypeOK, Protocols
<1> HIDE DEF Inv
<1> USE DEF JobsOK
<1>8. ~Open /\ ~Open' /\ protocol' = "kept"
  BY <1>1, <1>5 DEF SubmitOK
<1>9. RoundsOK'
  <2>1. flag'.gen <= tasks'
    BY <1>1, GangAssumption DEF TypeOK, RoundsOK
  <2> QED
    BY <1>1, <1>5, <1>8, <2>1, MainIsThread DEF RoundsOK, abbVars, abb2Vars
<1>10. SubmitOK'
  BY <1>1, <1>5, <1>8, MainIsThread DEF SubmitOK, Closing
<1>11. \A u \in Worker : pc'[u] = pc[u] /\ pc[u] \notin {"task", "run"}
  BY <1>1, <1>8, MainIsThread DEF ThreadOK
<1>12. \A u \in Thread : ThreadOK(u)'
  BY <1>1, <1>2, <1>5, <1>8, <1>11, MainIsThread DEF ThreadOK, abbVars, Main
<1> QED
  BY <1>2, <1>9, <1>10, <1>12

-----------------------------------------------------------------------------
(* reinit *)

LEMMA StoreFlagKeepsInv ==
  ASSUME Inv, StoreFlag
  PROVE  Inv'
<1> USE DEF Inv, StoreFlag, Goto, At, history
<1>1. pc \in [Thread -> PcValues] /\ pc[Main] = "reflag" /\ pc' = [pc EXCEPT ![Main] = "retotal"]
  BY DEF TypeOK
<1>2. /\ abb!BarrierTypeOK' /\ abb2!BarrierTypeOK'
      /\ AbbOK' /\ (Abb2OK => Abb2OK')
      /\ \A u : (abb!Released(u)' <=> abb!Released(u))
               /\ (abb2!Released(u)' <=> abb2!Released(u))
  BY <1>1, MainIsThread, Outside DEF Draining
<1>3. /\ ~Draining /\ ~Draining' /\ ~Renewed /\ Renewed'
      /\ \A u \in Thread : Coming(u)' => Coming(u)
  BY <1>1, <1>2, MainIsThread DEF Draining, Renewed, Coming
<1>4. /\ n \in Nat /\ n <= Num /\ tasks \in Nat /\ tasks <= MaxSubmits
      /\ abbGeneration \in Nat /\ abbGeneration < tasks
  BY <1>1, <1>3, GangAssumption DEF TypeOK, LapsOK, abb!BarrierTypeOK
<1>5. flag' = [gen |-> abbGeneration + 1, n |-> n] /\ flag' # Unset
  <2>1. flag' = [gen |-> abbGeneration + 1, n |-> n]
    BY <1>4, GangAssumption DEF abb!NextGen
  <2> QED
    BY <1>4, <2>1 DEF Unset
<1>6. TypeOK'
  <2>1. abbGeneration + 1 \in -1 .. GenMod - 1 /\ n \in 0 .. BarWasLast - 1
    BY <1>4, GangAssumption
  <2>2. flag' \in [gen : -1 .. GenMod - 1, n : 0 .. BarWasLast - 1]
    BY <1>5, <2>1
  <2> QED
    BY <1>1, <1>2, <2>2 DEF TypeOK, PcValues
<1>7. PlacesOK'
  BY <1>1, MainIsThread DEF PlacesOK, Draining, abbVars, abb2Vars
<1>8. LapsOK'
  BY <1>4 DEF LapsOK, abbVars
<1> SUFFICES ASSUME TypeOK, PlacesOK, AbbOK, LapsOK, JobsOK PROVE JobsOK'
  BY <1>2, <1>5, <1>6, <1>7, <1>8, InvNext
<1> HIDE DEF Inv
<1> USE DEF JobsOK
<1>9. n > 1 /\ ~Open /\ ~Open'
  BY <1>1, <1>3 DEF SubmitOK, Open
<1>10. abbGeneration = abb2Generation
  BY <1>3, <1>4, <1>9 DEF RoundsOK, TypeOK, Open, Unset, abb2!BarrierTypeOK
<1>11. RoundsOK'
  BY <1>1, <1>3, <1>4, <1>5, <1>9, <1>10, MainIsThread DEF RoundsOK, abbVars, abb2Vars
<1>12. SubmitOK'
  BY <1>1, <1>3, <1>4, <1>5, <1>9, MainIsThread DEF SubmitOK, Closing
<1>13. \A u \in Thread : ThreadOK(u)'
  BY <1>1, <1>2, <1>3, <1>5, <1>9, MainIsThread DEF ThreadOK, abbVars
<1> QED
  BY <1>2, <1>11, <1>12, <1>13

(* No job is open: whoever is still inside abb2 is on its way out of it.   *)
LEMMA Abb2Leaving ==
  ASSUME PlacesOK, JobsOK, ~Open, NEW u \in Thread, abb2Pc[u] # "out"
  PROVE  abb2!Released(u)
BY DEF PlacesOK, JobsOK, ThreadOK

LEMMA StoreTotalKeepsInv ==
  ASSUME Inv, StoreTotal
  PROVE  Inv'
<1> USE DEF Inv, StoreTotal, Goto, At, history
<1>1. pc \in [Thread -> PcValues] /\ pc[Main] = "retotal" /\ pc' = [pc EXCEPT ![Main] = "reawaited"]
  BY DEF TypeOK
<1>2. /\ ~Draining /\ ~Draining'
      /\ Renewed /\ Renewed'
      /\ ~Open /\ ~Open'
  BY <1>1, MainIsThread DEF Draining, Renewed, Open
<1>3. /\ abb!BarrierTypeOK'
      /\ abb!BarrierInv(Thread)'
      /\ \A u : abb!Released(u)' <=> abb!Released(u)
  BY <1>2, AbbFrame DEF TypeOK, AbbOK
<1>4. \A u : abb2!Released(u)' <=> abb2!Released(u)
  BY DEF abb2!Released, abb2!Waiting
<1>5. n \in 0 .. Num /\ n \in 0 .. UIntMax
  BY GangAssumption DEF TypeOK
<1>6. TypeOK'
  <2>1. abb2!BarrierTypeOK'
    BY <1>5 DEF TypeOK, abb2!BarrierTypeOK
  <2> QED
    BY <1>1, <1>3, <2>1 DEF TypeOK, PcValues
<1>7. PlacesOK' /\ AbbOK' /\ LapsOK'
  BY <1>1, <1>2, <1>3, MainIsThread DEF PlacesOK, Draining, AbbOK, LapsOK, abbVars
<1> SUFFICES ASSUME TypeOK, PlacesOK, AbbOK, LapsOK, JobsOK PROVE JobsOK'
  BY <1>6, <1>7, InvNext
<1> HIDE DEF Inv
<1> USE DEF JobsOK
<1>8. n > 1
  BY <1>2 DEF SubmitOK
<1>9. Abb2OK'
  <2>1. abb2Total \in 0 .. Num /\ abb2!BarrierInv(Members)
    BY <1>1, GangAssumption DEF Abb2OK, TypeOK, abb2!BarrierTypeOK
  <2>2. Members \subseteq Thread /\ Members' \subseteq Thread
    BY <1>5, <2>1, Parts DEF Members
  <2>3. abb2!BarrierTypeOK /\ abb2!StateOK(Members)
    BY <2>1 DEF abb2!BarrierInv
  <2>4. \A Q \in SUBSET Thread : abb2!StateOK(Q)
    BY <1>2, <2>2, <2>3, Abb2Leaving, Abb2Quiet
  <2>5. \A Q : abb2!StateOK(Q) => abb2!StateOK(Q)'
    BY DEF abb2!StateOK, abb2!Waiting, abb2!Publishing
  <2>6. \A Q \in SUBSET Thread : abb2!StateOK(Q)'
    BY <2>4, <2>5
  <2>7. abb2!StateOK(Members)'
    BY <2>2, <2>6
  <2> QED
    BY <1>1, <1>5, <2>7, MainIsThread, GangAssumption DEF Abb2OK, Members
<1>10. RoundsOK'
  BY <1>1, <1>2, <1>5, MainIsThread DEF RoundsOK, SubmitOK, abbVars
<1>11. SubmitOK'
  BY <1>1, <1>2, <1>8, MainIsThread DEF SubmitOK, Closing, abbVars
<1>12. \A u \in Thread : Coming(u)' => Coming(u)
  BY <1>1, <1>3, MainIsThread DEF Coming
<1>13. \A u \in Thread : ThreadOK(u)'
  BY <1>1, <1>2, <1>4, <1>12, MainIsThread DEF ThreadOK, abbVars
<1> QED
  BY <1>9, <1>10, <1>11, <1>13

LEMMA StoreAwaitedKeepsInv ==
  ASSUME Inv, StoreAwaited
  PROVE  Inv'
<1> USE DEF Inv, StoreAwaited, Goto, At, history
<1>1. pc \in [Thread -> PcValues] /\ pc[Main] = "reawaited" /\ pc' = [pc EXCEPT ![Main] = "abb"]
  BY DEF TypeOK
<1>2. abbPc[Main] = "out"
  BY <1>1, MainIsThread DEF PlacesOK
<1>3. ~abb!Released(Main)
  BY <1>2 DEF abb!Released, abb!Waiting
<1>4. /\ abb!BarrierTypeOK'
      /\ abb!BarrierInv(Thread)'
      /\ \A u : abb!Released(u)' <=> abb!Released(u)
  BY <1>1, AbbFrame DEF TypeOK, AbbOK, Draining
<1>5. /\ ~Draining /\ ~Draining'
      /\ Renewed /\ Renewed'
      /\ ~Open /\ ~Open'
  BY <1>1, <1>3, <1>4, MainIsThread DEF Draining, Renewed, Open
<1>6. \A u : abb2!Released(u)' <=> abb2!Released(u)
  BY DEF abb2!Released, abb2!Waiting
<1>7. n \in 0 .. Num /\ n \in 0 .. UIntMax
  BY GangAssumption DEF TypeOK
<1>8. abb2!BarrierTypeOK'
  BY <1>7 DEF TypeOK, abb2!BarrierTypeOK
<1>9. TypeOK'
  BY <1>1, <1>4, <1>8 DEF TypeOK, PcValues
<1>10. PlacesOK' /\ AbbOK' /\ LapsOK'
  BY <1>1, <1>4, <1>5, MainIsThread DEF PlacesOK, Draining, AbbOK, LapsOK, abbVars
<1> SUFFICES ASSUME TypeOK, PlacesOK, AbbOK, LapsOK, JobsOK PROVE JobsOK'
  BY <1>9, <1>10, InvNext
<1> HIDE DEF Inv
<1> USE DEF JobsOK
<1>11. n > 1 /\ abb2Total = n
  BY <1>1, <1>5 DEF SubmitOK
<1>12. Abb2OK'
  <2>1. abb2!StateOK(Members)' /\ Members' = Members /\ Members = 0 .. n - 1
    BY <1>1, <1>11 DEF Abb2OK, Members, abb2!StateOK, abb2!Waiting, abb2!Publishing
  <2>2. Members \in SUBSET Thread /\ Members # {} /\ Cardinality(Members) = n
    BY <1>7, <1>11, <2>1, Parts
  <2>3. \A u \in Thread : abb2Pc'[u] # "out" => abb2!Released(u)'
    BY <1>5, <1>6, Abb2Leaving
  <2>4. abb2!BarrierInv(Members)'
    BY <1>11, <1>8, <2>1, <2>2, <2>3, Abb2RenewedNext
  <2> QED
    BY <1>1, <1>7, <1>11, <2>4, MainIsThread, GangAssumption DEF Abb2OK
<1>13. RoundsOK'
  BY <1>1, <1>5, MainIsThread DEF RoundsOK, abbVars
<1>14. SubmitOK'
  BY <1>1, <1>5, MainIsThread DEF SubmitOK, Closing, abbVars
<1>15. \A u \in Thread : Coming(u)' => Coming(u)
  BY <1>1, <1>3, <1>4, MainIsThread DEF Coming
<1>16. \A u \in Thread : ThreadOK(u)'
  BY <1>1, <1>5, <1>6, <1>15, MainIsThread DEF ThreadOK, abbVars
<1> QED
  BY <1>12, <1>13, <1>14, <1>16

-----------------------------------------------------------------------------
(* The barrier that begins a job. *)

LEMMA LapBound ==
  ASSUME Inv, ~Draining
  PROVE  abbGeneration \in Nat /\ abbGeneration < GenMod - 1
<1>1. abbGeneration \in Nat /\ tasks \in Nat /\ tasks <= MaxSubmits /\ abbGeneration <= tasks
  BY GangAssumption DEF Inv, TypeOK, LapsOK, abb!BarrierTypeOK
<1> QED
  BY <1>1, GangAssumption

LEMMA RoundBound ==
  ASSUME TypeOK, JobsOK
  PROVE  abb2Generation \in Nat /\ abb2Generation < GenMod - 1
<1>1. /\ abb2Generation \in Nat /\ tasks \in Nat /\ tasks <= MaxSubmits
      /\ flag.gen \in Int
  BY GangAssumption DEF TypeOK, abb2!BarrierTypeOK
<1>2. flag.gen <= tasks /\ (abb2Generation <= flag.gen \/ abb2Generation = 0)
  BY <1>1 DEF JobsOK, RoundsOK
<1> QED
  BY <1>1, <1>2, GangAssumption

(* What a step on abb leaves alone. *)
LEMMA Abb2Same ==
  ASSUME Inv, UNCHANGED abb2Vars, pc'[Main] = "reawaited" <=> pc[Main] = "reawaited"
  PROVE  /\ abb2!BarrierTypeOK' /\ (Abb2OK => Abb2OK')
         /\ \A t : abb2!Released(t)' <=> abb2!Released(t)
<1>1. Members' = Members
  BY DEF abb2Vars, Members
<1> QED
  BY <1>1, Abb2Frame DEF Inv, TypeOK, Abb2OK, abb2Vars

(* A step of ab_barrier_wait(&abb), on a thread that has called it or on   *)
(* the destructor.                                                         *)
LEMMA AbbMoveKeepsInv ==
  ASSUME Inv, NEW t \in Thread, abb!Wait(t) \/ abb!Interrupt(t),
         pc[t] = "abb" \/ (t = Main /\ pc[t] = "drain"),
         pc' = IF pc[t] = "abb" /\ abbPc'[t] = "out"
               THEN [pc EXCEPT ![t] = "shutdown"] ELSE pc,
         UNCHANGED <<abb2Vars, flag, tasks, shutdown, lgen, n, drains, history>>
  PROVE  Inv'
<1> USE DEF Inv, history
<1>1. pc \in [Thread -> PcValues]
  BY DEF TypeOK
<1>2. /\ abb!BarrierTypeOK' /\ abbTotal' = abbTotal
      /\ \A u \in Thread \ {t} : abbPc'[u] = "out" <=> abbPc[u] = "out"
  BY AbbTypes DEF TypeOK
<1>3. /\ abb2!BarrierTypeOK' /\ (Abb2OK => Abb2OK')
      /\ \A u : abb2!Released(u)' <=> abb2!Released(u)
  BY <1>1, Abb2Same
<1>4. TypeOK'
  BY <1>1, <1>2, <1>3 DEF TypeOK, PcValues
<1>5. PlacesOK'
  BY <1>1, <1>2, MainIsThread DEF PlacesOK, Draining, abb2Vars
<1>6. Draining' <=> Draining
  BY <1>1, MainIsThread DEF Draining
<1>7. CASE Draining
  <2>1. shutdown /\ ~Renewed /\ ~Renewed' /\ (Open' <=> Open)
    BY <1>1, <1>7, MainIsThread DEF PlacesOK, Draining, Renewed, Open, abb2Vars
  <2>2. \A u \in Thread : Coming(u)' <=> Coming(u)
    BY <1>1, <2>1, MainIsThread DEF Coming
  <2>3. AbbOK' /\ LapsOK'
    BY <1>6, <1>7 DEF AbbOK, LapsOK
  <2> SUFFICES ASSUME TypeOK, PlacesOK, JobsOK PROVE JobsOK'
    BY <1>4, <1>5, <2>3, InvNext
  <2> HIDE DEF Inv
  <2> USE DEF JobsOK
  <2>4. RoundsOK'
    BY <1>1, <1>6, <1>7, <2>1, MainIsThread DEF RoundsOK, Draining, abb2Vars
  <2>5. SubmitOK'
    BY <1>1, <1>7, <2>1, MainIsThread DEF SubmitOK, Closing, Draining, abb2Vars
  <2>6. \A u \in Thread : ThreadOK(u)'
    BY <1>1, <1>3, <1>6, <1>7, <2>1, <2>2 DEF ThreadOK
  <2> QED
    BY <1>3, <2>4, <2>5, <2>6
<1>8. CASE ~Draining
  <2>1. abb!BarrierInv(Thread) /\ abbGeneration < GenMod - 1 /\ pc[t] = "abb"
    BY <1>8, LapBound DEF AbbOK, Draining
  <2>2. AbbOK'
    BY <2>1, AbbStep DEF AbbOK
  <2>3. CASE /\ abbGeneration' = abbGeneration
             /\ abbPc'[t] = "out" => abb!Released(t)
             /\ \A u \in Thread : abbPc'[u] # "out" => (abb!Released(u)' <=> abb!Released(u))
    <3>1. \A u \in Thread \ {t} : abb!Released(u)' <=> abb!Released(u)
      <4> SUFFICES ASSUME NEW u \in Thread \ {t}, abbPc'[u] = "out"
                   PROVE  abb!Released(u)' <=> abb!Released(u)
        BY <2>3
      <4>1. abbPc[u] = "out"
        BY <1>2
      <4> QED
        BY <4>1 DEF abb!Released, abb!Waiting
    <3>2. /\ Renewed' <=> Renewed
          /\ Open' <=> Open
      BY <1>1, <2>1, <2>3, <3>1, MainIsThread DEF Renewed, Open, abb2Vars
    <3>3. \A u \in Thread : Coming(u)' => Coming(u)
      BY <1>1, <2>1, <2>3, <3>1 DEF Coming
    <3>4. LapsOK'
      BY <1>1, <1>6, <2>1, <2>3, <3>2, MainIsThread DEF LapsOK
    <3> SUFFICES ASSUME TypeOK, PlacesOK, JobsOK PROVE JobsOK'
      BY <1>4, <1>5, <2>2, <3>4, InvNext
    <3> HIDE DEF Inv
    <3> USE DEF JobsOK
    <3>5. RoundsOK'
      BY <1>1, <1>6, <2>1, <2>3, <3>2, MainIsThread DEF RoundsOK, abb2Vars
    <3>6. SubmitOK'
      BY <1>1, <2>1, <2>3, <3>2, MainIsThread DEF SubmitOK, Closing, Renewed, abb2Vars
    <3>7. \A u \in Thread : ThreadOK(u)'
      BY <1>1, <1>3, <1>6, <2>1, <2>3, <3>2, <3>3 DEF ThreadOK
    <3> QED
      BY <1>3, <3>5, <3>6, <3>7
  <2>4. CASE /\ abbGeneration' = abbGeneration + 1
             /\ abbPc'[t] # "out"
             /\ \A u \in Thread : abbPc[u] # "out" /\ ~abb!Released(u)
             /\ \A u \in Thread : abbPc'[u] # "out" => abb!Released(u)'
    <3>1. pc' = pc /\ \A u \in Thread : pc[u] = "abb"
      BY <1>8, <2>4 DEF PlacesOK, Draining
    <3>2. Renewed /\ ~Renewed'
      <4>1. abbPc'[Main] # "out"
        BY <1>2, <2>4, MainIsThread
      <4> QED
        BY <2>4, <3>1, <4>1, MainIsThread DEF Renewed
    <3>3. LapsOK'
      <4>1. abbGeneration < tasks /\ tasks' = tasks /\ abbGeneration \in Nat /\ tasks \in Nat
        BY <1>8, <3>2 DEF LapsOK, TypeOK, abb!BarrierTypeOK
      <4>2. abbGeneration' <= tasks'
        BY <2>4, <4>1
      <4> QED
        BY <3>1, <3>2, <4>2, MainIsThread DEF LapsOK
    <3> SUFFICES ASSUME TypeOK, PlacesOK, JobsOK PROVE JobsOK'
      BY <1>4, <1>5, <2>2, <3>3, InvNext
    <3> HIDE DEF Inv
    <3> USE DEF JobsOK
    <3>4. /\ abbGeneration = abb2Generation /\ flag.gen = abbGeneration + 1
          /\ n > 1 /\ flag.n = n
          /\ \A u \in Thread : started[u] = 0 /\ finished[u] = 0
      BY <3>2 DEF RoundsOK, SubmitOK
    <3>5. Open' /\ flag # Unset
      <4>1. abbGeneration \in Nat
        BY DEF TypeOK, abb!BarrierTypeOK
      <4> QED
        BY <3>2, <3>4, <4>1 DEF Open, Unset, abb2Vars
    <3>6. RoundsOK'
      BY <2>4, <3>1, <3>2, <3>4, <3>5 DEF RoundsOK, abb2Vars
    <3>7. SubmitOK'
      BY <3>1, <3>2, <3>4, <3>5, MainIsThread DEF SubmitOK, Closing
    <3>8. \A u \in Thread : ThreadOK(u)'
      BY <3>1, <3>4, <3>5 DEF ThreadOK
    <3> QED
      BY <1>3, <3>6, <3>7, <3>8
  <2> QED
    BY <2>1, <2>3, <2>4, AbbStep
<1> QED
  BY <1>7, <1>8

-----------------------------------------------------------------------------
(* The destructor: abb only has to keep its types from here on.            *)

LEMMA DestroyKeepsInv ==
  ASSUME Inv,
         pc[Main] \in {"one", "drain", "join"},
         pc' \in {pc} \cup {[pc EXCEPT ![Main] = l] : l \in {"drain", "join", "done"}},
         pc'[Main] \in {"drain", "join", "done"},
         abb!BarrierTypeOK',
         \A u \in Worker : abbPc'[u] = "out" <=> abbPc[u] = "out",
         pc'[Main] # "drain" => abbPc'[Main] = "out",
         drains' \in 0 .. Num, pc'[Main] = "drain" => drains' < Num,
         UNCHANGED <<abb2Vars, flag, tasks, shutdown, lgen, n, history>>
  PROVE  Inv'
<1> USE DEF Inv, history
<1>1. /\ pc \in [Thread -> PcValues]
      /\ pc' \in [Thread -> PcValues]
      /\ \A u \in Worker : pc'[u] = pc[u]
  BY MainIsThread DEF TypeOK, PcValues
<1>2. /\ abb2!BarrierTypeOK' /\ (Abb2OK => Abb2OK')
      /\ \A u : abb2!Released(u)' <=> abb2!Released(u)
  BY Abb2Same
<1>3. TypeOK'
  BY <1>1, <1>2 DEF TypeOK
<1>4. PlacesOK'
  BY <1>1, MainIsThread DEF PlacesOK, Draining, abb2Vars
<1>5. /\ shutdown /\ Draining'
      /\ ~Renewed /\ ~Renewed'
      /\ Open' <=> Open
  BY DEF PlacesOK, Draining, Renewed, Open, abb2Vars
<1>6. \A u \in Thread : Coming(u)' => Coming(u)
  BY <1>1, <1>5, MainIsThread DEF Coming
<1>7. AbbOK' /\ LapsOK'
  BY <1>5 DEF AbbOK, LapsOK
<1> SUFFICES ASSUME TypeOK, PlacesOK, JobsOK PROVE JobsOK'
  BY <1>3, <1>4, <1>7, InvNext
<1> HIDE DEF Inv
<1> USE DEF JobsOK
<1>8. RoundsOK'
  BY <1>5 DEF RoundsOK, abb2Vars
<1>9. SubmitOK'
  BY <1>5 DEF SubmitOK, Closing, abb2Vars
<1>10. \A u \in Thread : ThreadOK(u)'
  BY <1>1, <1>2, <1>5, <1>6, MainIsThread DEF ThreadOK
<1> QED
  BY <1>2, <1>8, <1>9, <1>10

LEMMA SetTotalKeepsInv ==
  ASSUME Inv, SetTotal
  PROVE  Inv'
<1> USE DEF Inv, SetTotal, Goto, At
<1>1. pc \in [Thread -> PcValues] /\ pc[Main] = "one" /\ pc' = [pc EXCEPT ![Main] = "drain"]
  BY DEF TypeOK
<1>2. abb!BarrierTypeOK'
  BY GangAssumption DEF TypeOK, abb!BarrierTypeOK
<1>3. drains = 0 /\ 0 < Num
  BY <1>1, GangAssumption DEF PlacesOK, Draining
<1> QED
  BY <1>1, <1>2, <1>3, MainIsThread, DestroyKeepsInv, GangAssumption

LEMMA DrainWakeKeepsInv ==
  ASSUME Inv, DrainWake
  PROVE  Inv'
<1> USE DEF Inv, DrainWake, Goto, At
<1>1. pc \in [Thread -> PcValues] /\ pc[Main] = "drain" /\ pc' = [pc EXCEPT ![Main] = "join"]
  BY DEF TypeOK
<1>2. abb!BarrierTypeOK' /\ abbPc'[Main] = "out"
  BY MainIsThread DEF TypeOK, abb!BarrierTypeOK, abb!BpcValues, abb!WakeAll
<1>3. \A u \in Worker : abbPc'[u] = "out" <=> abbPc[u] = "out"
  BY MainIsThread DEF abb!WakeAll
<1> QED
  BY <1>1, <1>2, <1>3, MainIsThread, DestroyKeepsInv DEF TypeOK

LEMMA DrainCheckKeepsInv ==
  ASSUME Inv, DrainCheck
  PROVE  Inv'
<1> USE DEF Inv, DrainCheck, Goto, At
<1>1. /\ pc \in [Thread -> PcValues] /\ pc[Main] = "drain"
      /\ drains \in 0 .. Num /\ drains < Num /\ drains' = drains + 1
  BY DEF TypeOK, PlacesOK, Draining
<1>2. drains' \in 0 .. Num
  BY <1>1, GangAssumption
<1>3. \/ pc' = [pc EXCEPT ![Main] = "join"]
      \/ pc' = [pc EXCEPT ![Main] = "drain"] /\ drains' # Num
  OBVIOUS
<1>4. abb!BarrierTypeOK' /\ abbPc'[Main] = "out"
  BY MainIsThread DEF TypeOK, abb!BarrierTypeOK, abb!BpcValues
<1>5. \A u \in Worker : abbPc'[u] = "out" <=> abbPc[u] = "out"
  BY MainIsThread DEF TypeOK, abb!BarrierTypeOK
<1>6. pc'[Main] = "drain" => drains' < Num
  BY <1>1, <1>2, <1>3, MainIsThread, GangAssumption
<1> QED
  BY <1>1, <1>2, <1>3, <1>4, <1>5, <1>6, MainIsThread, DestroyKeepsInv

LEMMA JoinKeepsInv ==
  ASSUME Inv, Join
  PROVE  Inv'
<1> USE DEF Inv, Join, Goto, At
<1>1. pc \in [Thread -> PcValues] /\ pc[Main] = "join" /\ pc' = [pc EXCEPT ![Main] = "done"]
  BY DEF TypeOK
<1>2. abb!BarrierTypeOK' /\ abbPc' = abbPc
  BY AbbFrame DEF TypeOK, abbVars
<1>3. abbPc[Main] = "out"
  BY <1>1, MainIsThread DEF PlacesOK
<1> QED
  BY <1>1, <1>2, <1>3, MainIsThread, DestroyKeepsInv DEF TypeOK

-----------------------------------------------------------------------------
(* The barrier that ends a job. *)

(* Nobody enters abb2 but the threads it waits for. *)
LEMMA Abb2Caller ==
  ASSUME TypeOK, JobsOK, NEW t \in Thread, pc[t] = "abb2", abb2Pc[t] = "out"
  PROVE  Open /\ t \in Members
<1> USE DEF JobsOK
<1>1. ~abb2!Released(t)
  BY DEF abb2!Released, abb2!Waiting
<1>2. Open /\ t < flag.n
  BY <1>1 DEF ThreadOK
<1>3. flag.n = abb2Total
  <2>1. flag.gen # -1
    BY <1>2, RoundBound DEF Open
  <2>2. flag # Unset
    BY <2>1 DEF Unset
  <2> QED
    BY <1>2, <2>2 DEF RoundsOK, Open, Renewed
<1> QED
  BY <1>2, <1>3, GangAssumption DEF Members, Thread, TypeOK, abb2!BarrierTypeOK

LEMMA Abb2MoveKeepsInv ==
  ASSUME Inv, NEW t \in Thread, abb2!Wait(t) \/ abb2!Interrupt(t),
         pc[t] = "abb2",
         pc' = IF abb2Pc'[t] = "out" THEN [pc EXCEPT ![t] = AfterRun(t)] ELSE pc,
         UNCHANGED <<abbVars, flag, tasks, shutdown, lgen, n, drains, history>>
  PROVE  Inv'
<1> USE DEF Inv, history
<1>1. /\ pc \in [Thread -> PcValues]
      /\ \/ pc' = pc /\ abb2Pc'[t] # "out"
         \/ abb2Pc'[t] = "out" /\ t = Main /\ pc' = [pc EXCEPT ![t] = "return"]
         \/ abb2Pc'[t] = "out" /\ t \in Worker /\ pc' = [pc EXCEPT ![t] = "abb"]
  BY MainIsThread DEF TypeOK, AfterRun
<1>2. /\ abb2!BarrierTypeOK' /\ abb2Total' = abb2Total
      /\ \A u \in Thread \ {t} : abb2Pc'[u] = "out" <=> abb2Pc[u] = "out"
  BY Abb2Types DEF TypeOK
<1>3. /\ Draining' <=> Draining
      /\ pc'[Main] = "reawaited" <=> pc[Main] = "reawaited"
  BY <1>1, MainIsThread DEF Draining
<1>4. /\ abb!BarrierTypeOK' /\ AbbOK'
      /\ \A u : abb!Released(u)' <=> abb!Released(u)
  BY <1>3, AbbFrame DEF TypeOK, AbbOK
<1>5. TypeOK'
  BY <1>1, <1>2, <1>4 DEF TypeOK, PcValues
<1>6. PlacesOK'
  BY <1>1, <1>2, MainIsThread DEF PlacesOK, Draining, abbVars
<1>7. abbPc[t] = "out"
  BY <1>1, MainIsThread DEF PlacesOK
<1>8. /\ Renewed' <=> Renewed
      /\ \A u \in Thread : Coming(u)' => Coming(u)
  <2>1. ~abb!Released(t)
    BY <1>7 DEF abb!Released, abb!Waiting
  <2> QED
    BY <1>1, <1>4, <2>1, MainIsThread DEF Renewed, Coming
<1>9. LapsOK'
  BY <1>3, <1>8, <1>1, MainIsThread DEF LapsOK, abbVars
<1> SUFFICES ASSUME TypeOK, PlacesOK, AbbOK, LapsOK, JobsOK PROVE JobsOK'
  BY <1>4, <1>5, <1>6, <1>9, InvNext
<1> HIDE DEF Inv
<1> USE DEF JobsOK
<1>10. Members' = Members /\ Members \in SUBSET Thread
  <2>1. abb2Total \in 0 .. Num
    BY GangAssumption DEF TypeOK, Abb2OK, abb2!BarrierTypeOK
  <2> QED
    BY <1>2, <2>1, Parts DEF Members
<1>11. abb2Pc[t] = "out" => t \in Members
  BY Abb2Caller
<1>12. CASE pc[Main] = "reawaited"
  <2>1. Renewed /\ ~Open /\ abb2Pc[t] # "out"
    BY <1>12, Abb2Caller DEF Renewed, Open
  <2>2. abb2!BarrierTypeOK /\ abb2!StateOK(Members)
    BY <1>12 DEF TypeOK, Abb2OK
  <2>3. /\ abb2!StateOK(Members)'
        /\ UNCHANGED abb2Generation
        /\ \A u \in Thread : abb2Pc'[u] # "out" => abb2!Released(u)'
    BY <1>10, <2>1, <2>2, Abb2Leaving, Abb2Quiet
  <2>4. Abb2OK'
    BY <1>2, <1>3, <1>10, <1>12, <2>3 DEF Abb2OK
  <2>5. ~Open' /\ Renewed' /\ pc'[Main] = "reawaited" /\ t # Main
    BY <1>1, <1>3, <1>8, <1>12, <2>1 DEF Open
  <2>6. RoundsOK'
    BY <1>2, <1>3, <2>1, <2>3, <2>5 DEF RoundsOK, abbVars
  <2>7. SubmitOK'
    BY <1>2, <1>12, <2>1, <2>5 DEF SubmitOK, Closing, abbVars
  <2>8. \A u \in Thread : pc'[u] = "abb2" => abb2Pc'[u] # "out"
    <3> SUFFICES ASSUME NEW u \in Thread, pc'[u] = "abb2", abb2Pc'[u] = "out" PROVE FALSE
      OBVIOUS
    <3>1. u # t /\ pc[u] = "abb2"
      BY <1>1
    <3>2. abb2Pc[u] = "out"
      BY <1>2, <3>1
    <3> QED
      BY <2>1, <3>1, <3>2, Abb2Caller
  <2>9. \A u \in Thread : ThreadOK(u)'
    BY <1>1, <1>3, <1>8, <2>1, <2>3, <2>5, <2>8 DEF ThreadOK, abbVars
  <2> QED
    BY <2>4, <2>6, <2>7, <2>9
<1>13. CASE pc[Main] # "reawaited"
  <2>1. abb2!BarrierInv(Members)
    BY <1>13 DEF Abb2OK
  <2>2. abb2!BarrierInv(Members)'
    BY <1>10, <1>11, <2>1, RoundBound, Abb2Step
  <2>3. Abb2OK'
    BY <1>2, <1>3, <1>10, <1>13, <2>2 DEF Abb2OK
  <2>4. CASE /\ abb2Generation' = abb2Generation
             /\ abb2Pc'[t] = "out" => abb2!Released(t)
             /\ \A u \in Thread : abb2Pc'[u] # "out" =>
                  (abb2!Released(u)' <=> abb2!Released(u))
    <3>1. Open' <=> Open
      BY <1>8, <2>4 DEF Open
    <3>2. pc' = pc \/ ~Open
      BY <1>1, <2>4 DEF ThreadOK
    <3>3. RoundsOK'
      BY <1>1, <1>2, <1>3, <1>8, <2>4, <3>1, MainIsThread DEF RoundsOK, abbVars
    <3>4. SubmitOK'
      BY <1>1, <1>2, <1>8, <1>13, <3>1, <3>2, MainIsThread DEF SubmitOK, Closing, abbVars
    <3>5. \A u \in Thread : pc'[u] = "abb2" =>
            pc[u] = "abb2" /\ (abb2!Released(u)' <=> abb2!Released(u))
      <4> SUFFICES ASSUME NEW u \in Thread, pc'[u] = "abb2"
                   PROVE  pc[u] = "abb2" /\ (abb2!Released(u)' <=> abb2!Released(u))
        OBVIOUS
      <4>1. pc[u] = "abb2"
        BY <1>1, MainIsThread
      <4>2. CASE abb2Pc'[u] # "out"
        BY <2>4, <4>1, <4>2
      <4>3. CASE abb2Pc'[u] = "out"
        <5>1. u # t
          BY <1>1, <4>3, MainIsThread
        <5>2. abb2Pc[u] = "out"
          BY <1>2, <4>3, <5>1
        <5>3. ~abb2!Released(u) /\ ~abb2!Released(u)'
          BY <4>3, <5>2 DEF abb2!Released, abb2!Waiting
        <5> QED
          BY <4>1, <5>3
      <4> QED
        BY <4>2, <4>3
    <3>6. \A u \in Thread : ThreadOK(u)'
      BY <1>1, <1>3, <1>8, <3>1, <3>5 DEF ThreadOK, abbVars
    <3> QED
      BY <2>3, <3>3, <3>4, <3>6
  <2>5. CASE /\ abb2Generation' = abb2Generation + 1
             /\ t \in Members /\ abb2Pc'[t] # "out"
             /\ \A u \in Members : abb2Pc[u] # "out" /\ ~abb2!Released(u)
             /\ \A u \in Thread : abb2Pc'[u] # "out" => abb2!Released(u)'
    <3>1. pc' = pc /\ \A u \in Members : pc[u] = "abb2"
      BY <1>1, <1>10, <2>5 DEF PlacesOK
    <3>2. Open
      BY <1>10, <2>5, <3>1 DEF ThreadOK
    <3>3. /\ flag # Unset /\ n > 1 /\ flag.n = n /\ Members = 0 .. n - 1
          /\ ~Renewed /\ pc[Main] # "retotal"
      <4>1. n > 1 /\ flag.n = n /\ ~Renewed /\ pc[Main] # "retotal"
        BY <3>2 DEF SubmitOK, Open, Renewed
      <4>2. flag.gen # -1
        BY <3>2, RoundBound DEF Open
      <4>3. flag # Unset
        BY <4>2 DEF Unset
      <4>4. flag.n = abb2Total
        BY <4>1, <4>3 DEF RoundsOK
      <4> QED
        BY <4>1, <4>3, <4>4 DEF Members
    <3>4. Main \in Members /\ pc[Main] = "abb2"
      BY <3>1, <3>3, GangAssumption DEF TypeOK, Main
    <3>5. flag.gen = abb2Generation' /\ ~Open'
      BY <2>5, <3>2, RoundBound DEF Open
    <3>6. \A u \in Members : finished[u] = 1
      BY <1>10, <3>1, <3>2 DEF ThreadOK
    <3>7. RoundsOK'
      BY <1>2, <1>3, <1>8, <3>1, <3>3, <3>5 DEF RoundsOK, abbVars
    <3>8. SubmitOK'
      BY <1>8, <3>1, <3>3, <3>4, <3>5, <3>6 DEF SubmitOK, Closing, abbVars
    <3>9. \A u \in Thread : u \notin Members => u >= flag.n /\ ~(u < n)
      BY <3>3, GangAssumption DEF Thread, TypeOK
    <3>10. ASSUME NEW u \in Thread
           PROVE  ThreadOK(u)'
      <4>1. CASE u \in Members
        <5>1. pc'[u] = "abb2" /\ abb2Pc'[u] # "out"
          BY <1>2, <2>5, <3>1, <4>1
        <5> QED
          BY <2>5, <3>5, <5>1 DEF ThreadOK, Coming
      <4>2. CASE u \notin Members
        <5>1. pc[u] # "abb2" /\ pc[u] \notin {"task", "run"}
          BY <3>2, <3>3, <3>9, <4>2 DEF ThreadOK
        <5> QED
          BY <1>3, <1>8, <3>1, <3>5, <3>9, <4>2, <5>1 DEF ThreadOK, abbVars
      <4> QED
        BY <4>1, <4>2
    <3> QED
      BY <2>3, <3>7, <3>8, <3>10
  <2> QED
    BY <1>10, <1>11, <2>1, <2>4, <2>5, RoundBound, Abb2Step
<1> QED
  BY <1>12, <1>13

-----------------------------------------------------------------------------
(* Every step keeps the invariant. *)

LEMMA InterruptKeepsInv ==
  ASSUME Inv, NEW t \in Thread, Interrupt(t)
  PROVE  Inv'
<1>1. abbPc \in [Thread -> abb!BpcValues] /\ abb2Pc \in [Thread -> abb2!BpcValues]
  BY DEF Inv, TypeOK, abb!BarrierTypeOK, abb2!BarrierTypeOK
<1>2. CASE abb!Interrupt(t) /\ UNCHANGED abb2Vars
  <2>1. abbPc[t] # "out" /\ abbPc'[t] # "out"
    BY <1>1, <1>2 DEF abb!Interrupt, abb!Goto
  <2>2. pc[t] = "abb" \/ (t = Main /\ pc[t] = "drain")
    BY <2>1 DEF Inv, PlacesOK
  <2> QED
    BY <1>2, <2>1, <2>2, AbbMoveKeepsInv DEF Interrupt
<1>3. CASE abb2!Interrupt(t) /\ UNCHANGED abbVars
  <2>1. abb2Pc[t] # "out" /\ abb2Pc'[t] # "out"
    BY <1>1, <1>3 DEF abb2!Interrupt, abb2!Goto
  <2>2. pc[t] = "abb2"
    BY <2>1 DEF Inv, PlacesOK
  <2> QED
    BY <1>3, <2>1, <2>2, Abb2MoveKeepsInv DEF Interrupt
<1> QED
  BY <1>2, <1>3 DEF Interrupt

LEMMA RunKeepsInv ==
  ASSUME Inv, NEW t \in Thread, Run(t)
  PROVE  Inv'
<1>1. CASE WaitAbb(t)
  BY <1>1, AbbMoveKeepsInv DEF WaitAbb, At, Goto
<1>2. CASE WaitAbb2(t)
  BY <1>2, Abb2MoveKeepsInv DEF WaitAbb2, At, Goto
<1>3. CASE ~WaitAbb(t) /\ ~WaitAbb2(t)
  BY <1>3, TestShutdownKeepsInv, LoadGenKeepsInv, LoadFlagKeepsInv,
     StartTaskKeepsInv, FinishTaskKeepsInv, ThrowKeepsInv DEF Run
<1> QED
  BY <1>1, <1>2, <1>3

LEMMA DrainKeepsInv ==
  ASSUME Inv, Drain
  PROVE  Inv'
<1>1. abb!Wait(Main) /\ pc[Main] = "drain"
  BY DEF Drain, At, abb!Wait, abb!WaitEnd
<1> QED
  BY <1>1, MainIsThread, AbbMoveKeepsInv DEF Drain

LEMMA NextKeepsInv == Inv /\ [Next]_vars => Inv'
<1> SUFFICES ASSUME Inv, [Next]_vars PROVE Inv'
  OBVIOUS
<1>1. CASE \E k \in 1 .. Num : Submit(k)
  BY <1>1, SubmitKeepsInv
<1>2. CASE Close \/ Return
  BY <1>2, ReturnKeepsInv
<1>3. CASE Reinit
  BY <1>3, StoreFlagKeepsInv, StoreTotalKeepsInv, StoreAwaitedKeepsInv DEF Reinit
<1>4. CASE \E t \in Thread : Run(t)
  BY <1>4, RunKeepsInv
<1>5. CASE Destroy
  BY <1>5, SetShutdownKeepsInv, SetTotalKeepsInv, DrainKeepsInv, DrainWakeKeepsInv,
     DrainCheckKeepsInv, JoinKeepsInv DEF Destroy
<1>6. CASE \E t \in Thread : Interrupt(t)
  BY <1>6, InterruptKeepsInv
<1>7. CASE UNCHANGED vars
  <2> USE <1>7 DEF vars, history
  <2>1. UNCHANGED <<abbVars, abb2Vars, flag, tasks, shutdown, pc, lgen, n, drains,
                    job, started, finished>>
    OBVIOUS
  <2>2. /\ abb!BarrierTypeOK' /\ abb2!BarrierTypeOK'
        /\ AbbOK' /\ (Abb2OK => Abb2OK')
        /\ \A t : (abb!Released(t)' <=> abb!Released(t))
                 /\ (abb2!Released(t)' <=> abb2!Released(t))
    BY <2>1, Outside DEF Draining
  <2>3. TypeOK' /\ PlacesOK'
    BY <2>1, <2>2 DEF Inv, TypeOK, PlacesOK, Draining, abbVars, abb2Vars
  <2>4. (Renewed' <=> Renewed) /\ (Open' <=> Open) /\ \A t : Coming(t)' <=> Coming(t)
    BY <2>1, <2>2 DEF Renewed, Open, Coming, abb2Vars
  <2>5. LapsOK'
    BY <2>1, <2>4 DEF Inv, LapsOK, Draining, abbVars
  <2> SUFFICES ASSUME JobsOK PROVE JobsOK'
    BY <2>1, <2>2, <2>3, <2>5, InvNext DEF Inv
  <2>6. RoundsOK' /\ SubmitOK'
    BY <2>1, <2>4 DEF JobsOK, RoundsOK, SubmitOK, Closing, Draining, abbVars, abb2Vars
  <2>7. \A t \in Thread : ThreadOK(t)'
    BY <2>1, <2>2, <2>4 DEF JobsOK, ThreadOK, Draining, abbVars
  <2> QED
    BY <2>2, <2>6, <2>7 DEF JobsOK
<1> QED
  BY <1>1, <1>2, <1>3, <1>4, <1>5, <1>6, <1>7, MainIsThread
     DEF Next, MainStep, Terminated

LEMMA InitInv == Init => Inv
<1> SUFFICES ASSUME Init PROVE Inv
  OBVIOUS
<1> USE GangAssumption, MainIsThread DEF Init
<1>1. Num \in 0 .. UIntMax /\ Num \in 0 .. Num /\ 0 \in 0 .. GenMod - 1 /\ -1 \in -1 .. GenMod - 1
      /\ 0 \in 0 .. MaxSubmits /\ 0 \in 0 .. Num
  OBVIOUS
<1>2. Thread = 0 .. Num - 1 /\ Thread # {} /\ Cardinality(Thread) = Num /\ Thread \in SUBSET Thread
  BY Parts DEF Thread
<1>3. abb!BarrierTypeOK /\ abb2!BarrierTypeOK
  BY <1>1 DEF abb!BarrierInit, abb2!BarrierInit, abb!BarrierTypeOK, abb2!BarrierTypeOK,
              abb!BpcValues, abb2!BpcValues
<1>4. TypeOK
  <2>1. flag \in [gen : -1 .. GenMod - 1, n : 0 .. BarWasLast - 1]
    BY <1>1 DEF Unset
  <2>2. pc \in [Thread -> PcValues]
    BY DEF PcValues
  <2>3. protocol \in Protocols
    BY DEF Protocols
  <2> QED
    BY <1>1, <1>3, <2>1, <2>2, <2>3 DEF TypeOK
<1>5. \A t \in Thread : abbPc[t] = "out" /\ abb2Pc[t] = "out"
  BY DEF abb!BarrierInit, abb2!BarrierInit
<1>6. \A t \in Thread : ~abb!Released(t) /\ ~abb2!Released(t)
  BY <1>5 DEF abb!Released, abb!Waiting, abb2!Released, abb2!Waiting
<1>7. PlacesOK /\ ~Draining /\ ~Renewed /\ ~Open
  BY <1>5 DEF PlacesOK, Draining, Renewed, Open, Unset, abb2!BarrierInit
<1>8. abb!BarrierInv(Thread)
  <2>1. abb!Missing(Thread) = Thread
    BY <1>5 DEF abb!Missing
  <2>2. abbTotal = Num /\ abbAwaited = Num /\ abbGeneration = 0
        /\ \A t \in Thread : abbGen[t] = -1
    BY DEF abb!BarrierInit
  <2>3. abb!StateOK(Thread) /\ abb!LeaderOK(Thread)
    BY <1>5, <2>2 DEF abb!StateOK, abb!LeaderOK, abb!Waiting, abb!Publishing
  <2>4. abb!Cardinality(Thread) = Num
    BY <1>2, SameSets
  <2>5. abb!CountOK(Thread)
    BY <1>2, <2>1, <2>2, <2>4 DEF abb!CountOK
  <2> QED
    BY <1>3, <2>2, <2>3, <2>4, <2>5 DEF abb!BarrierInv
<1>9. abb2!BarrierInv(Thread) /\ Members = Thread /\ abb2Total = Num
  <2>1. abb2!Missing(Thread) = Thread
    BY <1>5 DEF abb2!Missing
  <2>2. abb2Total = Num /\ abb2Awaited = Num /\ abb2Generation = 0
        /\ \A t \in Thread : abb2Gen[t] = -1
    BY DEF abb2!BarrierInit
  <2>3. abb2!StateOK(Thread) /\ abb2!LeaderOK(Thread)
    BY <1>5, <2>2 DEF abb2!StateOK, abb2!LeaderOK, abb2!Waiting, abb2!Publishing
  <2>4. abb2!Cardinality(Thread) = Num
    BY <1>2, SameSets
  <2>5. abb2!CountOK(Thread)
    BY <1>2, <2>1, <2>2, <2>4 DEF abb2!CountOK
  <2>6. abb2!BarrierInv(Thread)
    BY <1>3, <2>2, <2>3, <2>4, <2>5 DEF abb2!BarrierInv
  <2> QED
    BY <1>2, <2>2, <2>6 DEF Members
<1>10. RoundsOK /\ SubmitOK
  BY <1>7 DEF RoundsOK, SubmitOK, Unset, abb!BarrierInit, abb2!BarrierInit
<1>11. \A t \in Thread : ThreadOK(t)
  BY <1>6 DEF ThreadOK, Coming
<1>12. LapsOK
  BY <1>7 DEF LapsOK, abb!BarrierInit
<1> QED
  BY <1>4, <1>7, <1>8, <1>9, <1>10, <1>11, <1>12 DEF Inv, JobsOK, AbbOK, Abb2OK

(* The invariant, in every reachable state: abb remains a barrier; and     *)
(* where the submitter is, what abb and abb2 have let through and what     *)
(* flag says agree, and with them where every thread can be and what it    *)
(* has done of the job, also after the submitter's part threw, as long as  *)
(* the caller does not submit again.                                       *)
THEOREM GangSafety == Spec => []Inv
BY InitInv, NextKeepsInv, PTL DEF Spec

-----------------------------------------------------------------------------
(* The properties that follow. *)

(* Every variable keeps its type: neither generation reaches its last      *)
(* value, no counter leaves its word.                                      *)
THEOREM GangTypes == Spec => []TypeOK
<1>1. Inv => TypeOK
  BY DEF Inv
<1> QED
  BY <1>1, GangSafety, PTL

(* submit never frees a job that a thread is using, or is about to use,    *)
(* and no part runs that the job does not have: also while the workers     *)
(* finish a job that an exception took the submitter out of, whatever the  *)
(* caller does about it short of submitting again.                         *)
THEOREM GangNoStaleTask == Spec => []NoStaleTask
<1>1. Inv => NoStaleTask
  <2> SUFFICES ASSUME Inv, protocol # "broken" PROVE NoStaleTask
    BY DEF NoStaleTask
  <2>1. SubmitOK /\ \A t \in Thread : ThreadOK(t)
    BY DEF Inv, JobsOK
  <2>2. \A t \in Thread : t \in Int /\ n \in Int
    BY GangAssumption DEF Inv, TypeOK, Thread
  <2>3. ~Undefined
    BY <2>1, <2>2 DEF ThreadOK, Undefined, At
  <2>4. pc[Main] = "idle" /\ protocol = "kept" => \A t \in Worker : ~Executing(t)
    BY <2>1, MainIsThread DEF SubmitOK, ThreadOK, Executing
  <2> QED
    BY <2>3, <2>4 DEF NoStaleTask
<1> QED
  BY <1>1, GangSafety, PTL

(* No thread tests flag before it has been stored once. *)
THEOREM GangFlagInitialised == Spec => []FlagInitialised
<1>1. Inv => FlagInitialised
  BY DEF Inv, TypeOK, Protocols, JobsOK, ThreadOK, Coming, FlagInitialised
<1> QED
  BY <1>1, GangSafety, PTL

LEMMA WakeStep ==
  ASSUME Inv, WakeOK, NEW t \in Thread, abb2!Wait(t) \/ abb2!Interrupt(t)
  PROVE  WakeOK'
<1>1. B!BarrierTypeOK /\ (B!Wait(t) \/ B!Interrupt(t))
  BY SameNow, SameAbb2 DEF Inv, TypeOK
<1>2. B!SleepersOK
  BY DEF WakeOK, B!SleepersOK, abb2!SleepersOK
<1>3. abb2Total > 1 \/ \A u \in Thread : u = t
  BY DEF WakeOK, Thread
<1>4. B!SleepersOK'
  BY <1>1, <1>2, <1>3, BarriersAssumption, B!SleepersKept
<1>5. abb2!SleepersOK'
  BY <1>4 DEF B!SleepersOK, abb2!SleepersOK
<1>6. abb2Total' = abb2Total
  BY Abb2Types DEF Inv, TypeOK
<1> QED
  BY <1>5, <1>6 DEF WakeOK

LEMMA NextKeepsWake ==
  Inv /\ (protocol = "kept" => WakeOK) /\ [Next]_vars => (protocol = "kept" => WakeOK)'
<1> SUFFICES ASSUME Inv, protocol = "kept", WakeOK, [Next]_vars PROVE WakeOK'
  <2>1. [Next]_vars /\ protocol' = "kept" => protocol = "kept"
    BY DEF Next, MainStep, Terminated, Submit, Close, Reinit, StoreFlag, StoreTotal,
           StoreAwaited, Run, WaitAbb, TestShutdown, LoadGen, LoadFlag, StartTask,
           FinishTask, Throw, WaitAbb2, Return, Destroy, SetShutdown, SetTotal, Drain,
           DrainWake, DrainCheck, Join, Interrupt, vars, history
  <2> QED
    BY <2>1
<1>1. CASE \E t \in Thread : abb2!Wait(t) \/ abb2!Interrupt(t)
  BY <1>1, WakeStep
<1>2. CASE StoreTotal
  <2>1. n > 1
    BY <1>2 DEF Inv, JobsOK, SubmitOK, Renewed, StoreTotal, At
  <2> QED
    BY <1>2, <2>1 DEF WakeOK, StoreTotal, abb2!SleepersOK
<1>3. CASE StoreAwaited
  BY <1>3 DEF WakeOK, StoreAwaited, abb2!SleepersOK
<1>4. CASE UNCHANGED abb2Vars
  BY <1>4 DEF WakeOK, abb2Vars, abb2!SleepersOK
<1> QED
  BY <1>1, <1>2, <1>3, <1>4, MainIsThread
     DEF Next, MainStep, Terminated, Submit, Close, Reinit, StoreFlag, Run, WaitAbb,
         TestShutdown, LoadGen, LoadFlag, StartTask, FinishTask, Throw, WaitAbb2,
         Return, Destroy, SetShutdown, SetTotal, Drain, DrainWake, DrainCheck, Join,
         Interrupt, vars

(* reinit replaces the counter of abb2 behind the backs of threads that    *)
(* have all been released: none of them will touch it, and none of them    *)
(* sleeps on without somebody who is about to wake it.  This holds while   *)
(* no exception has left the job to the other threads.                     *)
THEOREM GangReinit == Spec => []ReinitUndisturbed
<1>1. Init => WakeOK
  <2> SUFFICES ASSUME Init PROVE WakeOK
    OBVIOUS
  <2>1. abb2Total = Num /\ \A t \in Thread : abb2Pc[t] = "out"
    BY DEF Init, abb2!BarrierInit
  <2> QED
    BY <2>1, GangAssumption DEF WakeOK, abb2!SleepersOK
<1>2. Inv /\ (protocol = "kept" => WakeOK) => ReinitUndisturbed
  <2> SUFFICES ASSUME Inv, WakeOK, protocol = "kept",
                      pc[Main] \in {"idle", "reflag", "retotal", "reawaited"},
                      NEW t \in Thread
               PROVE  /\ abb2Pc[t] \notin {"dec", "reset", "read", "store"}
                      /\ abb2Pc[t] \in {"check", "wait", "sleep"} =>
                           abb2Gen[t] # abb2Generation
                      /\ abb2Pc[t] = "sleep" => \E u \in Thread : abb2Pc[u] = "wake"
    BY DEF ReinitUndisturbed
  <2>1. PlacesOK /\ JobsOK /\ ~Open
    BY DEF Inv, JobsOK, SubmitOK, Open, Renewed
  <2>2. abb2Pc[t] # "out" =>
          abb2Pc[t] = "wake" \/ (abb2Pc[t] \in {"check", "wait", "sleep"}
                                 /\ abb2Gen[t] # abb2Generation)
    BY <2>1, Abb2Leaving DEF abb2!Released, abb2!Waiting
  <2> QED
    BY <2>2 DEF WakeOK, abb2!SleepersOK
<1> QED
  BY <1>1, <1>2, NextKeepsWake, GangSafety, PTL DEF Spec

-----------------------------------------------------------------------------
(* Refinement *)

LEMMA FJRun ==
  ASSUME Inv, protocol # "broken", NEW t \in Thread, Run(t)
  PROVE  [FJ!Next]_(FJ!vars)
<1> USE DEF Goto, At
<1>1. pc \in [Thread -> PcValues] /\ JobsOK /\ protocol \in Protocols
  BY DEF Inv, TypeOK
<1>2. pc[t] \in {"task", "run"} => Status # "idle"
  <2> SUFFICES ASSUME pc[t] \in {"task", "run"}, Status = "idle" PROVE FALSE
    OBVIOUS
  <2>1. pc[Main] = "idle" /\ protocol = "kept"
    BY DEF Status
  <2> QED
    BY <1>1, <2>1 DEF JobsOK, SubmitOK, ThreadOK
<1>3. CASE StartTask(t)
  <2>1. started[t] = 0 /\ t \in 0 .. n - 1 /\ UNCHANGED <<n, finished>>
    <3>1. pc[t] = "task" /\ UNCHANGED <<n, finished>>
      BY <1>3 DEF StartTask
    <3>2. ThreadOK(t)
      BY <1>1 DEF JobsOK
    <3>3. started[t] = 0 /\ t < n
      BY <3>1, <3>2 DEF ThreadOK
    <3>4. n \in Int /\ t \in Int /\ t >= 0
      BY GangAssumption DEF Inv, TypeOK, Thread
    <3> QED
      BY <3>1, <3>3, <3>4
  <2>2. started' = [started EXCEPT ![t] = 1]
    BY <1>3, <2>1 DEF StartTask, Inv, TypeOK
  <2>3. Status' = Status
    BY <1>1, <1>3, MainIsThread DEF StartTask, Status, Closing
  <2> QED
    BY <1>2, <1>3, <2>1, <2>2, <2>3 DEF StartTask, FJ!Next, FJ!Start
<1>4. CASE FinishTask(t)
  <2>1. started[t] = 1 /\ finished[t] = 0 /\ UNCHANGED <<n, started>>
    <3>1. pc[t] = "run" /\ UNCHANGED <<n, started>>
      BY <1>4 DEF FinishTask
    <3>2. ThreadOK(t)
      BY <1>1 DEF JobsOK
    <3> QED
      BY <3>1, <3>2 DEF ThreadOK
  <2>2. finished' = [finished EXCEPT ![t] = 1]
    BY <1>4, <2>1 DEF FinishTask, Inv, TypeOK
  <2>3. Status' = Status
    BY <1>1, <1>4, MainIsThread DEF FinishTask, Status, Closing
  <2> QED
    BY <1>2, <1>4, <2>1, <2>2, <2>3 DEF FinishTask, FJ!Next, FJ!Finish
<1>5. CASE Throw(t) /\ t = Main
  <2>1. started[0] = 1 /\ finished[0] = 0 /\ UNCHANGED <<n, started, finished>>
    <3>1. pc[t] = "run" /\ UNCHANGED <<n, started, finished>>
      BY <1>5 DEF Throw
    <3>2. ThreadOK(t)
      BY <1>1 DEF JobsOK
    <3> QED
      BY <1>5, <3>1, <3>2 DEF ThreadOK, Main
  <2>2. pc[Main] = "run" /\ pc'[Main] = "idle"
    BY <1>1, <1>5, MainIsThread DEF Throw
  <2>3. n \in Nat /\ n >= 1 /\ protocol = "kept"
    BY <1>1, <1>5, <2>2, GangAssumption
       DEF Inv, TypeOK, Protocols, JobsOK, SubmitOK, ThreadOK, Closing, Main
  <2>4. Status = "busy" /\ Status' = IF n > 1 THEN "left" ELSE "idle"
    BY <1>5, <2>2, <2>3 DEF Throw, Leaving, Status, Closing
  <2>5. 0 .. n - 1 = {0} <=> ~(n > 1)
    <3>1. n > 1 => 1 \in 0 .. n - 1
      BY <2>3
    <3>2. ~(n > 1) => 0 .. n - 1 = {0}
      BY <2>3
    <3> QED
      BY <3>1, <3>2
  <2>6. FJ!Leave
    BY <2>1, <2>4, <2>5 DEF FJ!Leave
  <2> QED
    BY <2>6 DEF FJ!Next
<1>6. CASE ~StartTask(t) /\ ~FinishTask(t) /\ ~(Throw(t) /\ t = Main)
  <2>1. UNCHANGED <<n, started, finished, protocol>>
    BY <1>6 DEF Run, WaitAbb, TestShutdown, LoadGen, LoadFlag, Throw, Leaving, WaitAbb2,
                history
  <2>2. Status' = Status
    <3>1. CASE t # Main
      <4>1. pc'[Main] = pc[Main]
        BY <1>1, <1>6, <3>1, MainIsThread
           DEF Run, WaitAbb, TestShutdown, LoadGen, LoadFlag, Throw, WaitAbb2
      <4> QED
        BY <2>1, <4>1 DEF Status, Closing
    <3>2. CASE t = Main
      BY <1>1, <1>6, <2>1, <3>2, MainIsThread
         DEF Run, WaitAbb, TestShutdown, LoadGen, LoadFlag, AfterRun, WaitAbb2,
             Status, Closing
    <3> QED
      BY <3>1, <3>2
  <2> QED
    BY <2>1, <2>2 DEF FJ!vars
<1> QED
  BY <1>3, <1>4, <1>5, <1>6

LEMMA FJMain ==
  ASSUME Inv, protocol # "broken",
         (\E k \in 1 .. Num : Submit(k)) \/ Close \/ Reinit \/ Return \/ Destroy
  PROVE  [FJ!Next]_(FJ!vars)
<1> USE MainIsThread DEF Goto, At
<1>1. pc \in [Thread -> PcValues] /\ protocol \in {"kept", "left"} /\ JobsOK
  BY DEF Inv, TypeOK, Protocols
<1>2. ASSUME NEW k \in 1 .. Num, Submit(k)
      PROVE  FJ!Next
  <2>1. CASE protocol = "kept"
    <3>1. Status = "idle" /\ Status' = "busy"
      BY <1>1, <1>2, <2>1 DEF Submit, Status, Closing
    <3>2. 0 .. k - 1 \in SUBSET Thread
      <4>1. k \in 0 .. Num
        BY GangAssumption
      <4> QED
        BY <4>1, Parts
    <3>3. FJ!Submit(0 .. k - 1)
      BY <1>2, <3>1 DEF Submit, FJ!Submit, FJ!None
    <3> QED
      BY <3>2, <3>3 DEF FJ!Next
  <2>2. CASE protocol = "left"
    BY <1>2, <2>2 DEF Submit, Status, Closing, FJ!Next, FJ!Break
  <2> QED
    BY <1>1, <2>1, <2>2
<1>3. CASE Return
  <2>1. protocol = "kept"
    BY <1>1, <1>3 DEF Return, JobsOK, SubmitOK, Closing
  <2>2. Status = "busy" /\ Status' = "idle"
    BY <1>1, <1>3, <2>1 DEF Return, Status, Closing, history
  <2>3. \A t \in 0 .. n - 1 : finished[t] = 1
    BY <1>1, <1>3 DEF Return, JobsOK, SubmitOK
  <2> QED
    BY <1>3, <2>2, <2>3 DEF Return, history, FJ!Next, FJ!Return
<1>4. CASE Close
  <2>1. Status \in {"idle", "left"} /\ Status' = "closed"
    BY <1>1, <1>4 DEF Close, Status, Closing, history
  <2> QED
    BY <1>4, <2>1 DEF Close, history, FJ!Next, FJ!Close
<1>5. CASE Reinit \/ Destroy
  <2>1. UNCHANGED <<n, started, finished, protocol>>
    BY <1>5 DEF Reinit, StoreFlag, StoreTotal, StoreAwaited, Destroy, SetShutdown,
                SetTotal, Drain, DrainWake, DrainCheck, Join, history
  <2>2. Status' = Status
    BY <1>1, <1>5, <2>1 DEF Reinit, StoreFlag, StoreTotal, StoreAwaited, Destroy, SetShutdown,
                      SetTotal, Drain, DrainWake, DrainCheck, Join, Status, Closing
  <2> QED
    BY <2>1, <2>2 DEF FJ!vars
<1> QED
  BY <1>2, <1>3, <1>4, <1>5

(* Nothing is promised once the caller has submitted after an exception    *)
(* that left parts of the job behind.                                      *)
LEMMA FJBroken ==
  ASSUME protocol = "broken", [Next]_vars
  PROVE  [FJ!Next]_(FJ!vars)
<1>1. protocol' = "broken"
  BY DEF Next, MainStep, Terminated, Submit, Close, Reinit, StoreFlag, StoreTotal,
         StoreAwaited, Run, WaitAbb, TestShutdown, LoadGen, LoadFlag, StartTask,
         FinishTask, Throw, Leaving, WaitAbb2, Return, Destroy, SetShutdown, SetTotal,
         Drain, DrainWake, DrainCheck, Join, Interrupt, vars, history
<1> QED
  BY <1>1 DEF Status, FJ!Next, FJ!Anything

(* The gang implements the fork-join of module ForkJoin: every part of a   *)
(* job is run once, by the thread of its number, and submit returns when   *)
(* all of them have finished.  If the submitter's own part throws, the     *)
(* others still run theirs once, until the caller submits again.           *)
THEOREM GangRefinement == Spec => ImplementsForkJoin
<1>1. Init => FJ!Init
  BY MainIsThread DEF Init, FJ!Init, FJ!None, Status, Closing
<1>2. Inv /\ [Next]_vars => [FJ!Next]_(FJ!vars)
  <2> SUFFICES ASSUME Inv, protocol # "broken", [Next]_vars PROVE [FJ!Next]_(FJ!vars)
    BY FJBroken
  <2>1. CASE (\E k \in 1 .. Num : Submit(k)) \/ Close \/ Reinit \/ Return \/ Destroy
    BY <2>1, FJMain
  <2>2. CASE \E t \in Thread : Run(t)
    BY <2>2, FJRun
  <2>3. CASE (\E t \in Thread : Interrupt(t)) \/ UNCHANGED vars
    BY <2>3 DEF Interrupt, vars, history, FJ!vars, Status, Closing
  <2> QED
    BY <2>1, <2>2, <2>3, MainIsThread DEF Next, MainStep, Terminated
<1> QED
  BY <1>1, <1>2, GangSafety, PTL DEF Spec, ImplementsForkJoin, FJ!Spec
=============================================================================
