-------------------------- MODULE StopwatchProofs --------------------------
(***************************************************************************)
(* Theorems about AtomicStopwatch (module Stopwatch), for any number of    *)
(* threads, any thresholds and any clock below the lock bit.               *)
(***************************************************************************)
EXTENDS Stopwatch, TLAPS

USE DEF Time, Word, PcValues, Locked, Since, Workers

(* A sum below 2^64 does not wrap.                                         *)
LEMMA NoWrap ==
  ASSUME NEW n \in Nat \ {0}, NEW x \in 0 .. n - 1
  PROVE  x % n = x
BY SMT

(* The sum of a word and a threshold does not wrap, and a caller that goes *)
(* on to the exchange has seen an unlocked word, its period over.          *)
LEMMA SumExact ==
  ASSUME TypeOK, NEW t \in Thread, NEW w \in Word, Since(w) <= MaxTime,
         threshold[t] \in Thresholds
  PROVE  /\ Plus(w, threshold[t]) = w + threshold[t]
         /\ ~TooEarly(t, w) => ~Locked(w) /\ w + threshold[t] <= current_ns[t]
<1>1. /\ LockBit \in Nat /\ MaxTime \in Nat /\ threshold[t] \in Nat
      /\ MaxTime + threshold[t] < LockBit
  BY StopwatchAssumption
<1>2. w + threshold[t] \in 0 .. 2 * LockBit - 1
  BY <1>1
<1>3. Plus(w, threshold[t]) = w + threshold[t]
  <2> DEFINE n == 2 * LockBit
             x == w + threshold[t]
  <2>1. n \in Nat \ {0} /\ x \in 0 .. n - 1
    BY <1>1, <1>2
  <2>2. Plus(w, threshold[t]) = x % n
    BY DEF Plus
  <2> HIDE DEF n, x
  <2>3. x % n = x
    BY <2>1, NoWrap
  <2> QED
    BY <2>2, <2>3 DEF x
<1>4. current_ns[t] \in 0 .. MaxTime
  BY DEF TypeOK
<1> QED
  BY <1>1, <1>3, <1>4 DEF TooEarly

(* Masking out the lock bit leaves a time. *)
LEMMA SinceNat ==
  ASSUME NEW w \in Nat
  PROVE  Since(w) \in Nat
<1>1. LockBit \in Nat
  BY StopwatchAssumption
<1> QED
  BY <1>1

-----------------------------------------------------------------------------
(* Type correctness and what an exchange relies on. *)

LEMMA InitSafe == Init => Inv
BY StopwatchAssumption DEF Init, Inv, TypeOK, Held, Tested, Owned, OneWorker

(* A call of Consider keeps the types and establishes Tested.              *)
LEMMA ConsiderSafe ==
  ASSUME TypeOK, Tested, NEW t \in Thread, pc[t] \in {"load", "cas"}, Consider(t)
  PROVE  TypeOK' /\ Tested'
<1>1. /\ start_ns \in Word /\ Since(start_ns) <= MaxTime
      /\ threshold[t] \in Thresholds
  BY DEF TypeOK, Tested
<1>2. ~TooEarly(t, start_ns) =>
        ~Locked(start_ns) /\ start_ns + threshold[t] <= current_ns[t]
  BY <1>1, SumExact
<1>3. CASE TooEarly(t, start_ns)
  <2>1. Return(t) /\ UNCHANGED <<clock, start_ns, locks, protocol>>
    BY <1>3 DEF Consider
  <2>2. TypeOK'
    BY <2>1, StopwatchAssumption DEF TypeOK, Return, Goto
  <2>3. Tested'
    BY <2>1 DEF TypeOK, Tested, Return, Goto
  <2> QED
    BY <2>2, <2>3
<1>4. CASE ~TooEarly(t, start_ns)
  <2>1. /\ current_start_ns' = [current_start_ns EXCEPT ![t] = start_ns]
        /\ pc' = [pc EXCEPT ![t] = "cas"]
        /\ UNCHANGED <<deferred, threshold, current_ns, clock, start_ns, locks, protocol>>
    BY <1>4 DEF Consider, Goto
  <2>2. TypeOK'
    BY <2>1 DEF TypeOK
  <2>3. Tested'
    BY <1>1, <1>2, <1>4, <2>1 DEF TypeOK, Tested
  <2> QED
    BY <2>2, <2>3
<1> QED
  BY <1>3, <1>4

(* Locks are counted down by their holder alone. *)
LEMMA StepHeld ==
  ASSUME TypeOK, Held, [Next]_vars
  PROVE  Held'
<1>1. CASE UNCHANGED vars
  BY <1>1 DEF vars, Held
<1>2. CASE Tick
  BY <1>2 DEF Tick, local, Held
<1>3. ASSUME NEW t \in Thread, Attempt(t) \/ Restart(t) \/ StoreRestart(t)
      PROVE  Held'
  <2>1. CASE UNCHANGED locks /\ \E l \in {"idle", "load", "cas", "restart"} :
                                  pc' = [pc EXCEPT ![t] = l]
    BY <2>1 DEF TypeOK, Held
  <2>2. CASE locks' = [locks EXCEPT ![t] = 1] /\ pc' = [pc EXCEPT ![t] = "work"]
    BY <2>2 DEF TypeOK, Held
  <2> QED
    BY <1>3, <2>1, <2>2
       DEF Attempt, Call, LoadStart, ExchangeFails, Consider, Exchange,
           Restart, StoreRestart, Return, Goto
<1>4. ASSUME NEW t \in Thread, Release(t)
      PROVE  Held'
  <2>1. CASE Move(t)
    BY <2>1 DEF Move, TypeOK, Held
  <2>2. CASE Unlock(t)
    BY <2>2 DEF Unlock, Goto, TypeOK, Held
  <2>3. CASE StoreUnlock(t)
    BY <2>3 DEF StoreUnlock, Return, Goto, local, TypeOK, Held
  <2> QED
    BY <1>4, <2>1, <2>2, <2>3 DEF Release
<1> QED
  BY <1>1, <1>2, <1>3, <1>4 DEF Next

LEMMA StepSafe ==
  ASSUME TypeOK, Held, Tested, [Next]_vars
  PROVE  TypeOK' /\ Tested'
<1> USE StopwatchAssumption
<1>1. CASE Tick
  BY <1>1 DEF Tick, local, TypeOK, Tested
<1>2. ASSUME NEW t \in Thread, NEW d \in BOOLEAN, NEW s \in Thresholds, Call(t, d, s)
      PROVE  TypeOK' /\ Tested'
  <2>1. TypeOK'
    BY <1>2 DEF Call, Goto, TypeOK
  <2>2. Tested'
    BY <1>2 DEF Call, Goto, TypeOK, Tested
  <2> QED
    BY <2>1, <2>2
<1>3. ASSUME NEW t \in Thread, LoadStart(t)
      PROVE  TypeOK' /\ Tested'
  BY <1>3, ConsiderSafe DEF LoadStart
<1>4. ASSUME NEW t \in Thread, ExchangeFails(t)
      PROVE  TypeOK' /\ Tested'
  BY <1>4, ConsiderSafe DEF ExchangeFails
<1>5. ASSUME NEW t \in Thread, Exchange(t)
      PROVE  TypeOK' /\ Tested'
  <2>1. current_ns[t] \in 0 .. MaxTime
    BY DEF TypeOK
  <2>2. CASE deferred[t]
    <3>1. /\ start_ns' = current_ns[t] + LockBit
          /\ locks' = [locks EXCEPT ![t] = 1]
          /\ pc' = [pc EXCEPT ![t] = "work"]
          /\ UNCHANGED <<clock, deferred, threshold, current_ns, current_start_ns, protocol>>
      BY <1>5, <2>2 DEF Exchange, Goto, local
    <3>2. start_ns' \in Word' /\ Since(start_ns)' <= MaxTime
      BY <2>1, <3>1
    <3>3. TypeOK'
      BY <3>1, <3>2 DEF TypeOK
    <3>4. Tested'
      BY <3>1, <3>2 DEF TypeOK, Tested
    <3> QED
      BY <3>3, <3>4
  <2>3. CASE ~deferred[t]
    <3>1. start_ns' = current_ns[t] /\ Return(t) /\ UNCHANGED <<clock, locks, protocol>>
      BY <1>5, <2>3 DEF Exchange
    <3>2. start_ns' \in Word' /\ Since(start_ns)' <= MaxTime
      BY <2>1, <3>1
    <3>3. TypeOK'
      BY <3>1, <3>2 DEF TypeOK, Return, Goto
    <3>4. Tested'
      BY <3>1, <3>2 DEF TypeOK, Tested, Return, Goto
    <3> QED
      BY <3>3, <3>4
  <2> QED
    BY <2>2, <2>3
<1>6. ASSUME NEW t \in Thread, Move(t)
      PROVE  TypeOK' /\ Tested'
  BY <1>6 DEF Move, local, TypeOK, Tested
<1>7. ASSUME NEW t \in Thread, Unlock(t) \/ Restart(t)
      PROVE  TypeOK' /\ Tested'
  <2>1. /\ current_ns' = [current_ns EXCEPT ![t] = clock]
        /\ \E l \in {"unlock", "restart"} : pc' = [pc EXCEPT ![t] = l]
        /\ UNCHANGED <<clock, start_ns, deferred, threshold, current_start_ns, locks>>
        /\ protocol' \in {"kept", "broken"}
    BY <1>7 DEF Unlock, Restart, Goto, TypeOK
  <2>2. TypeOK'
    BY <2>1 DEF TypeOK
  <2>3. Tested'
    BY <2>1 DEF TypeOK, Tested
  <2> QED
    BY <2>2, <2>3
<1>8. ASSUME NEW t \in Thread, StoreUnlock(t) \/ StoreRestart(t)
      PROVE  TypeOK' /\ Tested'
  <2>1. current_ns[t] \in 0 .. MaxTime
    BY DEF TypeOK
  <2>2. /\ start_ns' = current_ns[t] /\ UNCHANGED <<clock, protocol>>
        /\ locks' \in [Thread -> 0 .. 2]
        /\ Return(t) \/ (Goto(t, "work") /\ UNCHANGED local)
    BY <1>8 DEF StoreUnlock, StoreRestart, TypeOK, Held
  <2>3. start_ns' \in Word' /\ Since(start_ns)' <= MaxTime
    BY <2>1, <2>2
  <2>4. TypeOK'
    <3>1. CASE Return(t)
      BY <2>2, <2>3, <3>1 DEF TypeOK, Return, Goto
    <3>2. CASE Goto(t, "work") /\ UNCHANGED local
      BY <2>2, <2>3, <3>2 DEF TypeOK, Goto, local
    <3> QED
      BY <2>2, <3>1, <3>2
  <2>5. Tested'
    BY <2>2, <2>3 DEF TypeOK, Tested, Return, Goto, local
  <2> QED
    BY <2>4, <2>5
<1>9. CASE UNCHANGED vars
  BY <1>9 DEF vars, TypeOK, Tested
<1> QED
  BY <1>1, <1>2, <1>3, <1>4, <1>5, <1>6, <1>7, <1>8, <1>9
     DEF Next, Attempt, Release

(* compareAndRestart and compareAndRestartDeferred test and replace in one *)
(* piece: whoever exchanges replaces an unlocked word whose period was     *)
(* over. Moves of Lock objects and calls of restart() do not disturb it.   *)
THEOREM ExchangesArePeriods == Spec => PeriodOver
<1> DEFINE Safe == TypeOK /\ Held /\ Tested
<1>1. Init => Safe
  BY InitSafe DEF Inv
<1>2. Safe /\ [Next]_vars => Safe'
  BY StepHeld, StepSafe
<1>3. Safe /\ [Next]_vars =>
        [\A t \in Thread :
           (/\ pc[t] = "cas" /\ pc'[t] # "cas"
            /\ pc'[t] = "work" \/ start_ns' # start_ns)
           => ~Locked(start_ns) /\ start_ns + threshold[t] <= current_ns[t]]_vars
  <2> SUFFICES ASSUME Safe, Next, NEW t \in Thread,
                      pc[t] = "cas", pc'[t] # "cas",
                      pc'[t] = "work" \/ start_ns' # start_ns
               PROVE  ~Locked(start_ns) /\ start_ns + threshold[t] <= current_ns[t]
    OBVIOUS
  <2>1. \/ UNCHANGED pc
        \/ \E u \in Thread : \E l \in PcValues : u # t /\ pc' = [pc EXCEPT ![u] = l]
        \/ Consider(t) \/ Exchange(t)
    BY DEF Next, Attempt, Release, Tick, Call, LoadStart, ExchangeFails, Consider,
           Exchange, Move, Unlock, StoreUnlock, Restart, StoreRestart, Return,
           Goto, local
  <2>2. ~UNCHANGED pc
    OBVIOUS
  <2>3. ~\E u \in Thread : \E l \in PcValues : u # t /\ pc' = [pc EXCEPT ![u] = l]
    BY DEF TypeOK
  <2>4. ~Consider(t)
    BY DEF Consider, Return, Goto, TypeOK
  <2>5. start_ns = current_start_ns[t]
    BY <2>1, <2>2, <2>3, <2>4 DEF Exchange
  <2> QED
    BY <2>5 DEF Tested
<1> QED
  BY <1>1, <1>2, <1>3, PTL DEF Spec, PeriodOver

-----------------------------------------------------------------------------
(* The owner of the timer. *)

(* A thread without a Lock that leaves the word alone disturbs nothing.    *)
LEMMA OwnedUndisturbed ==
  ASSUME TypeOK, Owned, NEW t \in Thread, t \notin Workers,
         NEW l \in {"idle", "load", "cas"}, pc' = [pc EXCEPT ![t] = l],
         UNCHANGED <<clock, start_ns, locks>>,
         \E n \in 0 .. clock : current_ns' = [current_ns EXCEPT ![t] = n]
  PROVE  Owned'
<1>1. Workers' = Workers
  BY DEF TypeOK
<1>2. /\ OneWorker' /\ (Locked(start_ns) <=> Workers # {})'
      /\ Since(start_ns)' <= clock'
  BY <1>1 DEF Owned, OneWorker
<1>3. ASSUME NEW u \in Thread
      PROVE  /\ pc'[u] # "restart"
             /\ locks'[u] = IF u \in Workers' THEN 1 ELSE 0
             /\ current_ns'[u] <= clock'
             /\ pc'[u] = "unlock" => Since(start_ns)' <= current_ns'[u]
  BY <1>1 DEF Owned, TypeOK
<1> QED
  BY <1>2, <1>3 DEF Owned

(* There is no way back. *)
LEMMA StepBroken ==
  ASSUME TypeOK, protocol = "broken", [Next]_vars
  PROVE  protocol' = "broken"
BY DEF TypeOK, Next, vars, Attempt, Release, Tick, Call, LoadStart, ExchangeFails,
       Consider, Exchange, Move, Unlock, StoreUnlock, Restart, StoreRestart

LEMMA StepOwned ==
  ASSUME Inv, protocol' = "kept", [Next]_vars
  PROVE  Owned'
<1>0. protocol = "kept" /\ Owned
  BY StepBroken DEF Inv, TypeOK
<1> USE <1>0, StopwatchAssumption DEF Inv
<1>1. CASE UNCHANGED vars
  BY <1>1 DEF vars, Owned, OneWorker
<1>2. CASE Tick
  BY <1>2 DEF Tick, local, Owned, OneWorker, TypeOK
<1>3. ASSUME NEW t \in Thread, NEW d \in BOOLEAN, NEW s \in Thresholds, Call(t, d, s)
      PROVE  Owned'
  <2>1. /\ t \notin Workers /\ clock \in 0 .. clock
        /\ pc' = [pc EXCEPT ![t] = "load"]
        /\ current_ns' = [current_ns EXCEPT ![t] = clock]
        /\ UNCHANGED <<clock, start_ns, locks>>
    BY <1>3 DEF Call, Goto, TypeOK
  <2> QED
    BY <2>1, OwnedUndisturbed
<1>4. ASSUME NEW t \in Thread, LoadStart(t) \/ ExchangeFails(t)
      PROVE  Owned'
  <2>1. /\ t \notin Workers /\ UNCHANGED <<clock, start_ns, locks>>
        /\ 0 \in 0 .. clock /\ current_ns[t] \in 0 .. clock
        /\ \E l \in {"idle", "cas"} : pc' = [pc EXCEPT ![t] = l]
        /\ \/ current_ns' = [current_ns EXCEPT ![t] = 0]
           \/ current_ns' = [current_ns EXCEPT ![t] = current_ns[t]]
    BY <1>4 DEF LoadStart, ExchangeFails, Consider, Return, Goto, TypeOK, Owned
  <2> QED
    BY <2>1, OwnedUndisturbed
<1>5. ASSUME NEW t \in Thread, Exchange(t)
      PROVE  Owned'
  <2>1. /\ ~Locked(start_ns) /\ Workers = {} /\ start_ns = current_start_ns[t]
        /\ current_ns[t] \in 0 .. MaxTime /\ current_ns[t] <= clock
    BY <1>5 DEF Exchange, Tested, Owned, TypeOK
  <2>2. CASE deferred[t]
    <3>1. /\ start_ns' = current_ns[t] + LockBit
          /\ locks' = [locks EXCEPT ![t] = 1]
          /\ pc' = [pc EXCEPT ![t] = "work"]
          /\ UNCHANGED <<clock, current_ns>>
      BY <1>5, <2>2 DEF Exchange, Goto, local
    <3>2. Workers' = {t} /\ Locked(start_ns)' /\ Since(start_ns)' <= clock'
      BY <2>1, <3>1 DEF TypeOK
    <3>3. \A u \in Thread : pc'[u] # "unlock" /\ pc'[u] # "restart"
      BY <2>1, <3>1 DEF TypeOK, Owned
    <3>4. \A u \in Thread : locks'[u] = IF u \in Workers' THEN 1 ELSE 0
      BY <2>1, <3>1, <3>2 DEF TypeOK, Owned
    <3> QED
      BY <3>1, <3>2, <3>3, <3>4 DEF Owned, OneWorker
  <2>3. CASE ~deferred[t]
    <3>1. /\ start_ns' = current_ns[t]
          /\ pc' = [pc EXCEPT ![t] = "idle"]
          /\ current_ns' = [current_ns EXCEPT ![t] = 0]
          /\ UNCHANGED <<clock, locks>>
      BY <1>5, <2>3 DEF Exchange, Return, Goto
    <3>2. Workers' = {} /\ ~Locked(start_ns)' /\ Since(start_ns)' <= clock'
      BY <2>1, <3>1 DEF TypeOK
    <3> QED
      BY <2>1, <3>1, <3>2 DEF Owned, OneWorker, TypeOK
  <2> QED
    BY <2>2, <2>3
<1>6. ASSUME NEW t \in Thread, Unlock(t)
      PROVE  Owned'
  <2>1. /\ current_ns' = [current_ns EXCEPT ![t] = clock]
        /\ pc' = [pc EXCEPT ![t] = "unlock"]
        /\ UNCHANGED <<clock, start_ns, locks>>
    BY <1>6 DEF Unlock, Goto
  <2>2. Workers' = Workers
    BY <1>6, <2>1 DEF Unlock, TypeOK
  <2> QED
    BY <2>1, <2>2 DEF Owned, OneWorker, TypeOK
<1>7. ASSUME NEW t \in Thread, StoreUnlock(t)
      PROVE  Owned'
  <2>1. /\ t \in Workers /\ locks[t] = 1 /\ Workers = {t}
        /\ current_ns[t] \in 0 .. MaxTime /\ current_ns[t] <= clock
    BY <1>7 DEF StoreUnlock, Owned, OneWorker, TypeOK
  <2>2. /\ start_ns' = current_ns[t]
        /\ locks' = [locks EXCEPT ![t] = 0]
        /\ pc' = [pc EXCEPT ![t] = "idle"]
        /\ current_ns' = [current_ns EXCEPT ![t] = 0]
        /\ UNCHANGED clock
    BY <1>7, <2>1 DEF StoreUnlock, Return, Goto, TypeOK
  <2>3. Workers' = {} /\ ~Locked(start_ns)' /\ Since(start_ns)' <= clock'
    BY <2>1, <2>2 DEF TypeOK
  <2> QED
    BY <2>1, <2>2, <2>3 DEF Owned, OneWorker, TypeOK
<1> QED
  BY <1>1, <1>2, <1>3, <1>4, <1>5, <1>6, <1>7
     DEF Next, Attempt, Release, Move, Restart, StoreRestart, Owned

(* The word is well-formed, and its lock bit is set exactly while one      *)
(* thread works, until a Lock is moved or a thread calls restart() beside  *)
(* the others.                                                             *)
THEOREM StopwatchInvariant == Spec => []Inv
<1>1. Init => Inv
  BY InitSafe
<1>2. Inv /\ [Next]_vars => Inv'
  BY StepHeld, StepSafe, StepOwned DEF Inv
<1> QED
  BY <1>1, <1>2, PTL DEF Spec

(* Until then the work under a Lock is done in one thread at a time.       *)
THEOREM OneWorkerAtATime == Spec => [](protocol = "kept" => OneWorker)
<1>1. Inv => (protocol = "kept" => OneWorker)
  BY DEF Inv, Owned
<1> QED
  BY <1>1, StopwatchInvariant, PTL

-----------------------------------------------------------------------------
(* The refinement of Timer. *)

LEMMA TimerStep ==
  ASSUME Inv, Inv', [Next]_vars
  PROVE  [T!Next]_T!vars
<1> USE StopwatchAssumption
<1>0. SUFFICES ASSUME protocol' = "kept", protocol = "kept"
               PROVE  [T!Next]_T!vars
  <2>1. CASE protocol' = "broken"
    <3>1. Since(start_ns)' \in 0 .. MaxTime
      <4>1. start_ns' \in Nat
        BY DEF Inv, TypeOK
      <4>2. Since(start_ns)' \in Nat
        BY <4>1, SinceNat
      <4>3. Since(start_ns)' <= MaxTime
        BY DEF Inv, Tested
      <4> QED
        BY <4>2, <4>3
    <3>2. Workers' \in SUBSET Thread
      OBVIOUS
    <3>3. T!Broken
      BY <2>1, <3>1, <3>2 DEF T!Broken
    <3> QED
      BY <3>3 DEF T!Next
  <2>2. CASE protocol = "broken"
    <3>1. protocol' = "broken"
      BY <2>2, StepBroken DEF Inv
    <3> QED
      BY <2>1, <3>1
  <2> QED
    BY <2>1, <2>2 DEF Inv, TypeOK
<1> USE <1>0 DEF Inv
<1>1. CASE UNCHANGED vars
  BY <1>1 DEF vars, T!vars
<1>2. CASE Tick
  BY <1>2 DEF Tick, local, T!vars
<1>3. ASSUME NEW t \in Thread, t \notin Workers,
             NEW l \in {"idle", "load", "cas"}, pc' = [pc EXCEPT ![t] = l],
             UNCHANGED start_ns
      PROVE  UNCHANGED T!vars
  <2>1. Workers' = Workers
    BY <1>3 DEF TypeOK
  <2> QED
    BY <1>3, <2>1 DEF T!vars
<1>4. ASSUME NEW t \in Thread,
             \/ \E d \in BOOLEAN, s \in Thresholds : Call(t, d, s)
             \/ LoadStart(t) \/ ExchangeFails(t)
      PROVE  UNCHANGED T!vars
  <2>1. /\ t \notin Workers /\ UNCHANGED start_ns
        /\ \E l \in {"idle", "load", "cas"} : pc' = [pc EXCEPT ![t] = l]
    BY <1>4 DEF Call, LoadStart, ExchangeFails, Consider, Return, Goto
  <2> QED
    BY <1>3, <2>1
<1>5. ASSUME NEW t \in Thread, Exchange(t)
      PROVE  T!Next
  <2>1. /\ ~Locked(start_ns) /\ Workers = {}
        /\ threshold[t] \in Thresholds
        /\ start_ns + threshold[t] <= current_ns[t]
        /\ current_ns[t] \in 0 .. MaxTime
    BY <1>5 DEF Exchange, Tested, Owned, TypeOK
  <2>2. CASE deferred[t]
    <3>1. start_ns' = current_ns[t] + LockBit /\ pc' = [pc EXCEPT ![t] = "work"]
      BY <1>5, <2>2 DEF Exchange, Goto
    <3>2. Workers' = {t} /\ Since(start_ns)' = current_ns[t]
      BY <2>1, <3>1 DEF TypeOK
    <3>3. T!Acquire(t)
      BY <2>1, <3>2 DEF T!Acquire, T!Begin
    <3> QED
      BY <3>3 DEF T!Next
  <2>3. CASE ~deferred[t]
    <3>1. start_ns' = current_ns[t] /\ pc' = [pc EXCEPT ![t] = "idle"]
      BY <1>5, <2>3 DEF Exchange, Return, Goto
    <3>2. Workers' = {} /\ Since(start_ns)' = current_ns[t]
      BY <2>1, <3>1 DEF TypeOK
    <3>3. T!Win
      BY <2>1, <3>2 DEF T!Win, T!Begin
    <3> QED
      BY <3>3 DEF T!Next
  <2> QED
    BY <2>2, <2>3
<1>6. ASSUME NEW t \in Thread, Unlock(t)
      PROVE  UNCHANGED T!vars
  <2>1. Workers' = Workers /\ UNCHANGED start_ns
    BY <1>6 DEF Unlock, Goto, TypeOK
  <2> QED
    BY <2>1 DEF T!vars
<1>7. ASSUME NEW t \in Thread, StoreUnlock(t)
      PROVE  T!Next
  <2>1. /\ t \in Workers /\ locks[t] = 1 /\ Workers = {t}
        /\ current_ns[t] \in 0 .. MaxTime
        /\ Since(start_ns) \in Nat /\ Since(start_ns) <= current_ns[t]
    BY <1>7 DEF StoreUnlock, Owned, OneWorker, TypeOK
  <2>2. start_ns' = current_ns[t] /\ pc' = [pc EXCEPT ![t] = "idle"]
    BY <1>7, <2>1 DEF StoreUnlock, Return, Goto
  <2>3. Workers' = {} /\ Since(start_ns)' = current_ns[t]
    BY <2>1, <2>2 DEF TypeOK
  <2>4. T!GiveBack(t)
    BY <2>1, <2>3 DEF T!GiveBack
  <2> QED
    BY <2>4 DEF T!Next
<1> QED
  BY <1>1, <1>2, <1>4, <1>5, <1>6, <1>7
     DEF Next, Attempt, Release, Move, Restart, StoreRestart, Owned

(* AtomicStopwatch implements the abstract timer.                          *)
THEOREM TimerRefinement == Spec => ImplementsTimer
<1>1. Init => T!Init
  BY StopwatchAssumption DEF Init, T!Init
<1>2. Inv /\ Inv' /\ [Next]_vars => [T!Next]_T!vars
  BY TimerStep
<1> QED
  BY <1>1, <1>2, StopwatchInvariant, PTL DEF Spec, ImplementsTimer, T!Spec
=============================================================================
