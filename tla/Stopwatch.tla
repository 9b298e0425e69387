----------------------------- MODULE Stopwatch -----------------------------
(***************************************************************************)
(* AtomicStopwatch of utils/StopWatch.h, shared by several threads.  One   *)
(* word holds the time the current period began and, in its top bit, a     *)
(* lock.  Every step is one access to that word, one reading of the clock, *)
(* or a move or the end of a Lock object.  elapsed changes nothing and is  *)
(* left out.                                                               *)
(***************************************************************************)
EXTENDS Integers, FiniteSets

CONSTANTS
  Thread,
  LockBit,      (* the top bit of the word, 2^63                           *)
  Thresholds,   (* the thresholds callers pass, in nanoseconds             *)
  MaxTime,      (* bound: the clock stops here                             *)
  MayMove,      (* whether callers move Lock objects                       *)
  MayRestart    (* whether threads call restart() on their own             *)

(* Time and thresholds stay clear of the lock bit (2^63 ns are 292 years). *)
ASSUME StopwatchAssumption ==
  /\ LockBit \in Nat /\ MaxTime \in Nat
  /\ Thresholds \subseteq Nat
  /\ \A s \in Thresholds : MaxTime + s < LockBit
  /\ MaxTime < LockBit
  /\ MayMove \in BOOLEAN /\ MayRestart \in BOOLEAN

Word == 0 .. 2 * LockBit - 1

Time == 0 .. MaxTime

VARIABLES
  clock,        (* the monotonic clock                                     *)
  start_ns,     (* the atomic word                                         *)
  pc,           (* where each thread is                                    *)
  deferred,     (* which of the two methods each thread is in              *)
  threshold,    (* their local variables: threshold,                       *)
  current_ns,   (* current_ns, also the clock value restart() is to store, *)
  current_start_ns, (* and current_start_ns                                *)
  locks,        (* how many Lock objects of thread t have a parent         *)
  protocol      (* history: "broken" once a Lock has been moved, or        *)
                (* restart() called by a thread without one                *)

local == <<deferred, threshold, current_ns, current_start_ns>>
vars == <<clock, start_ns, pc, deferred, threshold, current_ns, current_start_ns, locks,
          protocol>>

PcValues == {"idle", "load", "cas",   \* compareAndRestart, ...Deferred
             "work", "unlock",        \* holding a Lock
             "restart"}               \* restart()

TypeOK ==
  /\ clock \in Time
  /\ start_ns \in Word
  /\ pc \in [Thread -> PcValues]
  /\ deferred \in [Thread -> BOOLEAN]
  /\ threshold \in [Thread -> Nat]
  /\ current_ns \in [Thread -> Time]
  /\ current_start_ns \in [Thread -> Word]
  /\ locks \in [Thread -> 0 .. 2]
  /\ protocol \in {"kept", "broken"}

(* Unsigned addition. *)
Plus(x, y) == (x + y) % (2 * LockBit)

Locked(w) == w >= LockBit

Goto(t, label) == pc' = [pc EXCEPT ![t] = label]

(* The method returns, and its local variables are gone. *)
Return(t) ==
  /\ Goto(t, "idle")
  /\ deferred' = [deferred EXCEPT ![t] = FALSE]
  /\ threshold' = [threshold EXCEPT ![t] = 0]
  /\ current_ns' = [current_ns EXCEPT ![t] = 0]
  /\ current_start_ns' = [current_start_ns EXCEPT ![t] = 0]

(* The constructor restarts the stopwatch. *)
Init ==
  /\ clock = 0
  /\ start_ns = 0
  /\ pc = [t \in Thread |-> "idle"]
  /\ deferred = [t \in Thread |-> FALSE]
  /\ threshold = [t \in Thread |-> 0]
  /\ current_ns = [t \in Thread |-> 0]
  /\ current_start_ns = [t \in Thread |-> 0]
  /\ locks = [t \in Thread |-> 0]
  /\ protocol = "kept"

Tick ==
  /\ clock < MaxTime
  /\ clock' = clock + 1
  /\ UNCHANGED <<start_ns, pc, local, locks, protocol>>

-----------------------------------------------------------------------------
(* compareAndRestart and compareAndRestartDeferred *)

(* Thread t is called and reads the clock. *)
Call(t, d, s) ==
  /\ pc[t] = "idle"
  /\ deferred' = [deferred EXCEPT ![t] = d]
  /\ threshold' = [threshold EXCEPT ![t] = s]
  /\ current_ns' = [current_ns EXCEPT ![t] = clock]
  /\ Goto(t, "load")
  /\ UNCHANGED <<clock, start_ns, current_start_ns, locks, protocol>>

(* Fault: the lock bit is masked out before the sum is formed. *)
TooEarlyMasked(t, w) == current_ns[t] < Plus(w % LockBit, threshold[t])

(* compareAndRestart relies on the lock bit to make the sum large. *)
TooEarly(t, w) ==
  \/ deferred[t] /\ Locked(w)
  \/ current_ns[t] < Plus(w, threshold[t])

(* The loop body up to the exchange, with a word just loaded. *)
Consider(t) ==
  /\ IF TooEarly(t, start_ns)
     THEN Return(t)
     ELSE /\ current_start_ns' = [current_start_ns EXCEPT ![t] = start_ns]
          /\ Goto(t, "cas")
          /\ UNCHANGED <<deferred, threshold, current_ns>>
  /\ UNCHANGED <<clock, start_ns, locks, protocol>>

LoadStart(t) == pc[t] = "load" /\ Consider(t)

(* compare_exchange_weak fails, be it for no reason, and loads the word.   *)
ExchangeFails(t) == pc[t] = "cas" /\ Consider(t)

(* Fault: a store in place of the compare-and-swap. *)
ExchangeBlind(t) ==
  /\ pc[t] = "cas"
  /\ IF deferred[t]
     THEN /\ start_ns' = current_ns[t] + LockBit
          /\ locks' = [locks EXCEPT ![t] = 1]
          /\ Goto(t, "work") /\ UNCHANGED local
     ELSE /\ start_ns' = current_ns[t]
          /\ Return(t) /\ UNCHANGED locks
  /\ UNCHANGED <<clock, protocol>>

(* compare_exchange_weak succeeds: the method returns true, or a Lock.     *)
Exchange(t) ==
  /\ pc[t] = "cas"
  /\ start_ns = current_start_ns[t]
  /\ IF deferred[t]
     THEN /\ start_ns' = current_ns[t] + LockBit
          /\ locks' = [locks EXCEPT ![t] = 1]
          /\ Goto(t, "work") /\ UNCHANGED local
     ELSE /\ start_ns' = current_ns[t]
          /\ Return(t) /\ UNCHANGED locks
  /\ UNCHANGED <<clock, protocol>>

-----------------------------------------------------------------------------
(* Lock and restart *)

(* Lock's defaulted move constructor copies parent and leaves the original *)
(* as it was.                                                              *)
Move(t) ==
  /\ MayMove
  /\ pc[t] = "work" /\ locks[t] = 1
  /\ locks' = [locks EXCEPT ![t] = 2]
  /\ protocol' = "broken"
  /\ UNCHANGED <<clock, start_ns, pc, local>>

(* A Lock with a parent is destroyed: restart() reads the clock ...        *)
Unlock(t) ==
  /\ pc[t] = "work"
  /\ current_ns' = [current_ns EXCEPT ![t] = clock]
  /\ Goto(t, "unlock")
  /\ UNCHANGED <<clock, start_ns, deferred, threshold, current_start_ns, locks, protocol>>

(* Fault: the period is restarted and the lock kept. *)
StoreUnlockKept(t) ==
  /\ pc[t] = "unlock"
  /\ start_ns' = current_ns[t] + LockBit
  /\ locks' = [locks EXCEPT ![t] = @ - 1]
  /\ IF locks[t] = 1 THEN Return(t) ELSE Goto(t, "work") /\ UNCHANGED local
  /\ UNCHANGED <<clock, protocol>>

(* ... and stores it, which clears the lock bit.                           *)
StoreUnlock(t) ==
  /\ pc[t] = "unlock"
  /\ start_ns' = current_ns[t]
  /\ locks' = [locks EXCEPT ![t] = @ - 1]
  /\ IF locks[t] = 1 THEN Return(t) ELSE Goto(t, "work") /\ UNCHANGED local
  /\ UNCHANGED <<clock, protocol>>

(* restart(), called by a thread without a Lock. *)
Restart(t) ==
  /\ MayRestart
  /\ pc[t] = "idle"
  /\ current_ns' = [current_ns EXCEPT ![t] = clock]
  /\ protocol' = "broken"
  /\ Goto(t, "restart")
  /\ UNCHANGED <<clock, start_ns, deferred, threshold, current_start_ns, locks>>

StoreRestart(t) ==
  /\ pc[t] = "restart"
  /\ start_ns' = current_ns[t]
  /\ Return(t)
  /\ UNCHANGED <<clock, locks, protocol>>

Attempt(t) ==
  \/ \E d \in BOOLEAN, s \in Thresholds : Call(t, d, s)
  \/ LoadStart(t) \/ Exchange(t) \/ ExchangeFails(t)

Release(t) == Move(t) \/ Unlock(t) \/ StoreUnlock(t)

Next ==
  \/ Tick
  \/ \E t \in Thread : Attempt(t) \/ Release(t) \/ Restart(t) \/ StoreRestart(t)

Spec == Init /\ [][Next]_vars

-----------------------------------------------------------------------------
(* The threads that have been given a Lock and have not let go of it.      *)
Workers == {t \in Thread : pc[t] \in {"work", "unlock"}}

(* "do some work, that must be done in one thread": at most one thread     *)
(* works under a Lock at any time.                                         *)
OneWorker == \A t, u \in Workers : t = u

(* A successful exchange replaces a period that was over, by the caller's  *)
(* own threshold, and a timer that was not locked: what was tested is what *)
(* is replaced, whatever other threads did in between.                     *)
PeriodOver ==
  [][\A t \in Thread :
       /\ pc[t] = "cas" /\ pc'[t] # "cas"
       /\ pc'[t] = "work" \/ start_ns' # start_ns
       => ~Locked(start_ns) /\ start_ns + threshold[t] <= current_ns[t]]_vars

(* When the period began: the word without its lock bit.                   *)
Since(w) == IF Locked(w) THEN w - LockBit ELSE w

(* Whoever is about to exchange has seen an unlocked word and its period   *)
(* over: the lock bit alone makes the sum too large for compareAndRestart, *)
(* which needs that no sum wraps around.                                   *)
Tested ==
  /\ Since(start_ns) <= MaxTime
  /\ \A t \in Thread :
       /\ pc[t] \in {"load", "cas"} => threshold[t] \in Thresholds
       /\ pc[t] = "cas" => /\ ~Locked(current_start_ns[t])
                           /\ current_start_ns[t] + threshold[t] <= current_ns[t]

(* Who works has a Lock that is still to restart the timer. *)
Held == \A t \in Workers : locks[t] > 0

(* As long as nobody moves a Lock or calls restart() on his own: the lock  *)
(* bit is set exactly while a thread works, and no later period can have   *)
(* begun when it restarts the timer.                                       *)
Owned ==
  /\ OneWorker
  /\ Locked(start_ns) <=> Workers # {}
  /\ Since(start_ns) <= clock
  /\ \A t \in Thread :
       /\ pc[t] # "restart"
       /\ locks[t] = IF t \in Workers THEN 1 ELSE 0
       /\ current_ns[t] <= clock
       /\ pc[t] = "unlock" => Since(start_ns) <= current_ns[t]

(* The inductive invariant. *)
Inv == TypeOK /\ Held /\ Tested /\ (protocol = "kept" => Owned)

T == INSTANCE Timer WITH since <- Since(start_ns), owner <- Workers

(* The word behaves like a timer with an owner: periods follow one another *)
(* forwards in time, at least a threshold apart, and the owner alone gives *)
(* the timer back, until somebody breaks the protocol.                       *)
ImplementsTimer == T!Spec
=============================================================================
