------------------------------ MODULE Atomics ------------------------------
(***************************************************************************)
(* The update helpers of utils/Gang.h: loops around a compare-and-swap     *)
(* that several threads run on one word, each of them making one call      *)
(* after the other for as long as it likes.  The word is unsigned, or a    *)
(* float reduced to a few values.  The plain load of the word and the swap *)
(* are one access each.                                                    *)
(***************************************************************************)
EXTENDS Integers

CONSTANTS
  Thread,
  Modulus,    (* number of values of the word                              *)
  None        (* no answer yet                                             *)

ASSUME AtomicsAssumption ==
  Modulus \in Nat \ {0} /\ None \notin 0 .. Modulus /\ None \notin BOOLEAN

VARIABLES
  word,       (* *t                                                        *)
  op,         (* the call each thread is making, or made last: [name, arg] *)
  pc,         (* at the load, at the swap, or returned                     *)
  oldv,       (* oldv, or __expected                                       *)
  answer      (* what the call returned; TRUE for one that returns nothing *)

vars == <<word, op, pc, oldv, answer>>

Words == 0 .. Modulus - 1

Conditional == {"write", "writeMin", "writeMax"}

Adding == {"writeAdd", "writeAddFloat", "fetchAdd"}

Calls == [name : Conditional \cup Adding, arg : Words]

TypeOK ==
  /\ word \in Words
  /\ op \in [Thread -> Calls]
  /\ pc \in [Thread -> {"load", "swap", "returned"}]
  /\ oldv \in [Thread -> Words]
  /\ answer = [t \in Thread |-> answer[t]]
  /\ \A t \in Thread : answer[t] # None <=> pc[t] = "returned"

Init ==
  /\ word \in Words
  /\ op \in [Thread -> Calls]
  /\ pc = [t \in Thread |-> "load"]
  /\ oldv = [t \in Thread |-> 0]
  /\ answer = [t \in Thread |-> None]

Goto(t, l) == pc' = [pc EXCEPT ![t] = l]

(* The call's local variables are gone with it. *)
Return(t, a) ==
  /\ Goto(t, "returned")
  /\ answer' = [answer EXCEPT ![t] = a]
  /\ oldv' = [oldv EXCEPT ![t] = 0]

(* The thread makes another call. *)
Call(t) ==
  /\ pc[t] = "returned"
  /\ \E c \in Calls : op' = [op EXCEPT ![t] = c]
  /\ answer' = [answer EXCEPT ![t] = None]
  /\ Goto(t, "load")
  /\ UNCHANGED <<word, oldv>>

(* newv: the argument of writeCond, or the sum. *)
newv(t) == IF op[t].name \in Conditional THEN op[t].arg ELSE (oldv[t] + op[t].arg) % Modulus

(* f(oldv, newv): std::greater for writeMin and std::less for writeMax.    *)
Cond(t, old) ==
  /\ op[t].name = "writeMin" => old > op[t].arg
  /\ op[t].name = "writeMax" => old < op[t].arg

(* writeCond gives up when the condition does not hold of what it read. *)
Load(t) ==
  /\ pc[t] = "load"
  /\ IF Cond(t, word)
     THEN Goto(t, "swap") /\ oldv' = [oldv EXCEPT ![t] = word] /\ UNCHANGED answer
     ELSE Return(t, FALSE)
  /\ UNCHANGED <<word, op>>

(* Fault: the word is written whatever it has become. *)
Overwrite(t) ==
  /\ pc[t] = "swap"
  /\ word' = newv(t)
  /\ Return(t, IF op[t].name = "fetchAdd" THEN oldv[t] ELSE TRUE)
  /\ UNCHANGED op

(* CAS, and compare_exchange_weak *)
Swap(t) ==
  /\ pc[t] = "swap" /\ word = oldv[t]
  /\ word' = newv(t)
  /\ Return(t, IF op[t].name = "fetchAdd" THEN oldv[t] ELSE TRUE)
  /\ UNCHANGED op

(* CAS fails, and the loop reads the word again. *)
Retry(t) ==
  /\ pc[t] = "swap" /\ op[t].name # "writeAddFloat" /\ word # oldv[t]
  /\ Goto(t, "load")
  /\ UNCHANGED <<word, op, oldv, answer>>

(* Fault: the expected value stays what it was. *)
ExchangeFailsStale(t) ==
  /\ pc[t] = "swap" /\ op[t].name = "writeAddFloat"
  /\ UNCHANGED vars

(* compare_exchange_weak fails, perhaps for no reason, and leaves what it  *)
(* found in __expected.                                                    *)
ExchangeFails(t) ==
  /\ pc[t] = "swap" /\ op[t].name = "writeAddFloat"
  /\ oldv' = [oldv EXCEPT ![t] = word]
  /\ UNCHANGED <<word, op, pc, answer>>

Step(t) == Load(t) \/ Swap(t) \/ Retry(t) \/ ExchangeFails(t)

Next == \E t \in Thread : Call(t) \/ Step(t)

(* A thread inside a call is not held up for ever, and its exchange does   *)
(* not fail for no reason for ever (on x86 it never does): such a failure  *)
(* changes nothing.  Nobody has to make another call.                      *)
Spec == Init /\ [][Next]_vars /\ \A t \in Thread : WF_vars(Step(t))

Abstract == INSTANCE AtomicWord

(* Every call of write, writeMin, writeMax, writeAdd and fetchAdd is one   *)
(* indivisible update that answers from the value it replaced: no update   *)
(* is lost between the load and the swap.                                  *)
ImplementsAtomicWord == Abstract!Spec

(* A thread at the swap has read a word its condition accepts: if the word *)
(* is still the same, the swap is the whole of the call.                   *)
Inv == TypeOK /\ \A t \in Thread : pc[t] = "swap" => Cond(t, oldv[t])

Returning == \E t \in Thread : pc[t] # "returned" /\ pc'[t] = "returned"

(* The loops are lock-free: as long as a thread is inside one of these     *)
(* calls, calls keep returning, however often the exchanges fail.  One     *)
(* thread may lose to the others for ever (lines 40, 50, 78, 95, 113).     *)
CallsKeepReturning ==
  []<>(\A t \in Thread : pc[t] = "returned") \/ []<><<Returning>>_vars
============================================================================
