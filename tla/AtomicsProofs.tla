---------------------------- MODULE AtomicsProofs ----------------------------
(***************************************************************************)
(* The update helpers of utils/Gang.h are atomic, for any number of        *)
(* threads and any width of the word.                                      *)
(***************************************************************************)
EXTENDS Atomics, TLAPS

(* What a swap stores is a value of the word (the sum wraps, lines 94 and  *)
(* 112).                                                                   *)
LEMMA NewValue ==
  ASSUME TypeOK, NEW t \in Thread
  PROVE  newv(t) \in Words
<1>1. op[t].arg \in Words /\ oldv[t] \in Words
  BY DEF TypeOK, Calls
<1>2. \A s \in Nat : s % Modulus \in Words
  BY AtomicsAssumption DEF Words
<1>3. oldv[t] + op[t].arg \in Nat
  BY <1>1, AtomicsAssumption DEF Words
<1> QED
  BY <1>1, <1>2, <1>3 DEF newv

(* None is not an answer. *)
LEMMA Answers ==
  TRUE # None /\ FALSE # None /\ \A w \in Words : w # None
<1>1. TRUE \in BOOLEAN /\ FALSE \in BOOLEAN /\ None \notin BOOLEAN
  BY AtomicsAssumption
<1>2. TRUE # None /\ FALSE # None
  BY <1>1, Zenon
<1>3. \A w \in Words : w # None
  BY AtomicsAssumption DEF Words
<1> QED
  BY <1>2, <1>3

(* Another call begins where the first one did. *)
LEMMA CallKeepsInv ==
  ASSUME Inv, NEW t \in Thread, Call(t)
  PROVE  Inv'
<1> USE DEF Inv, Goto
<1>1. PICK c \in Calls : op' = [op EXCEPT ![t] = c]
  BY DEF Call
<1>2. TypeOK'
  BY <1>1 DEF Call, TypeOK
<1>3. ASSUME NEW u \in Thread, pc'[u] = "swap"
      PROVE  Cond(u, oldv[u])'
  <2>1. u # t /\ pc[u] = "swap"
    BY <1>3 DEF Call, TypeOK
  <2> QED
    BY <1>1, <2>1 DEF Call, TypeOK, Cond
<1> QED
  BY <1>2, <1>3

(* Every step of a call keeps the invariant. *)
LEMMA StepKeepsInv ==
  ASSUME Inv, NEW t \in Thread, Step(t)
  PROVE  Inv'
<1> USE DEF Inv, Goto, Return
<1>1. CASE Load(t)
  <2>1. word \in Words /\ pc[t] = "load" /\ 0 \in Words
    BY <1>1, AtomicsAssumption DEF Load, TypeOK, Words
  <2>2. TypeOK'
    BY <1>1, <2>1, Answers DEF Load, TypeOK
  <2>3. ASSUME NEW u \in Thread, pc'[u] = "swap"
        PROVE  Cond(u, oldv[u])'
    <3>1. CASE u = t
      BY <1>1, <2>3, <3>1 DEF Load, TypeOK, Cond
    <3>2. CASE u # t
      BY <1>1, <2>3, <3>2 DEF Load, TypeOK, Cond
    <3> QED
      BY <3>1, <3>2
  <2> QED
    BY <2>2, <2>3
<1>2. CASE Swap(t)
  <2>1. newv(t) \in Words
    BY NewValue
  <2>2. oldv[t] \in Words /\ 0 \in Words
    BY AtomicsAssumption DEF TypeOK, Words
  <2>3. TypeOK'
    BY <1>2, <2>1, <2>2, Answers DEF Swap, TypeOK
  <2> QED
    BY <1>2, <2>3 DEF Swap, TypeOK, Cond
<1>3. CASE Retry(t)
  BY <1>3 DEF Retry, TypeOK, Cond
<1>4. CASE ExchangeFails(t)
  <2>1. TypeOK'
    BY <1>4 DEF ExchangeFails, TypeOK
  <2>2. op[t].name = "writeAddFloat"
    BY <1>4 DEF ExchangeFails
  <2>3. Cond(t, oldv[t])'
    BY <1>4, <2>2 DEF ExchangeFails, Cond
  <2> QED
    BY <1>4, <2>1, <2>3 DEF ExchangeFails, TypeOK, Cond
<1> QED
  BY <1>1, <1>2, <1>3, <1>4 DEF Step

(* The word, the answers and where each thread is keep their types, and a  *)
(* thread about to swap has read a word its condition accepts (line 78).   *)
THEOREM AtomicsInvariant == Spec => []Inv
<1>1. Init => Inv
  BY AtomicsAssumption DEF Init, Inv, TypeOK, Words, Calls
<1>2. Inv /\ [Next]_vars => Inv'
  <2> SUFFICES ASSUME Inv, [Next]_vars PROVE Inv'
    OBVIOUS
  <2>1. CASE Next
    BY <2>1, CallKeepsInv, StepKeepsInv DEF Next
  <2>2. CASE UNCHANGED vars
    BY <2>2 DEF vars, Inv, TypeOK, Cond
  <2> QED
    BY <2>1, <2>2
<1> QED
  BY <1>1, <1>2, PTL DEF Spec

(* The abstract word is called by the same thread. *)
LEMMA CallIsCall ==
  ASSUME Inv, NEW t \in Thread, Call(t)
  PROVE  Abstract!Next
<1>1. answer[t] # None
  BY DEF Call, Inv, TypeOK
<1>2. \E c \in Abstract!Calls : op' = [op EXCEPT ![t] = c]
  BY DEF Call, Calls, Abstract!Calls, Conditional, Adding, Words
<1>3. Abstract!Call(t)
  BY <1>1, <1>2 DEF Call, Abstract!Call
<1> QED
  BY <1>3 DEF Abstract!Next

(* A swap, and a load that gives up, is one call of the abstract word;     *)
(* every other step is invisible.                                          *)
LEMMA StepIsApply ==
  ASSUME Inv, NEW t \in Thread, Step(t)
  PROVE  [Abstract!Next]_(Abstract!vars)
<1> USE DEF Inv, Goto, Return
<1>1. op[t].name \in Conditional \cup Adding /\ op[t].arg \in Words /\ word \in Words /\ Modulus \in Nat
  BY AtomicsAssumption DEF TypeOK, Calls
<1>2. pc[t] # "returned" => answer[t] = None
  BY DEF TypeOK
<1>3. CASE Load(t)
  <2>1. CASE Cond(t, word)
    BY <1>3, <2>1 DEF Load, Abstract!vars
  <2>2. CASE ~Cond(t, word)
    <3>1. op[t].name = "writeMin" \/ op[t].name = "writeMax"
      BY <2>2 DEF Cond
    <3>2. op[t].name = "writeMin" => ~ op[t].arg < word
      BY <1>1, <2>2 DEF Cond, Words
    <3>3. op[t].name = "writeMax" => ~ op[t].arg > word
      BY <1>1, <2>2 DEF Cond, Words
    <3>4. Abstract!Apply(t)
      BY <1>2, <1>3, <2>2, <3>1, <3>2, <3>3 DEF Load, Abstract!Apply, Abstract!Set
    <3> QED
      BY <3>4 DEF Abstract!Next
  <2> QED
    BY <2>1, <2>2
<1>4. CASE Swap(t)
  <2>1. Cond(t, word) /\ answer[t] = None
    BY <1>2, <1>4 DEF Swap
  <2>2. op[t].name = "writeMin" => op[t].arg < word
    BY <1>1, <2>1 DEF Cond, Words
  <2>3. op[t].name = "writeMax" => op[t].arg > word
    BY <1>1, <2>1 DEF Cond, Words
  <2>4. word' = IF op[t].name \in Conditional THEN op[t].arg ELSE (word + op[t].arg) % Modulus
    BY <1>4 DEF Swap, newv
  <2>5. answer' = [answer EXCEPT ![t] = IF op[t].name = "fetchAdd" THEN word ELSE TRUE]
    BY <1>4 DEF Swap
  <2>6. UNCHANGED op
    BY <1>4 DEF Swap
  <2>7. Abstract!Apply(t)
    BY <1>1, <2>1, <2>2, <2>3, <2>4, <2>5, <2>6 DEF Abstract!Apply, Abstract!Set, Conditional, Adding
  <2> QED
    BY <2>7 DEF Abstract!Next
<1>5. CASE Retry(t) \/ ExchangeFails(t)
  BY <1>5 DEF Retry, ExchangeFails, Abstract!vars
<1> QED
  BY <1>3, <1>4, <1>5 DEF Step

(* write, writeMin, writeMax, writeAdd and fetchAdd are indivisible: no    *)
(* update is lost between the load and the swap (lines 73-115).            *)
THEOREM AtomicsRefinement == Spec => ImplementsAtomicWord
<1>1. Init => Abstract!Init
  BY DEF Init, Abstract!Init, Calls, Abstract!Calls, Words, Conditional, Adding
<1>2. Inv /\ [Next]_vars => [Abstract!Next]_(Abstract!vars)
  <2> SUFFICES ASSUME Inv, [Next]_vars PROVE [Abstract!Next]_(Abstract!vars)
    OBVIOUS
  <2>1. CASE Next
    BY <2>1, CallIsCall, StepIsApply DEF Next
  <2>2. CASE UNCHANGED vars
    BY <2>2 DEF vars, Abstract!vars
  <2> QED
    BY <2>1, <2>2
<1> QED
  BY <1>1, <1>2, AtomicsInvariant, PTL DEF Spec, ImplementsAtomicWord, Abstract!Spec
=============================================================================
