----------------------------- MODULE AtomicWord -----------------------------
(***************************************************************************)
(* What the update helpers of utils/Gang.h promise: each call is one       *)
(* indivisible change of the word, and its answer tells what the word was. *)
(***************************************************************************)
EXTENDS Integers

CONSTANTS Thread, Modulus, None

VARIABLES
  word,
  op,           (* the call each thread is making: [name, arg]             *)
  answer        (* what it returned, None until then                       *)

vars == <<word, op, answer>>

Calls ==
  [name : {"write", "writeMin", "writeMax", "writeAdd", "writeAddFloat", "fetchAdd"},
   arg : 0 .. Modulus - 1]

Init ==
  /\ word \in 0 .. Modulus - 1
  /\ op \in [Thread -> Calls]
  /\ answer = [t \in Thread |-> None]

Call(t) ==
  /\ answer[t] # None
  /\ \E c \in Calls : op' = [op EXCEPT ![t] = c]
  /\ answer' = [answer EXCEPT ![t] = None]
  /\ UNCHANGED word

Set(t, v, a) == word' = v /\ answer' = [answer EXCEPT ![t] = a]

Apply(t) ==
  LET name == op[t].name
      b == op[t].arg
  IN  /\ answer[t] = None
      /\ \/ name = "write" /\ Set(t, b, TRUE)
         \/ name = "writeMin" /\ IF b < word THEN Set(t, b, TRUE) ELSE Set(t, word, FALSE)
         \/ name = "writeMax" /\ IF b > word THEN Set(t, b, TRUE) ELSE Set(t, word, FALSE)
         \/ name \in {"writeAdd", "writeAddFloat"} /\ Set(t, (word + b) % Modulus, TRUE)
         \/ name = "fetchAdd" /\ Set(t, (word + b) % Modulus, word)
      /\ UNCHANGED op

Next == \E t \in Thread : Call(t) \/ Apply(t)

Spec == Init /\ [][Next]_vars
=============================================================================
