----------------------------- MODULE Rendezvous -----------------------------
(***************************************************************************)
(* What a reusable barrier promises: a thread leaves its k-th wait only    *)
(* when every thread of the team has arrived at its k-th wait.             *)
(***************************************************************************)
EXTENDS Naturals

CONSTANT Thread

VARIABLES
  arrived,      (* arrived[t]: how many waits thread t has arrived at      *)
  left          (* left[t]: how many waits thread t has left               *)

vars == <<arrived, left>>

Init ==
  /\ arrived = [t \in Thread |-> 0]
  /\ left = [t \in Thread |-> 0]

Arrive(t) ==
  /\ arrived[t] = left[t]
  /\ arrived' = [arrived EXCEPT ![t] = @ + 1]
  /\ UNCHANGED left

Depart(t) ==
  /\ left[t] < arrived[t]
  /\ \A u \in Thread : left[t] < arrived[u]
  /\ left' = [left EXCEPT ![t] = @ + 1]
  /\ UNCHANGED arrived

Next == \E t \in Thread : Arrive(t) \/ Depart(t)

Spec == Init /\ [][Next]_vars
=============================================================================
