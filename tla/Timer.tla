------------------------------- MODULE Timer -------------------------------
(***************************************************************************)
(* What AtomicStopwatch promises: a timer that one caller at a time can    *)
(* win, once per period, and that may be owned by the winner until it      *)
(* gives it back.                                                          *)
(***************************************************************************)
EXTENDS Naturals

CONSTANTS Thread, Thresholds, MaxTime

VARIABLES
  since,        (* when the current period began                           *)
  owner,        (* the thread that owns the timer: a set of at most one    *)
  protocol      (* "broken" once somebody has broken it                    *)

vars == <<since, owner, protocol>>

Init == since = 0 /\ owner = {} /\ protocol = "kept"

(* A caller finds its threshold passed. *)
Begin(O) ==
  /\ owner = {}
  /\ \E s \in Thresholds, now \in 0 .. MaxTime : since + s <= now /\ since' = now
  /\ owner' = O

Win == Begin({})

Acquire(t) == Begin({t})

GiveBack(t) ==
  /\ owner = {t}
  /\ owner' = {}
  /\ since' \in since .. MaxTime

(* From the first restart out of turn, or the first copy of the ownership, *)
(* nothing is promised.                                                    *)
Broken ==
  /\ protocol' = "broken"
  /\ since' \in 0 .. MaxTime
  /\ owner' \in SUBSET Thread

Next ==
  \/ /\ protocol = "kept" /\ UNCHANGED protocol
     /\ Win \/ \E t \in Thread : Acquire(t) \/ GiveBack(t)
  \/ Broken

Spec == Init /\ [][Next]_vars
=============================================================================
