----------------------------- MODULE SingleFlight -----------------------------
(***************************************************************************)
(* What the in-flight guard and the single worker promise together, with   *)
(* no queue, no threads and no table: a key is claimed by at most one      *)
(* submission at a time, only a claimed key runs, one key runs at a time,  *)
(* and a running key stays claimed until its run is over.                  *)
(***************************************************************************)
CONSTANT Keys

VARIABLES
  claimed,  \* keys that no further submission may claim
  running   \* the key whose run is in progress, as a set

vars == <<claimed, running>>

Init == claimed = {} /\ running = {}

Claim(k) ==
  /\ k \notin claimed
  /\ claimed' = claimed \cup {k}
  /\ UNCHANGED running

(* The claim of a submission that found no room. *)
Abandon(k) ==
  /\ k \in claimed \ running
  /\ claimed' = claimed \ {k}
  /\ UNCHANGED running

Run(k) ==
  /\ running = {}
  /\ k \in claimed
  /\ running' = {k}
  /\ UNCHANGED claimed

Finish(k) ==
  /\ running = {k}
  /\ running' = {}
  /\ claimed' = claimed \ {k}

(* The process dies; the next one remembers no claim. *)
Lose ==
  /\ claimed' = {}
  /\ running' = {}

Next == Lose \/ \E k \in Keys : Claim(k) \/ Abandon(k) \/ Run(k) \/ Finish(k)

Spec == Init /\ [][Next]_vars
=============================================================================
