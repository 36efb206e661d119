-------------------------- MODULE OneShotApproval --------------------------
(***************************************************************************)
(* What the confirmation gate promises, without saying how.  A request for *)
(* held work is resolved once: it is approved, denied, or it lapses.  Work *)
(* starts at most once, and only after its request was approved.  An       *)
(* approved request is kept for good (it is the receipt of the approval);  *)
(* a lapsed or a denied one may be forgotten.                              *)
(*                                                                         *)
(* ConfirmGate implements this: the promise is kept although the gate is   *)
(* a table shared by several processes, whose handlers interleave between  *)
(* any two statements and may die between them.                            *)
(***************************************************************************)
CONSTANT Tokens

VARIABLE phase

Phases == {"unissued", "pending", "approved", "started", "denied", "forgotten"}

TypeOK == phase \in [Tokens -> Phases]

Init == phase = [t \in Tokens |-> "unissued"]

Move(t, from, to) ==
    /\ phase[t] \in from
    /\ phase' = [phase EXCEPT ![t] = to]

Request(t) == Move(t, {"unissued"}, "pending")
Approve(t) == Move(t, {"pending"}, "approved")
Start(t)   == Move(t, {"approved"}, "started")
Deny(t)    == Move(t, {"pending"}, "denied")

(* One sweep may forget any number of requests that were never approved.   *)
Forget(S) ==
    /\ \A t \in S : phase[t] \in {"pending", "denied"}
    /\ phase' = [t \in Tokens |-> IF t \in S THEN "forgotten" ELSE phase[t]]

Next ==
    \/ \E t \in Tokens : Request(t) \/ Approve(t) \/ Start(t) \/ Deny(t)
    \/ \E S \in SUBSET Tokens : Forget(S)

Spec == Init /\ [][Next]_phase
=============================================================================
