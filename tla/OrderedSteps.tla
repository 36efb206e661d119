--------------------------- MODULE OrderedSteps ---------------------------
(***************************************************************************)
(* What the plan engine promises, without lanes, positions or rollback.    *)
(* A plan that is made runs at most once.  While it runs, each step comes  *)
(* to one outcome and keeps it: the steps of a device in their order, a    *)
(* step after what it waits for.  At the end the report gives the outcome  *)
(* of every step; a step may be missing from it only under "stop", after   *)
(* an earlier failure.  The plan completed if all its steps succeeded.     *)
(*                                                                         *)
(* PlanEngine implements this: the promise is kept although in the fleet   *)
(* mode the lanes of the devices are interleaved in any way, and each      *)
(* appends its results to a list of its own.                               *)
(***************************************************************************)
EXTENDS Naturals, Sequences

CONSTANTS Offered,  \* the step lists a caller may submit
          Policies  \* the failure policies

VARIABLES status,   \* PlanStatus
          plan,     \* the steps
          policy,   \* the failure policy
          outcome,  \* of each step: what has become of it
          report    \* of each step: what the caller is told; empty before

vars == <<status, plan, policy, outcome, report>>

Init ==
    /\ status = "none"
    /\ plan = <<>>
    /\ policy = "stop"
    /\ outcome = <<>>
    /\ report = <<>>

Make ==
    /\ status = "none"
    /\ status' = "pending_approval"
    /\ plan' \in Offered
    /\ policy' \in Policies
    /\ outcome' = [i \in 1..Len(plan') |-> "waiting"]
    /\ UNCHANGED report

Start ==
    /\ status = "pending_approval"
    /\ status' = "executing"
    /\ UNCHANGED <<plan, policy, outcome, report>>

Before(i) == {j \in 1..(i - 1) : plan[j].device = plan[i].device}

Settle(i, o) ==
    /\ status = "executing"
    /\ outcome[i] = "waiting"
    /\ \A j \in Before(i) : outcome[j] # "waiting"
    /\ outcome' = [outcome EXCEPT ![i] = o]
    /\ UNCHANGED <<status, plan, policy, report>>

\* The step was sent to its device, which answered.
Sent(i, o) ==
    /\ policy # "continue" => \A j \in plan[i].deps : outcome[j] = "ok"
    /\ policy = "stop" => \A j \in Before(i) : outcome[j] # "failed"
    /\ Settle(i, o)

\* The step was not sent, because of a step it waits for.
Skipped(i) ==
    /\ policy # "continue"
    /\ \E j \in plan[i].deps : outcome[j] \in {"failed", "skipped"}
    /\ Settle(i, "skipped")

End ==
    /\ status = "executing"
    /\ \A i \in 1..Len(plan) : outcome[i] = "waiting" =>
          policy = "stop" /\ \E j \in 1..(i - 1) : outcome[j] = "failed"
    /\ report' = [i \in 1..Len(plan) |->
                     IF outcome[i] = "waiting" THEN "missing" ELSE outcome[i]]
    /\ status' = IF \A i \in 1..Len(plan) : outcome[i] = "ok"
                   THEN "completed" ELSE "failed"
    /\ UNCHANGED <<plan, policy, outcome>>

\* The task that runs the plan was cancelled: it never ends.
Abandon ==
    /\ status = "executing"
    /\ status' = "cut"
    /\ UNCHANGED <<plan, policy, outcome, report>>

Next ==
    \/ Make \/ Start \/ End \/ Abandon
    \/ \E i \in 1..Len(plan) :
          Skipped(i) \/ \E o \in {"ok", "failed"} : Sent(i, o)

Spec == Init /\ [][Next]_vars
=============================================================================
