------------------------------- MODULE OneRun -------------------------------
(***************************************************************************)
(* What the detection tasks promise.  A task that was queued is withdrawn, *)
(* while it waits, or it is run by one process, which settles it or loses  *)
(* it; nothing of this happens to it again.                                *)
(*                                                                         *)
(* DetectionTasks implements this: the promise is kept although a task is  *)
(* a row of a shared table, which a process reads before it claims it.     *)
(***************************************************************************)
CONSTANTS Tasks, Procs

VARIABLES phase, runners  \* runners[t]: who is running t

vars == <<phase, runners>>

Init ==
    /\ phase = [t \in Tasks |-> "none"]
    /\ runners = [t \in Tasks |-> {}]

\* The tasks of S, which are at one place, go to another, in the hands of P.
Move(S, from, to, P) ==
    /\ \A t \in S : phase[t] = from
    /\ phase' = [t \in Tasks |-> IF t \in S THEN to ELSE phase[t]]
    /\ runners' = [t \in Tasks |-> IF t \in S THEN P ELSE runners[t]]

Queue(t)     == Move({t}, "none", "waiting", {})
Withdraw(S)  == Move(S, "waiting", "withdrawn", {})
Run(p, S)    == Move(S, "waiting", "running", {p})
Settle(t, r) == Move({t}, "running", r, {})
Lose(p, S)   == /\ \A t \in S : runners[t] = {p}
                /\ Move(S, "running", "lost", {})

Next ==
    \/ \E t \in Tasks : Queue(t) \/ \E r \in {"done", "failed"} : Settle(t, r)
    \/ \E S \in SUBSET Tasks : Withdraw(S)
    \/ \E p \in Procs, S \in SUBSET Tasks : Run(p, S) \/ Lose(p, S)

Spec == Init /\ [][Next]_vars
=============================================================================
