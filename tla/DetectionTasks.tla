--------------------------- MODULE DetectionTasks ---------------------------
(***************************************************************************)
(* One-shot tasks that wait for one device to come back                    *)
(* (admz/tasks/store.py, admz/fleet/health.py): they are queued in the     *)
(* shared tasks table, claimed by the health sweep that sees the event     *)
(* they wait for, and run once.  A claim reads the matching rows and then  *)
(* updates each of them if it is still pending, in one transaction; other  *)
(* processes cancel, expire, claim and queue in between.                   *)
(*                                                                         *)
(* Its names differ from those of TaskScheduler, so that one module can    *)
(* extend both (TaskProofs).                                               *)
(***************************************************************************)
EXTENDS Naturals, FiniteSets

CONSTANTS
    Ids,        \* task ids
    Events,     \* the events that tasks wait for; surveys wait for Online
    Online,     \* EVENT_ONLINE
    Procs,      \* processes that sweep, and that queue surveys
    SweepMayCrash,   \* TRUE: a process may die
    SweepMayFail     \* TRUE: a statement may fail (database is locked)

ASSUME DetectionAssumption ==
    /\ Online \in Events
    /\ SweepMayCrash \in BOOLEAN /\ SweepMayFail \in BOOLEAN

VARIABLES
    status,   \* the status column; "none": there is no such row
    event,    \* the event column
    survey,   \* the tasks whose action is a capability survey
    late,     \* the tasks that are past expires_at
    selected, \* claim_for_event of a process: the rows it has read
    running,  \* the tasks that a process has claimed and not yet settled
    queueing, \* the processes about to queue a survey
    starts,   \* history: how often a task was started
    lost      \* history: the claimed tasks that nobody can settle any more

past == <<starts, lost>>
detectionVars ==
    <<status, event, survey, late, selected, running, queueing, past>>

Statuses == {"none", "pending", "fired", "done", "failed", "cancelled",
             "expired"}

DetectionTypeOK ==
    /\ status \in [Ids -> Statuses]
    /\ event \in [Ids -> Events]
    /\ survey \subseteq Ids /\ late \subseteq Ids
    /\ selected \in [Procs -> SUBSET Ids]
    /\ running \in [Procs -> SUBSET Ids]
    /\ \A p \in Procs : \A t \in running[p] : status[t] = "fired"
    /\ queueing \subseteq Procs
    /\ starts \in [Ids -> Nat]
    /\ lost \subseteq Ids

DetectionInit ==
    /\ status = [t \in Ids |-> "none"]
    /\ event = [t \in Ids |-> Online]
    /\ survey = {} /\ late = {}
    /\ selected = [p \in Procs |-> {}]
    /\ running = [p \in Procs |-> {}]
    /\ queueing = {}
    /\ starts = [t \in Ids |-> 0]
    /\ lost = {}

Waiting(t) == status[t] = "pending" /\ t \notin late
Marked(ts, s) == [t \in Ids |-> IF t \in ts THEN s ELSE status[t]]

-----------------------------------------------------------------------------
(* Queueing, by an operator and by the code.                               *)

\* create_detection of another action than a survey
Create(t, e) ==
    /\ status[t] = "none"
    /\ status' = Marked({t}, "pending")
    /\ event' = [event EXCEPT ![t] = e]
    /\ UNCHANGED <<survey, late, selected, running, queueing, past>>

\* enqueue_capability_survey: nothing to do if a survey of the device waits
EnqueueRead(p) ==
    /\ p \notin queueing
    /\ ~ \E t \in survey : Waiting(t)
    /\ queueing' = queueing \cup {p}
    /\ UNCHANGED <<status, event, survey, late, selected, running, past>>

EnqueueCreate(p) ==
    /\ p \in queueing
    /\ queueing' = queueing \ {p}
    /\ \E t \in Ids :
          /\ status[t] = "none"
          /\ status' = Marked({t}, "pending")
          /\ event' = [event EXCEPT ![t] = Online]
          /\ survey' = survey \cup {t}
    /\ UNCHANGED <<late, selected, running, past>>

\* cancel: only a task that is still pending
Cancel_Any(t) ==
    /\ status[t] \in {"pending", "fired"}
    /\ status' = Marked({t}, "cancelled")
    /\ UNCHANGED <<event, survey, late, selected, running, queueing, past>>
Cancel(t) ==
    /\ status[t] = "pending"
    /\ status' = Marked({t}, "cancelled")
    /\ UNCHANGED <<event, survey, late, selected, running, queueing, past>>

-----------------------------------------------------------------------------
(* The sweep.                                                              *)

\* expire_stale, at the start of a sweep
ExpireStale ==
    /\ \E t \in late : status[t] = "pending"
    /\ status' = Marked({t \in late : status[t] = "pending"}, "expired")
    /\ UNCHANGED <<event, survey, late, selected, running, queueing, past>>

\* claim_for_event: the SELECT
Select(p, e) ==
    /\ selected[p] = {}
    /\ \E t \in Ids : Waiting(t) /\ event[t] = e
    /\ selected' = [selected EXCEPT ![p] =
                        {t \in Ids : Waiting(t) /\ event[t] = e}]
    /\ UNCHANGED <<status, event, survey, late, running, queueing, past>>

\* claim_for_event: the UPDATEs and the commit; _fire_pending starts a task
\* of the event loop for each row that was claimed.
Claimable_All(p) == selected[p]
Claimable(p) == {t \in selected[p] : status[t] = "pending"}
FiredStatus(ts) == Marked(ts, "fired")
Claim(p) ==
    /\ selected[p] # {}
    /\ status' = FiredStatus(Claimable(p))
    /\ running' = [running EXCEPT ![p] = @ \cup Claimable(p)]
    /\ starts' = [t \in Ids |->
                     IF t \in Claimable(p) THEN starts[t] + 1 ELSE starts[t]]
    /\ selected' = [selected EXCEPT ![p] = {}]
    /\ UNCHANGED <<event, survey, late, queueing, lost>>

\* The transaction fails and is rolled back; the sweep goes on without.
ClaimFails(p) ==
    /\ SweepMayFail /\ selected[p] # {}
    /\ selected' = [selected EXCEPT ![p] = {}]
    /\ UNCHANGED <<status, event, survey, late, running, queueing, past>>

\* _run_pending: an exception and an outcome without success are failures.
Settled_SuccessOnly(t, ok) == IF ok THEN Marked({t}, "done") ELSE status
Settled(t, ok) == Marked({t}, IF ok THEN "done" ELSE "failed")
RunEnds(p, t, ok) ==
    /\ t \in running[p]
    /\ running' = [running EXCEPT ![p] = @ \ {t}]
    /\ status' = Settled(t, ok)
    /\ UNCHANGED <<event, survey, late, selected, queueing, past>>

\* The statement that marks it failed fails as well.
MarkFails(p, t) ==
    /\ SweepMayFail /\ t \in running[p]
    /\ running' = [running EXCEPT ![p] = @ \ {t}]
    /\ lost' = lost \cup {t}
    /\ UNCHANGED <<status, event, survey, late, selected, queueing, starts>>

-----------------------------------------------------------------------------
(* The clock, and the death of a process.                                  *)

Expiry(t) ==
    /\ status[t] = "pending" /\ t \notin late
    /\ late' = late \cup {t}
    /\ UNCHANGED <<status, event, survey, selected, running, queueing, past>>

SweepCrash(p) ==
    /\ SweepMayCrash
    /\ selected[p] # {} \/ running[p] # {} \/ p \in queueing
    /\ selected' = [selected EXCEPT ![p] = {}]
    /\ running' = [running EXCEPT ![p] = {}]
    /\ queueing' = queueing \ {p}
    /\ lost' = lost \cup running[p]
    /\ UNCHANGED <<status, event, survey, late, starts>>

DetectionNext ==
    \/ \E t \in Ids, e \in Events : Create(t, e)
    \/ \E t \in Ids : Cancel(t) \/ Expiry(t)
    \/ ExpireStale
    \/ \E p \in Procs, e \in Events : Select(p, e)
    \/ \E p \in Procs :
          \/ EnqueueRead(p) \/ EnqueueCreate(p)
          \/ Claim(p) \/ ClaimFails(p) \/ SweepCrash(p)
          \/ \E t \in Ids, ok \in BOOLEAN : RunEnds(p, t, ok)
          \/ \E t \in Ids : MarkFails(p, t)

DetectionSpec == DetectionInit /\ [][DetectionNext]_detectionVars

-----------------------------------------------------------------------------
(* Properties.                                                             *)

(* However many sweeps see the device come back, and whoever dies, a task  *)
(* is started at most once ("a concurrent sweep can't double-fire").       *)
FiresOnce == \A t \in Ids : starts[t] <= 1

(* A cancel that was confirmed, and an expiry, stand: the task was not     *)
(* started and never is, even by a sweep that had read it as pending.      *)
CancelStands ==
    \A t \in Ids : status[t] \in {"cancelled", "expired"} => starts[t] = 0

(* A cancelled, expired, finished or failed task stays what it is, and a   *)
(* fired one only finishes or fails.                                       *)
OneWay ==
    [][\A t \in Ids :
          /\ status[t] \in {"done", "failed", "cancelled", "expired"}
                => status'[t] = status[t]
          /\ status[t] = "fired" => status'[t] \in {"fired", "done", "failed"}
      ]_detectionVars

(* Every claimed task is being run or has its outcome on the row, where an *)
(* operator can see it: only the death of its process, or a database that  *)
(* refuses even the failure, leaves a task fired for ever.                 *)
Accounted ==
    \A t \in Ids :
        status[t] = "fired" => t \in lost \/ \E p \in Procs : t \in running[p]

(* The tasks keep the promise of OneRun, although the SELECT and the       *)
(* UPDATE of a claim are apart: each is withdrawn while it waits, or run   *)
(* by one process and then settled or lost, and all of this once.          *)
Runners == [t \in Ids |-> {p \in Procs : t \in running[p]}]
TaskPhase == [t \in Ids |->
    CASE status[t] = "pending" -> "waiting"
      [] status[t] = "fired" -> IF Runners[t] = {} THEN "lost" ELSE "running"
      [] status[t] \in {"cancelled", "expired"} -> "withdrawn"
      [] OTHER -> status[t]]
Promised == INSTANCE OneRun
            WITH Tasks <- Ids, phase <- TaskPhase, runners <- Runners
KeepsOneRun == Promised!Spec
=============================================================================
