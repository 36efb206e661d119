--------------------------- MODULE TaskScheduler ---------------------------
(***************************************************************************)
(* One schedule task and the scheduler of the web process                  *)
(* (admz/snapshot/scheduler.py over admz/tasks/store.py): the row in the   *)
(* shared tasks table, the asyncio loop that waits and runs it, run_now,   *)
(* the reconcile loop, and the survey-schedule sync that every process     *)
(* performs when it starts.  Schedules do not touch one another, so one is *)
(* enough.                                                                 *)
(*                                                                         *)
(* The web process has one event loop: what happens between two awaits is  *)
(* one step.  Another process that writes the row reads it in one step and *)
(* replaces it in a later one (TaskStore.update is a SELECT followed by    *)
(* INSERT OR REPLACE).                                                     *)
(*                                                                         *)
(* Times are kept as the ticks left until they come; 0 is "now or past".   *)
(***************************************************************************)
EXTENDS Naturals

CONSTANTS
    Intervals,   \* the interval_seconds an operator chooses
    Settings,    \* capability_survey_interval_seconds of a starting process
    MayCrash,    \* TRUE: the web process may die and come back
    MayFail      \* TRUE: a statement of the loop may fail (database is locked)

ASSUME SchedulerAssumption ==
    /\ Intervals # {} /\ Intervals \subseteq Nat \ {0}
    /\ Settings \subseteq Nat
    /\ MayCrash \in BOOLEAN /\ MayFail \in BOOLEAN

VARIABLES
    row,      \* the row: there, enabled, interval, due (next_run)
    up,       \* the web process is running its scheduler
    timer,    \* _tasks[id]: "none", or where its loop is
    sleep,    \* what is left of the sleep of the loop
    task,     \* the interval in the Task object the loop has read
    lock,     \* the holder of _job_locks[id]
    manual,   \* where a run_now of the web process is
    sync,     \* what a starting process is about to write, or Idle
    halted,   \* history: an operator paused or removed it, nobody revived it
    spaced    \* history: ticks until another unattended run may start

vars == <<row, up, timer, sleep, task, lock, manual, sync, halted, spaced>>

Row    == [there : BOOLEAN, enabled : BOOLEAN, interval : Nat, due : Nat]
Absent == [there |-> FALSE, enabled |-> FALSE, interval |-> 0, due |-> 0]
Idle   == [busy |-> FALSE, new |-> Absent]

TypeOK ==
    /\ row \in Row
    /\ up \in BOOLEAN
    /\ timer \in {"none", "top", "sleep", "lock", "run", "done",
                 "dead"}
    /\ sleep \in Nat
    /\ task \in Nat
    /\ lock \in {"free", "timer", "manual"}
    /\ (lock = "timer") <=> (timer = "run")
    /\ manual \in {"idle", "lock", "run"}
    /\ (lock = "manual") <=> (manual = "run")
    /\ ~ up => timer = "none" /\ manual = "idle"
    /\ sync \in [busy : BOOLEAN, new : Row]
    /\ halted \in BOOLEAN
    /\ spaced \in Nat

Init ==
    /\ row = Absent
    /\ up = TRUE
    /\ timer = "none"
    /\ sleep = 0
    /\ task = 0
    /\ lock = "free"
    /\ manual = "idle"
    /\ sync = Idle
    /\ halted = TRUE
    /\ spaced = 0

Live == row.there /\ row.enabled

-----------------------------------------------------------------------------
(* Starting and cancelling the loop.  A loop that is cancelled while it    *)
(* runs the job abandons the job and gives its lock back.                  *)

Replace(next) ==
    /\ timer' = next
    /\ lock' = IF timer = "run" THEN "free" ELSE lock

-----------------------------------------------------------------------------
(* What an operator does, in the web process.                              *)

\* add_schedule
Add(i) ==
    /\ up
    /\ row' = [there |-> TRUE, enabled |-> TRUE, interval |-> i, due |-> i]
    /\ Replace("top")
    /\ halted' = FALSE /\ spaced' = 0
    /\ UNCHANGED <<up, sleep, task, manual, sync>>

\* update_schedule; next_run is recomputed only for a new interval.
EditRow(enabled, intervals) ==
    /\ up /\ row.there
    /\ \/ /\ intervals = {}
          /\ row' = [row EXCEPT !.enabled = enabled]
       \/ \E i \in intervals :
             row' = [row EXCEPT !.enabled = enabled, !.interval = i, !.due = i]
    /\ halted' = ~ enabled /\ spaced' = 0
    /\ UNCHANGED <<up, sleep, task, manual, sync>>
Update_LeavesTimer(enabled, intervals) ==
    /\ EditRow(enabled, intervals)
    /\ IF enabled THEN Replace("top") ELSE UNCHANGED <<timer, lock>>
Update(enabled, intervals) ==
    /\ EditRow(enabled, intervals)
    /\ Replace(IF enabled THEN "top" ELSE "none")

\* remove_schedule
Remove ==
    /\ up /\ row.there
    /\ row' = Absent
    /\ Replace("none")
    /\ halted' = TRUE /\ spaced' = 0
    /\ UNCHANGED <<up, sleep, task, manual, sync>>

\* run_now: a console operator may run a paused schedule, others may not.
RunNow(allowPaused) ==
    /\ up /\ manual = "idle"
    /\ row.there /\ (row.enabled \/ allowPaused)
    /\ IF lock = "free" THEN lock' = "manual" /\ manual' = "run"
                        ELSE manual' = "lock" /\ UNCHANGED lock
    /\ UNCHANGED <<row, up, timer, sleep, task, sync, halted, spaced>>

ManualAcquire ==
    /\ manual = "lock" /\ lock = "free"
    /\ lock' = "manual" /\ manual' = "run"
    /\ UNCHANGED <<row, up, timer, sleep, task, sync, halted, spaced>>

\* set_run_result writes last_run and last_result only.
ManualEnds ==
    /\ manual = "run"
    /\ manual' = "idle" /\ lock' = "free"
    /\ UNCHANGED <<row, up, timer, sleep, task, sync, halted, spaced>>

-----------------------------------------------------------------------------
(* _schedule_loop.                                                         *)

LoopRead ==
    /\ timer = "top"
    /\ IF Live THEN timer' = "sleep" /\ sleep' = row.due
               ELSE timer' = "done" /\ UNCHANGED sleep
    /\ UNCHANGED <<row, up, task, lock, manual, sync, halted, spaced>>

\* The sleep is over: the row is read again, and the job waits for its lock.
LoopWake_IgnoresLock ==
    /\ timer = "sleep" /\ sleep = 0
    /\ IF Live
         THEN /\ task' = row.interval
              /\ timer' = "run" /\ lock' = "timer"
         ELSE timer' = "done" /\ UNCHANGED <<task, lock>>
    /\ UNCHANGED <<row, up, sleep, manual, sync, halted, spaced>>
LoopWake ==
    /\ timer = "sleep" /\ sleep = 0
    /\ IF Live
         THEN /\ task' = row.interval
              /\ IF lock = "free" THEN timer' = "run" /\ lock' = "timer"
                                  ELSE timer' = "lock" /\ UNCHANGED lock
         ELSE timer' = "done" /\ UNCHANGED <<task, lock>>
    /\ UNCHANGED <<row, up, sleep, manual, sync, halted, spaced>>

LoopAcquire ==
    /\ timer = "lock" /\ lock = "free"
    /\ timer' = "run" /\ lock' = "timer"
    /\ UNCHANGED <<row, up, sleep, task, manual, sync, halted, spaced>>

\* The job ended, well or not; the next run is an interval from now.
LoopRunEnds_NotRearmed ==
    /\ timer = "run"
    /\ timer' = "top" /\ lock' = "free"
    /\ spaced' = IF row.there THEN task ELSE 0
    /\ UNCHANGED <<row, up, sleep, task, manual, sync, halted>>
Rearmed ==
    /\ timer = "run"
    /\ timer' = "top" /\ lock' = "free"
    /\ row' = IF row.there THEN [row EXCEPT !.due = task] ELSE row
    /\ spaced' = IF row.there THEN task ELSE 0
    /\ UNCHANGED <<up, sleep, task, manual, halted>>
LoopRunEnds == Rearmed /\ UNCHANGED sync

\* The same, where another process writes the row between the read and the
\* replacement of TaskStore.update: what it wrote is gone.
LoopOverwrites == Rearmed /\ row.there /\ sync.busy /\ sync' = Idle

\* A statement of the loop raised: the loop is over, and stays in _tasks,
\* where the reconcile loop takes it for a running one.
LoopCrash ==
    /\ MayFail
    /\ timer \in {"top", "run"} \/ (timer = "sleep" /\ sleep = 0)
    /\ timer' = "dead"
    /\ lock' = IF timer = "run" THEN "free" ELSE lock
    /\ UNCHANGED <<row, up, sleep, task, manual, sync, halted, spaced>>

\* _reconcile compares the enabled rows with the keys of _tasks.
Reconcile_AdoptsNothing ==
    /\ up
    /\ timer # "none" /\ ~ Live /\ Replace("none")
    /\ UNCHANGED <<row, up, sleep, task, manual, sync, halted, spaced>>
Reconcile ==
    /\ up
    /\ \/ timer = "none" /\ Live /\ Replace("top")
       \/ timer # "none" /\ ~ Live /\ Replace("none")
    /\ UNCHANGED <<row, up, sleep, task, manual, sync, halted, spaced>>

-----------------------------------------------------------------------------
(* ensure_capability_survey_schedule in another process that starts.       *)

SyncRead(setting) ==
    /\ ~ sync.busy
    /\ \/ /\ ~ row.there /\ setting # 0
          /\ sync' = [busy |-> TRUE,
                      new |-> [there |-> TRUE, enabled |-> TRUE,
                               interval |-> setting, due |-> setting]]
       \/ /\ Live /\ setting = 0
          /\ sync' = [busy |-> TRUE, new |-> [row EXCEPT !.enabled = FALSE]]
       \/ /\ row.there /\ setting # 0 /\ row.interval # setting
          /\ sync' = [busy |-> TRUE, new |-> [row EXCEPT !.interval = setting]]
    /\ UNCHANGED <<row, up, timer, sleep, task, lock, manual, halted,
                   spaced>>

\* INSERT OR REPLACE, whatever became of the row in between.
SyncWrite ==
    /\ sync.busy
    /\ row' = sync.new
    /\ sync' = Idle
    /\ halted' = (halted /\ ~ sync.new.enabled) /\ spaced' = 0
    /\ UNCHANGED <<up, timer, sleep, task, lock, manual>>

\* The process that was starting dies first.
SyncDies ==
    /\ sync.busy
    /\ sync' = Idle
    /\ UNCHANGED <<row, up, timer, sleep, task, lock, manual, halted,
                   spaced>>

-----------------------------------------------------------------------------
(* The web process dies and comes back; time passes.                       *)

Crash ==
    /\ MayCrash /\ up
    /\ up' = FALSE
    /\ timer' = "none" /\ lock' = "free" /\ manual' = "idle"
    /\ spaced' = 0
    /\ UNCHANGED <<row, sleep, task, sync, halted>>

\* SnapshotScheduler.start
Boot ==
    /\ ~ up
    /\ up' = TRUE
    /\ timer' = IF Live THEN "top" ELSE "none"
    /\ UNCHANGED <<row, sleep, task, lock, manual, sync, halted, spaced>>

Less(n) == IF n = 0 THEN 0 ELSE n - 1

Tick ==
    /\ row.due + sleep + spaced + sync.new.due > 0
    /\ row' = [row EXCEPT !.due = Less(@)]
    /\ sleep' = Less(sleep)
    /\ spaced' = Less(spaced)
    /\ sync' = [sync EXCEPT !.new.due = Less(@)]
    /\ UNCHANGED <<up, timer, task, lock, manual, halted>>

Next ==
    \/ \E i \in Intervals : Add(i)
    \/ \E enabled \in BOOLEAN :
          Update(enabled, {}) \/ Update(enabled, Intervals)
    \/ Remove
    \/ \E allow \in BOOLEAN : RunNow(allow)
    \/ ManualAcquire \/ ManualEnds
    \/ LoopRead \/ LoopWake \/ LoopAcquire \/ LoopRunEnds \/ LoopCrash
    \/ LoopOverwrites
    \/ Reconcile
    \/ \E setting \in Settings : SyncRead(setting)
    \/ SyncWrite \/ SyncDies
    \/ Crash \/ Boot
    \/ Tick

Spec == Init /\ [][Next]_vars

\* Time passes, the event loop resumes what is ready, jobs end, the
\* reconcile loop comes round; asyncio.Lock serves its waiters in turn.
FairSpec ==
    /\ Spec
    /\ WF_vars(Tick)
    /\ WF_vars(LoopRead) /\ WF_vars(LoopWake) /\ WF_vars(LoopRunEnds)
    /\ SF_vars(LoopAcquire)
    /\ WF_vars(ManualEnds)
    /\ WF_vars(Reconcile)

-----------------------------------------------------------------------------
(* Properties.                                                             *)

(* In the web process the job of a schedule runs once at a time, although  *)
(* operators run it by hand while its loop is due, edit it and remove it   *)
(* (KL-SCH-005).                                                           *)
NoOverlap == ~ (timer = "run" /\ manual = "run")

(* The loop starts no job of a schedule that an operator has paused or     *)
(* removed, not even after it has waited for the lock (FR-SCH-008), unless *)
(* another process brought the schedule back.                              *)
PausedNeverFires == [][ timer # "run" /\ timer' = "run" => ~ halted ]_vars

(* Between the end of an unattended run and the start of the next one an   *)
(* interval passes, unless an operator, another process or a restart       *)
(* intervened.                                                             *)
Spacing == [][ timer # "run" /\ timer' = "run" => spaced = 0 ]_vars

(* A schedule that stays enabled is run again and again, also one that     *)
(* another process created or changed (the reconcile loop adopts it),      *)
(* unless operators for ever start its wait afresh or a failing statement  *)
(* kills its loop.                                                         *)
WaitsLeftAlone ==
    <>[][ timer' = "top" => timer \in {"none", "top", "run"} ]_vars
EnabledIsServed ==
    WaitsLeftAlone /\ <>[](Live /\ up /\ timer # "dead")
        => []<>(timer = "run")
=============================================================================
