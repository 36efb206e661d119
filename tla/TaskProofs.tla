----------------------------- MODULE TaskProofs -----------------------------
(***************************************************************************)
(* The two kinds of tasks of admz/tasks, schedules with their scheduler    *)
(* and one-shot tasks that wait for a device.                              *)
(*                                                                         *)
(* The scheduler, for any intervals and settings, any number of edits,     *)
(* crashes and failing statements: it is type correct, a job never runs    *)
(* twice at once, a pause holds, and unattended runs keep their distance.  *)
(*                                                                         *)
(* The detection tasks of a device, for any number of tasks, processes,    *)
(* crashes and failing statements: a task is started at most once, a       *)
(* confirmed cancel stands, what was claimed is accounted for, and no      *)
(* outcome is ever taken back.                                             *)
(***************************************************************************)
EXTENDS TaskScheduler, DetectionTasks, TLAPS

-----------------------------------------------------------------------------
(* The scheduler.                                                          *)

LEMMA InitType == Init => TypeOK
  BY DEF Init, TypeOK, Row, Absent, Idle

LEMMA LessIsNat == \A n \in Nat : Less(n) \in Nat
  BY DEF Less

(* Replacing the loop keeps the types, and who holds the lock.             *)
LEMMA ReplaceType ==
    ASSUME TypeOK, NEW next \in {"none", "top"}, Replace(next),
           up, up' = up, manual' = manual
    PROVE  /\ timer' \in {"none", "top"}
           /\ lock' \in {"free", "timer", "manual"}
           /\ (lock' = "timer") <=> (timer' = "run")
           /\ (lock' = "manual") <=> (manual' = "run")
           /\ ~ up' => timer' = "none" /\ manual' = "idle"
  BY DEF TypeOK, Replace

LEMMA StepType == TypeOK /\ [Next]_vars => TypeOK'
<1> SUFFICES ASSUME TypeOK, [Next]_vars PROVE TypeOK'
  OBVIOUS
<1>1. ASSUME NEW i \in Intervals, Add(i) PROVE TypeOK'
  BY <1>1, ReplaceType, SchedulerAssumption DEF Add, TypeOK, Row
<1>2. ASSUME NEW enabled \in BOOLEAN, NEW I \in {{}, Intervals}, Update(enabled, I)
      PROVE TypeOK'
  <2>1. row' \in Row /\ halted' \in BOOLEAN /\ spaced' \in Nat
    BY <1>2, SchedulerAssumption DEF Update, EditRow, TypeOK, Row
  <2>2. up /\ UNCHANGED <<up, sleep, task, manual, sync>>
    BY <1>2 DEF Update, EditRow
  <2>3. PICK next \in {"none", "top"} : Replace(next)
    BY <1>2 DEF Update
  <2> QED
    BY <2>1, <2>2, <2>3, ReplaceType DEF TypeOK
<1>3. CASE Remove
  BY <1>3, ReplaceType DEF Remove, TypeOK, Row, Absent
<1>4. ASSUME NEW allow \in BOOLEAN, RunNow(allow) PROVE TypeOK'
  BY <1>4 DEF RunNow, TypeOK
<1>5. CASE ManualAcquire
  BY <1>5 DEF ManualAcquire, TypeOK
<1>6. CASE ManualEnds
  BY <1>6 DEF ManualEnds, TypeOK
<1>7. CASE LoopRead
  BY <1>7 DEF LoopRead, TypeOK, Row
<1>8. CASE LoopWake
  BY <1>8 DEF LoopWake, TypeOK, Row
<1>9. CASE LoopAcquire
  BY <1>9 DEF LoopAcquire, TypeOK
<1>10. CASE LoopRunEnds \/ LoopOverwrites
  <2>1. Rearmed /\ sync' \in {sync, Idle}
    BY <1>10 DEF LoopRunEnds, LoopOverwrites
  <2>2. Idle \in [busy : BOOLEAN, new : Row]
    BY DEF Idle, Absent, Row
  <2> QED
    BY <2>1, <2>2 DEF Rearmed, TypeOK, Row
<1>11. CASE LoopCrash
  BY <1>11 DEF LoopCrash, TypeOK
<1>12. CASE Reconcile
  BY <1>12, ReplaceType DEF Reconcile, TypeOK
<1>13. ASSUME NEW setting \in Settings, SyncRead(setting) PROVE TypeOK'
  <2>1. setting \in Nat
    BY SchedulerAssumption
  <2>2. /\ [there |-> TRUE, enabled |-> TRUE, interval |-> setting, due |-> setting] \in Row
        /\ [row EXCEPT !.enabled = FALSE] \in Row
        /\ [row EXCEPT !.interval = setting] \in Row
    BY <2>1 DEF TypeOK, Row
  <2>3. PICK new \in Row : sync' = [busy |-> TRUE, new |-> new]
    BY <1>13, <2>2 DEF SyncRead
  <2>4. sync' \in [busy : BOOLEAN, new : Row]
    BY <2>3
  <2> QED
    BY <1>13, <2>4 DEF SyncRead, TypeOK
<1>14. CASE SyncWrite
  BY <1>14 DEF SyncWrite, TypeOK, Row, Absent, Idle
<1>15. CASE SyncDies
  BY <1>15 DEF SyncDies, TypeOK, Row, Absent, Idle
<1>16. CASE Crash
  BY <1>16 DEF Crash, TypeOK
<1>17. CASE Boot
  BY <1>17 DEF Boot, TypeOK
<1>18. CASE Tick
  BY <1>18, LessIsNat DEF Tick, TypeOK, Row
<1>19. CASE UNCHANGED vars
  BY <1>19 DEF vars, TypeOK
<1> QED
  BY <1>1, <1>2, <1>3, <1>4, <1>5, <1>6, <1>7, <1>8, <1>9, <1>10, <1>11,
     <1>12, <1>13, <1>14, <1>15, <1>16, <1>17, <1>18, <1>19
  DEF Next

(* Type correctness of the scheduler.                                      *)
THEOREM SchedulerTypeCorrect == Spec => []TypeOK
  BY InitType, StepType, PTL DEF Spec

(* The job of a schedule runs once at a time: whoever runs it holds its    *)
(* lock, also after its loop was replaced or killed.                       *)
THEOREM OneAtATime == Spec => []NoOverlap
<1>1. TypeOK => NoOverlap
  BY DEF TypeOK, NoOverlap
<1> QED
  BY <1>1, SchedulerTypeCorrect, PTL

-----------------------------------------------------------------------------
(* A pause holds, because it also takes the loop away, and nothing but a   *)
(* row that is enabled brings it back.                                     *)

Quiet == halted => ~ Live /\ timer = "none"

LEMMA InitQuiet == Init => Quiet
  BY DEF Init, Quiet, Live, Absent

LEMMA StepQuiet == TypeOK /\ Quiet /\ [Next]_vars => Quiet'
<1> SUFFICES ASSUME TypeOK, Quiet, [Next]_vars, halted'
             PROVE  ~ Live' /\ timer' = "none"
  BY DEF Quiet
<1> USE DEF Quiet, Live
<1>1. ASSUME NEW i \in Intervals, Add(i) PROVE FALSE
  BY <1>1 DEF Add
<1>2. ASSUME NEW enabled \in BOOLEAN, NEW I \in {{}, Intervals}, Update(enabled, I)
      PROVE ~ Live' /\ timer' = "none"
  BY <1>2 DEF Update, EditRow, Replace, TypeOK, Row
<1>3. CASE Remove
  BY <1>3 DEF Remove, Replace, Absent
<1>4. ASSUME NEW allow \in BOOLEAN, RunNow(allow)
      PROVE  ~ Live' /\ timer' = "none"
  BY <1>4 DEF RunNow
<1>5. CASE ManualAcquire \/ ManualEnds
  BY <1>5 DEF ManualAcquire, ManualEnds
<1>6. CASE \/ LoopRead \/ LoopWake \/ LoopAcquire
           \/ LoopRunEnds \/ LoopOverwrites \/ LoopCrash
  BY <1>6 DEF LoopRead, LoopWake, LoopAcquire, LoopRunEnds, LoopOverwrites,
              Rearmed, LoopCrash
<1>7. CASE Reconcile
  BY <1>7 DEF Reconcile, Replace
<1>8. ASSUME NEW setting \in Settings, SyncRead(setting)
      PROVE ~ Live' /\ timer' = "none"
  BY <1>8 DEF SyncRead
<1>9. CASE SyncWrite \/ SyncDies
  BY <1>9 DEF SyncWrite, SyncDies
<1>10. CASE Crash \/ Boot
  BY <1>10 DEF Crash, Boot
<1>11. CASE Tick
  BY <1>11 DEF Tick, TypeOK, Row
<1>12. CASE UNCHANGED vars
  BY <1>12 DEF vars
<1> QED
  BY <1>1, <1>2, <1>3, <1>4, <1>5, <1>6, <1>7, <1>8, <1>9, <1>10, <1>11, <1>12
  DEF Next

(* The only steps that start the job in the loop.                          *)
LEMMA WhoStarts ==
    ASSUME TypeOK, [Next]_vars, timer # "run", timer' = "run"
    PROVE  /\ LoopWake \/ LoopAcquire
           /\ timer = "lock" \/ (timer = "sleep" /\ sleep = 0)
           /\ halted' = halted /\ spaced' = spaced
<1>1. \/ \E i \in Intervals : Add(i)
      \/ \E enabled \in BOOLEAN, I \in {{}, Intervals} : Update(enabled, I)
      \/ Remove \/ Reconcile
      => FALSE
  BY DEF Add, Update, Remove, Reconcile, Replace
<1>2. \/ \E allow \in BOOLEAN : RunNow(allow)
      \/ ManualAcquire \/ ManualEnds
      \/ LoopRead \/ LoopRunEnds \/ LoopOverwrites \/ LoopCrash
      => FALSE
  BY DEF RunNow, ManualAcquire, ManualEnds, LoopRead, LoopRunEnds,
         LoopOverwrites, Rearmed, LoopCrash
<1>3. ~ Boot /\ ~ Crash
  BY DEF Boot, Crash
<1>4. \/ \E setting \in Settings : SyncRead(setting)
      \/ SyncWrite \/ SyncDies \/ Tick \/ UNCHANGED vars
      => FALSE
  BY DEF SyncRead, SyncWrite, SyncDies, Tick, vars
<1>5. LoopWake \/ LoopAcquire
  BY <1>1, <1>2, <1>3, <1>4 DEF Next
<1>6. timer = "lock" \/ (timer = "sleep" /\ sleep = 0)
  BY <1>5 DEF LoopWake, LoopAcquire
<1>7. halted' = halted /\ spaced' = spaced
  BY <1>5 DEF LoopWake, LoopAcquire
<1> QED
  BY <1>5, <1>6, <1>7

(* The loop starts no job of a schedule that was paused or removed.        *)
THEOREM PauseHolds == Spec => PausedNeverFires
<1>1. TypeOK /\ Quiet /\ [Next]_vars
        => [timer # "run" /\ timer' = "run" => ~ halted]_vars
  BY WhoStarts DEF Quiet
<1>2. Spec => []Quiet
  BY InitType, StepType, InitQuiet, StepQuiet, PTL DEF Spec
<1> QED
  BY <1>1, <1>2, SchedulerTypeCorrect, PTL DEF Spec, PausedNeverFires

-----------------------------------------------------------------------------
(* Unattended runs keep their distance, because the wait that is left is   *)
(* in next_run or in the sleep of the loop, wherever the loop is.          *)

Waits ==
    /\ timer \in {"lock", "run"} => spaced = 0
    /\ timer = "sleep" => spaced <= sleep
    /\ timer \in {"none", "top", "done", "dead"} /\ Live => spaced <= row.due

LEMMA InitWaits == Init => Waits
  BY DEF Init, Waits, Live, Absent

LEMMA LessIsMonotone == \A m, n \in Nat : m <= n => Less(m) <= Less(n)
  BY DEF Less

(* Whoever intervenes makes the distance void.                             *)
LEMMA VoidWaits == TypeOK' /\ spaced' = 0 => Waits'
  BY DEF TypeOK, Row, Waits

LEMMA StepWaits == TypeOK /\ TypeOK' /\ Waits /\ [Next]_vars => Waits'
<1> SUFFICES ASSUME TypeOK, TypeOK', Waits, [Next]_vars PROVE Waits'
  OBVIOUS
<1>1. ASSUME NEW i \in Intervals, Add(i) PROVE Waits'
  BY <1>1, VoidWaits DEF Add
<1>2. ASSUME NEW enabled \in BOOLEAN, NEW I \in {{}, Intervals}, Update(enabled, I)
      PROVE Waits'
  BY <1>2, VoidWaits DEF Update, EditRow
<1>3. CASE Remove \/ SyncWrite \/ Crash
  BY <1>3, VoidWaits DEF Remove, SyncWrite, Crash
<1> USE DEF Waits, Live
<1>4. ASSUME NEW allow \in BOOLEAN, RunNow(allow) PROVE Waits'
  BY <1>4 DEF RunNow
<1>5. CASE ManualAcquire \/ ManualEnds
  BY <1>5 DEF ManualAcquire, ManualEnds
<1>6. CASE LoopRead
  BY <1>6 DEF LoopRead, TypeOK, Row
<1>7. CASE LoopWake
  BY <1>7 DEF LoopWake, TypeOK, Row
<1>8. CASE LoopAcquire
  BY <1>8 DEF LoopAcquire
<1>9. CASE LoopRunEnds \/ LoopOverwrites
  BY <1>9 DEF LoopRunEnds, LoopOverwrites, Rearmed, TypeOK, Row
<1>10. CASE LoopCrash
  BY <1>10 DEF LoopCrash, TypeOK, Row
<1>11. CASE Reconcile
  BY <1>11 DEF Reconcile, Replace, TypeOK
<1>12. ASSUME NEW setting \in Settings, SyncRead(setting) PROVE Waits'
  BY <1>12 DEF SyncRead
<1>13. CASE SyncDies
  BY <1>13 DEF SyncDies
<1>14. CASE Boot
  BY <1>14 DEF Boot, TypeOK
<1>15. CASE Tick
  <2>1. /\ row'.there = row.there /\ row'.enabled = row.enabled
        /\ row'.due = Less(row.due)
        /\ sleep' = Less(sleep) /\ spaced' = Less(spaced) /\ timer' = timer
    BY <1>15 DEF Tick, TypeOK, Row
  <2>2. row.due \in Nat /\ sleep \in Nat /\ spaced \in Nat /\ Less(0) = 0
    BY DEF TypeOK, Row, Less
  <2> QED
    BY <2>1, <2>2, LessIsMonotone
<1>16. CASE UNCHANGED vars
  BY <1>16 DEF vars
<1> QED
  BY <1>1, <1>2, <1>3, <1>4, <1>5, <1>6, <1>7, <1>8, <1>9, <1>10, <1>11,
     <1>12, <1>13, <1>14, <1>15, <1>16
  DEF Next

(* Between two unattended runs an interval passes.                         *)
THEOREM RunsAreSpaced == Spec => Spacing
<1>1. TypeOK /\ Waits /\ [Next]_vars
        => [timer # "run" /\ timer' = "run" => spaced = 0]_vars
  BY WhoStarts DEF Waits, TypeOK
<1>2. Spec => []Waits
  BY InitType, StepType, InitWaits, StepWaits, PTL DEF Spec
<1> QED
  BY <1>1, <1>2, SchedulerTypeCorrect, PTL DEF Spec, Spacing

-----------------------------------------------------------------------------
(* The detection tasks.                                                    *)

(* A task that was not claimed was not started, and none was started       *)
(* twice.                                                                  *)
Unstarted == {"none", "pending", "cancelled", "expired"}
Counted ==
    \A t \in Ids :
        /\ status[t] \in Unstarted => starts[t] = 0
        /\ starts[t] <= 1

(* Nobody runs the task of somebody else.                                  *)
Apart ==
    \A t \in Ids : \A p, q \in Procs :
        t \in running[p] /\ t \in running[q] => p = q

IInv == DetectionTypeOK /\ Counted /\ Apart /\ Accounted

LEMMA InitDetections == DetectionInit => IInv
  BY DetectionAssumption
  DEF DetectionInit, IInv, DetectionTypeOK, Counted, Apart, Accounted,
      Statuses, Unstarted

-----------------------------------------------------------------------------
(* The steps that leave the running tasks and the counts alone, and move a *)
(* task only between the statuses in which it was not started.             *)
Harmless ==
    /\ running' = running /\ starts' = starts /\ lost \subseteq lost'
    /\ \A t \in Ids :
          \/ status'[t] = status[t]
          \/ status[t] \in Unstarted /\ status'[t] \in Unstarted

LEMMA HarmlessKeeps ==
    ASSUME DetectionTypeOK, Counted, Apart, Accounted, Harmless
    PROVE  /\ Counted' /\ Apart' /\ Accounted'
           /\ \A p \in Procs : \A t \in running'[p] : status'[t] = "fired"
<1> USE DEF Harmless
<1>1. Counted'
  BY DEF Counted
<1>2. Apart'
  BY DEF Apart
<1>3. Accounted'
  BY DEF Accounted, Unstarted
<1>4. \A p \in Procs : \A t \in running'[p] : status'[t] = "fired"
  BY DEF DetectionTypeOK, Unstarted
<1> QED
  BY <1>1, <1>2, <1>3, <1>4

LEMMA MarkedType ==
    ASSUME DetectionTypeOK, NEW ts, NEW s \in Statuses, status' = Marked(ts, s)
    PROVE  /\ status' \in [Ids -> Statuses]
           /\ \A t \in Ids : status'[t] = IF t \in ts THEN s ELSE status[t]
  BY DEF DetectionTypeOK, Marked

LEMMA CreateInv ==
    ASSUME IInv, NEW t \in Ids, NEW e \in Events, Create(t, e)
    PROVE  IInv'
<1>1. status' \in [Ids -> Statuses]
      /\ \A u \in Ids : status'[u] = IF u \in {t} THEN "pending" ELSE status[u]
  BY MarkedType DEF IInv, Create, Statuses
<1>2. Harmless
  BY <1>1 DEF Harmless, Create, past, Unstarted
<1> QED
  BY <1>1, <1>2, HarmlessKeeps DEF IInv, Create, past, DetectionTypeOK

LEMMA EnqueueInv ==
    ASSUME IInv, NEW p \in Procs, EnqueueRead(p) \/ EnqueueCreate(p)
    PROVE  IInv'
<1>1. CASE EnqueueRead(p)
  <2>1. Harmless
    BY <1>1 DEF Harmless, EnqueueRead, past
  <2> QED
    BY <1>1, <2>1, HarmlessKeeps DEF IInv, EnqueueRead, past, DetectionTypeOK
<1>2. CASE EnqueueCreate(p)
  <2>1. PICK t \in Ids : /\ status[t] = "none"
                         /\ status' = Marked({t}, "pending")
                         /\ event' = [event EXCEPT ![t] = Online]
                         /\ survey' = survey \cup {t}
    BY <1>2 DEF EnqueueCreate
  <2>2. status' \in [Ids -> Statuses]
        /\ \A u \in Ids : status'[u] = IF u \in {t} THEN "pending" ELSE status[u]
    BY <2>1, MarkedType DEF IInv, Statuses
  <2>3. Harmless
    BY <1>2, <2>1, <2>2 DEF Harmless, EnqueueCreate, past, Unstarted
  <2> QED
    BY <1>2, <2>1, <2>2, <2>3, HarmlessKeeps, DetectionAssumption
    DEF IInv, EnqueueCreate, past, DetectionTypeOK
<1> QED
  BY <1>1, <1>2

LEMMA CancelInv ==
    ASSUME IInv, NEW t \in Ids, Cancel(t)
    PROVE  IInv'
<1>1. status' \in [Ids -> Statuses]
      /\ \A u \in Ids : status'[u] = IF u \in {t} THEN "cancelled" ELSE status[u]
  BY MarkedType DEF IInv, Cancel, Statuses
<1>2. Harmless
  BY <1>1 DEF Harmless, Cancel, past, Unstarted
<1> QED
  BY <1>1, <1>2, HarmlessKeeps DEF IInv, Cancel, past, DetectionTypeOK

LEMMA ExpireInv ==
    ASSUME IInv, ExpireStale
    PROVE  IInv'
<1> DEFINE ts == {t \in late : status[t] = "pending"}
<1>1. status' \in [Ids -> Statuses]
      /\ \A u \in Ids : status'[u] = IF u \in ts THEN "expired" ELSE status[u]
  BY MarkedType DEF IInv, ExpireStale, Statuses
<1>2. Harmless
  BY <1>1 DEF Harmless, ExpireStale, past, Unstarted
<1> QED
  BY <1>1, <1>2, HarmlessKeeps DEF IInv, ExpireStale, past, DetectionTypeOK

(* A claim takes the tasks that are still pending, so that nobody else     *)
(* runs them and they were never started.                                  *)
LEMMA ClaimInv ==
    ASSUME IInv, NEW p \in Procs, Claim(p)
    PROVE  IInv'
<1> DEFINE ts == Claimable(p)
<1>1. ts \subseteq Ids /\ \A t \in ts : status[t] = "pending"
  BY DEF Claimable, IInv, DetectionTypeOK
<1>2. status' \in [Ids -> Statuses]
      /\ \A u \in Ids : status'[u] = IF u \in ts THEN "fired" ELSE status[u]
  BY MarkedType DEF IInv, Claim, FiredStatus, Statuses
<1>3. /\ running' = [running EXCEPT ![p] = running[p] \cup ts]
      /\ starts' = [t \in Ids |-> IF t \in ts THEN starts[t] + 1 ELSE starts[t]]
      /\ selected' = [selected EXCEPT ![p] = {}]
      /\ lost' = lost
      /\ UNCHANGED <<event, survey, late, queueing>>
  BY DEF Claim
<1> HIDE DEF ts
<1>4. \A q \in Procs : \A t \in running[q] : t \notin ts
  BY <1>1 DEF IInv, DetectionTypeOK
<1>5. \A t \in ts : starts[t] = 0
  BY <1>1 DEF IInv, Counted, Unstarted
<1>6. Counted'
  BY <1>2, <1>3, <1>5 DEF IInv, Counted, Unstarted, DetectionTypeOK
<1>7. Apart'
  BY <1>3, <1>4 DEF IInv, Apart, DetectionTypeOK
<1>8. Accounted'
  BY <1>2, <1>3 DEF IInv, Accounted, DetectionTypeOK
<1>9. \A q \in Procs : \A t \in running'[q] : status'[t] = "fired"
  BY <1>1, <1>2, <1>3 DEF IInv, DetectionTypeOK
<1>10. /\ running' \in [Procs -> SUBSET Ids]
       /\ selected' \in [Procs -> SUBSET Ids]
       /\ starts' \in [Ids -> Nat]
  BY <1>1, <1>3 DEF IInv, DetectionTypeOK
<1> QED
  BY <1>2, <1>3, <1>6, <1>7, <1>8, <1>9, <1>10 DEF IInv, DetectionTypeOK

LEMMA ClaimFailsInv ==
    ASSUME IInv, NEW p \in Procs, ClaimFails(p)
    PROVE  IInv'
<1>1. Harmless
  BY DEF Harmless, ClaimFails, past
<1> QED
  BY <1>1, HarmlessKeeps DEF IInv, ClaimFails, past, DetectionTypeOK

(* The one who runs a task settles it, and nobody else had it.             *)
LEMMA RunEndsInv ==
    ASSUME IInv, NEW p \in Procs, NEW t \in Ids, NEW ok \in BOOLEAN,
           RunEnds(p, t, ok)
    PROVE  IInv'
<1>1. PICK s \in {"done", "failed"} : status' = Marked({t}, s)
  BY DEF RunEnds, Settled
<1>2. status' \in [Ids -> Statuses]
      /\ \A u \in Ids : status'[u] = IF u \in {t} THEN s ELSE status[u]
  BY <1>1, MarkedType DEF IInv, Statuses
<1>3. /\ running' = [running EXCEPT ![p] = running[p] \ {t}]
      /\ t \in running[p]
      /\ UNCHANGED <<event, survey, late, selected, queueing, starts, lost>>
  BY DEF RunEnds, past
<1>4. \A q \in Procs : t \in running[q] => q = p
  BY <1>3 DEF IInv, Apart
<1>5. Counted'
  BY <1>2, <1>3 DEF IInv, Counted, Unstarted
<1>6. Apart'
  BY <1>3 DEF IInv, Apart, DetectionTypeOK
<1>7. Accounted'
  BY <1>2, <1>3 DEF IInv, Accounted, DetectionTypeOK
<1>8. \A q \in Procs : \A u \in running'[q] : status'[u] = "fired"
  BY <1>2, <1>3, <1>4 DEF IInv, DetectionTypeOK
<1> QED
  BY <1>2, <1>3, <1>5, <1>6, <1>7, <1>8 DEF IInv, DetectionTypeOK

(* A task that can no longer be settled is counted as lost.                *)
LEMMA LossInv ==
    ASSUME IInv, NEW p \in Procs, NEW ts \in SUBSET Ids,
           running' = [running EXCEPT ![p] = running[p] \ ts],
           ts \subseteq running[p], lost' = lost \cup ts,
           status' = status, starts' = starts
    PROVE  /\ Counted' /\ Apart' /\ Accounted'
           /\ running' \in [Procs -> SUBSET Ids] /\ lost' \subseteq Ids
           /\ \A q \in Procs : \A u \in running'[q] : status'[u] = "fired"
<1>1. Counted'
  BY DEF IInv, Counted
<1>2. Apart'
  BY DEF IInv, Apart, DetectionTypeOK
<1>3. Accounted'
  BY DEF IInv, Accounted, DetectionTypeOK
<1>4. running' \in [Procs -> SUBSET Ids] /\ lost' \subseteq Ids
  BY DEF IInv, DetectionTypeOK
<1>5. \A q \in Procs : \A u \in running'[q] : status'[u] = "fired"
  BY DEF IInv, DetectionTypeOK
<1> QED
  BY <1>1, <1>2, <1>3, <1>4, <1>5

LEMMA MarkFailsInv ==
    ASSUME IInv, NEW p \in Procs, NEW t \in Ids, MarkFails(p, t)
    PROVE  IInv'
<1>1. /\ running' = [running EXCEPT ![p] = running[p] \ {t}]
      /\ {t} \subseteq running[p] /\ lost' = lost \cup {t}
      /\ UNCHANGED <<status, event, survey, late, selected, queueing, starts>>
  BY DEF MarkFails
<1>2. {t} \in SUBSET Ids
  OBVIOUS
<1> QED
  BY <1>1, <1>2, LossInv DEF IInv, DetectionTypeOK

LEMMA CrashInv ==
    ASSUME IInv, NEW p \in Procs, SweepCrash(p)
    PROVE  IInv'
<1> DEFINE ts == running[p]
<1>1. ts \in SUBSET Ids
  BY DEF IInv, DetectionTypeOK
<1>2. /\ running' = [running EXCEPT ![p] = running[p] \ ts]
      /\ lost' = lost \cup ts
      /\ selected' = [selected EXCEPT ![p] = {}]
      /\ queueing' = queueing \ {p}
      /\ UNCHANGED <<status, event, survey, late, starts>>
  BY DEF SweepCrash
<1> QED
  BY <1>1, <1>2, LossInv DEF IInv, DetectionTypeOK

LEMMA StepDetections == IInv /\ [DetectionNext]_detectionVars => IInv'
<1> SUFFICES ASSUME IInv, [DetectionNext]_detectionVars PROVE IInv'
  OBVIOUS
<1>1. ASSUME NEW t \in Ids, Expiry(t) PROVE IInv'
  <2>1. Harmless
    BY <1>1 DEF Harmless, Expiry, past
  <2> QED
    BY <1>1, <2>1, HarmlessKeeps DEF IInv, Expiry, past, DetectionTypeOK
<1>2. ASSUME NEW p \in Procs, NEW e \in Events, Select(p, e) PROVE IInv'
  <2>1. Harmless
    BY <1>2 DEF Harmless, Select, past
  <2>2. selected' \in [Procs -> SUBSET Ids]
    BY <1>2 DEF IInv, Select, DetectionTypeOK
  <2> QED
    BY <1>2, <2>1, <2>2, HarmlessKeeps DEF IInv, Select, past, DetectionTypeOK
<1>3. CASE UNCHANGED detectionVars
  <2>1. Harmless
    BY <1>3 DEF Harmless, detectionVars, past
  <2> QED
    BY <1>3, <2>1, HarmlessKeeps
    DEF IInv, detectionVars, past, DetectionTypeOK
<1> QED
  BY <1>1, <1>2, <1>3, CreateInv, EnqueueInv, CancelInv, ExpireInv, ClaimInv,
     ClaimFailsInv, RunEndsInv, MarkFailsInv, CrashInv
  DEF DetectionNext

-----------------------------------------------------------------------------

(* The inductive invariant: who may still start, run and settle a task.    *)
THEOREM DetectionsInvariant == DetectionSpec => []IInv
  BY InitDetections, StepDetections, PTL DEF DetectionSpec

(* Type correctness of the detection tasks.                                *)
THEOREM DetectionsTypeCorrect == DetectionSpec => []DetectionTypeOK
<1>1. IInv => DetectionTypeOK
  BY DEF IInv
<1> QED
  BY <1>1, DetectionsInvariant, PTL

(* A task is started at most once.                                         *)
THEOREM StartedOnce == DetectionSpec => []FiresOnce
<1>1. IInv => FiresOnce
  BY DEF IInv, Counted, FiresOnce
<1> QED
  BY <1>1, DetectionsInvariant, PTL

(* A cancelled or expired task was never started.                          *)
THEOREM CancelIsFinal == DetectionSpec => []CancelStands
<1>1. IInv => CancelStands
  BY DEF IInv, Counted, CancelStands, Unstarted
<1> QED
  BY <1>1, DetectionsInvariant, PTL

(* What was claimed has a runner or an outcome, or was lost with its       *)
(* process.                                                                *)
THEOREM NothingVanishes == DetectionSpec => []Accounted
<1>1. IInv => Accounted
  BY DEF IInv
<1> QED
  BY <1>1, DetectionsInvariant, PTL

-----------------------------------------------------------------------------

\* Each step moves the tasks it moves out of one status into others.
Forward ==
    \A t \in Ids :
        /\ status[t] \in {"done", "failed", "cancelled", "expired"}
              => status'[t] = status[t]
        /\ status[t] = "fired" => status'[t] \in {"fired", "done", "failed"}

LEMMA StepForward == IInv /\ [DetectionNext]_detectionVars => Forward
<1> SUFFICES ASSUME IInv, [DetectionNext]_detectionVars PROVE Forward
  OBVIOUS
<1> USE DEF Forward, IInv, DetectionTypeOK
<1>1. ASSUME NEW t \in Ids, NEW e \in Events, Create(t, e) PROVE Forward
  BY <1>1 DEF Create, Marked
<1>2. ASSUME NEW t \in Ids, Cancel(t) PROVE Forward
  BY <1>2 DEF Cancel, Marked
<1>3. CASE ExpireStale
  BY <1>3 DEF ExpireStale, Marked
<1>4. ASSUME NEW p \in Procs, EnqueueCreate(p) PROVE Forward
  BY <1>4 DEF EnqueueCreate, Marked
<1>5. ASSUME NEW p \in Procs, Claim(p) PROVE Forward
  BY <1>5 DEF Claim, Claimable, FiredStatus, Marked
<1>6. ASSUME NEW p \in Procs, NEW t \in Ids, NEW ok \in BOOLEAN, RunEnds(p, t, ok)
      PROVE  Forward
  <2>1. status[t] = "fired"
    BY <1>6 DEF RunEnds
  <2>2. PICK s \in {"done", "failed"} : status' = Marked({t}, s)
    BY <1>6 DEF RunEnds, Settled
  <2> QED
    BY <2>1, <2>2 DEF Marked
<1>7. status' = status => Forward
  OBVIOUS
<1> QED
  BY <1>1, <1>2, <1>3, <1>4, <1>5, <1>6, <1>7
  DEF DetectionNext, EnqueueRead, ClaimFails, SweepCrash, MarkFails, Expiry,
      Select, detectionVars, past

(* No outcome is taken back, and a fired task can only finish or fail.     *)
THEOREM OutcomesStand == DetectionSpec => OneWay
<1>1. IInv /\ [DetectionNext]_detectionVars => [Forward]_detectionVars
  BY StepForward
<1>2. [Forward]_detectionVars => [\A t \in Ids :
          /\ status[t] \in {"done", "failed", "cancelled", "expired"}
                => status'[t] = status[t]
          /\ status[t] = "fired" => status'[t] \in {"fired", "done", "failed"}]_detectionVars
  BY DEF Forward
<1> QED
  BY <1>1, <1>2, DetectionsInvariant, PTL DEF DetectionSpec, OneWay

-----------------------------------------------------------------------------
(* Refinement: each step of the tasks is a step of OneRun, or leaves the   *)
(* phases alone.                                                           *)

PhaseOf(s, R) ==
    CASE s = "pending" -> "waiting"
      [] s = "fired" -> IF R = {} THEN "lost" ELSE "running"
      [] s \in {"cancelled", "expired"} -> "withdrawn"
      [] OTHER -> s

\* What a step does to a set of tasks: a new status and new runners.
Moves(S, s, R) ==
    /\ \A t \in Ids : status'[t] = IF t \in S THEN s ELSE status[t]
    /\ \A t \in Ids : Runners'[t] = IF t \in S THEN R ELSE Runners[t]

LEMMA MoveRefines ==
    ASSUME NEW S \in SUBSET Ids, NEW s, NEW R, NEW old, NEW O, Moves(S, s, R),
           \A t \in S : status[t] = old /\ Runners[t] = O
    PROVE  Promised!Move(S, PhaseOf(old, O), PhaseOf(s, R), R)
<1>1. \A t \in Ids : TaskPhase[t] = PhaseOf(status[t], Runners[t])
  BY DEF TaskPhase, PhaseOf
<1>2. \A t \in Ids : TaskPhase'[t] = PhaseOf(status'[t], Runners'[t])
  BY DEF TaskPhase, PhaseOf
<1>3. /\ TaskPhase' = [t \in Ids |-> TaskPhase'[t]]
      /\ Runners' = [t \in Ids |-> Runners'[t]]
  BY DEF TaskPhase, Runners
<1>4. \A t \in Ids : /\ TaskPhase'[t] = IF t \in S THEN PhaseOf(s, R)
                                                   ELSE TaskPhase[t]
                     /\ Runners'[t] = IF t \in S THEN R ELSE Runners[t]
  BY <1>1, <1>2 DEF Moves
<1>5. TaskPhase' = [t \in Ids |-> IF t \in S THEN PhaseOf(s, R) ELSE TaskPhase[t]]
      /\ Runners' = [t \in Ids |-> IF t \in S THEN R ELSE Runners[t]]
  BY <1>3, <1>4
<1>6. \A t \in S : TaskPhase[t] = PhaseOf(old, O)
  BY <1>1
<1> HIDE DEF TaskPhase, Runners, PhaseOf
<1> QED
  BY <1>5, <1>6 DEF Promised!Move

LEMMA StillRefines ==
    ASSUME status' = status, running' = running
    PROVE  UNCHANGED Promised!vars
<1>1. Runners' = Runners
  BY DEF Runners
<1> QED
  BY <1>1 DEF TaskPhase, Promised!vars

LEMMA InitRefines == DetectionInit => Promised!Init
<1> SUFFICES ASSUME DetectionInit PROVE Promised!Init
  OBVIOUS
<1>1. Runners = [t \in Ids |-> {}]
  BY DEF Runners, DetectionInit
<1>2. TaskPhase = [t \in Ids |-> "none"]
  BY DEF TaskPhase, DetectionInit
<1> QED
  BY <1>1, <1>2 DEF Promised!Init

\* The runners of a task that is not fired are none, and of one that is at
\* most one.
LEMMA RunnersOf ==
    ASSUME IInv, NEW t \in Ids
    PROVE  /\ status[t] # "fired" => Runners[t] = {}
           /\ \A p \in Procs : t \in running[p] =>
                 Runners[t] = {p} /\ status[t] = "fired"
  BY DEF IInv, DetectionTypeOK, Apart, Runners

\* The runners of a task after a step that only changes p's tasks.
LEMMA RunnersNow ==
    ASSUME NEW p \in Procs, NEW t \in Ids,
           \A q \in Procs \ {p} : running'[q] = running[q]
    PROVE  /\ (t \in running'[p] <=> t \in running[p])
                 => Runners'[t] = Runners[t]
           /\ t \in running'[p] /\ Runners[t] = {} => Runners'[t] = {p}
           /\ t \notin running'[p] /\ Runners[t] = {p} => Runners'[t] = {}
<1>1. /\ \A q : q \in Runners[t] <=> q \in Procs /\ t \in running[q]
      /\ \A q : q \in Runners'[t] <=> q \in Procs /\ t \in running'[q]
  BY DEF Runners
<1> HIDE DEF Runners
<1>2. ASSUME t \in running'[p] <=> t \in running[p]
      PROVE  \A q : q \in Runners'[t] <=> q \in Runners[t]
  BY <1>1, <1>2
<1>3. ASSUME t \in running'[p], Runners[t] = {}
      PROVE  \A q : q \in Runners'[t] <=> q \in {p}
  BY <1>1, <1>3
<1>4. ASSUME t \notin running'[p], Runners[t] = {p}
      PROVE  \A q : q \in Runners'[t] <=> q \in {}
  BY <1>1, <1>4
<1> DEFINE A == Runners'[t] B == Runners[t]
<1>5. /\ (\A q : q \in A <=> q \in B) => A = B
      /\ (\A q : q \in A <=> q \in {p}) => A = {p}
      /\ (\A q : q \in A <=> q \in {}) => A = {}
  <2> HIDE DEF A, B
  <2> QED
    OBVIOUS
<1> QED
  BY <1>2, <1>3, <1>4, <1>5

LEMMA QueueRefines ==
    ASSUME IInv, NEW t \in Ids, status[t] = "none",
           status' = Marked({t}, "pending"), running' = running
    PROVE  Promised!Next
<1>1. Moves({t}, "pending", {}) /\ Runners[t] = {}
  <2>1. Runners[t] = {}
    BY RunnersOf
  <2>2. Runners' = Runners
    BY DEF Runners
  <2>3. \A u \in Ids :
           status'[u] = IF u \in {t} THEN "pending" ELSE status[u]
    BY DEF Marked, IInv, DetectionTypeOK
  <2> HIDE DEF Runners
  <2> QED
    BY <2>1, <2>2, <2>3 DEF Moves
<1>2. Promised!Move({t}, PhaseOf("none", {}), PhaseOf("pending", {}), {})
  BY <1>1, MoveRefines
<1>3. Promised!Queue(t)
  BY <1>2 DEF PhaseOf, Promised!Queue
<1> QED
  BY <1>3 DEF Promised!Next

LEMMA WithdrawRefines ==
    ASSUME IInv, NEW S \in SUBSET Ids, NEW s \in {"cancelled", "expired"},
           \A t \in S : status[t] = "pending",
           status' = Marked(S, s), running' = running
    PROVE  Promised!Next
<1>1. Moves(S, s, {}) /\ \A t \in S : Runners[t] = {}
  BY RunnersOf, MarkedType DEF Moves, Runners, IInv, Statuses
<1>2. Promised!Move(S, PhaseOf("pending", {}), PhaseOf(s, {}), {})
  BY <1>1, MoveRefines
<1>3. Promised!Withdraw(S)
  BY <1>2 DEF PhaseOf, Promised!Withdraw
<1> QED
  BY <1>3 DEF Promised!Next

LEMMA ClaimRefines ==
    ASSUME IInv, NEW p \in Procs, Claim(p)
    PROVE  Promised!Next
<1> DEFINE S == Claimable(p)
<1>1. S \in SUBSET Ids /\ \A t \in S : status[t] = "pending" /\ Runners[t] = {}
  BY RunnersOf DEF Claimable, IInv, DetectionTypeOK
<1>2. \A t \in Ids : status'[t] = IF t \in S THEN "fired" ELSE status[t]
  BY MarkedType DEF IInv, Claim, FiredStatus, Statuses
<1>3. \A t \in Ids : Runners'[t] = IF t \in S THEN {p} ELSE Runners[t]
  <2>1. /\ \A q \in Procs \ {p} : running'[q] = running[q]
        /\ running'[p] = running[p] \cup S
    BY DEF Claim, IInv, DetectionTypeOK
  <2> HIDE DEF Runners, S
  <2> QED
    BY <1>1, <2>1, RunnersNow
<1> HIDE DEF S
<1>4. Promised!Move(S, PhaseOf("pending", {}), PhaseOf("fired", {p}), {p})
  BY <1>1, <1>2, <1>3, MoveRefines DEF Moves
<1>5. Promised!Run(p, S)
  BY <1>4 DEF PhaseOf, Promised!Run
<1> QED
  BY <1>1, <1>5 DEF Promised!Next

LEMMA SettleRefines ==
    ASSUME IInv, NEW p \in Procs, NEW t \in Ids, NEW ok \in BOOLEAN,
           RunEnds(p, t, ok)
    PROVE  Promised!Next
<1>1. PICK s \in {"done", "failed"} : status' = Marked({t}, s)
  BY DEF RunEnds, Settled
<1>2. Runners[t] = {p} /\ status[t] = "fired"
  BY RunnersOf DEF RunEnds
<1>3. \A u \in Ids : status'[u] = IF u \in {t} THEN s ELSE status[u]
  BY <1>1, MarkedType DEF IInv, Statuses
<1>4. \A u \in Ids : Runners'[u] = IF u \in {t} THEN {} ELSE Runners[u]
  <2>1. /\ \A q \in Procs \ {p} : running'[q] = running[q]
        /\ running'[p] = running[p] \ {t}
    BY DEF RunEnds, IInv, DetectionTypeOK
  <2> HIDE DEF Runners
  <2> QED
    BY <1>2, <2>1, RunnersNow
<1>5. Promised!Move({t}, PhaseOf("fired", {p}), PhaseOf(s, {}), {})
  BY <1>2, <1>3, <1>4, MoveRefines DEF Moves
<1>6. Promised!Settle(t, s)
  BY <1>5 DEF PhaseOf, Promised!Settle
<1> QED
  BY <1>6 DEF Promised!Next

LEMMA LossRefines ==
    ASSUME IInv, NEW p \in Procs, NEW S \in SUBSET Ids, S \subseteq running[p],
           running' = [running EXCEPT ![p] = @ \ S], status' = status
    PROVE  Promised!Next
<1>1. \A t \in S : status[t] = "fired" /\ Runners[t] = {p}
  BY RunnersOf
<1>2. \A t \in Ids : status'[t] = IF t \in S THEN "fired" ELSE status[t]
  BY <1>1
<1>3. \A t \in Ids : Runners'[t] = IF t \in S THEN {} ELSE Runners[t]
  <2>1. /\ \A q \in Procs \ {p} : running'[q] = running[q]
        /\ running'[p] = running[p] \ S
    BY DEF IInv, DetectionTypeOK
  <2> HIDE DEF Runners
  <2> QED
    BY <1>1, <2>1, RunnersNow
<1>4. Promised!Move(S, PhaseOf("fired", {p}), PhaseOf("fired", {}), {})
  BY <1>1, <1>2, <1>3, MoveRefines DEF Moves
<1>5. Promised!Lose(p, S)
  BY <1>1, <1>4 DEF PhaseOf, Promised!Lose
<1> QED
  BY <1>5 DEF Promised!Next

LEMMA StepRefines ==
    ASSUME IInv, [DetectionNext]_detectionVars
    PROVE  [Promised!Next]_(Promised!vars)
<1>1. ASSUME NEW t \in Ids, NEW e \in Events, Create(t, e)
      PROVE  Promised!Next
  BY <1>1, QueueRefines DEF Create
<1>2. ASSUME NEW p \in Procs, EnqueueCreate(p)
      PROVE  Promised!Next
  BY <1>2, QueueRefines DEF EnqueueCreate
<1>3. ASSUME NEW t \in Ids, Cancel(t)
      PROVE  Promised!Next
  BY <1>3, WithdrawRefines DEF Cancel
<1>4. CASE ExpireStale
  <2>1. {t \in late : status[t] = "pending"} \in SUBSET Ids
    BY DEF IInv, DetectionTypeOK
  <2> QED
    BY <1>4, <2>1, WithdrawRefines DEF ExpireStale
<1>5. ASSUME NEW p \in Procs, NEW t \in Ids, MarkFails(p, t)
      PROVE  Promised!Next
  <2>1. /\ {t} \in SUBSET Ids /\ {t} \subseteq running[p]
        /\ status' = status /\ running' = [running EXCEPT ![p] = @ \ {t}]
    BY <1>5 DEF MarkFails
  <2> QED
    BY <2>1, LossRefines
<1>6. ASSUME NEW p \in Procs, SweepCrash(p)
      PROVE  Promised!Next
  <2>1. /\ running[p] \in SUBSET Ids /\ status' = status
        /\ running' = [running EXCEPT ![p] = @ \ running[p]]
    BY <1>6 DEF SweepCrash, IInv, DetectionTypeOK
  <2> QED
    BY <2>1, LossRefines
<1>7. \/ \E t \in Ids : Expiry(t)
      \/ \E p \in Procs, e \in Events : Select(p, e)
      \/ \E p \in Procs : EnqueueRead(p) \/ ClaimFails(p)
      \/ UNCHANGED detectionVars
      => UNCHANGED Promised!vars
  BY StillRefines
  DEF Expiry, Select, EnqueueRead, ClaimFails, detectionVars, past
<1> QED
  BY <1>1, <1>2, <1>3, <1>4, <1>5, <1>6, <1>7, ClaimRefines, SettleRefines
  DEF DetectionNext

(* The tasks implement OneRun, for any number of tasks and processes.      *)
THEOREM TasksImplement == DetectionSpec => KeepsOneRun
<1>1. IInv /\ [DetectionNext]_detectionVars
        => [Promised!Next]_(Promised!vars)
  BY StepRefines
<1> QED
  BY <1>1, InitRefines, DetectionsInvariant, PTL
  DEF DetectionSpec, KeepsOneRun, Promised!Spec
=============================================================================
