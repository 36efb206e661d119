# A verification of ADMZ

ADMZ manages a fleet of Axis devices: a web process (FastAPI under uvicorn) and
any number of MCP processes share one SQLite database and one git repository of
configuration snapshots, and act on devices over HTTP. This directory holds
TLA+ models of the parts in which that arrangement is hard to get right, the
TLC instances that check them, and TLAPS proofs of the invariants that matter
most. Paths are relative to `src/`; line numbers are those of the commit
beside this directory.

Contents: 1 the system; 2 what makes it hard; 3 the plan; 4 the models; 5 the
runs and their bounds; 6 fairness; 7 the proofs; 8 where code and documents
disagree; 9 what is not covered.

## 1. The system

| Component | Source (`admz/`) | State | Operations | What makes it correct |
|---|---|---|---|---|
| Confirmation gate | `api/confirm_store.py`, `api/routes/confirm.py`, `operations.py`, `confirm_policy.py` | table `confirm_sessions`; `_PW_ATTEMPTS` in memory | create (sweeps first), approve (web form, chat card), consume (MCP, REST), deny, run the held work, strip the payload | one approval starts the work at most once; an approval is late by no more than a stall; a failure keeps its payload |
| Plan engine | `plans/engine.py`, `plans/models.py` | plans in the memory of each process | create, run (sequential or fleet), roll back | dependents of a failure never run; results belong to their steps; the rollback restores |
| Plans behind the gate | `operations.py`, `plans/engine.py` | a copy of a plan per process, the session, the policy | `execute_gated_plan`, plan branch of `execute_approved_session` | a plan runs once, behind a gate as strict as its steps |
| Task scheduler | `snapshot/scheduler.py`, `tasks/store.py` | table `tasks`; one asyncio task and one lock per schedule | add, edit, remove, run now, loop, reconcile, sync of the survey schedule at startup | no overlap, spacing, a pause holds, an enabled schedule is served |
| Detection tasks | `tasks/store.py`, `fleet/health.py`, `device_capabilities.py` | one-shot rows of `tasks` | queue, cancel, expire, claim, run, settle | started once, outcomes stand, nothing vanishes |
| Device health monitor | `fleet/health.py`, `backends/sqlite_backend.py` | table `device_health`; the sweep lock | loop, forced sweep, probe, hold, clear, purge | a refused password is not tried again too early; the row converges to the truth |
| Temporary credentials | `mcp/temp_credentials.py`, `mcp/server.py`, `operations.py` | table `temp_credentials`; accounts on devices | create (with and without an approval), remove by hand, cleanup loop, reconcile at startup, sweep at shutdown | no account is forgotten; what was handed out works until it expires; the limit holds |
| Drift detection, alerts and notices | `snapshot/drift.py`, `snapshot/drift_alerts.py`, `notices/`, `api/routes/snapshot.py` | signature, alert, cached report and notice of a device; its baseline | check, record, raise and clear the notice, accept, snapshot, dismiss, expire, backfill at startup | drift has its notice; a dismissal stands; the roster converges; an accept blesses what was shown |
| ACS firings | `events/acs_ingest.py`, `events/acs_firebird_ingest.py`, `events/store.py`, `events/evaluator.py` | event rows, the high-water mark and the seeding flag of a poller, the rule cache | start, stop, poll, append, evaluate, edit a rule, prune | a firing is acted on once; history is not acted on; nothing is lost in service |
| Snapshot engine, repository, restore | `snapshot/` | git working tree | capture, commit, restore | a commit is whole or absent |
| Credential capture | `api/capture.py` | `capture_sessions` | open, submit | one submission per session |
| Device event streams, rule capture | `events/ingest.py`, `events/wsstream.py`, `rules/` | streams, watched events, rules | connect, supervise, gate | no stream is lost |
| MCP subprocess pool | `chatbot/mcp_pool.py`, `chatbot/client.py` | one entry and subprocess per principal, two kinds of lock | acquire, evict, reap, stop, the retry of a turn | no subprocess is leaked, none is shared by two turns at once, none that is closing is offered |
| Chatbot | the rest of `chatbot/` | conversations | turn, tools, history | a turn ends with an answer or an error |
| Registry, settings, discovery, onboarding, firmware, demos, survey, authentication, executor, web pages | the remaining directories | rows, files | CRUD, device calls, pages | validation and order of device calls |

The components meet in four ways.

* **The shared database.** Each statement is atomic, and a connection is opened
  for almost every statement; an operation of two statements is two steps and
  other processes run in between. Few transactions span statements (the claim
  of detection tasks, `remove_device`).
* **The event loop of each process.** Coroutines interleave only at `await`.
  What stands between two awaits is atomic within the process and not between
  processes.
* **Calls.** The gate calls the plan engine (`execute_approved_session`); the
  plan engine calls the executor; the health monitor claims and runs detection
  tasks; the scheduler runs jobs that read devices.
* **Devices.** A write may take effect and its answer be lost.

A process may die between any two steps; a request may time out; a statement
may fail with "database is locked".

## 2. What makes it hard

The `hazards` of `PROJECT.json` name each danger at the line where it bites and
the properties that watch it. They fall into seven groups:

1. check-then-act across processes: `complete_session` (`confirm_store.py:441`),
   the claim of tasks (`tasks/store.py:573`), `TaskStore.update` (`:379`), the
   survey queue (`device_capabilities.py:621`), capture sessions, the last drift
   signature (`drift_alerts.py:400`), the limit of temporary accounts
   (`mcp/server.py:5679`);
2. values read before an await and used after it: the health sweep replaces a
   whole row with what it read before the probe (`health.py:2330`), the
   scheduler sleeps for hours on a row (`scheduler.py:365`), an accept blesses
   what the cache holds by then (`api/routes/snapshot.py:189`), a poller's start
   awaits the mark after it looked at `_running` (`acs_firebird_ingest.py:68`);
3. one object in two memories: a plan in two engines (`operations.py:1930`);
4. a cancellation or a crash half way: an edited schedule, a cancelled plan, an
   approval that was spent, a task that was claimed, an account that was made
   and not registered, a page of events half worked off;
5. ordering: fleet results put back into step order (`engine.py:333`), rollback
   steps of writes that overwrite one another (`engine.py:479`);
6. liveness: a hold that renews itself, a schedule without a loop, an approval
   without an effect;
7. cancellation and death in a pool: a client that disconnects while its turn
   starts a subprocess or waits for a lock (`chatbot/mcp_pool.py:438`), a
   subprocess that dies between the check and its use (`:380`), a reaper that
   does not see who is busy (`:512`).

## 3. The plan

Order of work, the most important behaviour first. Modules marked (done) exist.

1. (done) `OneShotApproval`, the abstract promise of a gate; `ConfirmGate`, the
   gate as it is; the refinement, checked and proved.
2. (done) `PlanEngine`: one plan and its execution, and `OrderedSteps`, what it
   promises without lanes and positions; the refinement, checked and proved.
3. (done) `GatedPlans`: composes plans with the gate. It uses the gate through
   `OneShotApproval` (INSTANCE), which is why the refinement was proved first.
4. (done) `TaskScheduler`, `DetectionTasks`: the two lives of the tasks table.
   `OneRun` is what the second promises; the refinement, checked and proved.
5. (done) `HealthSweep`: the monitor, the credential hold, other writers.
6. (done) `McpPool`: the lock of the table against the locks of the entries;
   death, eviction, reaping and cancellation against a turn. `SharedSessions` is
   what it promises; the refinement, checked and proved.
7. (done) `TempCredentials`: the account and its row, written at two moments by
   makers, operators and the loops of several servers.
8. (done) `DriftReview`: the statements of `process_report` in several processes,
   the notice, and the operator who accepts or snapshots meanwhile.
9. (done) `AcsFirings`: the pollers, the event store and the rule cache.
10. Capture sessions and the capability lease, two short modules with the
    check-then-act pattern; the supervisor of the device event streams.
11. The snapshot repository: its lock and a commit that fails half way; the
    fallback of the vault backend.
12. Pure algorithms as operators against a definition: `firmware/upgrade_path.py`,
    the comparison of snapshots, `discovery/reconcile.py`.

Abstract specifications worth stating next: `Hold`, "a refused password waits",
which `HealthSweep` implements. With the modules of 10 and 11 come their
theorems: one submission per session, one holder of a lease, a commit whole or
absent. Every safety property of a passing run is stated by a theorem (section
7).

## 4. The models

Every model keeps the control of the code (guards, early returns, the order of
statements, error paths) and reduces the data to what the properties tell
apart. `map` in `PROJECT.json` gives the lines behind each definition.
Operators whose name has a suffix (`CompleteFlip_Unguarded`) are broken
variants of the definition before the underscore; no action uses them. They
exist to show that a property notices that mistake.

### ConfirmGate (with OneShotApproval)

The table is `status`, `profile`, `created`, `payload`; a handler is `pc`,
`tok`, `via`; `loop[p]` names the handler that holds the event loop of process
`p`, so that `Proceed` goes on without an interleaving in its process and
`Await` gives way. The web process alone approves and denies
(`_approve_session`, `chat_confirm_deny`); consume runs anywhere.
`create_session` is two steps (the sweep, one transaction; the insert),
`complete_session` two (read; conditional UPDATE), `deny_session` two. `starts`,
`guesses`, `outcome` and `stall` are history; `stall[h]` is how long handler `h`
has kept its loop since it last read the row (`HasLooked` starts it again),
while the clock ran: a statement that waits for the lock of the database, a
suspended machine. It counts while `h` is `Approving`, the only time at which a
stall decides anything, and `MaxStall` bounds it. The password
counters live in memory and are lost when the web process dies.

`OneShotApproval` has one variable, the phase of each request, and says that
approval, denial and oblivion exclude each other and work starts once from an
approval. The refinement maps a completed row to `approved` or `started` by
`starts`.

### PlanEngine (with OrderedSteps)

`todo[l]` is the set of steps that lane `l` has left, the least of them next:
one lane in the sequential mode, one per device in the fleet mode (`Fleet`,
`Lanes`). Each step is a read that prepares the rollback (`PreRead`, each
parameter group may fail on its own) and a write (`ExecuteOk`, `ExecuteFailed`,
the latter with or without an effect on the device). `Flattened` puts the lanes'
results back into step order, `RollbackOf` builds the rollback; its positions
are those of the code's loop, with gaps where a step has nothing to restore.
`Cut` is a cancelled task. Assumption: nobody else writes to the plan's devices
meanwhile; the engine holds no lock on a device. Left out: the branch for a lane
that ended in an exception (`engine.py:338`). A step turns every exception of
its execution into a result, so that branch needs parameters of the wrong form
(`_pre_read_for_rollback` is not guarded).

`OrderedSteps` has one outcome for each step and one report for the plan, and
neither lanes nor positions. The refinement reads the outcome of a step from what
it was told, or from the answer at its position in its lane (`Outcome`), and the
report from the results once the plan is over (`Report`).

### GatedPlans

`copy[p][pl]` is the status of a plan in the engine of process `p`. The MCP
process runs a plan inline or asks (`AskLookup`, `AskCreate`: two statements);
the web process approves, rebuilds an unknown plan and runs it (`Dispatch`).
`SetPolicy` changes the level that a risk demands. `Recorded` is the risk floor
of `create_plan`, decided when the plan is made; `Required` is resolved when it
is executed. The sweep of sessions is left out: a lapsed or denied row is of no
use to anyone here. Its names differ from those of `PlanEngine`, so that one
module of proofs extends both; so do those of the two task modules.

### TaskScheduler

One schedule; schedules share nothing. `timer` is where `_schedule_loop` is
(`"top"`, sleeping, waiting for the lock, running, returned, or ended by an
exception), `manual` where `run_now` is, `lock` who holds the job's lock. A
time is what is left of it, so time is not bounded. `LoopRunEnds` joins the
end of the job with the two statements after it, which have no await between
them. The second, `TaskStore.update`, is a read and a replacement: where the
write of another process falls between the two it is lost (`LoopOverwrites`).
`SyncRead` joins the reads of `ensure_capability_survey_schedule` and of
`TaskStore.update`, which lie side by side, and `SyncWrite` is the replacement
of the row. A free lock is taken by whoever comes first, also past a waiter:
asyncio forbids some of these orders, so the safety properties hold in more
behaviours than the code has. Pauses and edits come from the web process, which
is the only one that offers them.

### DetectionTasks (with OneRun)

The tasks of one device. `Select` and `Claim` are the two halves of
`claim_for_event`; `Claimable` is the second check that decides. A claimed task
runs in its process (`running`) until `RunEnds`, or is lost: its process dies,
or the statement that marks it fails.

`OneRun` says that a queued task is withdrawn while it waits, or run by one
process and then settled or lost, each once. The refinement maps a fired row to
`running` or `lost` by whether a process still runs it (`TaskPhase`, `Runners`).

### HealthSweep

One device. `check[w]` is a check: that of the sweep that holds the lock
(`Turn`), or one of `Strays`. A check is five
steps: `ReadCredential`, `ReadPrevious`, `Probe`, `Reread`, `Write`; a failing
lookup takes `ReadKept`, `WriteKept` instead. The loop and the forced sweeps
take turns at the lock (`Acquire`). Checks of different devices share the lock
and the end of a sweep: where the upsert of another device raises, `gather`
hands the exception on, the sweep is over and gives the lock back, and the check
of this device goes on by itself (`Astray`), beside that of the next sweep. Two
checks are on one event loop: one is at an await while the other computes
(`GivesWay`, `Midway`). The probe finds the device in one
`condition` and with one `secret`, at one moment; `Verdicts` is what
`probe_device` concludes by tier, "odd" standing for answers that corroborate
nothing. `NewRow` is the fold of a verdict into the row. Other processes write
the account and clear the hold in two statements (`WriteCredential`,
`ClearHold`), remove the device and register it again. `owed` is history: the
refusals since the last answer, and the ticks that the code's formula imposes
for them. It starts again when a check writes beside another one that has read
the row (`Overlapped`): one of the two writes is then lost, and with it the
escalation. `Meddling` is a bound: whether operators and other processes
(`Others`) act while a check is astray; a credential write that has begun goes
on, and the next sweep, the restart and the clock come in between in any case.
The settings are constant and the clock only advances.

### McpPool (with SharedSessions)

An owner is the task that holds one subprocess (`_SessionOwner`), together with
the entry made of it: `life` and `asked` are what it does and whether
`_close_requested` is set, `entries` is `_entries`. Names are used again once
nothing refers to them (`Unused`). The pool lives in one process and on one
event loop, so what stands between two awaits is one action. `_entries_lock` is
held across an await in one place, where a turn closes a spare subprocess;
`lock` names that turn, and every other use of the lock is inside one action
guarded by `lock = None`. The lock of an entry is held by the turn that is at
`"use"` with it (`Free`).

A turn goes through `acquire` and `_get_or_create` (`LookupHit`, `LookupMiss`,
`Register`, `Discard`), waits for its entry (`Use`), and may come back once,
through `evict`, when its session was dead (`Retry`; `stream_turn` in
`client.py`). It can be cancelled at every await (`CancelSpawn`, `CancelWait`;
in `"use"` that is `EndUse`). `Ends` is a subprocess that dies, at any moment,
or one that was asked to end. `CloseReturns` is the wait of `aclose`: the owner
has ended, or the wait times out and the owner, cancelled, is left to unwind by
itself (`TimesOut`).

There is no clock. Nothing refreshes `last_used` during a use, so any entry may
be past the idle timeout when `Reap` looks. `abandoned` is history: live owners
whose turn or reaper was cancelled before it had seen to their end. `Stop`
happens when no turn runs, as the server waits for its requests first.

`SharedSessions` knows no locks, no deaths and no waits: what is offered to a
principal, what a turn has started, what it was given, and who talks. The
refinement reads these from the table, `mine`, `entry` and `pc`. Its `Join` is
the moment at which a turn gets the entry of another, which for a turn that
closes a spare subprocess first is the end of that wait (`DiscardEnds`).

### TempCredentials

The accounts of one device: `accounts` is what the device has, `row` the
registry. A maker makes the account and then the row (`Ask`, `AccountMade`,
`Register`; `Approved` is the path behind the gate, which does not count); an
operator removes the row and then the account (`DropOne`, `DropExpired`,
`DropNext`); the cleanup loop of each server reads what it has to do (`Start`,
`BeginPass`), removes the account (`Remove`) and then the row (`Settle`), counts
a failure (`Failure`) and gives a row up after `MaxAttempts` (`GiveUp`). Each is
a step of its own, since a call to the device, which may work and lose its
answer, lies between. `todo[s]` is what the loop read, with `spent` the
attempts as they were then. `Shutdown` and `Sweep` are the removal of every
account at the end of `run`. A lifetime is what is left of it. `swept` and
`lost` are history, and so are `met`, `direct` and `alone`: the requests in
`Flight` that were there together with another, the live rows of requests
without an approval (`Askers`), and those of them whose request met no other. Names are random, so a name is used again only when
nothing refers to it (`Unused`).

### DriftReview

One device. A check reads the baseline (`Begin`), reads the device and records
the observation (`Observe`), and then runs `process_report` and
`drift_transition` without giving way in its process: `Store` (the cached
report), `Decide` (the last signature, the alert), `Sign`, `Notify`. Other
processes come in between any two of them. An operator looks at the cached
report (`Inspect`), accepts it (`Accept`, `AcceptNamed`, then `Resolve` and
either the same steps or `Forget`, `Drop`), takes an explicit snapshot
(`Snapshot`, which moves the baseline and touches nothing else), or dismisses
the notice. `Age`, `Expire` and `Purge` are the 30 and 90 days of the queue,
`Boot` with its backfill and `Crash` the life of the processes. A commit stands
for the configuration that it holds. `excuse` and `dismissed` are history: why a
device that the roster shows as drifted may have no open notice, and whether the
notice of this signature was dismissed.

### AcsFirings

Firings are numbered as they happen, which is the order of the ids of the log.
`source` says which of the two pollers is configured. `loop[k]` is a poll loop:
when it asks, it notes the window it asks for, and the answer may begin and end
anywhere that the window passed since (`Froms`, `Untils`). `Handle` is the whole
of what follows the answer, which has no await that gives way: the appends,
some of which may fail, the firings handed over (`Hands`), the rules read again
(`Evaluate`), the mark and the seeding flag. `Crash` may come in the middle of a
page. `request[h]` is a call of `/api/events/control`; it suspends in `stop()`
for the loop it cancelled and, for the log, in `start()` for the mark
(`Stopped`, `ReadMax`, `Started`). `_task` is `task`, which may name another
loop than the one that runs. `Slide` is the window moving on. It is half an
hour wide and the poller asks every half minute, so while the poller is in
service a firing does not leave it before more polls saw it than can fail
(`polls`, `MaxFaults`): a bound on outages, not on what the code does with a
firing. A poller that passed over what it failed to store, and never tried
again, would lose it (`Stored_SeenSet`).

Left out: the truncation of a page (the page holds the whole window), the
cooldown of a rule (0 unless configured), the match of record and rule, which is
one Boolean, and the action of a match, which is a task of its own. The rules
are read at most once in a page. A cancelled loop's waiter may resume later than
asyncio would have it, so the safety properties hold in more behaviours than the
code has. `heard` counts to `HeardCap`.

## 5. The runs

| Run | Expected | Instance | Distinct states | What it shows |
|---|---|---|---|---|
| `gate` | pass | 2 tokens, 1 web and 1 MCP handler, TTL 1, grace 0, retention 2, 1 attempt, lockout 1, clock to 3, stall to 1, 1 crash | 752,102 | work starts at most once, the payload follows the outcome, the lockout bounds the guesses, an approval takes effect, and is late by no more than the stall between the read and the UPDATE (`LateOnlyByStall`); the gate implements `OneShotApproval` (`KeepsPromise`) |
| `plans` | pass | every dependency graph over 3 steps on 1 or 2 devices, and every triple of overwriting steps from three shapes | about 380,000 | `Prerequisites`, `ResultsAligned`, `RollbackRestores`, `Terminates`; the engine implements `OrderedSteps` (`KeepsOrder`) |
| `gated_plans` | pass | 2 tokens, 1 plan, 2 processes, 3 policies, 1 policy change, 2 crashes | 91,318 | `RunsOnce`, `NoOverlap`, `StrictEnough`, `ApprovedPlanEnds` |
| `schedule_runs` | pass | intervals 1 and 2, sync settings 0 and 3, crashes and failures at will | 15,030 | `NoOverlap`, `Spacing`, `PausedNeverFires`, `EnabledIsServed` |
| `detections` | pass | 3 tasks, 2 processes, 2 events, crashes and failures at will; symmetric | 542,052 | `FiresOnce`, `Accounted`; the tasks implement `OneRun` (`KeepsOneRun`) |
| `health_sweeps` | pass | 1 password, interval 1, ceiling 2, streak to 2, 1 mishap, 1 stray check, no meddling beside it | 310,582 | `HoldIsAVerdict`, `NoBurn`, `Converges` |
| `mcp_pool` | pass | 3 turns of 2 principals, 3 subprocesses, 1 abandoned; symmetric in the turns of one principal | 850,608 | `NoLeak`, `TableIsOpen`; the pool implements `SharedSessions` (`KeepsSessions`) |
| `temp_credentials` | pass | 2 names, 2 servers with a request each, an approved request in the web process, 1 operator, limit 1, 2 attempts, lifetime 1, failures and crashes at will | 357,336 | `NeverForgotten`, `UsableUntilExpiry`, `BoundedOvershoot`, `Reclaimed` |
| `drift_review` | pass | 2 configurations, a scheduled audit, a check in another process, 1 operator, crashes at will | 1,429,652 | `NoticeOrReason`, `DismissalHolds` |
| `drift_settles` | pass | the same with a quiet schedule in place of the other process, statements that fail | 644,454 | `Converges` |
| `accept_shown` | violation | 1 audit, 1 operator | | see section 8 |
| `acs_firings` | pass | 2 firings, 1 before the first start, 3 loops, 2 requests at a time, 3 clicks, 1 fault, 1 edit, sweep or crash, both pollers | 532,462 | `HeardOnce`, `NothingLost`, `HistoryIsSilent`, `ActsOnCurrentRules`, `Listens` |

Why these bounds are enough to be interesting:

* Gate: one handler of each process races for a token, and two tokens let a
  sweep for one reap the other; the clock runs past TTL, grace and retention.
  One crash can hit any step. One tick between the read and the UPDATE is
  enough for an approval after the TTL, and, the lockout being as long as the
  TTL, for the wrong password that `GuessBudget` has to allow then. `MaxTime`,
  `MaxStall` and `MaxCrashes` are the bounds; in the proofs they are arbitrary.
* Plans: three steps are the least with a transitive dependent and with a write
  that is overwritten twice; two devices are the least with two lanes.
* Gated plans: two tokens are needed for two approvals of one plan; two crashes
  lose both engines. `MaxChanges` and `MaxCrashes` are the bounds.
* Schedule: the two intervals tell an edit from a repetition; the countdowns
  make the state space finite without a bound.
* Detections: three tasks let a claim of two race with a third that is queued;
  a task's life is finite, so nothing is bounded but their number.
* Health: the streak saturates at `MaxStreak`, at which the wait has reached
  the ceiling (`HealthAssumption`), so nothing above is cut off; `MaxMishaps`
  bounds restarts and failing statements, this device's and the other's that
  sends a check astray. One stray is enough for two checks at once; one password
  is enough for a refusal, as what the device accepts is not the model's to
  know. `Meddling` keeps credential writes and removals from beginning beside a
  stray check, which with `Converges` would be too many states; the two safety
  properties are proved with it. The number of sweeps, of credential writes and
  of removals is not bounded.
* Pool: two turns of one principal start a duplicate each and one of them
  discards it; the third, of another principal, ends its handshake meanwhile and
  waits for the lock. Three subprocesses let each turn have one, and a name be
  used again. Turns, deaths, evictions and reapings are not bounded;
  `MaxAbandoned` bounds the owners a cancellation has left behind and that still
  live.
* Temporary accounts: two names, so that a name can stay behind; two loops and
  one operator meet on one row; two attempts tell a failure from the last one. A
  request of each server counts before the other has registered: with a limit of
  one, two accounts are made, and `BoundedOvershoot` allows no third; those of
  the requests that met no other keep to one. Only what is named bounds the
  model; crashes, failures and lifetimes are not bounded.
* Drift: two configurations are the least with drift; a third would add no
  transition but "changed", which `Accept` of an older commit has already. Nothing
  is bounded but the number of actors.
* ACS: one firing of history and one that is new; three loops, because two
  crossing requests leave two and a later click starts a third; three clicks,
  two that cross and one that follows. `MaxFaults`, `MaxClicks`, `MaxMishaps` and
  the number of names are the bounds; in the proofs they are arbitrary.

`CHECK_DEADLOCK FALSE` is set where the system may stop: when every session,
plan or task of the instance is over, the model's clock is, the pool was
stopped, or the poller is switched off and nothing fires any more.

## 6. Fairness

* `ConfirmGate`: a handler that holds its loop takes its next step (WF). A
  handler that awaits is resumed, since calls to devices time out and asyncio
  resumes ready coroutines in order, although the loop may be taken in between
  (SF on `WorkEnds`). Nobody has to ask, approve or deny, and the clock need not
  run.
* `PlanEngine`: every request of a step is answered or times out (WF of each
  lane), so the plan ends. `GatedPlans` relies on this (WF of `FinishRun`).
* `TaskScheduler`: time passes, ready coroutines and jobs go on, the reconcile
  loop comes round (WF); asyncio's lock serves waiters in order, so a waiter is
  not overtaken for ever (SF of `LoopAcquire`). `EnabledIsServed` is asked only
  of a schedule whose wait operators do not restart for ever, and excepts a
  loop ended by an exception (section 8).
* `HealthSweep`: WF of the monitor as a whole, of the second statement of a
  credential write, and of time. `Converges` is asked once the condition and
  the credential stay, and excepts a monitor ended by an exception.
* `TempCredentials`: time passes, and the loop of one server goes on, since a
  call to the device is answered or times out (WF). Nobody has to ask or remove.
* `DriftReview`: the web process is started again and runs what it does not give
  way in (WF); its steady schedule keeps auditing although others of its event
  loop come in between, as asyncio resumes ready coroutines in order (SF); days
  pass and the queue is looked at (WF). `Converges` is asked once nobody touches
  the device, its baseline or the queue and nothing fails.
* `AcsFirings`: the process is started again, a loop's call and interval end, a
  request's waits end (WF each). `Listens` is asked of a setting that stays on
  and a start that could read its mark.
* `DetectionTasks`, `McpPool`: none; all their properties are safety.

## 7. The proofs

All theorems are of `Spec`, without fairness, for every value of the constants
that satisfies the module's named assumption.

`ConfirmGateProofs`. Assumptions: the handlers' home processes, the form of the
profiles, `Retention > TTL + Grace`. `AtMostOnce` is not inductive: that nothing
was started twice says nothing about a handler about to start. The inductive
invariant is `Ownership` (with `TypeOK`): whoever is at `"dispatch"` is alone
there with its token, whose row is completed and whose work was not started;
whoever is at `"insert"` is alone with an unissued token; started work has a
completed row. `CompleteFlip` establishes it, because the UPDATE changes a
pending row only, and a pending row can have no handler at `"dispatch"`.
`Implements` then shows step by step that each action is a step or a stutter of
`OneShotApproval`. Handlers may be stopped for any time between two statements
(`MaxStall` is arbitrary). Three more
theorems come from invariants of their own. `PayloadKept` needs to know that
whoever works on a row is alone with it and that there is no outcome before
(`WorkersOwn`), and when a row may be without its payload (`Keeps`). `OnTime`
needs `Timely`: a handler between the last look at the age and the UPDATE keeps
its loop, and what has passed since is its `stall`.
`GuessesAreBounded` needs more than the counter, since a right password resets
it. While the session lives, `Closed` says that after a right password it is
over, or about to be completed by a handler that keeps the web process's loop,
so no other password is looked at; `Limited` says that a counter at its limit
stays locked until the session has expired, for which the lockout must not be
shorter than the lifetime, the theorem's condition (both are 300 s:
`confirm.py:41`, `confirm_store.py:116`). Once it is over nobody gets past the
read any more, so what is left is the one handler that had read it before and
stalled (`LateBudget`): it may look at one password more, and the budget of an
expired session has room for it.

`TaskProofs`, the scheduler. `NoOverlap` follows from the type invariant, which
ties the lock to both of its holders. `PausedNeverFires` needs `Quiet`: while a
pause or a removal stands, the row is not live and no loop exists (otherwise a
loop waiting for the lock could still start, since it does not read the row
again). `Spacing` needs `Waits`: what is left of the distance is covered by the
sleep of the loop, or by `next_run` where no loop sleeps.

`TaskProofs`, the detection tasks. `IInv` joins to `DetectionTypeOK` (whoever
runs a task runs a fired one) the counts, `Apart` (no task has two runners) and
`Accounted`. A started task can only be fired, done or failed, and the claim
takes pending ones only, so none is started again and a confirmed cancel stands
(`CancelIsFinal`). `OutcomesStand` (no step takes an outcome back, an action
property) follows from the same invariant. `TasksImplement` is the refinement of
`OneRun`: `Apart` makes the runners of a fired task one or none, and each step
moves a set of tasks, all from one phase, to another (`MoveRefines`); a claim
moves those of its selection that are still pending.

`PlanProofs`, the engine. Nothing of it is inductive alone. `EngineInv` says
where a lane is: what it has left is the end of its list (`Queued`), and its
answers are those of its first steps in their order (`InStep`), which makes the
position of an answer (`Place`, a cardinality) the rank of its step, and with it
`ResultsAligned`, in spite of lanes that append in any order. The lemmas on
`Place` (it counts, it is monotone, every position up to the length of a lane is
that of a step) are cardinality facts. `Prerequisites` needs `Cleared` and
`Settled`: the next step of a lane waits for no failed step, and whatever came
before it in its lane succeeded or counts as failed, so a skipped step is
a failure to those behind it. `Halted` gives `FailureStopsLane` (under "stop"
a failure is the last thing its lane sends). `RollbackRestores` needs
to know that what was read before the first write of a parameter is the original
(`Untouched`, `ReadFirst`) and that a step that answered was applied; that the
rollback steps, in reverse, end with that value is an argument about the first
writer of each parameter (`RestoresFirst`). It rests on the assumption that
nobody else writes to the devices. `EngineImplements` is the refinement of
`OrderedSteps`; `OrderInv` adds to `EngineInv` that the failed steps are those
answered without success (`Tallied`) and that a lane gives up a step only under
"stop" after a failure (`Dropped`), which is what lets a report miss a step.

`PlanProofs`, the gate. `RunsOnce` counts, so the invariant keeps a budget: what
has been run, with what can still be started, stays within the deaths
(`Budget`), and while the policy stays within those of one engine
(`SteadyBudget`); `Made` says who has a copy of a plan at all. `Placed` (the
level says which engine runs a plan) gives `NoOverlap` while the policy stays.
It needs that a session carries the level of its plan (`AtLevel`) and that a
declared risk has only raised it (`Raised`), for which the strictest level of a
set of risk words must exist: the set is finite and not empty (`StrictestLevel`).
A change of the policy breaks all of these but `Budget`, which is why `RunsOnce`
allows one run for it.

`HealthSweepProofs`, for any number of stray checks. `HoldIsAVerdict` is about
the row, but the row is replaced
by one made of the `prev` of a check, so the invariant also says it of that, and
says that a verdict `auth_failed` without a hold came from a check that had a
password (`Blamed`). That `2^n` is a natural number, which the SMT backend does
not know, is derived from the cardinality of `SUBSET (1..n)`. `NoBurn` compares
a probe with all the refusals before it (`owed`), so `BInv` says who remembers
them: the row, and the row each check has read, impose at least what is owed
(`Serves`), and while a check works on its row the deadline goes only where the
debt goes too, or else there is no password left to send (`Lost`: the device was
removed under the check, and a restart purged its row). A refusal lengthens both
sides, and keeps their order because the wait grows with the streak
(`WaitGrows`, again by counting subsets).

`McpPoolProofs`. `NoLeak` alone is not inductive: a registration could drop a
live owner if the one it replaces were alive, or register one that somebody
closes. `IInv` adds who may know an owner: `Apart` (one that is not registered
yet is its turn's alone; an entry belongs to one principal; what a turn evicts
is closed by that turn), `Swept` (what the reaper popped is in its hands alone),
`Offered` (what the table has is open and closed by nobody), `Unasked` (nobody
closes an owner that is about to be registered). `OneUser` needs `Apart`: the
entry a turn waits for, also one that has left the table, is never the table's
for another principal (`SoleUser`). There is one lemma for each action, with one
step for each conjunct. `TakenAlive` is an action property that only the proof
states: a turn that takes a session from the table takes one that lives at that
moment. `PoolImplements` is the refinement of `SharedSessions`. It needs one
fact more, `Kept`: while a turn waits for its spare subprocess to end, the table
has what the turn saw there, because every other change of the table needs the
lock that this turn holds (`TableStep`). Without it a turn could be given an
entry that was evicted during the wait.

`TempCredentialsProofs`. That an account has a row or a reason
(`NeverForgotten`) and that an unexpired row has its account
(`UsableUntilExpiry`) depend on each other and on who may still act: the name
of a request under way is nobody else's (`Fresh`) and is on the device exactly
when its maker was told (`MadeIsThere`); a removal that was confirmed removed
the account (`GoneIsGone`); what a loop works through is due (`OnlyDue`); an
operator's account has no row (`RowFirst`). `BoundedOvershoot` is about a
number, so `IInv` bounds it before it is one: each request that passed the
count keeps `Room` for itself among those in flight, and `DirectCounts` ties
the rows they made to the requests. Its second half is `Lone`: a request in
flight that met nobody is the only one, and found room for its row when it
counted. The steps of that argument are cardinality
facts cited from `FiniteSetTheorems`.

`DriftReviewProofs`. `DismissalHolds` forbids a step, so the proof needs to know
who could take it. `Remembered`: while a dismissal stands the notice is closed,
and a check that decided to raise one is about to sign a new signature, which
ends the dismissal first. `OnItsWay`: a decision exists only in a check between
`Decide` and `Notify`. `NoticeOrReason` holds at rest; in between, drift without
a notice has somebody `Pending`: a check about to raise (one that read the
device as never signed may raise what another process has signed meanwhile), or
an operator who closed the notice and is about to rewrite the signature. What a
check signs without raising is no news unless it was crossed (`Follows`), and
what an accept signs is no drift (`Undoes`). The run has two processes; the
theorem has any number, and it decided what the history must count: that a
signature which is deleted between the two reads of a check is a crossing of
that check, remembered until it signs and not only when it decides.

`AcsFiringsProofs`. The four safety properties share `IInv`. `Remembered`: what
the poller of recorded events handed over is in the store, until retention
deletes it; this alone gives `HeardOnce` for that poller, under any crossing of
requests. The poller of the log has only its mark, so it needs `OneLoop` (while
requests come one at a time, there is one loop and `_task` names it, and none
while a request is under way) and `Behind` (what was acted on is behind the
mark, and the loop asks for what follows the mark). `Seeding` says what the
first poll stored: the history, but for appends that failed, rows that were
pruned and what has left the window of every poll; `HistoryIsSilent` follows,
because a firing that is handed over is not in the store and after what its loop
asked for (`HandedIsNew`). `Promise` says that what fell to a poller in service
is heard or still `Ahead` of every cursor; `Spent`, that each poll that saw such
a firing and did not deal with it met a fault, so that there are no more of these
polls than faults and the window has not passed it. `Known` gives
`ActsOnCurrentRules`. A crash in the middle of a page keeps all of this because
what it handed over is part of what it stored (`CrashKeeps`).

Model-checked only: every liveness property (`ApprovalTakesEffect`,
`Terminates`, `ApprovedPlanEnds`, `EnabledIsServed`, `Converges` of the monitor
and of the drift, `Reclaimed`, `Listens`), since TLAPS does not reason about
fairness here. Every invariant and every action property of a passing run, and
the four refinements, are proved.

## 8. Where code and documents disagree

Shown by a run that TLC finds violated (details and quotation under `findings`
in `PROJECT.json`), `accept_shown`: an accept blesses what the cached report
holds when the request arrives, which a check that ran since the operator looked
may have replaced (`api/routes/snapshot.py:189`, against the comment at `:184`).

Met while reading, part of the models or outside them, and not claimed by a run:

* Plans: in fleet mode "stop" halts the lane that failed, not the others
  (`plans.md:33`, `engine.py:324`); `StopHaltsLane` says what the code does.
  `create_plan` keeps only the risk that is stricter when the plan is made
  (`plans/engine.py:126`); when the level of the other is raised afterwards, the
  declared risk has softened the gate, against the comment at `:112`. A plan whose
  task is cancelled while it runs stays EXECUTING for ever (`engine.py:333`; the
  model's status `"cut"`). A plan that is executing or over in one engine can be
  approved and executed again in the other once the policy of its risk changed
  (`operations.py:2059`, NFR-PLN-002); `RunsOnce` says what remains true.
* Gate: the docstring of `complete_session` has the payload stripped in the
  same statement (`confirm_store.py:406`), the code strips it after success;
  the retention sweep runs only in `create_session`, so a process that dies
  after the work leaves a payload until the next session is created
  (`confirm_store.py:307`, `:595`). An action whose risk class was lowered to
  `llm_confirm` has its token spent by a path that cannot run actions
  (`operations.py:494`).
* Scheduler: editing a schedule cancels its running job, which `run_now`'s
  docstring rules out (`scheduler.py:229`, `:299`); a survey that works in a
  thread outlives the cancelled loop and its lock (`tasks/handlers.py:305`,
  KL-SCH-005); a run missed in a downtime fires at startup, against FR-SCH-003
  (`scheduler.py:434`); enabling does not recompute `next_run`, against
  FR-SCH-008 (`scheduler.py:222`); a loop ended by an exception stays
  registered, so that reconcile never replaces it (`scheduler.py:285`). The sync
  of the survey schedule at startup replaces the row it read before, over a
  pause made in between (`tasks/store.py:379`), although
  `device_capabilities.py:688` lets an operator's choice stand.
* Tasks: two processes can queue two surveys of one device
  (`device_capabilities.py:616`); a process that dies after the commit of a
  claim leaves the task fired for ever; tasks of one device run in parallel
  (`health.py:2446`).
* Health: the first refusal of a password that was replaced during its probe
  puts a hold on the new one (`health.py:2330`), which `fleet-health.md:138`
  excludes. A refusal that nothing corroborates is reported as online and clears
  the hold, against the comment at `health.py:274` and FR-HLT-008 (the model has
  it in `OddVerdicts`, and `NoBurn` counts it as an answer); an exception of the
  final `upsert` (`health.py:2385`) ends the loop with `_running` set, and
  `gather` (`:2433`) gives the lock back while the checks of the other devices go
  on, so that two checks overwrite each other's row, against the docstring at
  `:2156` (the model's `Astray`; `NoBurn` says what remains true); a device
  removed during its probe gets its row back until the purge at startup
  (`backends/sqlite_backend.py:729`), against the comment in `remove_device`; a
  wall clock that is set back is handled by `health.py:341` and not modelled.
* Pool: `usable` is said to run "before every yield" (`mcp_pool.py:286`), but it
  is tested before the wait for the entry's lock and before the end of a spare
  subprocess, so that a turn can be handed a session that has ended meanwhile
  (`TakenAlive` is about the moment of the test). Turns of one principal
  are said to serialize on the entry's lock; after an eviction or a reaping of a
  busy entry two of them run, over two subprocesses (known for the reaper:
  `docs/specification/review-2026-06-10.md:124`). `evict` drops whatever the key
  has now (`:493`), also the fresh session another turn has just opened. A turn
  that is cancelled while it waits for the lock of the table after its handshake
  leaves its subprocess to nobody (`:438`), and so does a reaper that `stop`
  cancels after it popped (`:330`): these are the owners in `abandoned`, which
  `NoLeak` excepts. A spare subprocess is closed while the lock of the table is
  held (`:449`), so every principal waits for it.
* Temporary accounts: cleanup by hand removes the row before the call to the
  device and ignores the call's failure, against the docstring at
  `temp_credentials.py:384`; the limit of three (`credential-storage.md:172`) is
  exceeded by requests in flight together (`BoundedOvershoot` says by how many)
  and not checked on the approved path (`operations.py:1564`). A server that is
  shut down sweeps the accounts of every process and leaves their rows; an
  exception outside the guarded calls ends the cleanup loop for good
  (`mcp/server.py:6003`).
* Drift: an explicit snapshot moves the baseline and leaves signature and notice
  as they were; a check in flight across an accept writes its signature against
  the old baseline (`operations.py:628`), until the next check. A dismissed
  notice is purged after 90 days, and the backfill of the next start raises it
  again. A transition is announced once: a crash or a locked database between
  the signature and the notice loses it (`drift_alerts.py:400`; the model's
  `excuse`), and the raise and the resolve of two processes can cross.
* ACS: a firing whose append fails in the poll that seeds is acted on by a later
  one, although `acs_ingest.py:19` and ADR-0057 say that the history seeds the
  store and fires nothing: the poller counts as seeded regardless
  (`acs_ingest.py:331`; the comment at `:326` has the retry in mind, not this).
  Retention by number of rows can forget a row that is still in the lookback
  window, and it fires again. Two overlapping requests to switch the poller on
  both pass the test of `_running` while the mark is read
  (`acs_firebird_ingest.py:68`) and leave two loops, so that a firing of the log
  is acted on twice; a start in flight across an "off" leaves a loop running,
  which does nothing while the flag is off; a stop that crosses a start can
  leave a loop that `_task` no longer names. `HeardOnce` and `HistoryIsSilent`
  except these cases by name (`missed`, `pruned`, `crossed`).

## 9. What is not covered

The map covers a small share of the repository. Most of the rest is device I/O
(`executor/`, `discovery/`, `onboarding/`), formats and pages
(`api/routes/web.py`, `mcp/server.py`'s tool schemas, firmware catalogues),
validation, and the conversation of the chatbot: sequential code with one actor,
which tests reach. The parts listed as `not_modelled` in `PROJECT.json` give
their reasons; those planned are in section 3.

Within the modelled parts: the text of messages and audit rows; what an approved
action does to a device; failure counters, latencies and facts of the health
monitor; the capability records and the worker threads of surveys; several
schedules or devices at once, where they share nothing; a wall clock that goes
backwards; changes of the health settings during a sweep. Of the events: the
device streams with their supervisor and watch gate, previews and the webhook,
pages that ACS truncates, the cooldown of a rule, and the detached action that a
match starts. Of the drift: how two snapshots are compared, and the git
repository under the baseline.
