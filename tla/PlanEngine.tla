---------------------------- MODULE PlanEngine ----------------------------
(***************************************************************************)
(* One execution plan and the engine that runs it (admz/plans/engine.py):  *)
(* its creation, the sequential and the fleet mode, the three failure      *)
(* policies, the reads that prepare a rollback, and the rollback steps.    *)
(*                                                                         *)
(* A lane is a list of steps executed one after another.  The sequential   *)
(* mode has one lane, of every device of the plan; the fleet mode has one  *)
(* lane per device, and asyncio.gather interleaves them.  A lane is named  *)
(* by the set of the devices it serves.                                    *)
(*                                                                         *)
(* Nobody else writes to the devices of the plan while it runs: that is an *)
(* assumption of the model, the engine holds no lock on a device.          *)
(***************************************************************************)
EXTENDS Naturals, Sequences, FiniteSets

CONSTANTS
    Devices,      \* the devices of the registry
    Keys,         \* parameters of a device
    Groups,       \* the groups param.cgi can list
    GroupOf,      \* the group of each key
    Values,       \* what a parameter may be set to
    Absent,       \* "the device has no such parameter"
    Original,     \* the configuration of each device when the plan is made
    Offered,      \* the step lists a caller may submit
    MayBeCut      \* TRUE: the task that runs the plan may be cancelled

Policies == {"stop", "skip_dependents", "continue"}

\* The parameters a step writes: a value for some of the keys.
Writes(V) == UNION {[K -> V] : K \in SUBSET Keys}
NoWrites  == [k \in {} |-> Absent]

\* update: the operation is param.cgi:update; others are not read back.
Step == [device : Devices, update : BOOLEAN, params : Writes(Values),
         deps : SUBSET (Nat \ {0})]

ASSUME DeviceAssumption ==
    /\ GroupOf \in [Keys -> Groups]
    /\ Absent \notin Values
    /\ Original \in [Devices -> [Keys -> Values \cup {Absent}]]
    /\ Offered \subseteq Seq(Step)
    /\ MayBeCut \in BOOLEAN

VARIABLES
    status,    \* PlanStatus; "none" before create_plan
    plan,      \* its steps
    policy,    \* its FailurePolicy
    todo,      \* for each lane, the steps its loop has yet to reach
    reading,   \* the lanes about to read back before their next step
    answers,   \* for each lane, the results it has appended
    failed,    \* failed_steps
    undo,      \* rollback_data: what was read before each step
    results,   \* plan.results
    rollback,  \* plan.rollback_steps, at positions that may leave gaps
    config,    \* what the devices are set to
    told,      \* history: how the device answered each step
    applied    \* history: the steps whose write took effect

running == <<todo, reading, answers, failed, undo>>
verdict == <<status, results, rollback>>
device  == <<config, told, applied>>
vars    == <<verdict, plan, policy, running, device>>

Statuses == {"none", "pending_approval", "executing", "completed", "failed",
             "cut"}
Results == {"ok", "failed", "skipped", "missing"}

Numbers == 1..Len(plan)
DevicesOf(steps) == {steps[i].device : i \in 1..Len(steps)}

TypeOK ==
    /\ status \in Statuses
    /\ plan \in Seq(Step)
    /\ policy \in Policies
    /\ todo \in [SUBSET Devices -> SUBSET Nat]
    /\ reading \in SUBSET SUBSET Devices
    /\ answers \in [SUBSET Devices -> Seq(Results)]
    /\ failed \in SUBSET Nat
    /\ undo \in [Numbers -> Writes(Values)]
    /\ results \in Seq(Results)
    /\ DOMAIN rollback \subseteq Nat
    /\ rollback \in [DOMAIN rollback ->
                       [device : Devices, params : Writes(Values)]]
    /\ config \in [Devices -> [Keys -> Values \cup {Absent}]]
    /\ told \in [Numbers -> {"unsent", "ok", "failed"}]
    /\ applied \in SUBSET Numbers

Init ==
    /\ status = "none"
    /\ plan = <<>>
    /\ policy = "stop"
    /\ todo = [l \in SUBSET Devices |-> {}]
    /\ reading = {}
    /\ answers = [l \in SUBSET Devices |-> <<>>]
    /\ failed = {}
    /\ undo = <<>>
    /\ results = <<>>
    /\ rollback = <<>>
    /\ config = Original
    /\ told = <<>>
    /\ applied = {}

-----------------------------------------------------------------------------
(* Creating a plan.                                                        *)

\* A step may depend on earlier steps only.
Valid(steps) ==
    \A i \in 1..Len(steps) : steps[i].deps \subseteq 1..(i - 1)

\* create_plan; a list that is not valid is refused and nothing changes.
Create(steps, p) ==
    /\ status = "none"
    /\ Valid(steps)
    /\ status' = "pending_approval"
    /\ plan' = steps
    /\ policy' = p
    /\ undo' = [i \in 1..Len(steps) |-> NoWrites]
    /\ told' = [i \in 1..Len(steps) |-> "unsent"]
    /\ UNCHANGED <<todo, reading, answers, failed, results, rollback, config,
                   applied>>

-----------------------------------------------------------------------------
(* Running it.                                                             *)

Fleet == /\ Cardinality(DevicesOf(plan)) > 1
         /\ \A i \in Numbers : plan[i].deps = {}

Lanes == IF Fleet THEN {{d} : d \in DevicesOf(plan)} ELSE {DevicesOf(plan)}

StepsOf(l) == {i \in Numbers : plan[i].device \in l}

\* run_plan, up to the first await: a plan that was run is refused.
Run ==
    /\ status = "pending_approval"
    /\ status' = "executing"
    /\ results' = <<>>
    /\ todo' = [l \in SUBSET Devices |->
                    IF l \in Lanes THEN StepsOf(l) ELSE {}]
    /\ reading' = Lanes
    /\ UNCHANGED <<plan, policy, answers, failed, undo, rollback, device>>

\* The loop of lane l, which takes its steps in their order, is about to
\* begin, or to send, step i.
Reaches(l, i) == /\ status = "executing"
                 /\ i \in todo[l] /\ \A j \in todo[l] : i <= j
Begins(l, i)  == Reaches(l, i) /\ l \in reading
Sends(l, i)   == Reaches(l, i) /\ l \notin reading

\* Under STOP and SKIP_DEPENDENTS a step waits for no failed step.
MustSkip(i) == policy # "continue" /\ plan[i].deps \cap failed # {}

Skip_NotAFailure(l) == \E i \in Numbers :
    /\ Begins(l, i) /\ MustSkip(i)
    /\ answers' = [answers EXCEPT ![l] = Append(@, "skipped")]
    /\ todo' = [todo EXCEPT ![l] = @ \ {i}]
    /\ UNCHANGED <<verdict, plan, policy, failed, reading, undo, device>>
Skip(l) == \E i \in Numbers :
    /\ Begins(l, i) /\ MustSkip(i)
    /\ answers' = [answers EXCEPT ![l] = Append(@, "skipped")]
    /\ failed' = failed \cup {i}
    /\ todo' = [todo EXCEPT ![l] = @ \ {i}]
    /\ UNCHANGED <<verdict, plan, policy, reading, undo, device>>

\* What a read that reaches the groups in G returns of the keys step i writes.
ReadBack(i, G) ==
    LET now  == config[plan[i].device]
        keys == {k \in DOMAIN plan[i].params : GroupOf[k] \in G /\ now[k] # Absent}
    IN  [k \in keys |-> now[k]]

\* _pre_read_for_rollback: each group may be read or fail to be read.
PreRead(l) == \E i \in Numbers :
    /\ Begins(l, i) /\ ~ MustSkip(i)
    /\ \E G \in SUBSET {GroupOf[k] : k \in DOMAIN plan[i].params} :
          undo' = [undo EXCEPT ![i] = IF plan[i].update THEN ReadBack(i, G)
                                                        ELSE NoWrites]
    /\ reading' = reading \ {l}
    /\ UNCHANGED <<verdict, plan, policy, todo, answers, failed, device>>

Apply(i) ==
    LET d == plan[i].device
    IN  /\ applied' = applied \cup {i}
        /\ config' = [config EXCEPT ![d] =
                [k \in Keys |-> IF k \in DOMAIN plan[i].params
                                  THEN plan[i].params[k] ELSE config[d][k]]]

\* _execute_step answered; every exception is an answer of failure.
Answered(l, i, answer) ==
    /\ told' = [told EXCEPT ![i] = answer]
    /\ answers' = [answers EXCEPT ![l] = Append(@, answer)]
    /\ reading' = reading \cup {l}
    /\ UNCHANGED <<verdict, plan, policy, undo>>

ExecuteOk(l) == \E i \in Numbers :
    /\ Sends(l, i)
    /\ Apply(i)
    /\ Answered(l, i, "ok")
    /\ todo' = [todo EXCEPT ![l] = @ \ {i}]
    /\ UNCHANGED failed

\* Under STOP the loop of this lane breaks; the other lanes are not told.
Break_Never(l, i) == todo' = [todo EXCEPT ![l] = @ \ {i}]
Break(l, i) ==
    todo' = [todo EXCEPT ![l] = IF policy = "stop" THEN {} ELSE @ \ {i}]

\* The write was lost, or it took effect and its answer was lost.
ExecuteFailed(l) == \E i \in Numbers :
    /\ Sends(l, i)
    /\ Apply(i) \/ UNCHANGED <<applied, config>>
    /\ Answered(l, i, "failed")
    /\ failed' = failed \cup {i}
    /\ Break(l, i)

\* asyncio.CancelledError passes every "except Exception": the plan stays
\* in EXECUTING and nothing is recorded.
Cut ==
    /\ MayBeCut
    /\ status = "executing"
    /\ status' = "cut"
    /\ UNCHANGED <<results, rollback, plan, policy, running, device>>

-----------------------------------------------------------------------------
(* Collecting the results.                                                 *)

\* The position of step i among the steps of its device.
Rank(i) == Cardinality({j \in 1..i : plan[j].device = plan[i].device})

Flattened_LaneOrder ==
    [i \in Numbers |->
        LET l == {plan[i].device} IN
        IF i <= Len(answers[l]) THEN answers[l][i] ELSE "missing"]
Flattened ==
    [i \in Numbers |->
        LET l == {plan[i].device} IN
        IF Rank(i) <= Len(answers[l]) THEN answers[l][Rank(i)] ELSE "missing"]

Collected == IF Fleet THEN Flattened ELSE answers[DevicesOf(plan)]

\* _build_rollback_steps: one for each step that succeeded and was read, the
\* last one first.
Covered(res, i) == i \in 1..Len(res) /\ res[i] = "ok" /\ undo[i] # NoWrites

RollbackOf_Forward(res) ==
    [i \in {n \in 1..Len(res) : Covered(res, n)} |->
        [device |-> plan[i].device, params |-> undo[i]]]
RollbackOf(res) ==
    [n \in {m \in 1..Len(res) : Covered(res, Len(res) + 1 - m)} |->
        LET i == Len(res) + 1 - n
        IN  [device |-> plan[i].device, params |-> undo[i]]]

Finish_AwaitsEveryStep ==
    /\ status = "executing"
    /\ \A l \in Lanes : Len(answers[l]) = Cardinality(StepsOf(l))
    /\ results' = Collected
    /\ rollback' = RollbackOf(Collected)
    /\ status' = IF \A i \in DOMAIN Collected : Collected[i] = "ok"
                   THEN "completed" ELSE "failed"
    /\ UNCHANGED <<plan, policy, running, device>>
Finish ==
    /\ status = "executing"
    /\ \A l \in Lanes : todo[l] = {}
    /\ results' = Collected
    /\ rollback' = RollbackOf(Collected)
    /\ status' = IF \A i \in DOMAIN Collected : Collected[i] = "ok"
                   THEN "completed" ELSE "failed"
    /\ UNCHANGED <<plan, policy, running, device>>

LaneStep(l) == Skip(l) \/ PreRead(l) \/ ExecuteOk(l) \/ ExecuteFailed(l)

Next ==
    \/ \E steps \in Offered, p \in Policies : Create(steps, p)
    \/ Run
    \/ \E l \in SUBSET Devices : LaneStep(l)
    \/ Finish
    \/ Cut

Spec == Init /\ [][Next]_vars

\* Every request of a step is answered or times out, so each loop goes on.
FairSpec == Spec /\ WF_vars(Finish)
                 /\ \A l \in SUBSET Devices : WF_vars(LaneStep(l))

-----------------------------------------------------------------------------
(* Properties.                                                             *)

Over == status \in {"completed", "failed"}
Sent(i) == told[i] # "unsent"

(* Unless the policy is "continue", a step is sent to its device only      *)
(* after every step it depends on, at any distance, was answered with      *)
(* success (FR-PLN-003 and FR-PLN-004).                                    *)
Prerequisites ==
    policy # "continue" =>
        \A i \in Numbers : Sent(i) => \A j \in plan[i].deps : told[j] = "ok"

(* The results line up with the steps: position i says of step i what its  *)
(* device answered, whatever order the lanes finished in, and a step       *)
(* beyond the results or reported as skipped or missing was never sent.    *)
ResultsAligned ==
    Over => \A i \in Numbers :
        IF i <= Len(results) /\ results[i] \in {"ok", "failed"}
          THEN told[i] = results[i]
          ELSE ~ Sent(i)

\* The steps that changed key k of device d.
Writers(d, k) ==
    {i \in applied : plan[i].device = d /\ k \in DOMAIN plan[i].params}

\* What key k of device d holds after the rollback steps were executed in
\* their order.
RolledBack(d, k) ==
    LET touching == {j \in DOMAIN rollback :
                        rollback[j].device = d /\ k \in DOMAIN rollback[j].params}
        last     == CHOOSE j \in touching : \A m \in touching : m <= j
    IN  IF touching = {} THEN config[d][k] ELSE rollback[last].params[k]

(* The rollback steps give a parameter its original value back whenever    *)
(* the first step that changed it succeeded and had been read before,      *)
(* although later steps of the same plan changed it again.                 *)
RollbackRestores ==
    Over => \A d \in Devices, k \in Keys : \A i \in Writers(d, k) :
        ( /\ \A j \in Writers(d, k) : i <= j
          /\ told[i] = "ok" /\ k \in DOMAIN undo[i] )
        => RolledBack(d, k) = Original[d][k]

(* Under "stop" no step of a device is sent after a step of the same       *)
(* device failed.                                                          *)
StopHaltsLane ==
    policy = "stop" =>
        \A i, j \in Numbers :
            (i < j /\ plan[i].device = plan[j].device /\ told[i] = "failed")
                => ~ Sent(j)

(* The engine keeps the promise of OrderedSteps, lanes or not: each step   *)
(* comes to one outcome, in order, and the report has them all, with       *)
(* "missing" only after a failure under "stop".  The outcome of a step is  *)
(* what its device answered; a step that counts as failed and was never    *)
(* sent was skipped.                                                       *)
Outcome == [i \in Numbers |-> IF Sent(i) THEN told[i]
                              ELSE IF i \in failed THEN "skipped" ELSE "waiting"]
Report == IF Over THEN [i \in Numbers |->
                           IF i <= Len(results) THEN results[i] ELSE "missing"]
                  ELSE <<>>
Ordered == INSTANCE OrderedSteps WITH outcome <- Outcome, report <- Report
KeepsOrder == Ordered!Spec

(* A plan that starts comes to an end, unless its task is cancelled.       *)
Terminates == status = "executing" ~> status \in {"completed", "failed", "cut"}
=============================================================================
