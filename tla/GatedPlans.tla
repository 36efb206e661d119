---------------------------- MODULE GatedPlans ----------------------------
(***************************************************************************)
(* Plans behind the confirmation gate: execute_gated_plan, and the branch  *)
(* of execute_approved_session that runs an approved plan.                 *)
(*                                                                         *)
(* A plan lives in the memory of the engine of the process that made it,   *)
(* usually an MCP process.  Its approval is given in the web process,      *)
(* whose engine rebuilds the plan from the session: from then on there are *)
(* two copies, and neither engine sees the status of the other's.          *)
(*                                                                         *)
(* The gate is used through its promise, OneShotApproval, which            *)
(* ConfirmGate implements.  Rows that lapsed or were denied are of no more *)
(* use to anybody, so the sweep that deletes them is left out.             *)
(*                                                                         *)
(* The policy here is the operator's, of the risks; the failure policy of  *)
(* a plan is PlanEngine's.  The names of the two modules differ, so that   *)
(* one module can extend both (PlanProofs).                                *)
(***************************************************************************)
EXTENDS Naturals, FiniteSets

CONSTANTS
    Tokens,       \* tokens of plan sessions
    Plans,        \* plan ids, drawn by uuid4
    Processes,    \* the web process and the MCP processes
    Web,          \* the process that serves the approvals
    Nobody,       \* "no process", "no plan"
    Risks,        \* the risk words of the catalog
    Known,        \* the words the policy table interprets
    Undeclared,   \* "the caller declares no risk for this step"
    Ratings,      \* which sets of steps a caller may submit, by their risks
    RiskPolicies, \* the confirmation policies an operator may set
    MaxChanges,   \* bound of the model: how often the policy may change
    MaxCrashes    \* bound of the model: how often a process may die

\* The confirmation levels, by their strictness: none, llm_confirm, url_only,
\* url_and_password.
Levels == 0..3
LlmConfirm == 1

\* A step is rated by the catalog, and its caller may declare a higher risk.
Rating == [catalog : Risks, declared : Risks \cup {Undeclared}]

ASSUME PlanAssumption ==
    /\ Web \in Processes /\ Nobody \notin Processes /\ Nobody \notin Plans
    /\ Tokens # {} /\ Undeclared \notin Risks /\ Known \subseteq Risks
    /\ Ratings \subseteq SUBSET Rating
    /\ RiskPolicies # {} /\ RiskPolicies \subseteq [Risks -> Levels]
    /\ MaxChanges \in Nat /\ MaxCrashes \in Nat

VARIABLES
    riskPolicy, \* the level each risk demands now (confirm_level_<risk>)
    maker,      \* the process that made each plan
    steps,      \* its steps, as they were rated
    risks,      \* the risk_level words recorded in its steps
    copy,       \* the status of each plan in the engine of each process
    asking,     \* the plan a process found no pending session for
    phase,      \* of each token: the phases of OneShotApproval
    subject,    \* the plan of each token
    level,      \* the confirmation_level of each token
    lapsed,     \* the pending tokens whose time is over
    held,       \* the approved tokens whose handler has not run the plan yet
    changes,    \* how often the policy has changed
    crashes,    \* how often a process has died
    runs,       \* history: how often each plan was started
    doors       \* history: the levels that let runs in, and the demanded ones

gate  == <<phase, subject, level, lapsed, held>>
made  == <<maker, steps, risks>>
count  == <<changes, crashes>>
past  == <<runs, doors>>
gatedVars == <<riskPolicy, made, copy, asking, gate, count, past>>

Gate == INSTANCE OneShotApproval

Copies == {"absent", "pending_approval", "approved", "executing", "completed",
           "failed"}

GatedTypeOK ==
    /\ riskPolicy \in [Risks -> Levels]
    /\ maker \in [Plans -> Processes \cup {Nobody}]
    /\ steps \in [Plans -> SUBSET Rating]
    /\ risks \in [Plans -> SUBSET Risks]
    /\ copy \in [Processes -> [Plans -> Copies]]
    /\ asking \in [Processes -> Plans \cup {Nobody}]
    /\ Gate!TypeOK
    /\ subject \in [Tokens -> Plans \cup {Nobody}]
    /\ level \in [Tokens -> Levels]
    /\ lapsed \in SUBSET Tokens
    /\ held \in SUBSET Tokens
    /\ changes \in Nat /\ crashes \in Nat
    /\ runs \in [Plans -> Nat]
    /\ doors \in [Plans -> SUBSET [by : Levels, demanded : Levels]]

GatedInit ==
    /\ riskPolicy \in RiskPolicies
    /\ maker = [pl \in Plans |-> Nobody]
    /\ steps = [pl \in Plans |-> {}]
    /\ risks = [pl \in Plans |-> {}]
    /\ copy = [p \in Processes |-> [pl \in Plans |-> "absent"]]
    /\ asking = [p \in Processes |-> Nobody]
    /\ Gate!Init
    /\ subject = [t \in Tokens |-> Nobody]
    /\ level = [t \in Tokens |-> 0]
    /\ lapsed = {}
    /\ held = {}
    /\ changes = 0
    /\ crashes = 0
    /\ runs = [pl \in Plans |-> 0]
    /\ doors = [pl \in Plans |-> {}]

-----------------------------------------------------------------------------
(* Risk and the level it demands.                                          *)

Strictest(words) ==
    CHOOSE l \in Levels : /\ \A w \in words : riskPolicy[w] <= l
                          /\ l = 0 \/ \E w \in words : riskPolicy[w] = l

\* create_plan: a declared risk counts if it is known, and stricter now.
Recorded_AnyDeclared(s) ==
    IF s.declared \in Known THEN s.declared ELSE s.catalog
Recorded(s) ==
    IF s.declared \in Known /\ riskPolicy[s.declared] > riskPolicy[s.catalog]
      THEN s.declared ELSE s.catalog

Required(pl) == Strictest(risks[pl])
Demanded(pl) == Strictest({s.catalog : s \in steps[pl]})

-----------------------------------------------------------------------------
(* The operations.  A process that is asking is between two statements of  *)
(* one handler with no await between them: nothing else runs in it.        *)

Idle(p) == asking[p] = Nobody

CreatePlan(p, pl, S) ==
    /\ Idle(p)
    /\ maker[pl] = Nobody
    /\ maker' = [maker EXCEPT ![pl] = p]
    /\ steps' = [steps EXCEPT ![pl] = S]
    /\ risks' = [risks EXCEPT ![pl] = {Recorded(s) : s \in S}]
    /\ copy' = [copy EXCEPT ![p][pl] = "pending_approval"]
    /\ UNCHANGED <<riskPolicy, asking, gate, count, past>>

\* run_plan: refused unless the copy of this process waits for approval.
Runnable_Always(s) == s \in {"pending_approval", "approved", "completed", "failed"}
Runnable(s) == s \in {"pending_approval", "approved"}

Started(p, pl, by) ==
    /\ copy' = [copy EXCEPT ![p][pl] = "executing"]
    /\ runs' = [runs EXCEPT ![pl] = @ + 1]
    /\ doors' = [doors EXCEPT ![pl] =
                    @ \cup {[by |-> by, demanded |-> Demanded(pl)]}]

\* execute_gated_plan at none, or at llm_confirm with confirm_dangerous.
RunInline_ConfirmBypasses(p, pl, confirmDangerous) ==
    /\ Idle(p)
    /\ copy[p][pl] # "absent"
    /\ Required(pl) = 0 \/ confirmDangerous
    /\ Runnable(copy[p][pl])
    /\ Started(p, pl, Required(pl))
    /\ UNCHANGED <<riskPolicy, made, asking, gate, count>>
RunInline(p, pl, confirmDangerous) ==
    /\ Idle(p)
    /\ copy[p][pl] # "absent"
    /\ Required(pl) = 0 \/ (Required(pl) = LlmConfirm /\ confirmDangerous)
    /\ Runnable(copy[p][pl])
    /\ Started(p, pl, Required(pl))
    /\ UNCHANGED <<riskPolicy, made, asking, gate, count>>

Waiting(t) == phase[t] = "pending" /\ t \notin lapsed

\* Bound of the model: a process asks while it can still draw a token.
TokenLeft == Cardinality({t \in Tokens : phase[t] = "unissued"})
                 > Cardinality({p \in Processes : ~ Idle(p)})

\* execute_gated_plan at url_only and above: get_session_by_plan found none.
\* The status of the plan is not looked at.
AskLookup(p, pl) ==
    /\ Idle(p)
    /\ TokenLeft
    /\ copy[p][pl] # "absent"
    /\ Required(pl) > LlmConfirm
    /\ ~ \E t \in Tokens : Waiting(t) /\ subject[t] = pl
    /\ asking' = [asking EXCEPT ![p] = pl]
    /\ UNCHANGED <<riskPolicy, made, copy, gate, count, past>>

AskCreate(p, t) ==
    /\ ~ Idle(p)
    /\ Gate!Request(t)
    /\ subject' = [subject EXCEPT ![t] = asking[p]]
    /\ level' = [level EXCEPT ![t] = Required(asking[p])]
    /\ asking' = [asking EXCEPT ![p] = Nobody]
    /\ UNCHANGED <<riskPolicy, made, copy, lapsed, held, count, past>>

\* The operator approves in the web page, or in the chat.
Approve(t) ==
    /\ Idle(Web)
    /\ Waiting(t)
    /\ Gate!Approve(t)
    /\ held' = held \cup {t}
    /\ UNCHANGED <<riskPolicy, made, copy, asking, subject, level, lapsed, count,
                   past>>

\* execute_approved_session: a plan this engine does not know is rebuilt from
\* the session and runs; a known one runs if its status allows, or is refused.
Dispatch_NoRebuild(t) ==
    /\ Idle(Web)
    /\ t \in held
    /\ Gate!Start(t)
    /\ held' = held \ {t}
    /\ IF Runnable(copy[Web][subject[t]])
         THEN Started(Web, subject[t], level[t])
         ELSE UNCHANGED <<copy, past>>
    /\ UNCHANGED <<riskPolicy, made, asking, subject, level, lapsed, count>>
Dispatch(t) ==
    /\ Idle(Web)
    /\ t \in held
    /\ Gate!Start(t)
    /\ held' = held \ {t}
    /\ IF copy[Web][subject[t]] = "absent" \/ Runnable(copy[Web][subject[t]])
         THEN Started(Web, subject[t], level[t])
         ELSE UNCHANGED <<copy, past>>
    /\ UNCHANGED <<riskPolicy, made, asking, subject, level, lapsed, count>>

FinishRun(p, pl) ==
    /\ Idle(p)
    /\ copy[p][pl] = "executing"
    /\ \E s \in {"completed", "failed"} : copy' = [copy EXCEPT ![p][pl] = s]
    /\ UNCHANGED <<riskPolicy, made, asking, gate, count, past>>

Deny(t) ==
    /\ Idle(Web)
    /\ Waiting(t)
    /\ Gate!Deny(t)
    /\ UNCHANGED <<riskPolicy, made, copy, asking, subject, level, lapsed, held,
                   count, past>>

Lapse(t) ==
    /\ Waiting(t)
    /\ lapsed' = lapsed \cup {t}
    /\ UNCHANGED <<riskPolicy, made, copy, asking, phase, subject, level, held,
                   count, past>>

\* The operator changes the fleet settings confirm_level_<risk>.
SetPolicy(new) ==
    /\ changes < MaxChanges
    /\ new # riskPolicy
    /\ riskPolicy' = new
    /\ changes' = changes + 1
    /\ UNCHANGED <<made, copy, asking, gate, crashes, past>>

\* The engine of a process that dies is empty when it is back.
Crash(p) ==
    /\ crashes < MaxCrashes
    /\ crashes' = crashes + 1
    /\ copy' = [copy EXCEPT ![p] = [pl \in Plans |-> "absent"]]
    /\ asking' = [asking EXCEPT ![p] = Nobody]
    /\ held' = IF p = Web THEN {} ELSE held
    /\ UNCHANGED <<riskPolicy, made, phase, subject, level, lapsed, changes,
                   past>>

GatedNext ==
    \/ \E p \in Processes, pl \in Plans :
          \/ \E S \in Ratings : CreatePlan(p, pl, S)
          \/ \E yes \in BOOLEAN : RunInline(p, pl, yes)
          \/ AskLookup(p, pl)
          \/ FinishRun(p, pl)
    \/ \E p \in Processes, t \in Tokens : AskCreate(p, t)
    \/ \E t \in Tokens : Approve(t) \/ Dispatch(t) \/ Deny(t) \/ Lapse(t)
    \/ \E new \in RiskPolicies : SetPolicy(new)
    \/ \E p \in Processes : Crash(p)

GatedSpec == GatedInit /\ [][GatedNext]_gatedVars

\* A handler that was begun is carried on, and a run comes to an end
\* (PlanEngine's Terminates).
GatedFairSpec ==
    /\ GatedSpec
    /\ \A t \in Tokens : WF_gatedVars(Dispatch(t))
    /\ \A p \in Processes : WF_gatedVars(\E t \in Tokens : AskCreate(p, t))
    /\ \A p \in Processes, pl \in Plans : WF_gatedVars(FinishRun(p, pl))

-----------------------------------------------------------------------------
(* Properties.                                                             *)

(* Each run of a plan beyond the first one is paid for with the death of a *)
(* process or a change of the policy: no sequence of requests, approvals   *)
(* and re-approvals in the two engines runs a plan twice by itself.        *)
RunsOnce == \A pl \in Plans : runs[pl] <= 1 + crashes + changes

(* While the policy stays as it is, the two copies of a plan are never     *)
(* being executed at the same time.                                        *)
NoOverlap ==
    changes = 0 =>
        \A pl \in Plans, p, q \in Processes :
            copy[p][pl] = "executing" /\ copy[q][pl] = "executing" => p = q

(* While the policy stays as it is, a plan is let in at the level that the *)
(* catalog's risks of its steps demand or at a stricter one: a declared    *)
(* risk only ever raises the gate.                                         *)
StrictEnough ==
    changes = 0 => \A pl \in Plans : \A x \in doors[pl] : x.by >= x.demanded

(* The approval of a plan has an effect, as long as no process dies: its   *)
(* run ends, or it is refused because the plan had been run here before.   *)
ApprovedPlanEnds ==
    \A t \in Tokens, pl \in Plans :
        t \in held /\ subject[t] = pl ~>
            \/ t \notin held /\ copy[Web][pl] \in {"completed", "failed"}
            \/ crashes > 0
=============================================================================
