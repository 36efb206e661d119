---------------------------- MODULE ConfirmGate ----------------------------
(***************************************************************************)
(* The confirmation gate: the confirm_sessions table (ConfirmStore) and    *)
(* the handlers that create, approve, consume and deny its sessions.       *)
(*                                                                         *)
(* The table is one SQLite file shared by the web process and the MCP      *)
(* processes.  Every statement on it is atomic; an operation made of two   *)
(* statements is two steps, and the other processes run in between.        *)
(* Inside one process the handlers are coroutines of one event loop: a     *)
(* handler keeps the loop from one await to the next, so two handlers of a *)
(* process interleave only where one of them awaits.  loop[p] says which   *)
(* handler holds the loop of process p.                                    *)
(*                                                                         *)
(* A process may die between any two steps: its handlers are gone, its     *)
(* memory (the failed-password counters) is empty again, the table stays.  *)
(***************************************************************************)
EXTENDS Naturals, FiniteSets

CONSTANTS
    Tokens,        \* the tokens token_urlsafe may draw; none is drawn twice
    Handlers,      \* the requests a process may be serving at once
    Processes,     \* the web process and the MCP processes
    Web,           \* the uvicorn process: it alone serves /confirm
    Home,          \* the process of each handler
    Free,          \* "no handler holds this event loop"
    Profiles,      \* the kinds of session a caller may ask for
    TTL,           \* lifetime of a pending session
    Grace,         \* how long an expired row survives before it is reaped
    Retention,     \* PAYLOAD_RETENTION_SECONDS
    MaxAttempts,   \* _MAX_PW_ATTEMPTS
    Lockout,       \* _PW_LOCKOUT_SECONDS
    MaxTime,       \* bound of the model: the last tick of the clock
    MaxStall,      \* bound of the model: the longest stall of an approval
    MaxCrashes     \* bound of the model: how many times a process may die

Levels == {"llm_confirm", "url_only", "url_and_password"}
Kinds  == {"operation", "plan", "action"}

ASSUME ProcessAssumption ==
    /\ Web \in Processes
    /\ Home \in [Handlers -> Processes]
    /\ Free \notin Handlers

ASSUME ProfileAssumption ==
    /\ Tokens # {} /\ Profiles # {}
    /\ Profiles \subseteq [level : Levels, kind : Kinds, secret : BOOLEAN]

ASSUME TimeAssumption ==
    /\ TTL \in Nat /\ Grace \in Nat /\ Retention \in Nat /\ Lockout \in Nat
    /\ MaxTime \in Nat /\ MaxStall \in Nat /\ MaxCrashes \in Nat /\ MaxAttempts \in Nat \ {0}
    /\ Retention > TTL + Grace

VARIABLES
    status,    \* of the row of each token; "unissued" and "deleted": no row
    profile,   \* its level, its kind, and whether it has secret_fields
    created,   \* its created_at
    payload,   \* TRUE while the four payload columns hold the request
    pc,        \* the next step of each handler
    tok,       \* the token it works on
    via,       \* the operation that took it to complete_session
    loop,      \* the handler that holds the event loop of each process
    failures,  \* _PW_ATTEMPTS: count and locked_until of each token
    now,       \* the wall clock
    crashes,   \* how many processes have died
    starts,    \* history: how often the held work of a token was started
    guesses,   \* history: wrong passwords evaluated against a token
    outcome,   \* history: how the held work of a token ended
    stall      \* history: how long ago a handler that is approving a session
               \* looked at its row

row     == <<status, profile, created, payload>>
handler == <<pc, tok, via, loop, stall>>
history == <<starts, guesses, outcome>>
vars    == <<row, handler, failures, now, crashes, history>>

Statuses == {"unissued", "pending", "completed", "denied", "deleted"}
Steps == {"idle", "checks", "recheck", "flip", "dispatch", "running",
          "strip", "denyRecheck", "denyFlip", "insert"}

TypeOK ==
    /\ status \in [Tokens -> Statuses]
    /\ profile \in [Tokens -> [level : Levels, kind : Kinds, secret : BOOLEAN]]
    /\ created \in [Tokens -> Nat]
    /\ payload \in [Tokens -> BOOLEAN]
    /\ pc \in [Handlers -> Steps]
    /\ tok \in [Handlers -> Tokens]
    /\ via \in [Handlers -> {"approve", "consume"}]
    /\ loop \in [Processes -> Handlers \cup {Free}]
    /\ failures \in [Tokens -> [count : Nat, lockedUntil : Nat]]
    /\ now \in Nat
    /\ crashes \in Nat
    /\ starts \in [Tokens -> Nat]
    /\ guesses \in [Tokens -> Nat]
    /\ outcome \in [Tokens -> {"none", "success", "failure"}]
    /\ stall \in [Handlers -> Nat]

NoFailures == [count |-> 0, lockedUntil |-> 0]

Init ==
    /\ status = [t \in Tokens |-> "unissued"]
    /\ profile = [t \in Tokens |-> CHOOSE p \in Profiles : TRUE]
    /\ created = [t \in Tokens |-> 0]
    /\ payload = [t \in Tokens |-> FALSE]
    /\ pc = [h \in Handlers |-> "idle"]
    /\ tok = [h \in Handlers |-> CHOOSE t \in Tokens : TRUE]
    /\ via = [h \in Handlers |-> "approve"]
    /\ loop = [p \in Processes |-> Free]
    /\ failures = [t \in Tokens |-> NoFailures]
    /\ now = 0
    /\ crashes = 0
    /\ starts = [t \in Tokens |-> 0]
    /\ guesses = [t \in Tokens |-> 0]
    /\ outcome = [t \in Tokens |-> "none"]
    /\ stall = [h \in Handlers |-> 0]

-----------------------------------------------------------------------------
(* The event loop.                                                         *)

Holds(h)    == loop[Home[h]] = h
MayEnter(h) == loop[Home[h]] = Free

At(h, step) == pc[h] = step /\ Holds(h)

\* The handler goes on to step without giving up the loop, s after its last look.
Continue(h, step, s) ==
    /\ pc' = [pc EXCEPT ![h] = step]
    /\ loop' = [loop EXCEPT ![Home[h]] = h]
    /\ stall' = [stall EXCEPT ![h] = s]

Proceed(h, step)  == Continue(h, step, stall[h])
HasLooked(h, step) == Continue(h, step, 0)

\* The handler awaits: others run until it is resumed at step.
Await(h, step) ==
    /\ pc' = [pc EXCEPT ![h] = step]
    /\ loop' = [loop EXCEPT ![Home[h]] = Free]
    /\ stall' = [stall EXCEPT ![h] = 0]

Return(h) == Await(h, "idle")

-----------------------------------------------------------------------------
(* Reading the store.                                                      *)

\* get_session returns a session and its effective_status is PENDING.
LivePending_AnyAge(t) == status[t] = "pending"
LivePending(t) == status[t] = "pending" /\ now <= created[t] + TTL

Locked_Never(t) == FALSE
Locked(t) == failures[t].lockedUntil > now

(***************************************************************************)
(* create_session: sweep the table, then insert a pending row under a      *)
(* token nobody has seen.  The sweep is one transaction: it deletes the    *)
(* rows, other than completed ones, that expired more than Grace ago, and  *)
(* strips the completed ones whose payload outlived its retention.         *)
(***************************************************************************)
Reapable_AnyStatus(t) ==
    /\ status[t] \in {"pending", "denied", "completed"}
    /\ created[t] + TTL + Grace < now

Reapable(t) ==
    /\ status[t] \in {"pending", "denied"}
    /\ created[t] + TTL + Grace < now

Overdue(t) == status[t] = "completed" /\ created[t] + Retention < now

CreateSweep(h, t) ==
    /\ pc[h] = "idle" /\ MayEnter(h)
    /\ status[t] = "unissued" /\ \A g \in Handlers : pc[g] = "insert" => tok[g] # t
    /\ tok' = [tok EXCEPT ![h] = t]
    /\ Proceed(h, "insert")
    /\ status' = [u \in Tokens |-> IF Reapable(u) THEN "deleted" ELSE status[u]]
    /\ payload' = [u \in Tokens |->
                     payload[u] /\ ~Reapable(u) /\ ~Overdue(u)]
    /\ UNCHANGED <<profile, created, via, failures, now, crashes, history>>

CreateInsert(h) ==
    /\ At(h, "insert")
    /\ status' = [status EXCEPT ![tok[h]] = "pending"]
    /\ \E p \in Profiles : profile' = [profile EXCEPT ![tok[h]] = p]
    /\ created' = [created EXCEPT ![tok[h]] = now]
    /\ payload' = [payload EXCEPT ![tok[h]] = TRUE]
    /\ Return(h)
    /\ UNCHANGED <<tok, via, failures, now, crashes, history>>

(***************************************************************************)
(* _approve_session, behind the web form and the chat card: look the       *)
(* session up, check the lockout, the approver's group and the password,   *)
(* then complete.  Nothing in it suspends the coroutine before the work is *)
(* run: the form it awaits was parsed before the handler was called.       *)
(***************************************************************************)
ApproveLookup(h, t) ==
    /\ pc[h] = "idle" /\ MayEnter(h) /\ Home[h] = Web
    /\ LivePending(t)
    /\ tok' = [tok EXCEPT ![h] = t]
    /\ via' = [via EXCEPT ![h] = "approve"]
    /\ HasLooked(h, "checks")
    /\ UNCHANGED <<row, failures, now, crashes, history>>

\* The lockout holds, or the caller may not approve: the session stays pending.
ApproveRefused(h) ==
    /\ At(h, "checks")
    /\ Return(h)
    /\ UNCHANGED <<row, tok, via, failures, now, crashes, history>>

AsksPassword(t) == profile[t].level = "url_and_password"

RecordPasswordFailure(t) ==
    LET n == failures[t].count + 1
    IN  failures' = [failures EXCEPT ![t] =
            [count |-> n,
             lockedUntil |-> IF n >= MaxAttempts THEN now + Lockout
                                                 ELSE failures[t].lockedUntil]]

\* Checking a password takes time (600,000 rounds of PBKDF2): no failure is
\* recorded at the very instant the session was created.
ApproveWrongPassword(h) ==
    /\ At(h, "checks")
    /\ AsksPassword(tok[h]) /\ ~Locked(tok[h]) /\ now > created[tok[h]]
    /\ RecordPasswordFailure(tok[h])
    /\ guesses' = [guesses EXCEPT ![tok[h]] = @ + 1]
    /\ Return(h)
    /\ UNCHANGED <<row, tok, via, now, crashes, starts, outcome>>

ApproveChecked(h) ==
    /\ At(h, "checks")
    /\ ~Locked(tok[h])
    /\ failures' = [failures EXCEPT ![tok[h]] = NoFailures]
    /\ Proceed(h, "recheck")
    /\ UNCHANGED <<row, tok, via, now, crashes, history>>

(***************************************************************************)
(* consume_confirmation, behind the MCP tool and POST /catalog/confirm: a  *)
(* caller without a browser, so it refuses url_* levels and secret fields. *)
(***************************************************************************)
ConsumeLookup(h, t) ==
    /\ pc[h] = "idle" /\ MayEnter(h)
    /\ LivePending(t)
    /\ profile[t].level = "llm_confirm" /\ ~profile[t].secret
    /\ tok' = [tok EXCEPT ![h] = t]
    /\ via' = [via EXCEPT ![h] = "consume"]
    /\ HasLooked(h, "recheck")
    /\ UNCHANGED <<row, failures, now, crashes, history>>

(***************************************************************************)
(* complete_session: read the row again, then UPDATE ... WHERE             *)
(* status='pending' on a connection of its own; the row count decides.     *)
(***************************************************************************)
CompleteRecheck(h) ==
    /\ At(h, "recheck")
    /\ IF LivePending(tok[h]) THEN HasLooked(h, "flip") ELSE Return(h)
    /\ UNCHANGED <<row, tok, via, failures, now, crashes, history>>

\* The UPDATE without its WHERE status='pending'.
CompleteFlip_Unguarded(h) ==
    /\ At(h, "flip")
    /\ status' = [status EXCEPT ![tok[h]] = "completed"]
    /\ Proceed(h, "dispatch")
    /\ UNCHANGED <<profile, created, payload, tok, via, failures, now, crashes,
                   history>>

\* The session is marked completed and its work forgotten.
CompleteFlip_NoDispatch(h) ==
    /\ At(h, "flip")
    /\ status' = [status EXCEPT ![tok[h]] = IF @ = "pending" THEN "completed" ELSE @]
    /\ Return(h)
    /\ UNCHANGED <<profile, created, payload, tok, via, failures, now, crashes,
                   history>>

CompleteFlip(h) ==
    /\ At(h, "flip")
    /\ IF status[tok[h]] = "pending"
          THEN /\ status' = [status EXCEPT ![tok[h]] = "completed"]
               /\ HasLooked(h, "dispatch")
          ELSE UNCHANGED status /\ Return(h)
    /\ UNCHANGED <<profile, created, payload, tok, via, failures, now, crashes,
                   history>>

(***************************************************************************)
(* The held work.  execute_approved_session runs an operation, a plan or   *)
(* an action from the session read before completion; consume_confirmation *)
(* only knows catalog operations.  Work that is started is awaited; its    *)
(* payload is stripped when it succeeded.                                  *)
(***************************************************************************)
Runnable(h) == via[h] = "approve" \/ profile[tok[h]].kind = "operation"

DispatchStart(h) ==
    /\ At(h, "dispatch")
    /\ Runnable(h)
    /\ starts' = [starts EXCEPT ![tok[h]] = @ + 1]
    /\ Await(h, "running")
    /\ UNCHANGED <<row, tok, via, failures, now, crashes, guesses, outcome>>

\* The operation left the catalog, its family has no executor, its device is
\* gone, or a secret field came back empty: nothing is sent to the device.
DispatchRefused(h) ==
    /\ At(h, "dispatch")
    /\ outcome' = [outcome EXCEPT ![tok[h]] = "failure"]
    /\ Return(h)
    /\ UNCHANGED <<row, tok, via, failures, now, crashes, starts, guesses>>

\* Stripping whatever the outcome.
WorkEnds_StripAlways(h) ==
    /\ pc[h] = "running" /\ MayEnter(h)
    /\ \E result \in {"success", "failure"} :
          outcome' = [outcome EXCEPT ![tok[h]] = result]
    /\ Proceed(h, "strip")
    /\ UNCHANGED <<row, tok, via, failures, now, crashes, starts, guesses>>

WorkEnds(h) ==
    /\ pc[h] = "running" /\ MayEnter(h)
    /\ \E result \in {"success", "failure"} :
          /\ outcome' = [outcome EXCEPT ![tok[h]] = result]
          /\ IF result = "success" THEN Proceed(h, "strip") ELSE Return(h)
    /\ UNCHANGED <<row, tok, via, failures, now, crashes, starts, guesses>>

StripPayload(h) ==
    /\ At(h, "strip")
    /\ payload' = [payload EXCEPT ![tok[h]] = @ /\ status[tok[h]] # "completed"]
    /\ Return(h)
    /\ UNCHANGED <<status, profile, created, tok, via, failures, now, crashes,
                   history>>

(***************************************************************************)
(* chat_confirm_deny, then deny_session with complete_session's guards.    *)
(***************************************************************************)
DenyLookup(h, t) ==
    /\ pc[h] = "idle" /\ MayEnter(h) /\ Home[h] = Web
    /\ LivePending(t)
    /\ tok' = [tok EXCEPT ![h] = t]
    /\ HasLooked(h, "denyRecheck")
    /\ UNCHANGED <<row, via, failures, now, crashes, history>>

DenyRecheck(h) ==
    /\ At(h, "denyRecheck")
    /\ IF LivePending(tok[h]) THEN HasLooked(h, "denyFlip") ELSE Return(h)
    /\ UNCHANGED <<row, tok, via, failures, now, crashes, history>>

DenyFlip(h) ==
    /\ At(h, "denyFlip")
    /\ status' = [status EXCEPT ![tok[h]] = IF @ = "pending" THEN "denied" ELSE @]
    /\ Return(h)
    /\ UNCHANGED <<profile, created, payload, tok, via, failures, now, crashes,
                   history>>

(***************************************************************************)
(* The environment.                                                        *)
(***************************************************************************)
Crash(p) ==
    /\ crashes < MaxCrashes
    /\ crashes' = crashes + 1
    /\ pc' = [h \in Handlers |-> IF Home[h] = p THEN "idle" ELSE pc[h]]
    /\ loop' = [loop EXCEPT ![p] = Free]
    /\ stall' = [h \in Handlers |-> IF Home[h] = p THEN 0 ELSE stall[h]]
    /\ failures' = IF p = Web THEN [t \in Tokens |-> NoFailures] ELSE failures
    /\ UNCHANGED <<row, tok, via, now, history>>

\* Between its last look at the row and the UPDATE of complete_session.
Approving(h) == pc[h] \in {"checks", "recheck", "flip"}

Tick ==
    /\ now < MaxTime
    /\ \A h \in Handlers : Approving(h) => stall[h] < MaxStall
    /\ now' = now + 1
    /\ stall' = [h \in Handlers |-> IF Approving(h) THEN stall[h] + 1 ELSE stall[h]]
    /\ UNCHANGED <<row, pc, tok, via, loop, failures, crashes, history>>

Create(h)   == (\E t \in Tokens : CreateSweep(h, t)) \/ CreateInsert(h)
Approve(h)  == \/ \E t \in Tokens : ApproveLookup(h, t)
               \/ ApproveRefused(h)
               \/ ApproveWrongPassword(h) \/ ApproveChecked(h)
Consume(h)  == \E t \in Tokens : ConsumeLookup(h, t)
Complete(h) == CompleteRecheck(h) \/ CompleteFlip(h)
Execute(h)  == \/ DispatchStart(h) \/ DispatchRefused(h)
               \/ WorkEnds(h) \/ StripPayload(h)
Deny(h)     == \/ \E t \in Tokens : DenyLookup(h, t)
               \/ DenyRecheck(h) \/ DenyFlip(h)

Next ==
    \/ \E h \in Handlers : \/ Create(h) \/ Approve(h) \/ Consume(h)
                           \/ Complete(h) \/ Execute(h) \/ Deny(h)
    \/ \E p \in Processes : Crash(p)
    \/ Tick

Spec == Init /\ [][Next]_vars

(***************************************************************************)
(* Fairness.  A handler that holds its loop is running code and gets to    *)
(* its next statement.  A handler that awaits is resumed: the executor     *)
(* answers or times out, and asyncio resumes ready coroutines in the order *)
(* they became ready, so it is not passed over for ever (hence SF).        *)
(* Nobody is obliged to create, approve, consume or deny.                  *)
(***************************************************************************)
Running(h) ==
    \/ CreateInsert(h) \/ ApproveRefused(h) \/ ApproveChecked(h)
    \/ Complete(h) \/ DispatchStart(h) \/ DispatchRefused(h)
    \/ StripPayload(h) \/ DenyRecheck(h) \/ DenyFlip(h)

FairSpec ==
    /\ Spec
    /\ \A h \in Handlers : WF_vars(Running(h)) /\ SF_vars(WorkEnds(h))

-----------------------------------------------------------------------------
(* Properties.                                                             *)

(* However many browsers, chat cards, REST callers and MCP processes       *)
(* confirm one token, and whichever of them dies on the way, the work it   *)
(* holds is started at most once: complete_session's conditional UPDATE is *)
(* the only arbiter between them.                                          *)
AtMostOnce == \A t \in Tokens : starts[t] <= 1

(* Why it is so, inductively: a handler about to start the work owns an    *)
(* approval nobody has used and no other handler is using, and a handler   *)
(* about to insert a row owns a token nobody else was given.               *)
DispatchOwns ==
    \A h \in Handlers :
        pc[h] = "dispatch" =>
            /\ status[tok[h]] = "completed"
            /\ starts[tok[h]] = 0
            /\ \A g \in Handlers : pc[g] = "dispatch" /\ tok[g] = tok[h] => g = h
InsertOwns ==
    \A h \in Handlers :
        pc[h] = "insert" =>
            /\ status[tok[h]] = "unissued"
            /\ \A g \in Handlers : pc[g] = "insert" /\ tok[g] = tok[h] => g = h
StartsHaveReceipt ==
    \A t \in Tokens : starts[t] = 0 \/ (starts[t] = 1 /\ status[t] = "completed")
Ownership == DispatchOwns /\ InsertOwns /\ StartsHaveReceipt

(* The gate keeps the promise of OneShotApproval: approval, denial and     *)
(* expiry exclude each other, work starts only from an approval, and the   *)
(* row of an approval is never reaped.                                     *)
Phase == [t \in Tokens |->
    IF status[t] = "deleted" THEN "forgotten"
    ELSE IF status[t] # "completed" THEN status[t]
    ELSE IF starts[t] > 0 THEN "started" ELSE "approved"]
Promise == INSTANCE OneShotApproval WITH phase <- Phase
KeepsPromise == Promise!Spec

(* The lockout outlasts the session: as long as the web process lives, at  *)
(* most MaxAttempts wrong passwords are ever evaluated against one token.  *)
(* The counters are in memory, so each restart grants a fresh allowance;   *)
(* and a request that found the session alive and then stalled until both  *)
(* the session and the lockout were over has one more guess evaluated.     *)
Expired(t) == now > created[t] + TTL
GuessBudget ==
    \A t \in Tokens :
        guesses[t] <= MaxAttempts * (crashes + 1) + (IF Expired(t) THEN 1 ELSE 0)

(* The payload follows the outcome: work that failed keeps its payload for *)
(* the whole retention window (it is the only record of what was asked     *)
(* for), and work that succeeded has lost it by the time its handler       *)
(* returns, unless its process died in between.                            *)
PayloadFollowsOutcome ==
    \A t \in Tokens :
        /\ outcome[t] = "failure" /\ now <= created[t] + Retention => payload[t]
        /\ /\ outcome[t] = "success" /\ crashes = 0
           /\ \A h \in Handlers : tok[h] = t => pc[h] # "strip"
           => ~payload[t]

(* complete_session's UPDATE tests the status and not the age, so a        *)
(* process that stalls between its read and its UPDATE (the database is    *)
(* locked, the machine is suspended) approves a session that has expired.  *)
(* Nothing else does: an approval is late by no more than the time its own *)
(* handler kept the loop since complete_session last read the row.         *)
LateOnlyByStall ==
    [][\A t \in Tokens :
          status[t] = "pending" /\ status'[t] = "completed"
              => \E h \in Handlers :
                    /\ tok[h] = t /\ pc[h] = "flip" /\ pc'[h] = "dispatch"
                    /\ now <= created[t] + TTL + stall[h]]_vars

(* A session that was approved gets an answer: its work is run to an end   *)
(* or refused, as long as no process dies.  (Approved url_* sessions were  *)
(* once marked completed and never executed.)                              *)
ApprovalTakesEffect ==
    \A t \in Tokens :
        status[t] = "completed" ~> outcome[t] # "none" \/ crashes > 0
=============================================================================
