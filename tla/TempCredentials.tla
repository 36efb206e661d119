---------------------------- MODULE TempCredentials ----------------------------
(***************************************************************************)
(* The temporary accounts of one device: the registry that survives the    *)
(* processes (admz/mcp/temp_credentials.py), the MCP servers that make,    *)
(* remove and clean them up (admz/mcp/server.py), and the approved         *)
(* creation in the web process (admz/operations.py).                       *)
(*                                                                         *)
(* The account on the device and its row are two things, written at two    *)
(* moments: a maker makes the account and then the row, an operator        *)
(* removes the row and then the account, the cleanup loop of each server   *)
(* removes the account and then the row.  A call to the device may fail,   *)
(* or work and its answer be lost; a statement may fail; a process may     *)
(* die, or be shut down, at any await.  Names are random: one is used      *)
(* again only when nothing refers to it any more.                          *)
(***************************************************************************)
EXTENDS FiniteSets, Naturals

CONSTANTS
    Users,          \* names of temporary accounts
    NoUser,
    Servers,        \* the MCP processes, each with a cleanup loop
    Steady,         \* the one of them that liveness is asked of
    Web,            \* the web process, which has none
    Makers,         \* the handlers that create an account
    Operators,      \* the handlers of cleanup_temp_credentials
    Home,           \* the process of each handler
    MaxPerDevice,   \* _MAX_PER_DEVICE
    MaxAttempts,    \* _MAX_CLEANUP_ATTEMPTS
    TTL,            \* the longest lifetime that clamp_ttl allows
    MayFail         \* whether statements may fail ("database is locked")

ASSUME CredentialsAssumption ==
    /\ NoUser \notin Users /\ Web \notin Servers /\ Steady \in Servers
    /\ Home \in [Makers \cup Operators -> Servers \cup {Web}]
    /\ \A o \in Operators : Home[o] \in Servers
    /\ IsFiniteSet(Users) /\ IsFiniteSet(Makers)
    /\ MaxPerDevice \in Nat \ {0} /\ MaxAttempts \in Nat \ {0}
    /\ TTL \in Nat \ {0} /\ MayFail \in BOOLEAN

VARIABLES
    accounts,   \* the temporary accounts on the device
    row,        \* row[u]: its row in temp_credentials
    phase,      \* phase[s]: where the cleanup loop of server s is
    todo,       \* todo[s]: what it still has to look at, as it read it
    at,         \* at[s]: the removal that was answered, or none
    step,       \* step[m]: where maker m is
    name,       \* name[m]: the account it makes
    drops,      \* drops[o]: the accounts operator o still has to take
    taken,      \* taken[o]: the account whose row it has removed
    met,        \* history: requests under way that met another (no approvals)
    direct,     \* history: unexpired rows that were made without an approval
    alone,      \* history: those of them whose request met no other
    swept,      \* history: unexpired rows whose account a shutdown removed
    lost        \* history: accounts that a mishap or an operator left unrecorded

loopVars == <<phase, todo, at>>
makerVars == <<step, name, met>>
operatorVars == <<drops, taken>>
histories == <<direct, alone, swept, lost>>
vars == <<accounts, row, loopVars, makerVars, operatorVars, histories>>

NoRow == [state |-> "none", left |-> 0, tries |-> 0]
NoAnswer == [user |-> NoUser, ok |-> FALSE]

Recorded == {u \in Users : row[u].state # "none"}
Active == {u \in Users : row[u].state = "active"}

\* count_active_for_device: rows that are active and not past their TTL.
Unexpired == {u \in Active : row[u].left > 0}

\* get_expired: active rows past their TTL.
Expired == {u \in Active : row[u].left = 0}

\* What a pass reads; "spent" is that the row has no attempt left
\* (should_retry_cleanup), which only a pass looks at.
Jobs(us) == {[user |-> u, spent |-> row[u].tries >= MaxAttempts] : u \in us}
Attempts(us) == {[user |-> u, spent |-> FALSE] : u \in us}

Making == {m \in Makers : step[m] # "idle"}

\* Nothing refers to u: a random name may be it.
Unused(u) ==
    /\ u \notin accounts \cup Recorded
    /\ \A m \in Making : name[m] # u
    /\ \A s \in Servers : at[s].user # u /\ \A j \in todo[s] : j.user # u
    /\ \A o \in Operators : taken[o] # u /\ u \notin drops[o]

\* The processes that take requests.
Serves == {Web} \cup {s \in Servers : phase[s] \notin {"down", "sweep"}}

Init ==
    /\ accounts = {} /\ row = [u \in Users |-> NoRow]
    /\ phase = [s \in Servers |-> "down"]
    /\ todo = [s \in Servers |-> {}]
    /\ at = [s \in Servers |-> NoAnswer]
    /\ step = [m \in Makers |-> "idle"]
    /\ name = [m \in Makers |-> NoUser]
    /\ drops = [o \in Operators |-> {}]
    /\ taken = [o \in Operators |-> NoUser]
    /\ met = {} /\ direct = {} /\ alone = {} /\ swept = {} /\ lost = {}

----------------------------------------------------------------------------
(* Creation.                                                               *)

\* The requests without an approval, and those of them that are under way.
Askers == {m \in Makers : Home[m] # Web}
Flight == {m \in Askers : step[m] # "idle"}
Meet == met' = {m \in Flight' : m \in met \/ Flight' # {m}}

Moves(m, place, u) ==
    /\ step' = [step EXCEPT ![m] = place]
    /\ name' = [name EXCEPT ![m] = u]
    /\ Meet

\* Broken: off by one.
Ask_OneMore(m) ==
    /\ Home[m] # Web /\ Home[m] \in Serves /\ step[m] = "idle"
    /\ Cardinality(Unexpired) <= MaxPerDevice
    /\ \E u \in Users : Unused(u) /\ Moves(m, "calling", u)
    /\ UNCHANGED <<accounts, row, loopVars, operatorVars, histories>>

\* create_temp_credentials where the policy asks for no confirmation: the
\* limit is checked, then the device is called.
Ask(m) ==
    /\ Home[m] # Web /\ Home[m] \in Serves /\ step[m] = "idle"
    /\ Cardinality(Unexpired) < MaxPerDevice
    /\ \E u \in Users : Unused(u) /\ Moves(m, "calling", u)
    /\ UNCHANGED <<accounts, row, loopVars, operatorVars, histories>>

\* The same after an approval: the web process does not look at the limit.
Approved(m) ==
    /\ Home[m] = Web /\ step[m] = "idle"
    /\ \E u \in Users : Unused(u) /\ Moves(m, "calling", u)
    /\ UNCHANGED <<accounts, row, loopVars, operatorVars, histories>>

AccountMade(m) ==
    /\ step[m] = "calling"
    /\ accounts' = accounts \cup {name[m]}
    /\ Moves(m, "made", name[m])
    /\ UNCHANGED <<row, loopVars, operatorVars, histories>>

\* The call fails, without an effect or with one.
CallFails(m) ==
    /\ step[m] = "calling"
    /\ Moves(m, "idle", NoUser)
    /\ \/ UNCHANGED <<accounts, lost>>
       \/ accounts' = accounts \cup {name[m]} /\ lost' = lost \cup {name[m]}
    /\ UNCHANGED <<row, loopVars, operatorVars, direct, alone, swept>>

Register(m) ==
    /\ step[m] = "made"
    /\ row' = [row EXCEPT ![name[m]] =
                  [state |-> "active", left |-> TTL, tries |-> 0]]
    /\ direct' = IF m \in Askers THEN direct \cup {name[m]} ELSE direct
    /\ alone' = IF m \in Askers \ met THEN alone \cup {name[m]} ELSE alone
    /\ Moves(m, "idle", NoUser)
    /\ UNCHANGED <<accounts, loopVars, operatorVars, swept, lost>>

RegisterFails(m) ==
    /\ MayFail /\ step[m] = "made"
    /\ lost' = lost \cup {name[m]}
    /\ Moves(m, "idle", NoUser)
    /\ UNCHANGED <<accounts, row, loopVars, operatorVars, direct, alone, swept>>

----------------------------------------------------------------------------
(* The device removes an account, or the call fails.                       *)

DeviceRemoves(u) ==
    /\ accounts' = accounts \ {u}
    /\ lost' = lost \ {u}

DeviceRefuses == UNCHANGED <<accounts, lost>>

\* remove: the row goes.
DeleteRow(u) ==
    /\ row' = [row EXCEPT ![u] = NoRow]
    /\ direct' = direct \ {u}
    /\ alone' = alone \ {u}
    /\ swept' = swept \ {u}

----------------------------------------------------------------------------
(* cleanup_temp_credentials: the row first, the account afterwards.        *)

Idle(o) == drops[o] = {} /\ taken[o] = NoUser

\* One account, named by the caller, whatever its state.
DropOne(o) ==
    /\ Home[o] \in Serves /\ Idle(o)
    /\ \E u \in Recorded : DeleteRow(u) /\ taken' = [taken EXCEPT ![o] = u]
    /\ UNCHANGED <<accounts, loopVars, makerVars, drops, lost>>

\* Every expired account of the device.
DropExpired(o) ==
    /\ Home[o] \in Serves /\ Idle(o) /\ Expired # {}
    /\ drops' = [drops EXCEPT ![o] = Expired]
    /\ UNCHANGED <<accounts, row, loopVars, makerVars, taken, histories>>

DropNext(o) ==
    /\ taken[o] = NoUser
    /\ \E u \in drops[o] :
        /\ DeleteRow(u)
        /\ taken' = [taken EXCEPT ![o] = u]
        /\ drops' = [drops EXCEPT ![o] = @ \ {u}]
    /\ UNCHANGED <<accounts, loopVars, makerVars, lost>>

\* The result of the call is reported and nothing is done about a failure.
DropEnds(o) ==
    /\ taken[o] # NoUser
    /\ \/ DeviceRemoves(taken[o])
       \/ lost' = lost \cup ({taken[o]} \cap accounts) /\ UNCHANGED accounts
    /\ taken' = [taken EXCEPT ![o] = NoUser]
    /\ UNCHANGED <<row, loopVars, makerVars, drops, direct, alone, swept>>

----------------------------------------------------------------------------
(* The cleanup loop.                                                       *)

Loop(s, place, jobs, answer) ==
    /\ phase' = [phase EXCEPT ![s] = place]
    /\ todo' = [todo EXCEPT ![s] = jobs]
    /\ at' = [at EXCEPT ![s] = answer]

\* Broken: everything active is removed, expired or not.
Start_Unfiltered(s) ==
    /\ phase[s] = "down"
    /\ Loop(s, "reconcile", Attempts(Active), NoAnswer)
    /\ UNCHANGED <<accounts, row, makerVars, operatorVars, histories>>

\* A server starts and reads what _reconcile_temp_credentials goes through;
\* a read that fails is skipped.
Start(s) ==
    /\ phase[s] = "down"
    /\ \/ Loop(s, "reconcile", Attempts(Expired), NoAnswer)
       \/ MayFail /\ Loop(s, "sleep", {}, NoAnswer)
    /\ UNCHANGED <<accounts, row, makerVars, operatorVars, histories>>

\* Every 30 seconds the loop reads what is due.
BeginPass(s) ==
    /\ phase[s] = "sleep" /\ Expired # {}
    /\ Loop(s, "pass", Jobs(Expired), NoAnswer)
    /\ UNCHANGED <<accounts, row, makerVars, operatorVars, histories>>

\* Broken: the row is deleted.
GiveUp_Deletes(s) ==
    /\ phase[s] = "pass" /\ at[s] = NoAnswer
    /\ \E j \in todo[s] :
        /\ j.spent
        /\ DeleteRow(j.user)
        /\ Loop(s, "pass", todo[s] \ {j}, NoAnswer)
    /\ UNCHANGED <<accounts, makerVars, operatorVars, lost>>

\* mark_orphaned; the row may be gone by now.
GiveUp(s) ==
    /\ phase[s] = "pass" /\ at[s] = NoAnswer
    /\ \E j \in todo[s] :
        /\ j.spent
        /\ row' = IF j.user \in Recorded
                  THEN [row EXCEPT ![j.user].state = "orphaned"] ELSE row
        /\ Loop(s, "pass", todo[s] \ {j}, NoAnswer)
    /\ UNCHANGED <<accounts, makerVars, operatorVars, histories>>

\* _remove_temp_user, in the reconciliation and in a pass.
Remove(s) ==
    /\ phase[s] \in {"reconcile", "pass"} /\ at[s] = NoAnswer
    /\ \E j \in todo[s], ok \in BOOLEAN :
        /\ ~j.spent
        /\ Loop(s, phase[s], todo[s] \ {j}, [user |-> j.user, ok |-> ok])
        /\ \/ DeviceRemoves(j.user)
           \/ (~ok \/ j.user \notin accounts) /\ DeviceRefuses
    /\ UNCHANGED <<row, makerVars, operatorVars, direct, alone, swept>>

\* The account is confirmed gone: its row goes.
Settle(s) ==
    /\ at[s] # NoAnswer /\ at[s].ok
    /\ DeleteRow(at[s].user)
    /\ Loop(s, phase[s], todo[s], NoAnswer)
    /\ UNCHANGED <<accounts, makerVars, operatorVars, lost>>

\* Broken: the failure is not counted.
Failure_Uncounted(s) ==
    /\ at[s] # NoAnswer /\ ~at[s].ok
    /\ Loop(s, phase[s], todo[s], NoAnswer)
    /\ UNCHANGED <<accounts, row, makerVars, operatorVars, histories>>

\* record_cleanup_failure, an UPDATE of a row that may be gone.  The count is
\* compared with MaxAttempts only and stays there.
Failure(s) ==
    /\ at[s] # NoAnswer /\ ~at[s].ok
    /\ LET u == at[s].user
       IN  row' = IF u \in Recorded /\ row[u].tries < MaxAttempts
                  THEN [row EXCEPT ![u].tries = @ + 1] ELSE row
    /\ Loop(s, phase[s], todo[s], NoAnswer)
    /\ UNCHANGED <<accounts, makerVars, operatorVars, histories>>

PassEnds(s) ==
    /\ phase[s] \in {"reconcile", "pass"} /\ at[s] = NoAnswer /\ todo[s] = {}
    /\ Loop(s, "sleep", {}, NoAnswer)
    /\ UNCHANGED <<accounts, row, makerVars, operatorVars, histories>>

\* A statement of the loop fails: nothing catches it and the loop is over,
\* while its server goes on.
LoopFails(s) ==
    /\ MayFail /\ phase[s] \in {"reconcile", "pass", "sleep"}
    /\ Loop(s, "ended", {}, NoAnswer)
    /\ UNCHANGED <<accounts, row, makerVars, operatorVars, histories>>

----------------------------------------------------------------------------
(* The end of a process.                                                   *)

\* The handlers of p are gone; what they had half done stays as it is.
HandlersEnd(p) ==
    /\ step' = [m \in Makers |-> IF Home[m] = p THEN "idle" ELSE step[m]]
    /\ name' = [m \in Makers |-> IF Home[m] = p THEN NoUser ELSE name[m]]
    /\ Meet
    /\ drops' = [o \in Operators |-> IF Home[o] = p THEN {} ELSE drops[o]]
    /\ taken' = [o \in Operators |-> IF Home[o] = p THEN NoUser ELSE taken[o]]
    /\ LET made == {name[m] : m \in {m \in Makers :
                                        Home[m] = p /\ step[m] = "made"}}
           held == {taken[o] : o \in {o \in Operators : Home[o] = p}}
       IN  lost' = lost \cup made \cup (held \cap accounts)

\* It dies, or is shut down after its loop has ended.
Crash(p) ==
    /\ p \in Servers => phase[p] # "down"
    /\ HandlersEnd(p)
    /\ IF p = Web THEN UNCHANGED loopVars ELSE Loop(p, "down", {}, NoAnswer)
    /\ UNCHANGED <<accounts, row, direct, alone, swept>>

\* The client is gone: the loop is cancelled and goes through every active
\* account, its own and those of the others.
Shutdown(s) ==
    /\ phase[s] \in {"reconcile", "pass", "sleep"}
    /\ HandlersEnd(s)
    /\ Loop(s, "sweep", Attempts(Active), NoAnswer)
    /\ UNCHANGED <<accounts, row, direct, alone, swept>>

\* The result is not looked at and the row stays.
Sweep(s) ==
    /\ phase[s] = "sweep"
    /\ \E j \in todo[s] :
        /\ Loop(s, "sweep", todo[s] \ {j}, NoAnswer)
        /\ \/ /\ DeviceRemoves(j.user)
              /\ swept' = swept \cup ({j.user} \cap Unexpired)
           \/ DeviceRefuses /\ UNCHANGED swept
    /\ UNCHANGED <<row, makerVars, operatorVars, direct, alone>>

SweepEnds(s) ==
    /\ phase[s] = "sweep" /\ todo[s] = {}
    /\ Loop(s, "down", {}, NoAnswer)
    /\ UNCHANGED <<accounts, row, makerVars, operatorVars, histories>>

Tick ==
    /\ Unexpired # {}
    /\ row' = [u \in Users |-> IF row[u].left = 0 THEN row[u]
                               ELSE [row[u] EXCEPT !.left = @ - 1]]
    /\ direct' = {u \in direct : row[u].left > 1}
    /\ alone' = {u \in alone : row[u].left > 1}
    /\ swept' = {u \in swept : row[u].left > 1}
    /\ UNCHANGED <<accounts, loopVars, makerVars, operatorVars, lost>>

----------------------------------------------------------------------------
MakerSteps(m) ==
    \/ Ask(m) \/ Approved(m) \/ AccountMade(m) \/ CallFails(m)
    \/ Register(m) \/ RegisterFails(m)

OperatorSteps(o) == DropOne(o) \/ DropExpired(o) \/ DropNext(o) \/ DropEnds(o)

LoopSteps(s) ==
    \/ BeginPass(s) \/ GiveUp(s) \/ Remove(s) \/ Settle(s) \/ Failure(s)
    \/ PassEnds(s)

Next ==
    \/ \E m \in Makers : MakerSteps(m)
    \/ \E o \in Operators : OperatorSteps(o)
    \/ \E s \in Servers : \/ Start(s) \/ LoopSteps(s) \/ LoopFails(s)
                          \/ Shutdown(s) \/ Sweep(s) \/ SweepEnds(s)
    \/ \E p \in Servers \cup {Web} : Crash(p)
    \/ Tick

Spec == Init /\ [][Next]_vars

\* Time passes, and the loop of one server goes on: its calls time out.
FairSpec == Spec /\ WF_vars(Tick) /\ WF_vars(LoopSteps(Steady))

----------------------------------------------------------------------------
(* Properties.                                                             *)

RowType == [state : {"none", "active", "orphaned"}, left : 0..TTL,
            tries : 0..MaxAttempts]
JobType == [user : Users, spent : BOOLEAN]
AnswerType == [user : Users, ok : BOOLEAN] \cup {NoAnswer}

TypeOK ==
    /\ accounts \subseteq Users /\ row \in [Users -> RowType]
    /\ phase \in [Servers -> {"down", "reconcile", "sleep", "pass", "ended",
                              "sweep"}]
    /\ todo \in [Servers -> SUBSET JobType]
    /\ at \in [Servers -> AnswerType]
    /\ step \in [Makers -> {"idle", "calling", "made"}]
    /\ name \in [Makers -> Users \cup {NoUser}]
    /\ drops \in [Operators -> SUBSET Users]
    /\ taken \in [Operators -> Users \cup {NoUser}]
    /\ met \subseteq Makers /\ direct \subseteq Users /\ alone \subseteq Users
    /\ swept \subseteq Users /\ lost \subseteq Users

\* An account on the device is never forgotten: it has a row, or the handler
\* that made it or is to remove it still runs, or it was left by a process
\* that died, an answer or a registration that failed, or an operator's
\* removal that failed.  No cleanup loop ever drops a row too early,
\* whatever the others do meanwhile (the claim of issue 314).
NeverForgotten ==
    accounts \subseteq
        UNION {Recorded, lost, {name[m] : m \in Making},
               {taken[o] : o \in Operators}}

\* A caller can use what it was given: the account of an unexpired row is on
\* the device, unless a server that was shut down removed it.  The loop that
\* starts in another process leaves it alone.
UsableUntilExpiry == Unexpired \subseteq accounts \cup swept

\* The limit per device is exceeded by no more than the requests that are in
\* flight together (each of them counts before the others register), as far
\* as accounts made without an approval go; the requests that met no other
\* from their count to their row keep to it.
BoundedOvershoot ==
    /\ Cardinality(direct) < MaxPerDevice + Cardinality(Askers)
    /\ Cardinality(alone) <= MaxPerDevice

\* While one server keeps its loop, an account that is due is removed or
\* listed as orphaned: no failure of a device or of the others makes the
\* loop try for ever.
Serving(s) == phase[s] \in {"reconcile", "pass", "sleep"}

Reclaimed ==
    <>[]Serving(Steady) =>
        \A u \in Users : u \in Expired ~> u \notin Expired

=============================================================================
