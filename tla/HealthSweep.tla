---------------------------- MODULE HealthSweep ----------------------------
(***************************************************************************)
(* The health monitor of the web process (admz/fleet/health.py) and one    *)
(* device: the loop and the forced sweeps that take turns at the sweep     *)
(* lock, the probe, the row of device_health, and the escalating hold on a *)
(* credential that the device refused (FR-HLT-012).  Checks of different   *)
(* devices share the lock and how a sweep ends: where the last statement   *)
(* of one device fails, the sweep is over and the check of this device     *)
(* goes astray, on its own and without the lock.  So one device is enough. *)
(*                                                                         *)
(* A check reads the credential, then the row, then probes the device,     *)
(* reads the row again and replaces it as a whole: five steps, between     *)
(* which other processes write credentials (two statements: the account,   *)
(* then the hold), remove the device, and time passes.                     *)
(*                                                                         *)
(* A deadline is the set of the ticks left until it comes: {0} has passed, *)
(* {} is none.  The text auth_condemnation stands for the password it is   *)
(* about.  consecutive_failures, latencies and facts are left out: the     *)
(* sweep decides nothing by them.                                          *)
(***************************************************************************)
EXTENDS Naturals

CONSTANTS
    Passwords,    \* what may be stored for the device
    None,         \* no password
    Interval,     \* health_check_interval_seconds
    Ceiling,      \* health_auth_hold_max_seconds; 0 switches the hold off
    Strays,       \* bound: the checks that may be astray at once
    Meddling,     \* bound: whether others act while one of them is
    MaxStreak,    \* bound: the streak saturates where the wait is the ceiling
    MaxMishaps    \* bound: restarts and failing statements

\* The check of the sweep that holds the lock, and the checks of sweeps that
\* ended for the sake of another device.
Turn == "turn"
Slots == Strays \cup {Turn}

ASSUME HealthAssumption ==
    /\ None \notin Passwords /\ Turn \notin Strays
    /\ Interval \in Nat \ {0} /\ Ceiling \in Nat
    /\ MaxStreak \in Nat \ {0}
    /\ Interval * 2^(MaxStreak - 1) >= Ceiling
    /\ MaxMishaps \in Nat /\ Meddling \in BOOLEAN

VARIABLES
    registered, \* the device is in the registry
    stored,    \* the password of its "default" account
    fix,       \* a credential write that has not cleared the hold yet
    row,       \* the row of device_health
    loop,      \* where HealthMonitor._loop is, and what is left of its sleep
    forced,    \* where POST /api/fleet/health/sweep is
    check,     \* check[w]: the check of the sweep, or the one that is astray
    mishaps,   \* how many restarts and failing statements there were
    owed       \* history: the refusals that count, and the ticks they impose

vars == <<registered, stored, fix, row, loop, forced, check, mishaps, owed>>

\* "dark": no TCP.  "factory": needsetup.  "api", "legacy": everything is
\* answered, or param.cgi only.  "odd": it is up and answers inconclusively.
Conditions == {"dark", "factory", "api", "legacy", "odd"}

Statuses == {"online", "limited_api", "reachable_no_api", "unreachable",
             "auth_failed", "needs_setup", "no_credentials", "unknown"}

\* _AUTH_HOLD_CLEARING_STATUSES
Clearing == {"online", "limited_api", "needs_setup", "no_credentials"}

Row == [there : BOOLEAN, status : Statuses, streak : 0..MaxStreak,
        retry : SUBSET Nat, condemned : Passwords \cup {None}]

Blank(there, status) ==
    [there |-> there, status |-> status, streak |-> 0, retry |-> {},
     condemned |-> None]
Absent == Blank(FALSE, "unknown")

NoCheck == [pc |-> "none", force |-> FALSE, creds |-> None, prev |-> Absent,
            held |-> FALSE, verdict |-> "unknown", cleared |-> FALSE]

Smaller(m, n) == IF m < n THEN m ELSE n
Less(n)       == IF n = 0 THEN 0 ELSE n - 1

\* _next_auth_retry_after
Wait(streak) == Smaller(Interval * 2^(streak - 1), Ceiling)
RetryAfter(streak) == IF Ceiling = 0 THEN {} ELSE {Wait(streak)}

\* _auth_hold_for
InForce(r) == r.there /\ \E t \in r.retry : 0 < t /\ t <= Ceiling

Check == [pc : {"none", "listed", "creds", "probing", "answered", "reread",
                "keep", "kept"},
          force : BOOLEAN, creds : Passwords \cup {None}, prev : Row,
          held : BOOLEAN, verdict : Statuses, cleared : BOOLEAN]

TypeOK ==
    /\ registered \in BOOLEAN
    /\ stored \in Passwords \cup {None}
    /\ fix \in BOOLEAN
    /\ row \in Row
    /\ loop \in [at : {"sleep", "due", "sweep", "dead"}, nap : Nat]
    /\ forced \in {"idle", "due", "sweep"}
    /\ check \in [Slots -> Check]
    /\ (check[Turn].pc = "none") <=> (loop.at # "sweep" /\ forced # "sweep")
    /\ check[Turn].pc # "none" =>
          IF check[Turn].force THEN forced = "sweep" /\ loop.at # "sweep"
                               ELSE loop.at = "sweep" /\ forced # "sweep"
    /\ mishaps \in 0..MaxMishaps
    /\ owed \in [streak : 0..MaxStreak, ticks : Nat]

NothingOwed == [streak |-> 0, ticks |-> 0]

Init ==
    /\ registered = TRUE
    /\ stored \in Passwords \cup {None}
    /\ fix = FALSE
    /\ row = Absent
    /\ loop = [at |-> "due", nap |-> 0]
    /\ forced = "idle"
    /\ check = [w \in Slots |-> NoCheck]
    /\ mishaps = 0
    /\ owed = NothingOwed

Mishap == mishaps < MaxMishaps /\ mishaps' = mishaps + 1

\* What a check does from one await to the next: the event loop runs nothing
\* of another check in between.
Midway == {"creds", "keep", "kept", "reread"}
GivesWay(w) == \A v \in Slots \ {w} : check[v].pc \notin Midway

\* Another check has read the row and not written it yet.
Overlapped(w) == \E v \in Slots \ {w} : check[v].pc \in {"probing", "answered"}

Becomes(w, c) == check' = [check EXCEPT ![w] = c]

-----------------------------------------------------------------------------
(* The sweeps take turns.                                                  *)

LoopWakes ==
    /\ loop.at = "sleep" /\ loop.nap = 0
    /\ loop' = [loop EXCEPT !.at = "due"]
    /\ UNCHANGED <<registered, stored, fix, row, forced, check, mishaps, owed>>

AskForSweep ==
    /\ forced = "idle"
    /\ forced' = "due"
    /\ UNCHANGED <<registered, stored, fix, row, loop, check, mishaps, owed>>

\* The check of w is over, and with it its sweep, unless that ended before.
LoopOver(raised) ==
    loop' = IF raised THEN [at |-> "dead", nap |-> 0]
                      ELSE [at |-> "sleep", nap |-> Interval]
SweepOver(raised) ==
    IF check[Turn].force THEN forced' = "idle" /\ UNCHANGED loop
                         ELSE LoopOver(raised) /\ UNCHANGED forced
Over(w, raised) ==
    /\ Becomes(w, NoCheck)
    /\ IF w = Turn THEN SweepOver(raised) ELSE UNCHANGED <<loop, forced>>

\* The lock is taken and the devices are listed.
Acquire(force) ==
    /\ IF force THEN forced = "due" ELSE loop.at = "due"
    /\ check[Turn].pc = "none" /\ GivesWay(Turn)
    /\ \/ /\ registered
          /\ Becomes(Turn, [NoCheck EXCEPT !.pc = "listed", !.force = force])
          /\ IF force THEN forced' = "sweep" /\ UNCHANGED loop
                      ELSE loop' = [loop EXCEPT !.at = "sweep"]
                           /\ UNCHANGED forced
          /\ UNCHANGED mishaps
       \/ /\ \/ ~ registered /\ UNCHANGED mishaps
             \/ Mishap
          /\ UNCHANGED check
          /\ IF force THEN forced' = "idle" /\ UNCHANGED loop
                      ELSE LoopOver(FALSE) /\ UNCHANGED forced
    /\ UNCHANGED <<registered, stored, fix, row, owed>>

\* The row of another device could not be written: the sweep raises, and
\* nobody waits for the check of this device any more.
Astray(s) ==
    /\ check[s].pc = "none"
    /\ check[Turn].pc \in {"listed", "probing", "answered"}
    /\ GivesWay(Turn)
    /\ Mishap
    /\ check' = [check EXCEPT ![s] = check[Turn], ![Turn] = NoCheck]
    /\ SweepOver(TRUE)
    /\ UNCHANGED <<registered, stored, fix, row, owed>>

-----------------------------------------------------------------------------
(* One check.                                                              *)

ReadCredential(w) ==
    /\ check[w].pc = "listed"
    /\ \/ /\ registered
          /\ Becomes(w, [check[w] EXCEPT !.pc = "creds", !.creds = stored])
          /\ UNCHANGED <<loop, forced, mishaps>>
       \/ /\ ~ registered
          /\ Over(w, FALSE)
          /\ UNCHANGED mishaps
       \/ /\ Mishap
          /\ Becomes(w, [check[w] EXCEPT !.pc = "keep"])
          /\ UNCHANGED <<loop, forced>>
    /\ UNCHANGED <<registered, stored, fix, row, owed>>

\* The lookup failed: the previous row is kept, with another last_error.
ReadKept(w) ==
    /\ check[w].pc = "keep"
    /\ \/ /\ Becomes(w, [check[w] EXCEPT !.pc = "kept", !.prev = row])
          /\ UNCHANGED <<loop, forced, mishaps>>
       \/ Mishap /\ Over(w, FALSE)
    /\ UNCHANGED <<registered, stored, fix, row, owed>>

WriteKept(w) ==
    /\ check[w].pc = "kept"
    /\ \/ /\ row' = IF check[w].prev.there THEN check[w].prev
                                        ELSE Blank(TRUE, "unknown")
          /\ UNCHANGED mishaps
       \/ Mishap /\ UNCHANGED row
    /\ Over(w, FALSE)
    /\ UNCHANGED <<registered, stored, fix, owed>>

\* The row before the probe decides on the hold, and its status on nothing;
\* without it the device is probed as if it were new.
ReadPrevious(w) ==
    /\ check[w].pc = "creds"
    /\ \/ /\ Becomes(w, [check[w] EXCEPT !.pc = "probing",
                              !.prev = [row EXCEPT !.status = "unknown"],
                              !.held = ~ check[w].force /\ InForce(row)])
          /\ UNCHANGED <<mishaps, owed>>
       \/ /\ Mishap
          /\ Becomes(w, [check[w] EXCEPT !.pc = "probing"])
          /\ owed' = NothingOwed
    /\ UNCHANGED <<registered, stored, fix, row, loop, forced>>

-----------------------------------------------------------------------------
(* probe_device.                                                           *)

\* What the device wants to hear: a password that is known here, or another.
Secrets == Passwords \cup {None}

\* Tier 0: nothing that costs an authentication is sent.
HeldVerdicts(condition) ==
    CASE condition = "dark"    -> {"unreachable"}
      [] condition = "factory" -> {"needs_setup"}
      [] OTHER                        -> {"auth_failed"}

\* Tier 2, without a credential.
TcpVerdicts(condition) ==
    CASE condition = "dark"    -> {"unreachable"}
      [] condition = "factory" -> {"needs_setup"}
      [] OTHER                        -> {"no_credentials"}

\* Tier 1: systemready, and an operation that requires authentication.
JsonVerdict(c, secret) ==
    IF c.creds = secret THEN "online" ELSE "auth_failed"

\* Tier 1 where systemready does not answer: the legacy read.
LegacyVerdict(c, secret) ==
    IF c.creds = secret THEN "limited_api" ELSE "auth_failed"

\* A refusal that nothing corroborates, a timeout, an answer of some other
\* shape: nobody is condemned.
OddVerdicts == {"online", "reachable_no_api", "unreachable"}

AskedVerdicts(c, condition, secret) ==
    CASE condition = "dark"    -> {"unreachable"}
      [] condition = "factory" -> {"needs_setup"}
      [] condition = "api"     -> {JsonVerdict(c, secret)}
      [] condition = "legacy"  -> {LegacyVerdict(c, secret)}
      [] condition = "odd"     -> OddVerdicts

Asks(c) == c.creds # None /\ ~ c.held

Verdicts(c, condition, secret) ==
    IF c.creds = None THEN TcpVerdicts(condition)
    ELSE IF c.held THEN HeldVerdicts(condition)
    ELSE AskedVerdicts(c, condition, secret)

Probe(w, condition, secret) ==
    /\ check[w].pc = "probing"
    /\ \E v \in Verdicts(check[w], condition, secret) :
          Becomes(w, [check[w] EXCEPT !.pc = "answered", !.verdict = v,
                        !.held = check[w].held /\ v = "auth_failed"])
    /\ UNCHANGED <<registered, stored, fix, row, loop, forced, mishaps, owed>>

-----------------------------------------------------------------------------
(* The end of _check.                                                      *)

\* Was the hold cleared under the probe?  Asked only if there was one.
Reread(w) ==
    /\ check[w].pc = "answered"
    /\ \/ /\ Becomes(w, [check[w] EXCEPT !.pc = "reread", !.cleared =
                          /\ check[w].prev.there /\ check[w].prev.retry # {}
                          /\ ~ row.there \/ row.retry = {}])
          /\ UNCHANGED mishaps
       \/ /\ check[w].prev.there /\ check[w].prev.retry # {}
          /\ Mishap
          /\ Becomes(w, [check[w] EXCEPT !.pc = "reread"])
    /\ UNCHANGED <<registered, stored, fix, row, loop, forced, owed>>

Forgiven(c) == c.cleared \/ c.verdict \in Clearing
Refused(c) == c.verdict = "auth_failed" /\ ~ c.held /\ ~ c.cleared
Longer(streak) == Smaller(streak + 1, MaxStreak)

Carried_Forgets(c, retry) == Blank(TRUE, c.verdict)
Carried(c, retry) ==
    [there |-> TRUE, status |-> c.verdict, streak |-> c.prev.streak,
     retry |-> retry, condemned |-> c.prev.condemned]

NewRow_Rearms(c) ==
    CASE Forgiven(c) -> Blank(TRUE, c.verdict)
      [] Refused(c) ->
            [there |-> TRUE, status |-> c.verdict,
             streak |-> Longer(c.prev.streak),
             retry |-> RetryAfter(Longer(c.prev.streak)),
             condemned |-> c.creds]
      [] c.held /\ ~ Forgiven(c) -> Carried(c, RetryAfter(c.prev.streak))
      [] OTHER -> Carried(c, c.prev.retry \ {0})
NewRow(c) ==
    CASE Forgiven(c) -> Blank(TRUE, c.verdict)
      [] Refused(c) ->
            [there |-> TRUE, status |-> c.verdict,
             streak |-> Longer(c.prev.streak),
             retry |-> RetryAfter(Longer(c.prev.streak)),
             condemned |-> c.creds]
      [] c.held /\ ~ Forgiven(c) -> Carried(c, c.prev.retry)
      [] OTHER -> Carried(c, c.prev.retry \ {0})

\* The whole row is replaced, or the statement raises and ends the loop.
\* Where another check has read the row as well, one of the two writes is
\* lost, and the history counts neither.
Write(w) ==
    /\ check[w].pc = "reread"
    /\ \/ /\ row' = NewRow(check[w])
          /\ owed' = IF check[w].verdict \in Clearing \/ Overlapped(w)
                     THEN NothingOwed
                     ELSE IF Refused(check[w])
                     THEN LET n == Longer(owed.streak)
                          IN  [streak |-> n, ticks |-> Wait(n)]
                     ELSE owed
          /\ Over(w, FALSE)
          /\ UNCHANGED mishaps
       \/ /\ Mishap
          /\ Over(w, TRUE)
          /\ UNCHANGED <<row, owed>>
    /\ UNCHANGED <<registered, stored, fix>>

-----------------------------------------------------------------------------
(* Other processes, and operators.                                         *)

\* add_account, update_account or remove_account of "default": the account
\* is written first, the hold is cleared by a second statement, if at all.
WriteCredential(password) ==
    /\ registered /\ ~ fix
    /\ stored' = password
    /\ fix' = TRUE
    /\ owed' = NothingOwed
    /\ UNCHANGED <<registered, row, loop, forced, check, mishaps>>

ClearHold_StreakOnly ==
    /\ fix
    /\ fix' = FALSE
    /\ \/ /\ row' = [row EXCEPT !.streak = 0, !.condemned = None]
          /\ UNCHANGED mishaps
       \/ Mishap /\ UNCHANGED row
    /\ owed' = NothingOwed
    /\ UNCHANGED <<registered, stored, loop, forced, check>>
ClearHold ==
    /\ fix
    /\ fix' = FALSE
    /\ \/ /\ row' = IF row.there THEN Blank(TRUE, row.status) ELSE row
          /\ UNCHANGED mishaps
       \/ Mishap /\ UNCHANGED row
    /\ owed' = NothingOwed
    /\ UNCHANGED <<registered, stored, loop, forced, check>>

\* remove_device purges the row in its own transaction.
RemoveDevice ==
    /\ registered
    /\ registered' = FALSE
    /\ stored' = None
    /\ row' = Absent
    /\ owed' = NothingOwed
    /\ UNCHANGED <<fix, loop, forced, check, mishaps>>

RegisterDevice ==
    /\ ~ registered
    /\ registered' = TRUE
    /\ UNCHANGED <<stored, fix, row, loop, forced, check, mishaps, owed>>

-----------------------------------------------------------------------------

\* The web process starts again and purges the rows of removed devices.
Restart ==
    /\ Mishap
    /\ row' = IF registered THEN row ELSE Absent
    /\ loop' = [at |-> "due", nap |-> 0]
    /\ forced' = "idle"
    /\ check' = [w \in Slots |-> NoCheck]
    /\ UNCHANGED <<registered, stored, fix, owed>>

Sooner(retry) == {Less(t) : t \in retry}

Tick ==
    /\ row' = [row EXCEPT !.retry = Sooner(@)]
    /\ check' = [w \in Slots |-> [check[w] EXCEPT !.prev.retry = Sooner(@)]]
    /\ loop' = [loop EXCEPT !.nap = Less(@)]
    /\ owed' = [owed EXCEPT !.ticks = Less(@)]
    /\ UNCHANGED <<registered, stored, fix, forced, mishaps>>

CheckSteps(w) ==
    /\ GivesWay(w)
    /\ \/ ReadCredential(w) \/ ReadKept(w) \/ WriteKept(w)
       \/ ReadPrevious(w)
       \/ \E c \in Conditions, secret \in Secrets : Probe(w, c, secret)
       \/ Reread(w) \/ Write(w)

Monitor ==
    \/ LoopWakes
    \/ \E force \in BOOLEAN : Acquire(force)
    \/ \E w \in Slots : CheckSteps(w)

Others ==
    /\ Meddling \/ \A s \in Strays : check[s].pc = "none"
    /\ \/ AskForSweep
       \/ \E p \in Passwords \cup {None} : WriteCredential(p)
       \/ RemoveDevice \/ RegisterDevice

Next ==
    \/ Monitor
    \/ \E s \in Strays : Astray(s)
    \/ Others
    \/ ClearHold
    \/ Restart
    \/ Tick

Spec == Init /\ [][Next]_vars

\* The event loop resumes what is ready, every request of a probe has a
\* timeout, a credential write goes on to its second statement, and time
\* passes.
FairSpec == Spec /\ WF_vars(Monitor) /\ WF_vars(ClearHold) /\ WF_vars(Tick)

-----------------------------------------------------------------------------
(* Properties.                                                             *)

(* The sweep of the loop does not put a refused credential to the device   *)
(* again before the wait that the refusals so far impose, whatever else    *)
(* happens in between: the device disappears and comes back, lookups fail, *)
(* the process restarts, forced sweeps are refused as well (FR-HLT-012);   *)
(* only a check gone astray, at work together with another, loses a wait.  *)
NoBurn ==
    [][ \A w \in Slots :
           /\ check[w].pc = "probing" /\ check'[w].pc = "answered"
           /\ Asks(check[w]) /\ ~ check[w].force
           => owed.ticks = 0 ]_vars

(* A deadline in the row belongs to a refusal that nothing has answered    *)
(* since: it comes with a streak and a condemned password, and never       *)
(* beside a status that answers the credential question.                   *)
HoldIsAVerdict ==
    row.retry # {} =>
        /\ row.streak > 0 /\ row.condemned # None
        /\ row.status \notin Clearing

(* What a device and the stored credential call for.                       *)
Truth(condition, secret) ==
    IF condition = "dark" THEN "unreachable"
    ELSE IF condition = "factory" THEN "needs_setup"
    ELSE IF stored = None THEN "no_credentials"
    ELSE IF stored # secret THEN "auth_failed"
    ELSE IF condition = "api" THEN "online" ELSE "limited_api"

(* Once every probe finds the device in a condition that calls for the     *)
(* same status, and nobody changes its credential any more, the row comes  *)
(* to say what is true of it and stays so, although holds, failed lookups, *)
(* lost clears, restarts and checks gone astray delay it; unless a failing *)
(* statement killed the loop.                                              *)
Finds(status) ==
    \A w \in Slots :
        check[w].pc = "probing" /\ check'[w].pc = "answered" =>
            \E c \in Conditions \ {"odd"}, secret \in Secrets :
                Truth(c, secret) = status /\ Probe(w, c, secret)
Converges ==
    \A status \in Statuses \ {"unknown", "reachable_no_api"} :
        /\ <>[][ Finds(status) /\ stored' = stored ]_vars
        /\ <>[](registered /\ loop.at # "dead")
        => <>[](row.status = status)
=============================================================================
