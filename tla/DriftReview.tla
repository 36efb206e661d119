------------------------------ MODULE DriftReview ------------------------------
(***************************************************************************)
(* Drift of one device: the checks of several processes                    *)
(* (admz/snapshot/drift.py), the last signature, the alerts and the cached *)
(* report they leave (drift_alerts.py), the notice of the attention queue  *)
(* (admz/notices), and the operator who looks at the cached report,        *)
(* accepts a baseline or takes a new one (api/routes/snapshot.py,          *)
(* operations.py, snapshot/engine.py).                                     *)
(*                                                                         *)
(* A check reads the baseline, waits for the device, and from then on runs *)
(* to its end without giving way in its own process; the other processes   *)
(* come in between any two of its statements.  A commit stands for the     *)
(* configuration of the device that it holds.                              *)
(***************************************************************************)
EXTENDS FiniteSets, Naturals

CONSTANTS
    Configs,    \* what the device may be configured to
    None,
    Checks,     \* drift checks, one after another each
    Operators,  \* people at the web interface
    Web,        \* the web process
    Home,       \* the process of each check
    Quiet,      \* the checks of a schedule with notify_console off
    Steady,     \* the check of the schedule that liveness rests on
    Failing     \* whose statements may fail ("database is locked")

Actors == Checks \cup Operators
Processes == {Web} \cup {Home[c] : c \in Checks}
HomeOf(a) == IF a \in Checks THEN Home[a] ELSE Web

ASSUME ReviewAssumption ==
    /\ None \notin Configs /\ Checks \cap Operators = {}
    /\ DOMAIN Home = Checks /\ Quiet \subseteq Checks
    /\ Steady \in Checks \ Quiet /\ Home[Steady] = Web
    /\ Failing \subseteq Actors

VARIABLES
    live,       \* the configuration of the device
    baseline,   \* devices.baseline_sha
    observed,   \* devices.latest_observed_sha
    cache,      \* the row of drift_reports
    sig,        \* the row of drift_signatures
    notice,     \* the newest row of the device in notices
    old,        \* whether 30 days passed since it was confirmed
    up,         \* whether the web process serves
    pc,         \* pc[a]: where actor a is
    rep,        \* rep[a]: the report it is making or looks at
    made,       \* made[a]: the signature it writes, and what that changes
    excuse,     \* history: why a drifted row may have no live notice
    dismissed   \* history: whether the notice of this signature was dismissed

rows == <<cache, sig>>
attention == <<notice, old>>
repo == <<baseline, observed>>
histories == <<excuse, dismissed>>
vars == <<live, repo, rows, attention, up, pc, rep, made, histories>>

NoReport == [base |-> None, obs |-> None, actual |-> None]
NoRow == [base |-> None, obs |-> None]
NoSig == [state |-> "none", base |-> None, actual |-> None]
Clean == [NoSig EXCEPT !.state = "clean"]

\* _signature_for: the fields that differ.
SigOf(r) == IF r.base = r.actual THEN Clean
            ELSE [state |-> "drifted", base |-> r.base, actual |-> r.actual]

Drifted(s) == s.state = "drifted"

\* first: there was no signature; change: what the new one means; crossed
\* (history): another process wrote or deleted one since a looked for it.
Nothing == [sig |-> NoSig, first |-> FALSE, change |-> "none", crossed |-> FALSE]

\* The statements of a process from which it does not give way.
Tail == {"store", "decide", "sign", "notify", "moved", "forget", "drop"}

\* What an operator has begun to undo: the notice is closed already.
Resolved == {"store", "decide", "sign", "forget"}

Running(a) == HomeOf(a) = Web => up

\* How a statement may end whose failure stops nothing.
Outcomes(a) == IF a \in Failing THEN BOOLEAN ELSE {TRUE}

\* a may go on: nobody else of its process is in the middle.
May(a) ==
    /\ Running(a)
    /\ \A b \in Actors \ {a} : HomeOf(b) = HomeOf(a) => pc[b] \notin Tail

Moves(a, place) == pc' = [pc EXCEPT ![a] = place]
Holds(a, r) == rep' = [rep EXCEPT ![a] = r]

\* The live notice, if there is one, is closed.
Closes ==
    /\ notice' = IF notice = "open" THEN "closed" ELSE notice
    /\ old' = FALSE

\* a is through, and forgets what it held.
Ends(a) ==
    /\ Moves(a, "idle")
    /\ Holds(a, NoReport)
    /\ made' = [made EXCEPT ![a] = Nothing]

\* a writes or deletes the signature row, and goes on with mine.
Signs(a, s, mine) ==
    /\ sig' = s
    /\ dismissed' = (dismissed /\ s = sig)
    /\ made' = [b \in Actors |->
                  IF b = a THEN mine
                  ELSE IF pc[b] = "sign" /\ s # sig
                       THEN [made[b] EXCEPT !.crossed = TRUE] ELSE made[b]]

Init ==
    /\ live \in Configs /\ baseline = None /\ observed = None
    /\ cache = NoRow /\ sig = NoSig
    /\ notice = "none" /\ old = FALSE /\ up = TRUE
    /\ pc = [a \in Actors |-> "idle"] /\ rep = [a \in Actors |-> NoReport]
    /\ made = [a \in Actors |-> Nothing]
    /\ excuse = FALSE /\ dismissed = FALSE

----------------------------------------------------------------------------
(* check_drift.                                                            *)

\* The baseline is read first, then the device is asked.
Begin(c) ==
    /\ pc[c] = "idle" /\ May(c)
    /\ Moves(c, "probing")
    /\ Holds(c, [NoReport EXCEPT !.base = baseline])
    /\ UNCHANGED <<live, repo, rows, attention, up, made, histories>>

\* What was read is compared with the baseline, if there is one.
Compares(c, obs) ==
    IF rep[c].base = None THEN Ends(c)
    ELSE /\ Moves(c, "store")
         /\ Holds(c, [rep[c] EXCEPT !.obs = obs, !.actual = live])
         /\ UNCHANGED made

\* The device cannot be read: nothing is recorded.
Unreadable(c) ==
    /\ pc[c] = "probing" /\ May(c)
    /\ Ends(c)
    /\ UNCHANGED <<live, repo, rows, attention, up, histories>>

\* The device is read, the observation committed and pointed to, and no
\* decision falls in between.  Without a baseline that is all.
Observe(c) ==
    /\ pc[c] = "probing" /\ May(c)
    /\ observed' = live
    /\ Compares(c, live)
    /\ UNCHANGED <<live, baseline, rows, attention, up, histories>>

\* The commit fails and the device is read once more, for the compare only.
ObserveFails(c) ==
    /\ c \in Failing /\ pc[c] = "probing" /\ May(c)
    /\ Compares(c, None)
    /\ UNCHANGED <<live, repo, rows, attention, up, histories>>

----------------------------------------------------------------------------
(* process_report, of a check and of an accept.                            *)

\* first_seen is read before the report is stored; both may fail unnoticed.
Store(a) ==
    /\ pc[a] = "store" /\ Running(a)
    /\ \E read, written \in Outcomes(a) :
        /\ cache' = IF written THEN [base |-> rep[a].base, obs |-> rep[a].obs]
                    ELSE cache
        /\ made' = [made EXCEPT ![a].sig = SigOf(rep[a]),
                                ![a].first = read /\ sig = NoSig]
    /\ Moves(a, "decide") /\ Holds(a, NoReport)
    /\ UNCHANGED <<live, repo, sig, attention, up, histories>>

\* Broken: the first observation of a device raises nothing.
Change_NotFirst(a) ==
    LET now == made[a].sig IN
    IF Drifted(now) /\ sig \notin {NoSig, now} THEN "raise"
    ELSE IF Drifted(sig) /\ ~Drifted(now) THEN "clear" ELSE "same"

\* The transition "appeared" or "changed" is raised, and drift on what was
\* first sight when a looked, whoever signed it since; "cleared" clears.
Change(a) ==
    LET now == made[a].sig IN
    IF Drifted(now) /\ (made[a].first \/ sig \notin {NoSig, now}) THEN "raise"
    ELSE IF Drifted(sig) /\ ~Drifted(now) THEN "clear" ELSE "same"

\* process_report compares with the last signature, and logs an alert.
Decide(a) ==
    /\ pc[a] = "decide" /\ Running(a)
    /\ made' = [made EXCEPT ![a].first = FALSE, ![a].change = Change(a),
                            ![a].crossed = sig = NoSig /\ ~made[a].first]
    /\ Moves(a, "sign")
    /\ UNCHANGED <<live, repo, rows, attention, up, rep, histories>>

Sign(a) ==
    /\ pc[a] = "sign" /\ Running(a)
    /\ Signs(a, made[a].sig,
             IF a \in Checks THEN [made[a] EXCEPT !.crossed = FALSE] ELSE Nothing)
    /\ excuse' = (excuse \/ made[a].crossed)
    /\ Moves(a, IF a \in Checks THEN "notify" ELSE "idle")
    /\ UNCHANGED <<live, repo, cache, attention, up, rep>>

\* Broken: a check confirms the notice whatever it found.
Confirmed_Always(s) == TRUE

\* A check that finds the same drift again confirms the notice.
Confirmed(s) == Drifted(s)

\* drift_transition: raise, resolve, or confirm that it is still there.
Notify(c) ==
    /\ pc[c] = "notify" /\ Running(c)
    /\ \/ /\ made[c].change = "raise" /\ c \notin Quiet
          /\ notice' = "open" /\ old' = FALSE /\ excuse' = FALSE
       \/ /\ made[c].change = "raise" /\ c \in Quiet
          /\ excuse' = TRUE /\ UNCHANGED attention
       \/ /\ made[c].change = "clear"
          /\ Closes /\ excuse' = (excuse \/ sig # made[c].sig)
       \/ /\ made[c].change = "same"
          /\ old' = (old /\ ~Confirmed(made[c].sig))
          /\ UNCHANGED <<notice, excuse>>
    /\ Ends(c)
    /\ UNCHANGED <<live, repo, rows, up, dismissed>>

\* A statement fails: the report is returned all the same.
Fails(a) ==
    /\ a \in Failing /\ pc[a] \in Tail \ {"store", "moved"} /\ Running(a)
    /\ excuse' = (excuse \/ pc[a] = "notify" \/ a \in Operators)
    /\ Ends(a)
    /\ UNCHANGED <<live, repo, rows, attention, up, dismissed>>

----------------------------------------------------------------------------
(* The operator.                                                           *)

\* cached_drift_report: the cache counts while it is about the baseline.
\* (A commit that holds the same may be another commit: then it does not.)
Cached == cache # NoRow /\ cache.base = baseline

\* The page shows what is cached; the operator may turn away from it.
Inspect(o) ==
    /\ pc[o] = "idle" /\ May(o) /\ Cached
    /\ Moves(o, "looking") /\ Holds(o, [NoReport EXCEPT !.obs = cache.obs])
    /\ UNCHANGED <<live, repo, rows, attention, up, made, histories>>

Leave(o) ==
    /\ pc[o] = "looking"
    /\ Ends(o)
    /\ UNCHANGED <<live, repo, rows, attention, up, histories>>

\* accept_baseline, of the route and of the approved action.  Two commits may
\* hold the same and still differ: then t is not the latest observation.
Blesses(o, t) ==
    /\ t # None
    /\ baseline' = t
    /\ \/ t = observed /\ Holds(o, [NoReport EXCEPT !.obs = t])
       \/ Holds(o, NoReport)
    /\ Moves(o, "moved")
    /\ UNCHANGED <<live, observed, rows, attention, up, made, histories>>

\* The page names no commit: the one the cached report was made with counts,
\* or the latest observation.
Accept(o) ==
    /\ pc[o] \in {"idle", "looking"} /\ May(o)
    /\ Blesses(o, IF Cached /\ cache.obs # None THEN cache.obs ELSE observed)

\* A caller of the route or of the tool may name any commit of the past.
AcceptNamed(o) ==
    /\ pc[o] = "idle" /\ May(o)
    /\ \E t \in Configs : Blesses(o, t)

\* refresh_drift_after_accept: the notice first.
Resolve(o) ==
    /\ pc[o] = "moved" /\ Running(o)
    /\ Closes \/ (o \in Failing /\ UNCHANGED attention)
    /\ Moves(o, IF rep[o] = NoReport THEN "forget" ELSE "store")
    /\ UNCHANGED <<live, repo, rows, up, rep, made, histories>>

\* clear_baseline, when the accepted commit is not the latest observation.
Forget(o) ==
    /\ pc[o] = "forget" /\ Running(o)
    /\ Signs(o, NoSig, Nothing)
    /\ Moves(o, "drop")
    /\ UNCHANGED <<live, repo, cache, attention, up, rep, excuse>>

Drop(o) ==
    /\ pc[o] = "drop" /\ Running(o)
    /\ cache' = NoRow
    /\ Ends(o)
    /\ UNCHANGED <<live, repo, sig, attention, up, histories>>

\* snapshot_device: what was read becomes the baseline.
Snapshot(o) ==
    /\ pc[o] = "idle" /\ May(o)
    /\ baseline' = live /\ observed' = live
    /\ UNCHANGED <<live, rows, attention, up, pc, rep, made, histories>>

\* The notice is dismissed or snoozed at the web interface.  The history
\* keeps what was dismissed, unless somebody is about to raise more.
Dismiss(o) ==
    /\ pc[o] = "idle" /\ May(o) /\ notice = "open"
    /\ Closes /\ excuse' = TRUE
    /\ dismissed' = \A a \in Actors : pc[a] \notin Tail
    /\ UNCHANGED <<live, repo, rows, up, pc, rep, made>>

----------------------------------------------------------------------------
(* Time, restarts, and the device.                                         *)

\* Nothing confirmed the notice for 30 days.
Age ==
    /\ notice = "open" /\ ~old
    /\ old' = TRUE
    /\ UNCHANGED <<live, repo, rows, notice, up, pc, rep, made, histories>>

\* The sweep of a read closes what is old.
Expire ==
    /\ notice = "open" /\ old
    /\ Closes /\ excuse' = TRUE
    /\ UNCHANGED <<live, repo, rows, up, pc, rep, made, dismissed>>

\* Closed notices are deleted after 90 days, and with them the memory of it.
Purge ==
    /\ notice = "closed" /\ notice' = "none" /\ dismissed' = FALSE
    /\ UNCHANGED <<live, repo, rows, old, up, pc, rep, made, excuse>>

\* A process ends in the middle of whatever its actors do; what a page shows
\* it goes on showing.
Crash(p) ==
    /\ p = Web => up
    /\ up' = (up /\ p # Web)
    /\ LET its == {a \in Actors : HomeOf(a) = p /\ pc[a] # "looking"}
           cut == \E a \in its : \/ a \in Checks /\ pc[a] = "notify"
                                 \/ a \in Operators /\ pc[a] \in Resolved
       IN  /\ excuse' = (excuse \/ cut)
           /\ pc' = [a \in Actors |-> IF a \in its THEN "idle" ELSE pc[a]]
           /\ rep' = [a \in Actors |-> IF a \in its THEN NoReport ELSE rep[a]]
           /\ made' = [a \in Actors |-> IF a \in its THEN Nothing ELSE made[a]]
    /\ UNCHANGED <<live, repo, rows, attention, dismissed>>

\* Broken: a notice that was dismissed counts for nothing.
Boot_Again ==
    /\ ~up /\ up' = TRUE
    /\ IF Drifted(sig) /\ baseline # None /\ notice # "open"
       THEN notice' = "open" /\ old' = FALSE /\ excuse' = FALSE
       ELSE UNCHANGED <<attention, excuse>>
    /\ UNCHANGED <<live, repo, rows, pc, rep, made, dismissed>>

\* backfill_drift_notices, before the web process serves.
Boot ==
    /\ ~up /\ up' = TRUE
    /\ IF Drifted(sig) /\ baseline # None /\ notice = "none"
       THEN notice' = "open" /\ old' = FALSE /\ excuse' = FALSE
       ELSE UNCHANGED <<attention, excuse>>
    /\ UNCHANGED <<live, repo, rows, pc, rep, made, dismissed>>

\* Somebody configures the device.
Reconfigured ==
    /\ live' \in Configs \ {live}
    /\ UNCHANGED <<repo, rows, attention, up, pc, rep, made, histories>>

----------------------------------------------------------------------------
TailSteps(a) ==
    \/ Store(a) \/ Decide(a) \/ Sign(a)
    \/ a \in Checks /\ Notify(a)
    \/ a \in Operators /\ (Resolve(a) \/ Forget(a) \/ Drop(a))

CheckSteps(c) == Begin(c) \/ Observe(c)

OperatorSteps(o) ==
    \/ Inspect(o) \/ Leave(o) \/ Accept(o) \/ AcceptNamed(o)
    \/ Snapshot(o) \/ Dismiss(o)

Next ==
    \/ \E a \in Actors : TailSteps(a) \/ Fails(a)
    \/ \E c \in Checks : CheckSteps(c) \/ Unreadable(c) \/ ObserveFails(c)
    \/ \E o \in Operators : OperatorSteps(o)
    \/ Age \/ Expire \/ Purge \/ Reconfigured
    \/ Boot \/ \E p \in Processes : Crash(p)

Spec == Init /\ [][Next]_vars

\* The web process serves and its event loop goes on, one schedule keeps
\* auditing, time passes and the queue is looked at.
FairSpec ==
    /\ Spec
    /\ WF_vars(Boot)
    /\ \A a \in Actors : HomeOf(a) = Web => WF_vars(TailSteps(a))
    /\ SF_vars(CheckSteps(Steady))
    /\ WF_vars(Age) /\ WF_vars(Expire)

----------------------------------------------------------------------------
(* Properties.                                                             *)

Commits == Configs \cup {None}
SigType == [state : {"none", "clean", "drifted"}, base : Commits, actual : Commits]
ReportType == [base : Commits, obs : Commits, actual : Commits]
MadeType == [sig : SigType, first : BOOLEAN, crossed : BOOLEAN,
             change : {"none", "same", "raise", "clear"}]

TypeOK ==
    /\ live \in Configs /\ baseline \in Commits /\ observed \in Commits
    /\ cache \in [base : Commits, obs : Commits] /\ sig \in SigType
    /\ notice \in {"none", "open", "closed"}
    /\ old \in BOOLEAN /\ up \in BOOLEAN
    /\ pc \in [Actors -> Tail \cup {"idle", "probing", "looking"}]
    /\ rep \in [Actors -> ReportType] /\ made \in [Actors -> MadeType]
    /\ excuse \in BOOLEAN /\ dismissed \in BOOLEAN

\* Drift that the roster shows has its notice in the queue, unless somebody
\* dismissed it, it expired, its schedule is quiet, another process wrote the
\* signature in between, or a statement or a process failed between the
\* signature and the notice.  An alert is given once: what is lost then
\* stays lost.
NoticeOrReason ==
    Drifted(sig) /\ (\A a \in Actors : pc[a] \notin Tail) =>
        notice = "open" \/ excuse

\* A notice that was dismissed stays so until the drift changes, whatever
\* runs or restarts meanwhile, as long as its row is kept.
DismissalHolds ==
    [][dismissed /\ dismissed' => notice' # "open"]_vars

\* Once nobody touches the device, its baseline or the queue and nothing
\* fails any more, the roster comes to tell the truth, and a device in its
\* baseline has no notice, whatever went wrong before.
Settled ==
    baseline # None =>
        /\ sig = SigOf([base |-> baseline, obs |-> None, actual |-> live])
        /\ live = baseline => notice # "open"

Disturbance ==
    \/ Reconfigured \/ \E p \in Processes : Crash(p)
    \/ \E a \in Actors : Fails(a)
    \/ \E c \in Checks : Unreadable(c) \/ ObserveFails(c)
    \/ \E o \in Operators : OperatorSteps(o)

Converges == <>[][~Disturbance]_vars => <>[]Settled

\* What the accept of a reviewed report promises: the operator's click
\* blesses what was looked at.
AcceptsWhatWasShown ==
    [][\A o \in Operators :
          pc[o] = "looking" /\ pc'[o] = "moved" /\ rep[o].obs # None
          => baseline' = rep[o].obs]_vars

=============================================================================
