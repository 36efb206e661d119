------------------------------ MODULE AcsFirings ------------------------------
(***************************************************************************)
(* How the firings of ACS action rules become detections: the two pollers  *)
(* (admz/events/acs_ingest.py over the recorded events, and                *)
(* admz/events/acs_firebird_ingest.py over the log table), the event store *)
(* they append to (admz/events/store.py), the evaluator they hand a firing *)
(* to (admz/events/evaluator.py), and the requests that switch a poller    *)
(* off and on while it runs (admz/api/routes/events.py).                   *)
(*                                                                         *)
(* Everything runs on one event loop, so an action here is what happens    *)
(* between two awaits.  A request suspends in stop(), for the loop it      *)
(* cancelled, and in the start() of the log poller, for the high-water     *)
(* mark; a loop suspends for ACS and for its interval.  Firings are        *)
(* numbered as they happen, which is the order of the log's ids.           *)
(***************************************************************************)
EXTENDS FiniteSets, Naturals

CONSTANTS
    N,          \* firings that happen
    Before,     \* how many of them have happened before ADMZ first starts
    Loops,      \* names of poll loops, numbers
    Handlers,   \* requests to /api/events/control at a time, numbers
    MaxFaults,  \* calls and statements that fail
    MaxClicks,  \* control requests that come
    MaxMishaps  \* edits of the rule, retention sweeps and crashes

ASSUME FiringsAssumption ==
    /\ N \in Nat /\ Before \in 0..N /\ MaxFaults \in Nat
    /\ Loops \subseteq Nat \ {0} /\ IsFiniteSet(Loops)
    /\ Handlers \subseteq Nat /\ MaxClicks \in Nat /\ MaxMishaps \in Nat

Firings == 1..N

VARIABLES
    source,     \* the poller that is configured: "recorded" or "log"
    last,       \* the firings that have happened
    gone,       \* those that have left the lookback window
    rows,       \* the firings in the event store
    flag,       \* the setting that enables the poller
    up,         \* the process runs
    running,    \* _running
    task,       \* _task: a loop, or 0
    seeded,     \* _seeded, of the poller of recorded events
    hw,         \* _hw_id, of the poller of the log
    loop,       \* loop[k]: where poll loop k is, and what ACS answered it
    request,    \* request[h]: where a control request is
    rule,       \* a rule for these firings is enabled
    known,      \* it is among the evaluator's rules
    fresh,      \* the evaluator's version is the store's
    heard,      \* heard[f]: times f was handed to the evaluator
    mark,       \* history: firings that had happened at the last start
    promised,   \* history: firings that fell to a poller in service
    missed,     \* history: firings whose append failed in a seeding poll
    pruned,     \* history: firings that retention deleted
    crossed,    \* history: two requests were under way together
    refused,    \* history: the last start could not read its mark
    polls,      \* polls[f]: polls over that asked when f had happened, as far
                \* as the window's length is measured in them
    faults, clicks, mishaps

acsVars == <<source, last, gone>>
pollerVars == <<flag, up, running, task, seeded, hw>>
ruleVars == <<rule, known, fresh>>
histories == <<mark, promised, missed, pruned, crossed, refused>>
bounds == <<polls, faults, clicks, mishaps>>
vars == <<acsVars, rows, pollerVars, loop, request, ruleVars, heard, histories, bounds>>

LoopAt(place) == [pc |-> place, since |-> 0, until |-> 0]
NoLoop == LoopAt("none")
RequestAt(place, on, max) == [pc |-> place, on |-> on, max |-> max]
Idle == RequestAt("idle", FALSE, 0)

Live == {k \in Loops : loop[k].pc # "none"}
Pending == {h \in Handlers : request[h].pc # "idle"}

\* Where the page that loop k is answered may begin, and where it may end:
\* the lookback window, or what follows the id it asked for, at some moment
\* since it asked.
Froms(k) == IF source = "recorded" THEN loop[k].since..gone ELSE {loop[k].since}
Untils(k) == loop[k].until..last

Init ==
    /\ source \in {"recorded", "log"}
    /\ last = Before /\ gone = 0
    /\ rows = {} /\ flag \in BOOLEAN
    /\ up = FALSE /\ running = FALSE /\ task = 0 /\ seeded = FALSE /\ hw = 0
    /\ loop = [k \in Loops |-> NoLoop]
    /\ request = [h \in Handlers |-> Idle]
    /\ rule = TRUE /\ known = FALSE /\ fresh = FALSE
    /\ heard = [f \in Firings |-> 0]
    /\ mark = last /\ promised = {} /\ missed = {} /\ pruned = {}
    /\ crossed = FALSE /\ refused = FALSE
    /\ polls = [f \in Firings |-> 0]
    /\ faults = 0 /\ clicks = 0 /\ mishaps = 0

----------------------------------------------------------------------------
(* ACS and its window.                                                     *)

\* In service: it runs, a loop polls, and the first poll is over.
InService == flag /\ running /\ Live # {} /\ (source = "log" \/ seeded)

\* An action rule fires.
Fire ==
    /\ last < N /\ last' = last + 1
    /\ promised' = IF InService THEN promised \cup {last + 1} ELSE promised
    /\ UNCHANGED <<source, gone, rows, pollerVars, loop, request, ruleVars, heard,
                   mark, missed, pruned, crossed, refused, bounds>>

\* The oldest firing leaves the lookback window, half an hour wide with a poll
\* every half minute: while the poller is in service, more polls see a firing
\* than can fail.  What they did about it does not hold the window up.
Slide ==
    /\ source = "recorded" /\ gone < last
    /\ polls[gone + 1] > MaxFaults \/ ~InService
    /\ gone' = gone + 1
    /\ UNCHANGED <<source, last, rows, pollerVars, loop, request, ruleVars, heard,
                   histories, bounds>>

----------------------------------------------------------------------------
(* Starting and stopping.                                                  *)

\* The promises that an interruption leaves standing.
Kept == {f \in promised : heard[f] > 0}

\* Broken: what the first poll finds is new.
Launched_Seeded(from, max) ==
    /\ \E k \in Loops \ Live :
          /\ \A j \in Loops \ Live : k <= j
          /\ task' = k
          /\ loop' = [loop EXCEPT ![k] = LoopAt("new")]
    /\ running' = TRUE /\ seeded' = TRUE /\ hw' = max
    /\ mark' = from /\ refused' = FALSE

\* The end of start(): a new loop, and _task names it.
Launched(from, max) ==
    /\ \E k \in Loops \ Live :
          /\ \A j \in Loops \ Live : k <= j
          /\ task' = k
          /\ loop' = [loop EXCEPT ![k] = LoopAt("new")]
    /\ running' = TRUE /\ seeded' = FALSE /\ hw' = max
    /\ mark' = from /\ refused' = FALSE

\* The poller is started before the first request is served.
Boot ==
    /\ ~up /\ up' = TRUE
    /\ \/ flag /\ Launched(last, IF source = "log" THEN last ELSE hw) /\ UNCHANGED faults
       \/ /\ flag /\ source = "log"
          /\ faults < MaxFaults /\ faults' = faults + 1 /\ refused' = TRUE
          /\ UNCHANGED <<running, task, loop, seeded, hw, mark>>
       \/ /\ ~flag
          /\ UNCHANGED <<running, task, loop, seeded, hw, mark, refused, faults>>
    /\ UNCHANGED <<acsVars, rows, flag, request, ruleVars, heard, promised, missed, pruned,
                   crossed, polls, clicks, mishaps>>

\* What request h does once stop() has nothing to wait for: forget the task,
\* and start if that is what it is for, nobody has yet, and the setting is on.
GoesOn(h, on, isRunning, isOn) ==
    \/ /\ on /\ ~isRunning /\ isOn /\ source = "recorded"
       /\ Launched(last, hw) /\ request' = [request EXCEPT ![h] = Idle]
    \/ /\ on /\ ~isRunning /\ isOn /\ source = "log"
       /\ running' = isRunning /\ task' = 0
       /\ request' = [request EXCEPT ![h] = RequestAt("reading", FALSE, 0)]
       /\ UNCHANGED <<loop, seeded, hw, mark, refused>>
    \/ /\ ~on \/ isRunning \/ ~isOn
       /\ running' = isRunning /\ task' = 0
       /\ request' = [request EXCEPT ![h] = Idle]
       /\ UNCHANGED <<loop, seeded, hw, mark, refused>>

\* A control request, in the first free handler: the setting is written, and
\* the loop that _task names is cancelled and does nothing any more.
Click(h, on) ==
    /\ up /\ \A g \in Handlers \ Pending : h <= g
    /\ clicks < MaxClicks /\ clicks' = clicks + 1
    /\ flag' = on /\ crossed' = (crossed \/ Pending # {}) /\ promised' = Kept
    /\ \/ /\ task # 0 /\ running' = FALSE
          /\ loop' = [loop EXCEPT ![task] = NoLoop]
          /\ request' = [request EXCEPT ![h] = RequestAt("stopping", on, 0)]
          /\ UNCHANGED <<task, seeded, hw, mark, refused>>
       \/ task = 0 /\ GoesOn(h, on, FALSE, on)
    /\ UNCHANGED <<acsVars, rows, up, ruleVars, heard, missed, pruned,
                   polls, faults, mishaps>>

\* Broken: stop() clears _running when the loop has ended.
Stopped_ClearsLate(h) ==
    /\ request[h].pc = "stopping"
    /\ GoesOn(h, request[h].on, FALSE, flag) /\ promised' = Kept
    /\ UNCHANGED <<acsVars, rows, flag, up, ruleVars, heard, missed, pruned, crossed, bounds>>

\* The cancelled loop has ended.
Stopped(h) ==
    /\ request[h].pc = "stopping"
    /\ GoesOn(h, request[h].on, running, flag) /\ promised' = Kept
    /\ UNCHANGED <<acsVars, rows, flag, up, ruleVars, heard, missed, pruned, crossed, bounds>>

\* max_firing_id reads the log, in a thread.
ReadMax(h) ==
    /\ request[h].pc = "reading"
    /\ request' = [request EXCEPT ![h] = RequestAt("read", FALSE, last)]
    /\ UNCHANGED <<acsVars, rows, pollerVars, loop, ruleVars, heard, histories, bounds>>

\* It cannot, and the poller is not started.
ReadFails(h) ==
    /\ request[h].pc = "reading" /\ faults < MaxFaults
    /\ request' = [request EXCEPT ![h] = Idle]
    /\ refused' = TRUE /\ faults' = faults + 1
    /\ UNCHANGED <<acsVars, rows, pollerVars, loop, ruleVars, heard, mark, promised, missed,
                   pruned, crossed, polls, clicks, mishaps>>

\* The poller starts from there, whatever was started or switched meanwhile.
Started(h) ==
    /\ request[h].pc = "read"
    /\ Launched(request[h].max, request[h].max) /\ promised' = Kept
    /\ request' = [request EXCEPT ![h] = Idle]
    /\ UNCHANGED <<acsVars, rows, flag, up, ruleVars, heard, missed, pruned, crossed, bounds>>

----------------------------------------------------------------------------
(* A poll loop.                                                            *)

\* The loop asks ACS: at once, then after every interval.
Ask(k) ==
    /\ loop[k].pc = "new" \/ (loop[k].pc = "sleep" /\ running)
    /\ flag
    /\ loop' = [loop EXCEPT ![k] = [pc |-> "asked", until |-> last,
                                  since |-> IF source = "recorded" THEN gone ELSE hw]]
    /\ UNCHANGED <<acsVars, rows, pollerVars, request, ruleVars, heard, histories, bounds>>

\* A poll while the setting is off does nothing.
Skip(k) ==
    /\ loop[k].pc = "new" /\ ~flag
    /\ loop' = [loop EXCEPT ![k] = LoopAt(IF running THEN "sleep" ELSE "none")]
    /\ UNCHANGED <<acsVars, rows, pollerVars, request, ruleVars, heard, histories, bounds>>

\* It woke up and the poller is stopped.
Leave(k) ==
    /\ loop[k].pc = "sleep" /\ ~running
    /\ loop' = [loop EXCEPT ![k] = NoLoop]
    /\ UNCHANGED <<acsVars, rows, pollerVars, request, ruleVars, heard, histories, bounds>>

\* The poll of loop k is over.
PollEnds(k) ==
    /\ loop' = [loop EXCEPT ![k] = LoopAt(IF running THEN "sleep" ELSE "none")]
    /\ polls' = [f \in Firings |->
                    IF source = "recorded" /\ f <= loop[k].until /\ polls[f] <= MaxFaults
                    THEN polls[f] + 1 ELSE polls[f]]

\* Broken: the mark moves on whatever the call said.
CallFails_Advances(k) ==
    /\ loop[k].pc = "asked"
    /\ faults < MaxFaults /\ faults' = faults + 1
    /\ PollEnds(k) /\ hw' = IF source = "log" THEN last ELSE hw
    /\ UNCHANGED <<acsVars, rows, flag, up, running, task, seeded, request, ruleVars, heard,
                   histories, clicks, mishaps>>

\* The call fails, and the loop waits for its next turn.
CallFails(k) ==
    /\ loop[k].pc = "asked"
    /\ faults < MaxFaults /\ faults' = faults + 1
    /\ PollEnds(k)
    /\ UNCHANGED <<acsVars, rows, pollerVars, request, ruleVars, heard, histories,
                   clicks, mishaps>>

\* Broken: a row that is there already counts as new.
Hands_Duplicates(page, bad) ==
    IF source = "log" THEN page
    ELSE IF seeded THEN page \ bad
    ELSE {}

\* The firings of a page that the evaluator is handed, when the appends of
\* bad fail: of the recorded ones those that are new to the store, after the
\* first poll; of the log's all.
Hands(page, bad) ==
    IF source = "log" THEN page
    ELSE IF seeded THEN (page \ bad) \ rows
    ELSE {}

\* Broken: a set in memory takes a failed append for a stored row.
Stored_SeenSet(page, bad) == page

\* The rows that the appends of a page leave.
Stored(page, bad) == page \ bad

HeardCap == 2
Heard(fs) == [f \in Firings |-> IF f \in fs /\ heard[f] < HeardCap THEN heard[f] + 1
                                ELSE heard[f]]

\* Broken: the version is taken over before the rules are read.
Evaluate_VersionFirst(fs, readable) ==
    /\ heard' = Heard(fs)
    /\ \/ fs # {} /\ ~fresh /\ readable /\ known' = rule /\ fresh' = TRUE
       \/ fs # {} /\ ~fresh /\ ~readable /\ fresh' = TRUE /\ UNCHANGED known
       \/ (fs = {} \/ fresh) /\ readable /\ UNCHANGED <<known, fresh>>

\* evaluate() for each of fs.  It reads the rules when their version changed,
\* and keeps the old ones if it cannot.
Evaluate(fs, readable) ==
    /\ heard' = Heard(fs)
    /\ \/ fs # {} /\ ~fresh /\ readable /\ known' = rule /\ fresh' = TRUE
       \/ fs # {} /\ ~fresh /\ ~readable /\ UNCHANGED <<known, fresh>>
       \/ (fs = {} \/ fresh) /\ readable /\ UNCHANGED <<known, fresh>>

\* The page is worked off, from the oldest: appended, and handed over.  The
\* appends of bad fail, the rules may not be readable.
Handle(k, from, until, bad, readable) ==
    LET page == (from + 1)..until
        failures == (IF bad = {} THEN 0 ELSE 1) + (IF readable THEN 0 ELSE 1)
    IN
    /\ loop[k].pc = "asked"
    /\ faults + failures <= MaxFaults /\ faults' = faults + failures
    /\ rows' = rows \cup Stored(page, bad)
    /\ Evaluate(Hands(page, bad), readable)
    /\ hw' = IF source = "log" /\ page # {} /\ until > hw THEN until ELSE hw
    /\ seeded' = (source = "recorded")
    /\ missed' = IF seeded \/ source = "log" THEN missed ELSE missed \cup bad
    /\ PollEnds(k)
    /\ UNCHANGED <<acsVars, flag, up, running, task, request, rule,
                   mark, promised, pruned, crossed, refused, clicks, mishaps>>

----------------------------------------------------------------------------
(* Rules, retention, and the end of the process.                           *)

\* An operator switches the rule, which makes it a new version.
Edit ==
    /\ up /\ mishaps < MaxMishaps /\ mishaps' = mishaps + 1
    /\ rule' = ~rule /\ fresh' = FALSE
    /\ UNCHANGED <<acsVars, rows, pollerVars, loop, request, known, heard, histories,
                   polls, faults, clicks>>

\* Retention keeps the newest rows, by the time of the event.
Prune(n) ==
    /\ up /\ mishaps < MaxMishaps /\ mishaps' = mishaps + 1
    /\ n \in rows
    /\ rows' = {f \in rows : f > n}
    /\ pruned' = pruned \cup {f \in rows : f <= n}
    /\ UNCHANGED <<acsVars, pollerVars, loop, request, ruleVars, heard, mark, promised, missed,
                   crossed, refused, polls, faults, clicks>>

\* The process ends.  It may be in the middle of a page: some of it is stored,
\* and handed over but for the last perhaps.
Crash(stored, handed) ==
    /\ up /\ mishaps < MaxMishaps /\ mishaps' = mishaps + 1
    /\ up' = FALSE /\ running' = FALSE /\ task' = 0 /\ seeded' = FALSE /\ hw' = 0
    /\ loop' = [k \in Loops |-> NoLoop] /\ request' = [h \in Handlers |-> Idle]
    /\ rows' = rows \cup stored
    /\ heard' = Heard(Hands(handed, {}))
    /\ known' = FALSE /\ fresh' = FALSE /\ promised' = Kept
    /\ UNCHANGED <<acsVars, flag, rule, mark, missed, pruned, crossed, refused,
                   polls, faults, clicks>>

LoopStep(k) ==
    \/ Ask(k) \/ Skip(k) \/ Leave(k) \/ CallFails(k)
    \/ \E from \in Froms(k), until \in Untils(k), readable \in BOOLEAN :
          \E bad \in SUBSET ((from + 1)..until) : Handle(k, from, until, bad, readable)

RequestStep(h) == Stopped(h) \/ ReadMax(h) \/ ReadFails(h) \/ Started(h)

Next ==
    \/ Fire \/ Slide \/ Boot \/ Edit
    \/ \E n \in Firings : Prune(n)
    \/ \E k \in Loops : LoopStep(k)
    \/ Crash({}, {})
    \/ \E k \in Loops : \E from \in Froms(k) : \E at \in from..last :
          /\ loop[k].pc = "asked"
          /\ Crash((from + 1)..at, (from + 1)..at) \/ Crash((from + 1)..at, (from + 1)..(at - 1))
    \/ \E h \in Handlers : RequestStep(h)
    \/ \E h \in Handlers \ Pending, on \in BOOLEAN : Click(h, on)

Spec == Init /\ [][Next]_vars

\* Calls end, in an answer or by their timeout, the interval passes, and the
\* event loop resumes what is ready.
FairSpec ==
    /\ Spec /\ WF_vars(Boot)
    /\ \A k \in Loops : WF_vars(LoopStep(k))
    /\ \A h \in Handlers : WF_vars(RequestStep(h))

----------------------------------------------------------------------------

LoopType == [pc : {"none", "new", "asked", "sleep"}, since : 0..N, until : 0..N]
RequestType == [pc : {"idle", "stopping", "reading", "read"}, on : BOOLEAN, max : 0..N]

TypeOK ==
    /\ source \in {"recorded", "log"}
    /\ last \in 0..N /\ gone \in 0..N
    /\ rows \subseteq Firings /\ flag \in BOOLEAN /\ up \in BOOLEAN
    /\ running \in BOOLEAN /\ task \in Loops \cup {0} /\ seeded \in BOOLEAN /\ hw \in 0..N
    /\ loop \in [Loops -> LoopType] /\ request \in [Handlers -> RequestType]
    /\ rule \in BOOLEAN /\ known \in BOOLEAN /\ fresh \in BOOLEAN
    /\ heard \in [Firings -> 0..HeardCap] /\ mark \in 0..N
    /\ promised \subseteq Firings /\ missed \subseteq Firings /\ pruned \subseteq Firings
    /\ crossed \in BOOLEAN /\ refused \in BOOLEAN
    /\ polls \in [Firings -> 0..(MaxFaults + 1)]
    /\ faults \in Nat /\ clicks \in Nat /\ mishaps \in Nat

\* A firing is acted on at most once, however polls, restarts, crashes and
\* failed appends follow each other: the store is what remembers.  It forgets
\* only what retention deletes; and two overlapping requests may leave the
\* poller of the log with two loops, or with a mark that was read too early.
HeardOnce ==
    \A f \in Firings :
        heard[f] <= 1 \/ f \in pruned \/ (source = "log" /\ crossed)

\* What happened before the poller was started is history: it is stored and
\* never acted on, unless its append failed in the poll that was to store it,
\* retention deleted its row, or two requests overlapped.
HistoryIsSilent ==
    [][\A f \in Firings :
          heard'[f] > heard[f] =>
              f > mark \/ f \in missed \cup pruned \/ crossed]_vars

\* A firing that happens while the poller is in service, and it stays so, is
\* handed to the evaluator before it leaves the window, or before the log's
\* mark passes it, whatever calls and appends fail: no cursor moves past what
\* was not dealt with.
NothingLost ==
    \A f \in promised :
        (IF source = "recorded" THEN f <= gone ELSE f <= hw) => heard[f] > 0

\* Detections follow the rules as they are: the rules a firing was matched
\* against are the current ones, or the evaluator knows that they are not and
\* reads them again next time.
ActsOnCurrentRules ==
    [][heard' # heard => known' = rule' \/ ~fresh']_vars

\* Whichever requests crossed, the setting has the last word: once it is on
\* for good, and no start was refused, the poller polls again and again.
Listens ==
    <>[](up /\ flag /\ ~refused) => []<>(\E k \in Loops : loop[k].pc = "asked")
=============================================================================
