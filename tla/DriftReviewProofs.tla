-------------------------- MODULE DriftReviewProofs --------------------------
(***************************************************************************)
(* A notice that was dismissed is not raised again for the same drift, for *)
(* every number of checks, operators, processes and configurations, and    *)
(* wherever processes end or statements fail; and drift that the roster    *)
(* shows has its notice, or a reason for having none.                      *)
(***************************************************************************)
EXTENDS DriftReview, TLAPS

(* What a check has found to raise is on its way to the notice, and its    *)
(* first sight of a device is about to be decided on.                      *)
OnItsWay ==
    \A a \in Actors :
        /\ made[a].change # "none" => pc[a] \in {"sign", "notify"}
        /\ made[a].first => pc[a] = "decide"

(* A dismissal is remembered by the notice that it closed, and nobody      *)
(* raises another one before the signature changes: whoever saw the device *)
(* without a signature finds that it still has none.                       *)
Remembered ==
    dismissed =>
        /\ notice = "closed"
        /\ \A a \in Actors :
              /\ made[a].change = "raise" => pc[a] = "sign" /\ made[a].sig # sig
              /\ made[a].first => sig = NoSig

IInv == TypeOK /\ OnItsWay /\ Remembered

(* The records of the model have their types.                              *)
LEMMA Records ==
    /\ NoReport \in ReportType /\ NoSig \in SigType /\ Nothing \in MadeType
    /\ Clean \in SigType /\ NoRow \in [base : Commits, obs : Commits]
    /\ \A r \in ReportType : SigOf(r) \in SigType
BY DEF NoReport, ReportType, NoSig, SigType, Nothing, MadeType, Clean, NoRow,
       Commits, SigOf

(* Whoever ends leaves well-typed state behind.                            *)
LEMMA EndsType ==
    ASSUME TypeOK, NEW a \in Actors, Ends(a)
    PROVE  /\ pc' \in [Actors -> Tail \cup {"idle", "probing", "looking"}]
           /\ rep' \in [Actors -> ReportType] /\ made' \in [Actors -> MadeType]
BY Records DEF TypeOK, Ends, Moves, Holds

(* A check that finds its baseline compares, and one that does not ends.   *)
LEMMA ComparesType ==
    ASSUME TypeOK, NEW c \in Actors, NEW obs \in Commits, Compares(c, obs)
    PROVE  /\ pc' \in [Actors -> Tail \cup {"idle", "probing", "looking"}]
           /\ rep' \in [Actors -> ReportType] /\ made' \in [Actors -> MadeType]
<1>1. CASE rep[c].base = None
  BY <1>1, EndsType DEF Compares
<1>2. CASE rep[c].base # None
  <2>1. [rep[c] EXCEPT !.obs = obs, !.actual = live] \in ReportType
    <3>1. rep[c] \in [base : Commits, obs : Commits, actual : Commits]
      BY DEF TypeOK, ReportType
    <3>2. live \in Commits
      BY DEF TypeOK, Commits
    <3> QED
      BY <3>1, <3>2 DEF ReportType
  <2> QED
    BY <1>2, <2>1 DEF Compares, TypeOK, Moves, Holds, Tail
<1> QED
  BY <1>1, <1>2

(* Signing keeps the types of what it writes.                              *)
LEMMA SignsType ==
    ASSUME TypeOK, NEW a \in Actors, NEW s \in SigType, NEW mine \in MadeType,
           Signs(a, s, mine)
    PROVE  sig' \in SigType /\ dismissed' \in BOOLEAN /\ made' \in [Actors -> MadeType]
<1>1. \A b \in Actors : [made[b] EXCEPT !.crossed = TRUE] \in MadeType
  BY DEF TypeOK, MadeType
<1> QED
  BY <1>1 DEF Signs, TypeOK

(* The steps of a check before it has a report.                            *)
LEMMA CheckType ==
    ASSUME TypeOK, NEW c \in Checks,
           CheckSteps(c) \/ Unreadable(c) \/ ObserveFails(c)
    PROVE  TypeOK'
<1> c \in Actors
  BY DEF Actors
<1>1. CASE Begin(c)
  <2>1. [NoReport EXCEPT !.base = baseline] \in ReportType
    BY DEF TypeOK, NoReport, ReportType, Commits
  <2> QED
    BY <1>1, <2>1 DEF Begin, TypeOK, Moves, Holds, rows, repo, attention, histories
<1>2. CASE Observe(c)
  <2>1. live \in Commits
    BY DEF TypeOK, Commits
  <2> QED
    BY <1>2, <2>1, ComparesType DEF Observe, TypeOK, rows, attention, histories
<1>3. CASE Unreadable(c)
  BY <1>3, EndsType DEF Unreadable, TypeOK, rows, repo, attention, histories
<1>4. CASE ObserveFails(c)
  <2>1. None \in Commits
    BY DEF Commits
  <2> QED
    BY <1>4, <2>1, ComparesType DEF ObserveFails, TypeOK, rows, repo, attention, histories
<1> QED
  BY <1>1, <1>2, <1>3, <1>4 DEF CheckSteps

(* The steps of process_report and of the accept after it.                 *)
LEMMA TailType ==
    ASSUME TypeOK, NEW a \in Actors, TailSteps(a) \/ Fails(a)
    PROVE  TypeOK'
<1>1. CASE Store(a)
  <2>1. PICK read \in Outcomes(a), written \in Outcomes(a) :
           /\ cache' = IF written THEN [base |-> rep[a].base, obs |-> rep[a].obs]
                       ELSE cache
           /\ made' = [made EXCEPT ![a].sig = SigOf(rep[a]),
                                   ![a].first = read /\ sig = NoSig]
    BY <1>1 DEF Store
  <2>2. rep[a] \in ReportType /\ SigOf(rep[a]) \in SigType
    BY Records DEF TypeOK
  <2>3. cache' \in [base : Commits, obs : Commits]
    BY <2>1, <2>2 DEF TypeOK, ReportType
  <2>4. (read /\ sig = NoSig) \in BOOLEAN
    OBVIOUS
  <2>5. made' \in [Actors -> MadeType]
    <3> DEFINE new == [made[a] EXCEPT !.sig = SigOf(rep[a]),
                                      !.first = read /\ sig = NoSig]
    <3>1. made[a] \in [sig : SigType, first : BOOLEAN, crossed : BOOLEAN,
                       change : {"none", "same", "raise", "clear"}]
      BY DEF TypeOK, MadeType
    <3>2. new \in MadeType
      BY <2>2, <2>4, <3>1 DEF MadeType
    <3>3. made' = [made EXCEPT ![a] = new]
      BY <2>1 DEF TypeOK
    <3> QED
      BY <3>2, <3>3 DEF TypeOK
  <2> QED
    BY <1>1, <2>3, <2>5, Records DEF Store, TypeOK, Moves, Holds, Tail, repo, attention,
       histories
<1>2. CASE Decide(a)
  <2>1. Change(a) \in {"none", "same", "raise", "clear"}
    BY DEF Change
  <2>2. made' \in [Actors -> MadeType]
    <3> DEFINE new == [made[a] EXCEPT !.first = FALSE, !.change = Change(a),
                                      !.crossed = sig = NoSig /\ ~made[a].first]
    <3>1. (sig = NoSig /\ ~made[a].first) \in BOOLEAN
      OBVIOUS
    <3>2. made[a] \in [sig : SigType, first : BOOLEAN, crossed : BOOLEAN,
                       change : {"none", "same", "raise", "clear"}]
      BY DEF TypeOK, MadeType
    <3>3. new \in MadeType
      BY <2>1, <3>1, <3>2 DEF MadeType
    <3>4. made' = [made EXCEPT ![a] = new]
      BY <1>2 DEF Decide, TypeOK
    <3> QED
      BY <3>3, <3>4 DEF TypeOK
  <2> QED
    BY <1>2, <2>2 DEF Decide, TypeOK, Moves, Tail, repo, rows, attention, histories
<1>3. CASE Sign(a)
  <2> DEFINE mine == IF a \in Checks THEN [made[a] EXCEPT !.crossed = FALSE]
                     ELSE Nothing
  <2>1. mine \in MadeType /\ made[a].sig \in SigType
    BY Records DEF TypeOK, MadeType
  <2>2. sig' \in SigType /\ dismissed' \in BOOLEAN /\ made' \in [Actors -> MadeType]
    BY <1>3, <2>1, SignsType DEF Sign
  <2>3. excuse' \in BOOLEAN
    BY <1>3 DEF Sign, TypeOK, MadeType
  <2> QED
    BY <1>3, <2>2, <2>3 DEF Sign, TypeOK, Moves, Tail, repo, attention
<1>4. CASE a \in Checks /\ Notify(a)
  <2>1. notice' \in {"none", "open", "closed"} /\ old' \in BOOLEAN /\ excuse' \in BOOLEAN
    BY <1>4 DEF Notify, TypeOK, Closes, attention
  <2> QED
    BY <1>4, <2>1, EndsType DEF Notify, TypeOK, repo, rows
<1>5. CASE Resolve(a)
  <2>1. notice' \in {"none", "open", "closed"} /\ old' \in BOOLEAN
    BY <1>5 DEF Resolve, TypeOK, Closes, attention
  <2> QED
    BY <1>5, <2>1 DEF Resolve, TypeOK, Moves, Tail, repo, rows, histories
<1>6. CASE Forget(a)
  <2>1. sig' \in SigType /\ dismissed' \in BOOLEAN /\ made' \in [Actors -> MadeType]
    BY <1>6, Records, SignsType DEF Forget
  <2> QED
    BY <1>6, <2>1 DEF Forget, TypeOK, Moves, Tail, repo, attention
<1>7. CASE Drop(a)
  BY <1>7, EndsType, Records DEF Drop, TypeOK, repo, attention, histories
<1>8. CASE Fails(a)
  BY <1>8, EndsType DEF Fails, TypeOK, repo, rows, attention
<1> QED
  BY <1>1, <1>2, <1>3, <1>4, <1>5, <1>6, <1>7, <1>8 DEF TailSteps

(* An accept moves the baseline to a commit.                               *)
LEMMA BlessesType ==
    ASSUME TypeOK, NEW o \in Operators, NEW t \in Commits, Blesses(o, t)
    PROVE  TypeOK'
<1>1. [NoReport EXCEPT !.obs = t] \in ReportType /\ o \in Actors
  BY DEF NoReport, ReportType, Commits, Actors
<1> QED
  BY <1>1, Records DEF Blesses, TypeOK, Moves, Holds, Tail, rows, attention, histories

(* The steps of an operator.                                               *)
LEMMA OperatorType ==
    ASSUME TypeOK, NEW o \in Operators, OperatorSteps(o)
    PROVE  TypeOK'
<1> o \in Actors
  BY DEF Actors
<1>1. CASE Inspect(o)
  <2>1. [NoReport EXCEPT !.obs = cache.obs] \in ReportType
    BY DEF TypeOK, NoReport, ReportType, Commits
  <2> QED
    BY <1>1, <2>1 DEF Inspect, TypeOK, Moves, Holds, repo, rows, attention, histories
<1>2. CASE Leave(o)
  BY <1>2, EndsType DEF Leave, TypeOK, repo, rows, attention, histories
<1>3. CASE Accept(o)
  <2> DEFINE t == IF Cached /\ cache.obs # None THEN cache.obs ELSE observed
  <2>1. t \in Commits
    BY DEF TypeOK
  <2> QED
    BY <1>3, <2>1, BlessesType DEF Accept
<1>4. CASE AcceptNamed(o)
  BY <1>4, BlessesType DEF AcceptNamed, Commits
<1>5. CASE Snapshot(o)
  BY <1>5 DEF Snapshot, TypeOK, Commits, rows, attention, histories
<1>6. CASE Dismiss(o)
  BY <1>6 DEF Dismiss, TypeOK, Closes, repo, rows
<1> QED
  BY <1>1, <1>2, <1>3, <1>4, <1>5, <1>6 DEF OperatorSteps

(* Time, restarts, and the device.                                         *)
LEMMA WorldType ==
    ASSUME TypeOK,
           Age \/ Expire \/ Purge \/ Reconfigured \/ Boot \/ \E p \in Processes : Crash(p)
    PROVE  TypeOK'
<1>1. CASE Age
  BY <1>1 DEF Age, TypeOK, repo, rows, histories
<1>2. CASE Expire
  BY <1>2 DEF Expire, TypeOK, Closes, repo, rows
<1>3. CASE Purge
  BY <1>3 DEF Purge, TypeOK, repo, rows
<1>4. CASE Reconfigured
  BY <1>4 DEF Reconfigured, TypeOK, repo, rows, attention, histories
<1>5. CASE Boot
  BY <1>5 DEF Boot, TypeOK, repo, rows, attention
<1>6. CASE \E p \in Processes : Crash(p)
  <2>1. PICK p \in Processes : Crash(p)
    BY <1>6
  <2>2. up' \in BOOLEAN /\ excuse' \in BOOLEAN
    BY <2>1 DEF Crash, TypeOK
  <2>3. pc' \in [Actors -> Tail \cup {"idle", "probing", "looking"}]
    BY <2>1 DEF Crash, TypeOK
  <2>4. rep' \in [Actors -> ReportType] /\ made' \in [Actors -> MadeType]
    BY <2>1, Records DEF Crash, TypeOK
  <2> QED
    BY <2>1, <2>2, <2>3, <2>4 DEF Crash, TypeOK, repo, rows, attention
<1> QED
  BY <1>1, <1>2, <1>3, <1>4, <1>5, <1>6

(* Every step keeps the types.                                             *)
LEMMA TypeStep == TypeOK /\ [Next]_vars => TypeOK'
<1> SUFFICES ASSUME TypeOK, [Next]_vars PROVE TypeOK'
  OBVIOUS
<1>1. CASE UNCHANGED vars
  BY <1>1 DEF TypeOK, vars, repo, rows, attention, histories
<1>2. CASE Next
  BY <1>2, TailType, CheckType, OperatorType, WorldType DEF Next
<1> QED
  BY <1>1, <1>2

(* Where there is no signature there is no drift.                          *)
LEMMA NothingIsClear ==
    /\ Nothing.change = "none" /\ ~Drifted(NoSig)
    /\ \A r \in ReportType : r.base = r.actual => ~Drifted(SigOf(r))
BY DEF Nothing, NoSig, SigOf, Drifted, Clean

(* Whoever ends has nothing on its way.                                    *)
LEMMA EndsKeeps ==
    ASSUME TypeOK, OnItsWay, Remembered, NEW a \in Actors, Ends(a),
           sig' = sig, dismissed' = dismissed, dismissed => notice' = "closed"
    PROVE  OnItsWay' /\ Remembered'
<1>1. \A b \in Actors : made'[b] = IF b = a THEN Nothing ELSE made[b]
  BY DEF Ends, TypeOK
<1>2. \A b \in Actors : b # a => pc'[b] = pc[b]
  BY DEF Ends, Moves, TypeOK
<1>3. Nothing.change = "none" /\ ~Nothing.first
  BY DEF Nothing
<1> QED
  BY <1>1, <1>2, <1>3 DEF OnItsWay, Remembered

(* Whoever moves before it has decided changes nothing about it.           *)
LEMMA MovesKeeps ==
    ASSUME TypeOK, OnItsWay, Remembered, NEW a \in Actors, NEW place,
           Moves(a, place), pc[a] \notin {"sign", "notify"},
           \A b \in Actors : made'[b].change = made[b].change,
           \A b \in Actors : b # a => made'[b].sig = made[b].sig
                                     /\ made'[b].first = made[b].first,
           made'[a].first => place = "decide" /\ sig = NoSig,
           sig' = sig, dismissed' => dismissed, dismissed' => notice' = "closed"
    PROVE  OnItsWay' /\ Remembered'
<1>1. made[a].change = "none"
  BY DEF OnItsWay
<1>2. pc'[a] = place /\ \A b \in Actors : b # a => pc'[b] = pc[b]
  BY DEF Moves, TypeOK
<1>3. OnItsWay'
  BY <1>1, <1>2 DEF OnItsWay
<1>4. Remembered'
  BY <1>1, <1>2 DEF OnItsWay, Remembered
<1> QED
  BY <1>3, <1>4

(* The signature is written: either it is another one, and the dismissal   *)
(* is over, or whoever had found something to raise finds it still.        *)
LEMMA SignsKeeps ==
    ASSUME TypeOK, OnItsWay, Remembered, NEW a \in Actors, NEW s, NEW mine, NEW place,
           Signs(a, s, mine), Moves(a, place), notice' = notice,
           mine.change # "none" => place = "notify", ~mine.first,
           mine.change = "raise" => made[a].change = "raise" /\ s = made[a].sig
    PROVE  OnItsWay' /\ Remembered'
<1>1. /\ sig' = s /\ dismissed' = (dismissed /\ s = sig)
      /\ \A b \in Actors : made'[b].change = IF b = a THEN mine.change ELSE made[b].change
      /\ \A b \in Actors : b # a => made'[b].sig = made[b].sig
      /\ \A b \in Actors : made'[b].first = IF b = a THEN mine.first ELSE made[b].first
  <2>1. \A b \in Actors : LET other == [made[b] EXCEPT !.crossed = TRUE] IN
            /\ other.change = made[b].change /\ other.sig = made[b].sig
            /\ other.first = made[b].first
    BY DEF TypeOK, MadeType
  <2> QED
    BY <2>1 DEF Signs
<1>2. pc'[a] = place /\ \A b \in Actors : b # a => pc'[b] = pc[b]
  BY DEF Moves, TypeOK
<1>3. OnItsWay'
  BY <1>1, <1>2 DEF OnItsWay
<1>4. Remembered'
  BY <1>1, <1>2 DEF Remembered
<1> QED
  BY <1>3, <1>4

(* The steps of a check and of what follows it.                            *)
LEMMA TailKeeps ==
    ASSUME IInv, NEW a \in Actors, TailSteps(a) \/ Fails(a)
    PROVE  OnItsWay' /\ Remembered'
<1> USE DEF IInv
<1>1. CASE Store(a)
  <2>1. /\ \A b \in Actors : made'[b].change = made[b].change
        /\ \A b \in Actors : b # a => made'[b].sig = made[b].sig
                                      /\ made'[b].first = made[b].first
        /\ made'[a].first => sig = NoSig
    BY <1>1 DEF Store, TypeOK, MadeType
  <2> QED
    BY <1>1, <2>1, MovesKeeps DEF Store, attention, histories, Remembered
<1>2. CASE Decide(a)
  <2>1. /\ made'[a].change = Change(a) /\ made'[a].sig = made[a].sig
        /\ ~made'[a].first
        /\ \A b \in Actors : b # a => made'[b] = made[b]
    BY <1>2 DEF Decide, TypeOK, MadeType
  <2>2. pc'[a] = "sign" /\ \A b \in Actors : b # a => pc'[b] = pc[b]
    BY <1>2 DEF Decide, Moves, TypeOK
  <2>3. dismissed /\ Change(a) = "raise" => made[a].sig # sig
    BY NothingIsClear DEF Change, Remembered
  <2>4. sig' = sig /\ notice' = notice /\ dismissed' = dismissed
    BY <1>2 DEF Decide, rows, attention, histories
  <2> QED
    BY <2>1, <2>2, <2>3, <2>4 DEF OnItsWay, Remembered
<1>3. CASE Sign(a)
  <2> DEFINE mine == IF a \in Checks THEN [made[a] EXCEPT !.crossed = FALSE]
                     ELSE Nothing
             place == IF a \in Checks THEN "notify" ELSE "idle"
  <2>1. /\ mine.change = IF a \in Checks THEN made[a].change ELSE "none"
        /\ ~mine.first
    BY <1>3 DEF TypeOK, MadeType, Nothing, Sign, OnItsWay
  <2>2. Signs(a, made[a].sig, mine) /\ Moves(a, place) /\ notice' = notice
    BY <1>3 DEF Sign, attention
  <2> HIDE DEF mine
  <2> QED
    BY <2>1, <2>2, SignsKeeps
<1>4. CASE a \in Checks /\ Notify(a)
  <2>1. dismissed => notice' = "closed"
    BY <1>4 DEF Notify, Remembered, Closes, attention
  <2> QED
    BY <1>4, <2>1, EndsKeeps DEF Notify, rows
<1>5. CASE Resolve(a)
  <2>1. dismissed => notice' = "closed"
    BY <1>5 DEF Resolve, Remembered, Closes, attention
  <2> QED
    BY <1>5, <2>1, MovesKeeps DEF Resolve, rows, histories, OnItsWay
<1>6. CASE Forget(a)
  <2>1. Nothing.change = "none" /\ ~Nothing.first
    BY DEF Nothing
  <2> QED
    BY <1>6, <2>1, SignsKeeps DEF Forget, attention
<1>7. CASE Drop(a)
  BY <1>7, EndsKeeps DEF Drop, attention, histories, Remembered
<1>8. CASE Fails(a)
  BY <1>8, EndsKeeps DEF Fails, rows, attention, Remembered
<1> QED
  BY <1>1, <1>2, <1>3, <1>4, <1>5, <1>6, <1>7, <1>8 DEF TailSteps

(* The steps of a check before it has a report.                            *)
LEMMA CheckKeeps ==
    ASSUME IInv, NEW c \in Checks, CheckSteps(c) \/ Unreadable(c) \/ ObserveFails(c)
    PROVE  OnItsWay' /\ Remembered'
<1> USE DEF IInv
<1> c \in Actors
  BY DEF Actors
<1>1. CASE Begin(c)
  BY <1>1, MovesKeeps DEF Begin, rows, attention, histories, Remembered, OnItsWay
<1>2. ASSUME NEW obs, Compares(c, obs), pc[c] = "probing", UNCHANGED <<rows, attention, histories>>
      PROVE  OnItsWay' /\ Remembered'
  <2>1. CASE rep[c].base = None
    BY <1>2, <2>1, EndsKeeps DEF Compares, rows, attention, histories, Remembered
  <2>2. CASE rep[c].base # None
    BY <1>2, <2>2, MovesKeeps
      DEF Compares, rows, attention, histories, Remembered, OnItsWay
  <2> QED
    BY <2>1, <2>2
<1>3. CASE Observe(c)
  BY <1>2, <1>3 DEF Observe
<1>4. CASE Unreadable(c)
  BY <1>4, EndsKeeps DEF Unreadable, rows, attention, histories, Remembered
<1>5. CASE ObserveFails(c)
  BY <1>2, <1>5 DEF ObserveFails
<1> QED
  BY <1>1, <1>3, <1>4, <1>5 DEF CheckSteps

(* The steps of an operator.                                               *)
LEMMA OperatorKeeps ==
    ASSUME IInv, NEW o \in Operators, OperatorSteps(o)
    PROVE  OnItsWay' /\ Remembered'
<1> USE DEF IInv
<1> o \in Actors
  BY DEF Actors
<1>1. CASE Inspect(o)
  BY <1>1, MovesKeeps
    DEF Inspect, rows, attention, histories, Remembered, OnItsWay
<1>2. CASE Leave(o)
  BY <1>2, EndsKeeps DEF Leave, rows, attention, histories, Remembered
<1>3. ASSUME NEW t, Blesses(o, t), pc[o] \in {"idle", "looking"}
      PROVE  OnItsWay' /\ Remembered'
  BY <1>3, MovesKeeps
    DEF Blesses, rows, attention, histories, Remembered, OnItsWay
<1>4. CASE Accept(o)
  BY <1>3, <1>4 DEF Accept
<1>5. CASE AcceptNamed(o)
  BY <1>3, <1>5 DEF AcceptNamed
<1>6. CASE Snapshot(o)
  BY <1>6 DEF Snapshot, OnItsWay, Remembered, rows, attention, histories
<1>7. CASE Dismiss(o)
  <2>1. /\ notice' = "closed" /\ pc' = pc /\ made' = made /\ sig' = sig
        /\ dismissed' => \A a \in Actors : pc[a] \notin Tail
    BY <1>7 DEF Dismiss, Closes, rows
  <2> QED
    BY <2>1 DEF OnItsWay, Remembered, Tail
<1> QED
  BY <1>1, <1>2, <1>4, <1>5, <1>6, <1>7 DEF OperatorSteps

(* Time, restarts, and the device.                                         *)
LEMMA WorldKeeps ==
    ASSUME IInv,
           Age \/ Expire \/ Purge \/ Reconfigured \/ Boot \/ \E p \in Processes : Crash(p)
    PROVE  OnItsWay' /\ Remembered'
<1> USE DEF IInv
<1>1. CASE Age
  BY <1>1 DEF Age, OnItsWay, Remembered, rows, histories
<1>2. CASE Expire
  BY <1>2 DEF Expire, Closes, OnItsWay, Remembered, rows
<1>3. CASE Purge
  BY <1>3 DEF Purge, OnItsWay, Remembered, rows
<1>4. CASE Reconfigured
  BY <1>4 DEF Reconfigured, OnItsWay, Remembered, rows, attention, histories
<1>5. CASE Boot
  BY <1>5 DEF Boot, OnItsWay, Remembered, rows, attention
<1>6. CASE \E p \in Processes : Crash(p)
  <2>1. PICK p \in Processes : Crash(p)
    BY <1>6
  <2>2. \A b \in Actors : \/ made'[b] = Nothing
                          \/ made'[b] = made[b] /\ pc'[b] = pc[b]
    BY <2>1 DEF Crash, TypeOK
  <2>3. sig' = sig /\ notice' = notice /\ dismissed' = dismissed
    BY <2>1 DEF Crash, rows, attention
  <2>4. Nothing.change = "none" /\ ~Nothing.first
    BY DEF Nothing
  <2> QED
    BY <2>2, <2>3, <2>4 DEF OnItsWay, Remembered
<1> QED
  BY <1>1, <1>2, <1>3, <1>4, <1>5, <1>6

(* The invariant holds at the start and every step keeps it.               *)
LEMMA Start == Init => IInv
<1> SUFFICES ASSUME Init PROVE IInv
  OBVIOUS
<1>1. TypeOK
  BY Records DEF Init, TypeOK, Commits, Tail
<1>2. OnItsWay /\ Remembered
  BY DEF Init, OnItsWay, Remembered, Nothing
<1> QED
  BY <1>1, <1>2 DEF IInv

LEMMA Step == IInv /\ [Next]_vars => IInv'
<1> SUFFICES ASSUME IInv, [Next]_vars PROVE IInv'
  OBVIOUS
<1>1. TypeOK'
  BY TypeStep DEF IInv
<1>2. CASE UNCHANGED vars
  BY <1>1, <1>2 DEF IInv, OnItsWay, Remembered, vars, rows, attention, histories
<1>3. CASE Next
  BY <1>1, <1>3, TailKeeps, CheckKeeps, OperatorKeeps, WorldKeeps DEF Next, IInv
<1> QED
  BY <1>2, <1>3

(* The state of the review has its type in every reachable state.          *)
THEOREM TypeCorrect == Spec => []TypeOK
<1>1. IInv => TypeOK
  BY DEF IInv
<1> QED
  BY <1>1, Start, Step, PTL DEF Spec

(* A notice that an operator dismissed is not raised again while the       *)
(* signature of the drift is the same and the row of the notice is kept,   *)
(* whatever checks run, fail or are cut off and whatever restarts.         *)
THEOREM DismissalIsKept == Spec => DismissalHolds
<1>1. IInv /\ IInv' => (dismissed /\ dismissed' => notice' # "open")
  BY DEF IInv, Remembered
<1> QED
  BY <1>1, Start, Step, PTL DEF Spec, DismissalHolds

-----------------------------------------------------------------------------
(* Drift has its notice: the invariant behind NoticeOrReason.              *)

(* Who is on the way to raise a notice, or to undo the drift behind it.    *)
Pending(a) ==
    \/ a \in Checks /\ pc[a] = "notify" /\ made[a].change = "raise"
    \/ a \in Operators /\ pc[a] \in Resolved

Reasoned ==
    Drifted(sig) /\ ~excuse => notice = "open" \/ \E a \in Actors : Pending(a)

(* What is about to be signed without a notice is no news, unless somebody *)
(* wrote the signature in between; and what clears is no drift.            *)
Follows(a) ==
    /\ pc[a] = "sign" /\ ~made[a].crossed /\ Drifted(made[a].sig) =>
          made[a].change = "raise" \/ made[a].sig = sig
    /\ made[a].change = "clear" => ~Drifted(made[a].sig)

(* What an accept is about to sign is no drift.                            *)
Undoes(a) ==
    a \in Operators =>
        /\ pc[a] \in {"decide", "sign"} => ~Drifted(made[a].sig)
        /\ pc[a] \in {"moved", "store"} => rep[a].base = rep[a].actual

NInv == IInv /\ Reasoned /\ \A a \in Actors : Follows(a) /\ Undoes(a)

Stays(a) == pc'[a] = pc[a] /\ rep'[a] = rep[a] /\ made'[a] = made[a]

(* One actor moves, and the signature stays.                               *)
LEMMA OneMoves ==
    ASSUME NInv, NEW a \in Actors, sig' = sig, excuse => excuse',
           \A b \in Actors \ {a} : Stays(b),
           (Follows(a) /\ Undoes(a))',
           ~excuse' =>
              /\ notice = "open" => notice' = "open" \/ Pending(a)'
              /\ Pending(a) => notice' = "open" \/ Pending(a)'
    PROVE  (Reasoned /\ \A b \in Actors : Follows(b) /\ Undoes(b))'
<1>1. \A b \in Actors \ {a} : (Follows(b) /\ Undoes(b))'
  BY DEF NInv, Follows, Undoes, Stays
<1>2. \A b \in Actors \ {a} : Pending(b) => Pending(b)'
  BY DEF Pending, Stays
<1>3. Reasoned'
  BY <1>2 DEF NInv, Reasoned
<1> QED
  BY <1>1, <1>3

(* Nobody moves, and the signature stays.                                  *)
LEMMA NobodyMoves ==
    ASSUME NInv, UNCHANGED <<sig, pc, rep, made>>,
           notice' = "open" \/ excuse' \/ (notice # "open" /\ ~excuse)
    PROVE  (Reasoned /\ \A b \in Actors : Follows(b) /\ Undoes(b))'
<1>1. \A b \in Actors : (Follows(b) /\ Undoes(b))' /\ (Pending(b) => Pending(b)')
  BY DEF NInv, Follows, Undoes, Pending
<1> QED
  BY <1>1 DEF NInv, Reasoned

(* Whoever ends leaves the others be.                                      *)
LEMMA EndsStays ==
    ASSUME TypeOK, NEW a \in Actors, Ends(a)
    PROVE  /\ pc'[a] = "idle" /\ made'[a] = Nothing
           /\ \A b \in Actors \ {a} : Stays(b)
           /\ (Follows(a) /\ Undoes(a))' /\ ~Pending(a)'
<1>1. /\ pc'[a] = "idle" /\ made'[a] = Nothing
      /\ \A b \in Actors \ {a} : Stays(b)
  BY DEF TypeOK, Ends, Moves, Holds, Stays
<1> QED
  BY <1>1, NothingIsClear DEF Follows, Undoes, Pending, Resolved

(* Another signature: the others find themselves crossed.                  *)
LEMMA SignsStays ==
    ASSUME TypeOK, NEW a \in Actors, NEW s, NEW mine, NEW place,
           Signs(a, s, mine), Moves(a, place), rep' = rep,
           \A b \in Actors : Follows(b) /\ Undoes(b)
    PROVE  /\ \A b \in Actors \ {a} : (Follows(b) /\ Undoes(b))'
           /\ \A b \in Actors \ {a} : Pending(b) => Pending(b)'
           /\ made'[a] = mine /\ pc'[a] = place /\ sig' = s
<1>1. /\ made'[a] = mine /\ pc'[a] = place /\ sig' = s
      /\ \A b \in Actors \ {a} : pc'[b] = pc[b]
  BY DEF Signs, Moves, TypeOK
<1>2. ASSUME NEW b \in Actors \ {a}
      PROVE  /\ made'[b].sig = made[b].sig /\ made'[b].change = made[b].change
             /\ made'[b].crossed = made[b].crossed \/ made'[b].crossed = TRUE
             /\ pc[b] = "sign" /\ s # sig => made'[b].crossed = TRUE
  <2>1. made[b] \in [sig : SigType, first : BOOLEAN, crossed : BOOLEAN,
                     change : {"none", "same", "raise", "clear"}]
    BY DEF TypeOK, MadeType
  <2>2. made'[b] = IF pc[b] = "sign" /\ s # sig
                   THEN [made[b] EXCEPT !.crossed = TRUE] ELSE made[b]
    BY <1>2 DEF Signs
  <2> QED
    BY <2>1, <2>2
<1>3. \A b \in Actors \ {a} : Follows(b)'
  BY <1>1, <1>2 DEF Follows
<1>4. \A b \in Actors \ {a} : Undoes(b)' /\ (Pending(b) => Pending(b)')
  BY <1>1, <1>2 DEF Undoes, Pending
<1> QED
  BY <1>1, <1>3, <1>4

(* The steps of process_report and of the accept after it.                 *)
LEMMA TailReasons ==
    ASSUME NInv, NEW a \in Actors, TailSteps(a) \/ Fails(a)
    PROVE  (Reasoned /\ \A b \in Actors : Follows(b) /\ Undoes(b))'
<1> USE DEF IInv
<1>0. /\ TypeOK /\ OnItsWay /\ Reasoned /\ Follows(a) /\ Undoes(a)
      /\ \A b \in Actors : Follows(b) /\ Undoes(b)
  BY DEF NInv
<1>1. CASE Store(a)
  <2>1. /\ pc[a] = "store" /\ pc'[a] = "decide" /\ made'[a].sig = SigOf(rep[a])
        /\ made'[a].change = made[a].change
        /\ \A b \in Actors \ {a} : Stays(b)
    BY <1>0, <1>1 DEF Store, Moves, Holds, TypeOK, MadeType, Stays
  <2>2. rep[a] \in ReportType /\ made[a].change = "none"
    BY <1>0, <2>1 DEF TypeOK, OnItsWay
  <2>3. (Follows(a) /\ Undoes(a))'
    BY <1>0, <2>1, <2>2, NothingIsClear DEF Follows, Undoes
  <2>4. Pending(a) => Pending(a)'
    BY <2>1 DEF Pending, Resolved
  <2> QED
    BY <1>1, <2>1, <2>3, <2>4, OneMoves DEF Store, attention, histories
<1>2. CASE Decide(a)
  <2>1. /\ pc[a] = "decide" /\ pc'[a] = "sign" /\ made'[a].sig = made[a].sig
        /\ made'[a].change = Change(a)
        /\ made'[a].crossed = (sig = NoSig /\ ~made[a].first)
        /\ \A b \in Actors \ {a} : Stays(b)
    BY <1>0, <1>2 DEF Decide, Moves, TypeOK, MadeType, Stays
  <2>2. sig' = sig /\ notice' = notice /\ excuse' = excuse
    BY <1>2 DEF Decide, rows, attention, histories
  <2>3. ~made'[a].crossed /\ Drifted(made[a].sig) =>
            Change(a) = "raise" \/ made[a].sig = sig
    BY <2>1 DEF Change
  <2>4. Change(a) = "clear" => ~Drifted(made[a].sig)
    BY DEF Change
  <2>5. (Follows(a) /\ Undoes(a))'
    BY <1>0, <2>1, <2>2, <2>3, <2>4 DEF Follows, Undoes
  <2>6. Pending(a) => Pending(a)'
    BY <2>1 DEF Pending, Resolved
  <2> QED
    BY <2>1, <2>2, <2>5, <2>6, OneMoves
<1>3. CASE Sign(a)
  <2> DEFINE mine == IF a \in Checks THEN [made[a] EXCEPT !.crossed = FALSE]
                     ELSE Nothing
             place == IF a \in Checks THEN "notify" ELSE "idle"
  <2>1. mine.change = (IF a \in Checks THEN made[a].change ELSE "none")
        /\ (a \in Checks => mine.sig = made[a].sig)
    BY <1>0, NothingIsClear DEF TypeOK, MadeType
  <2>2. Signs(a, made[a].sig, mine) /\ Moves(a, place) /\ notice' = notice
        /\ rep' = rep /\ pc[a] = "sign"
        /\ excuse' = (excuse \/ made[a].crossed)
    BY <1>3 DEF Sign, attention
  <2> HIDE DEF mine
  <2>3. /\ \A b \in Actors \ {a} : (Follows(b) /\ Undoes(b))'
        /\ \A b \in Actors \ {a} : Pending(b) => Pending(b)'
        /\ made'[a] = mine /\ pc'[a] = place /\ sig' = made[a].sig
    BY <1>0, <2>2, SignsStays
  <2>4. (Follows(a) /\ Undoes(a))'
    BY <1>0, <2>1, <2>3 DEF Follows, Undoes
  <2>5. Reasoned'
    <3> SUFFICES ASSUME Drifted(made[a].sig), ~excuse, ~made[a].crossed
                 PROVE  notice = "open" \/ \E b \in Actors : Pending(b)'
      BY <2>2, <2>3 DEF Reasoned
    <3>1. a \in Checks
      BY <1>0, <2>2 DEF Undoes, Actors
    <3>2. CASE made[a].change = "raise"
      BY <2>1, <2>3, <3>1, <3>2 DEF Pending
    <3>3. CASE made[a].sig = sig
      <4>1. ~Pending(a)
        BY <2>2, <3>1, ReviewAssumption DEF Pending
      <4> QED
        BY <1>0, <2>3, <3>3, <4>1 DEF Reasoned
    <3> QED
      BY <1>0, <2>2, <3>2, <3>3 DEF Follows
  <2> QED
    BY <2>3, <2>4, <2>5
<1>4. CASE a \in Checks /\ Notify(a)
  <2>1. /\ sig' = sig /\ Ends(a) /\ pc[a] = "notify"
        /\ \A b \in Actors \ {a} : Stays(b)
        /\ (Follows(a) /\ Undoes(a))'
    BY <1>0, <1>4, EndsStays DEF Notify, rows
  <2>2. \A b \in Actors : (Follows(b) /\ Undoes(b))'
    BY <1>0, <2>1 DEF Follows, Undoes, Stays
  <2>3. \A b \in Actors \ {a} : Pending(b) => Pending(b)'
    BY <2>1 DEF Pending, Stays
  <2>4. CASE notice' = "open" \/ excuse'
    BY <2>2, <2>4 DEF Reasoned
  <2>5. CASE made[a].change = "clear" /\ sig = made[a].sig
    BY <1>0, <2>1, <2>2, <2>5 DEF Reasoned, Follows
  <2>6. CASE made[a].change = "same" /\ UNCHANGED <<notice, excuse>>
    <3>1. ~Pending(a)
      BY <1>4, <2>6, ReviewAssumption DEF Pending
    <3> QED
      BY <1>0, <2>1, <2>2, <2>3, <2>6, <3>1 DEF Reasoned
  <2> QED
    BY <1>4, <2>4, <2>5, <2>6 DEF Notify
<1>5. CASE a \in Operators /\ Resolve(a)
  <2>1. /\ pc[a] = "moved" /\ pc'[a] \in {"forget", "store"}
        /\ rep' = rep /\ made' = made /\ sig' = sig /\ excuse' = excuse
        /\ \A b \in Actors \ {a} : Stays(b)
    BY <1>0, <1>5 DEF Resolve, Moves, TypeOK, Stays, rows, histories
  <2>2. (Follows(a) /\ Undoes(a))' /\ Pending(a)'
    BY <1>0, <1>5, <2>1 DEF Follows, Undoes, Pending, Resolved
  <2> QED
    BY <2>1, <2>2, OneMoves
<1>6. CASE Forget(a)
  <2>1. Signs(a, NoSig, Nothing) /\ Moves(a, "drop") /\ rep' = rep
    BY <1>6 DEF Forget
  <2>2. /\ \A b \in Actors \ {a} : (Follows(b) /\ Undoes(b))'
        /\ made'[a] = Nothing /\ pc'[a] = "drop" /\ sig' = NoSig
    BY <1>0, <2>1, SignsStays
  <2>3. (Follows(a) /\ Undoes(a))' /\ Reasoned'
    BY <2>2, NothingIsClear DEF Follows, Undoes, Reasoned
  <2> QED
    BY <2>2, <2>3
<1>7. CASE Drop(a)
  <2>1. sig' = sig /\ notice' = notice /\ excuse' = excuse /\ ~Pending(a)
    BY <1>7 DEF Drop, attention, histories, Pending, Resolved
  <2> QED
    BY <1>0, <1>7, <2>1, EndsStays, OneMoves DEF Drop
<1>8. CASE Fails(a)
  <2>1. /\ sig' = sig /\ notice' = notice /\ (excuse => excuse') /\ Ends(a)
        /\ Pending(a) => excuse'
    BY <1>8 DEF Fails, rows, attention, Pending
  <2> QED
    BY <1>0, <2>1, EndsStays, OneMoves
<1> QED
  BY <1>1, <1>2, <1>3, <1>4, <1>5, <1>6, <1>7, <1>8 DEF TailSteps

(* Before there is a report nothing is pending.                            *)
LEMMA QuietMove ==
    ASSUME NInv, NEW a \in Actors, NEW place, Moves(a, place),
           pc[a] \in {"idle", "probing", "looking"},
           place \in {"probing", "looking", "moved", "store"},
           \A b \in Actors \ {a} : rep'[b] = rep[b],
           made' = made, UNCHANGED <<sig, notice, excuse>>,
           a \in Operators => rep'[a].base = rep'[a].actual
    PROVE  (Reasoned /\ \A b \in Actors : Follows(b) /\ Undoes(b))'
<1>1. pc'[a] = place /\ \A b \in Actors \ {a} : Stays(b)
  BY DEF NInv, IInv, TypeOK, Moves, Stays
<1>2. made[a].change = "none" /\ ~Pending(a)
  BY DEF NInv, IInv, OnItsWay, Pending, Resolved
<1>3. (Follows(a) /\ Undoes(a))'
  BY <1>1, <1>2 DEF Follows, Undoes
<1> QED
  BY <1>1, <1>2, <1>3, OneMoves

LEMMA QuietEnd ==
    ASSUME NInv, NEW a \in Actors, Ends(a),
           pc[a] \in {"idle", "probing", "looking"},
           UNCHANGED <<sig, notice, excuse>>
    PROVE  (Reasoned /\ \A b \in Actors : Follows(b) /\ Undoes(b))'
<1>1. ~Pending(a)
  BY DEF Pending, Resolved
<1> QED
  BY <1>1, EndsStays, OneMoves DEF NInv, IInv

(* The steps of a check before it has a report.                            *)
LEMMA CheckReasons ==
    ASSUME NInv, NEW c \in Checks, CheckSteps(c) \/ Unreadable(c) \/ ObserveFails(c)
    PROVE  (Reasoned /\ \A b \in Actors : Follows(b) /\ Undoes(b))'
<1>0. c \in Actors /\ c \notin Operators /\ TypeOK
  BY ReviewAssumption DEF Actors, NInv, IInv
<1>1. CASE Begin(c)
  <2>1. /\ Moves(c, "probing") /\ pc[c] = "idle" /\ made' = made
        /\ UNCHANGED <<sig, notice, excuse>>
        /\ \A b \in Actors \ {c} : rep'[b] = rep[b]
    BY <1>0, <1>1 DEF Begin, Holds, TypeOK, rows, attention, histories
  <2> QED
    BY <1>0, <2>1, QuietMove
<1>2. ASSUME NEW obs, Compares(c, obs), pc[c] = "probing",
             UNCHANGED <<sig, notice, excuse>>
      PROVE  (Reasoned /\ \A b \in Actors : Follows(b) /\ Undoes(b))'
  <2>1. CASE Ends(c)
    BY <1>0, <1>2, <2>1, QuietEnd
  <2>2. CASE rep[c].base # None
    <3>1. /\ Moves(c, "store") /\ made' = made
          /\ \A b \in Actors \ {c} : rep'[b] = rep[b]
      BY <1>0, <1>2, <2>2 DEF Compares, Holds, TypeOK
    <3> QED
      BY <1>0, <1>2, <3>1, QuietMove
  <2> QED
    BY <1>2, <2>1, <2>2 DEF Compares
<1>3. CASE Observe(c)
  BY <1>2, <1>3 DEF Observe, rows, attention, histories
<1>4. CASE Unreadable(c)
  BY <1>0, <1>4, QuietEnd DEF Unreadable, rows, attention, histories
<1>5. CASE ObserveFails(c)
  BY <1>2, <1>5 DEF ObserveFails, rows, attention, histories
<1> QED
  BY <1>1, <1>3, <1>4, <1>5 DEF CheckSteps

(* The steps of an operator.                                               *)
LEMMA OperatorReasons ==
    ASSUME NInv, NEW o \in Operators, OperatorSteps(o)
    PROVE  (Reasoned /\ \A b \in Actors : Follows(b) /\ Undoes(b))'
<1>0. o \in Actors /\ TypeOK
  BY DEF Actors, NInv, IInv
<1>1. CASE Inspect(o)
  <2>1. /\ Moves(o, "looking") /\ pc[o] = "idle" /\ made' = made
        /\ UNCHANGED <<sig, notice, excuse>>
        /\ \A b \in Actors \ {o} : rep'[b] = rep[b]
        /\ rep'[o].base = rep'[o].actual
    BY <1>0, <1>1 DEF Inspect, Holds, TypeOK, NoReport, rows, attention, histories
  <2> QED
    BY <1>0, <2>1, QuietMove
<1>2. CASE Leave(o)
  BY <1>0, <1>2, QuietEnd DEF Leave, rows, attention, histories
<1>3. ASSUME NEW t, Blesses(o, t), pc[o] \in {"idle", "looking"}
      PROVE  (Reasoned /\ \A b \in Actors : Follows(b) /\ Undoes(b))'
  <2>1. /\ Moves(o, "moved") /\ made' = made
        /\ UNCHANGED <<sig, notice, excuse>>
        /\ \A b \in Actors \ {o} : rep'[b] = rep[b]
        /\ rep'[o].base = rep'[o].actual
    BY <1>0, <1>3 DEF Blesses, Holds, TypeOK, NoReport, rows, attention, histories
  <2> QED
    BY <1>0, <1>3, <2>1, QuietMove
<1>4. CASE Accept(o)
  BY <1>3, <1>4 DEF Accept
<1>5. CASE AcceptNamed(o)
  BY <1>3, <1>5 DEF AcceptNamed
<1>6. CASE Snapshot(o)
  BY <1>6, NobodyMoves DEF Snapshot, rows, attention, histories
<1>7. CASE Dismiss(o)
  BY <1>7, NobodyMoves DEF Dismiss, rows
<1> QED
  BY <1>1, <1>2, <1>4, <1>5, <1>6, <1>7 DEF OperatorSteps

(* Time, restarts, and the device.                                         *)
LEMMA WorldReasons ==
    ASSUME NInv,
           Age \/ Expire \/ Purge \/ Reconfigured \/ Boot \/ \E p \in Processes : Crash(p)
    PROVE  (Reasoned /\ \A b \in Actors : Follows(b) /\ Undoes(b))'
<1>1. CASE Age \/ Expire \/ Purge \/ Reconfigured \/ Boot
  <2>1. UNCHANGED <<sig, pc, rep, made>>
    BY <1>1 DEF Age, Expire, Purge, Reconfigured, Boot, rows
  <2>2. notice' = "open" \/ excuse' \/ (notice # "open" /\ ~excuse)
    BY <1>1 DEF Age, Expire, Purge, Reconfigured, Boot, attention, histories
  <2> QED
    BY <2>1, <2>2, NobodyMoves
<1>2. CASE \E p \in Processes : Crash(p)
  <2>1. PICK p \in Processes : Crash(p)
    BY <1>2
  <2>2. \A b \in Actors :
            \/ Stays(b)
            \/ pc'[b] = "idle" /\ made'[b] = Nothing /\ (Pending(b) => excuse')
    BY <2>1 DEF Crash, Stays, Pending, NInv, IInv, TypeOK, Resolved
  <2>3. sig' = sig /\ notice' = notice /\ (excuse => excuse')
    BY <2>1 DEF Crash, rows, attention
  <2>4. ASSUME NEW b \in Actors
        PROVE  (Follows(b) /\ Undoes(b))' /\ (Pending(b) => Pending(b)' \/ excuse')
    <3>1. CASE Stays(b)
      BY <2>3, <3>1 DEF NInv, Stays, Follows, Undoes, Pending
    <3>2. CASE pc'[b] = "idle" /\ made'[b] = Nothing /\ (Pending(b) => excuse')
      BY <3>2, NothingIsClear DEF Follows, Undoes
    <3> QED
      BY <2>2, <3>1, <3>2
  <2>5. Reasoned'
    BY <2>3, <2>4 DEF NInv, Reasoned
  <2> QED
    BY <2>4, <2>5
<1> QED
  BY <1>1, <1>2

LEMMA NStart == Init => NInv
<1> SUFFICES ASSUME Init PROVE NInv
  OBVIOUS
<1>1. sig = NoSig /\ \A a \in Actors : pc[a] = "idle" /\ made[a] = Nothing
  BY DEF Init
<1> QED
  BY <1>1, Start, NothingIsClear DEF NInv, Reasoned, Follows, Undoes

LEMMA NStep == NInv /\ [Next]_vars => NInv'
<1> SUFFICES ASSUME NInv, [Next]_vars PROVE NInv'
  OBVIOUS
<1>1. IInv'
  BY Step DEF NInv
<1>2. CASE UNCHANGED vars
  BY <1>1, <1>2, NobodyMoves DEF NInv, vars, rows, attention, histories
<1>3. CASE Next
  BY <1>1, <1>3, TailReasons, CheckReasons, OperatorReasons, WorldReasons
  DEF Next, NInv
<1> QED
  BY <1>2, <1>3

(* For any number of checks, operators and processes: drift that the       *)
(* roster shows has its notice in the queue, or one of the reasons the     *)
(* code has for not giving it, whichever process ends or fails where.      *)
THEOREM DriftIsNoticed == Spec => []NoticeOrReason
<1>1. NInv => NoticeOrReason
  <2>1. \A a \in Actors : pc[a] \notin Tail => ~Pending(a)
    BY DEF Pending, Tail, Resolved
  <2> QED
    BY <2>1 DEF NInv, Reasoned, NoticeOrReason
<1> QED
  BY <1>1, NStart, NStep, PTL DEF Spec

=============================================================================
