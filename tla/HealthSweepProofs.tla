------------------------- MODULE HealthSweepProofs -------------------------
(***************************************************************************)
(* The health monitor and one device, for any passwords, intervals and     *)
(* ceilings and any number of checks gone astray: it is type correct, so   *)
(* that the sweeps take turns, a deadline in the row always belongs to a   *)
(* refusal, and the loop never burns a refused password before its wait is *)
(* over.                                                                   *)
(***************************************************************************)
EXTENDS HealthSweep, FiniteSetTheorems, TLAPS

(* The powers of two are natural numbers: they count the subsets of 1..n.  *)
LEMMA PowerIsNat == \A n \in Nat : 2^n \in Nat
<1> TAKE n \in Nat
<1>1. IsFiniteSet(1..n) /\ Cardinality(1..n) = n
  BY FS_Interval
<1>2. IsFiniteSet(SUBSET (1..n)) /\ Cardinality(SUBSET (1..n)) = 2^n
  BY <1>1, FS_SUBSET
<1> QED
  BY <1>2, FS_CardinalityType

LEMMA WaitIsNat == \A streak \in 1..MaxStreak : Wait(streak) \in Nat
<1> TAKE streak \in 1..MaxStreak
<1>1. streak - 1 \in Nat
  BY HealthAssumption
<1> DEFINE p == 2^(streak - 1)
<1>2. p \in Nat
  BY <1>1, PowerIsNat
<1> HIDE DEF p
<1>3. Interval * p \in Nat
  BY <1>2, HealthAssumption
<1>4. Smaller(Interval * p, Ceiling) \in Nat
  BY <1>3, HealthAssumption DEF Smaller
<1> QED
  BY <1>4 DEF Wait, p

LEMMA RetryAfterType == \A streak \in 1..MaxStreak : RetryAfter(streak) \subseteq Nat
  BY WaitIsNat DEF RetryAfter

LEMMA LongerType == \A n \in 0..MaxStreak : Longer(n) \in 1..MaxStreak
  BY HealthAssumption DEF Longer, Smaller

LEMMA SoonerType == \A R \in SUBSET Nat : Sooner(R) \in SUBSET Nat
  BY DEF Sooner, Less

-----------------------------------------------------------------------------
(* What the rows are made of.                                              *)

\* HoldIsAVerdict, of any row.
Sound(r) ==
    r.retry # {} =>
        /\ r.streak > 0 /\ r.condemned # None
        /\ r.status \notin Clearing

LEMMA BlankIsSound ==
    ASSUME NEW b \in BOOLEAN, NEW s \in Statuses
    PROVE  Blank(b, s) \in Row /\ Sound(Blank(b, s))
  BY HealthAssumption DEF Blank, Row, Sound

LEMMA AbsentIsSound == Absent \in Row /\ Sound(Absent)
  BY BlankIsSound DEF Absent, Statuses

LEMMA NoCheckType ==
    /\ NoCheck.pc = "none" /\ NoCheck.prev = Absent /\ NoCheck.creds = None
    /\ ~ NoCheck.cleared /\ NoCheck \in Check
  BY AbsentIsSound DEF NoCheck, Statuses, Check

\* Who was refused had a password to be refused.
Blamed(c) ==
    c.pc \in {"answered", "reread"} /\ c.verdict = "auth_failed"
        => c.held \/ c.creds # None

Fine(c) == Sound(c.prev) /\ Blamed(c)

IInv == TypeOK /\ HoldIsAVerdict /\ \A w \in Slots : Fine(check[w])

LEMMA NoCheckIsFine == Fine(NoCheck)
  BY NoCheckType, AbsentIsSound DEF Fine, Blamed

LEMMA NewRowIsSound ==
    ASSUME NEW c \in Check, Fine(c), c.pc = "reread"
    PROVE  NewRow(c) \in Row /\ Sound(NewRow(c))
<1>1. c.prev \in Row /\ c.verdict \in Statuses
  BY DEF Check
<1>2. CASE Forgiven(c)
  <2>1. NewRow(c) = Blank(TRUE, c.verdict)
    BY <1>2 DEF NewRow, Forgiven, Refused, Clearing
  <2> QED
    BY <1>1, <2>1, BlankIsSound
<1>3. CASE ~ Forgiven(c) /\ Refused(c)
  <2> DEFINE n == Longer(c.prev.streak)
  <2>1. n \in 1..MaxStreak
    BY <1>1, LongerType DEF Row
  <2>2. RetryAfter(n) \subseteq Nat
    BY <2>1, RetryAfterType
  <2>3. c.creds \in Passwords \cup {None} /\ c.creds # None
    BY <1>3 DEF Refused, Blamed, Fine, Check
  <2>4. NewRow(c) = [there |-> TRUE, status |-> c.verdict, streak |-> n,
                     retry |-> RetryAfter(n), condemned |-> c.creds]
    BY <1>3 DEF NewRow, Forgiven, Refused
  <2> HIDE DEF n
  <2>5. n \in 0..MaxStreak /\ n > 0
    BY <2>1, HealthAssumption
  <2>6. NewRow(c) \in Row
    BY <1>1, <2>2, <2>3, <2>4, <2>5 DEF Row
  <2>7. Sound(NewRow(c))
    BY <1>3, <2>3, <2>4, <2>5 DEF Sound, Forgiven
  <2> QED
    BY <2>6, <2>7
<1>4. CASE ~ Forgiven(c) /\ ~ Refused(c)
  <2>1. PICK retry \in SUBSET c.prev.retry : NewRow(c) = Carried(c, retry)
    BY <1>4 DEF NewRow
  <2> QED
    BY <1>1, <1>4, <2>1 DEF Carried, Row, Sound, Forgiven, Fine
<1> QED
  BY <1>2, <1>3, <1>4

-----------------------------------------------------------------------------
(* The invariant is inductive: one lemma per action that moves a check or  *)
(* the row.                                                                *)

\* Who is in a sweep: the two conjuncts of TypeOK about the turns.
Turns ==
    /\ (check[Turn].pc = "none") <=> (loop.at # "sweep" /\ forced # "sweep")
    /\ check[Turn].pc # "none" =>
          IF check[Turn].force THEN forced = "sweep" /\ loop.at # "sweep"
                               ELSE loop.at = "sweep" /\ forced # "sweep"

Loops == [at : {"sleep", "due", "sweep", "dead"}, nap : Nat]

\* Every check is well-typed and sound.
AllFine == check \in [Slots -> Check] /\ \A w \in Slots : Fine(check[w])

LEMMA TurnIsSlot == Turn \in Slots /\ \A s \in Strays : s \in Slots /\ s # Turn
  BY HealthAssumption DEF Slots

\* The types, in the words of the lemmas.
LEMMA Unpacked ==
    ASSUME IInv
    PROVE  /\ registered \in BOOLEAN /\ stored \in Passwords \cup {None}
           /\ fix \in BOOLEAN /\ row \in Row /\ Sound(row)
           /\ AllFine /\ Turns /\ \A w \in Slots : check[w] \in Check
           /\ loop \in Loops /\ forced \in {"idle", "due", "sweep"}
           /\ mishaps \in 0..MaxMishaps
           /\ owed \in [streak : 0..MaxStreak, ticks : Nat]
           /\ NothingOwed \in [streak : 0..MaxStreak, ticks : Nat]
           /\ Mishap => mishaps' \in 0..MaxMishaps
  BY HealthAssumption
  DEF IInv, TypeOK, HoldIsAVerdict, Sound, Turns, AllFine, Loops, NothingOwed,
      Mishap

LEMMA InitInv == Init => IInv
<1> SUFFICES ASSUME Init PROVE IInv
  OBVIOUS
<1>1. \A w \in Slots : check[w] = NoCheck
  BY DEF Init
<1>2. check \in [Slots -> Check]
  BY NoCheckType DEF Init
<1>3. /\ mishaps \in 0..MaxMishaps
      /\ owed \in [streak : 0..MaxStreak, ticks : Nat]
  BY HealthAssumption DEF Init, NothingOwed
<1>4. TypeOK
  BY <1>1, <1>2, <1>3, TurnIsSlot, NoCheckType, AbsentIsSound DEF Init, TypeOK
<1>5. HoldIsAVerdict
  BY AbsentIsSound DEF Init, HoldIsAVerdict, Sound
<1> QED
  BY <1>1, <1>4, <1>5, NoCheckIsFine DEF IInv

\* The check of one slot becomes another, and it is fine.
LEMMA OneBecomes ==
    ASSUME AllFine, NEW w \in Slots, NEW c \in Check, Fine(c), Becomes(w, c)
    PROVE  /\ AllFine' /\ check'[w] = c
           /\ \A v \in Slots \ {w} : check'[v] = check[v]
  BY DEF AllFine, Becomes

\* What a sweep leaves when it is over.
LEMMA SweepEnds ==
    ASSUME IInv, NEW raised \in BOOLEAN, SweepOver(raised),
           check[Turn].pc # "none"
    PROVE  /\ loop' \in Loops /\ forced' \in {"idle", "due", "sweep"}
           /\ loop'.at # "sweep" /\ forced' # "sweep"
  BY HealthAssumption
  DEF IInv, TypeOK, SweepOver, LoopOver, Loops

LEMMA OverKeeps ==
    ASSUME IInv, NEW w \in Slots, NEW raised \in BOOLEAN, Over(w, raised),
           check[w].pc # "none"
    PROVE  /\ AllFine' /\ Turns' /\ check'[w] = NoCheck
           /\ \A v \in Slots \ {w} : check'[v] = check[v]
           /\ loop' \in Loops /\ forced' \in {"idle", "due", "sweep"}
<1>1. /\ AllFine' /\ check'[w] = NoCheck
      /\ \A v \in Slots \ {w} : check'[v] = check[v]
  BY Unpacked, OneBecomes, NoCheckType, NoCheckIsFine DEF Over
<1>2. CASE w = Turn
  BY <1>1, <1>2, SweepEnds, NoCheckType DEF Over, Turns
<1>3. CASE w # Turn
  BY <1>1, <1>3, TurnIsSlot, Unpacked DEF Over, Turns
<1> QED
  BY <1>1, <1>2, <1>3

\* The check moves on within its sweep, or without one.
LEMMA OnKeeps ==
    ASSUME IInv, NEW w \in Slots, NEW c \in Check, Fine(c), Becomes(w, c),
           check[w].pc # "none", c.pc # "none", c.force = check[w].force,
           UNCHANGED <<loop, forced>>
    PROVE  AllFine' /\ Turns' /\ loop' \in Loops /\ forced' \in {"idle", "due", "sweep"}
<1>1. /\ AllFine' /\ check'[w] = c
      /\ \A v \in Slots \ {w} : check'[v] = check[v]
  BY Unpacked, OneBecomes
<1> QED
  BY <1>1, TurnIsSlot, Unpacked DEF Turns

\* What is left to show.
LEMMA Assembled ==
    ASSUME IInv, registered' \in BOOLEAN, stored' \in Passwords \cup {None},
           fix' \in BOOLEAN, row' \in Row, Sound(row'), AllFine', Turns',
           loop' \in Loops, forced' \in {"idle", "due", "sweep"},
           mishaps' \in 0..MaxMishaps,
           owed' \in [streak : 0..MaxStreak, ticks : Nat]
    PROVE  IInv'
  BY DEF IInv, TypeOK, HoldIsAVerdict, Sound, Turns, AllFine, Loops

LEMMA AcquireKeeps ==
    ASSUME IInv, NEW force \in BOOLEAN, Acquire(force)
    PROVE  IInv'
<1> DEFINE c == [NoCheck EXCEPT !.pc = "listed", !.force = force]
<1>1. c \in Check /\ c.pc = "listed" /\ c.force = force /\ Fine(c)
  BY NoCheckType, AbsentIsSound DEF Check, Fine, Blamed
<1> HIDE DEF c
<1>2. loop.at # "sweep" /\ forced # "sweep" /\ check[Turn].pc = "none"
  BY Unpacked DEF Acquire, Turns
<1>3. /\ loop' \in Loops /\ forced' \in {"idle", "due", "sweep"}
      /\ mishaps' \in 0..MaxMishaps
  BY Unpacked, HealthAssumption DEF Acquire, LoopOver, Loops
<1>4. CASE /\ Becomes(Turn, c)
           /\ IF force THEN forced' = "sweep" /\ UNCHANGED loop
                       ELSE loop' = [loop EXCEPT !.at = "sweep"]
                            /\ UNCHANGED forced
  <2>1. AllFine' /\ check'[Turn] = c
    BY <1>1, <1>4, Unpacked, TurnIsSlot, OneBecomes
  <2>2. Turns'
    BY <1>1, <1>2, <1>4, <2>1, Unpacked DEF Turns, Loops
  <2> QED
    BY <1>3, <2>1, <2>2, Unpacked, Assembled DEF Acquire
<1>5. CASE check' = check /\ loop'.at # "sweep" /\ forced' # "sweep"
  <2>1. AllFine' /\ Turns'
    BY <1>2, <1>5, Unpacked DEF AllFine, Turns
  <2> QED
    BY <1>3, <2>1, Unpacked, Assembled DEF Acquire
<1> QED
  BY <1>2, <1>4, <1>5 DEF Acquire, LoopOver, c

\* The check of the turn goes astray as it is.
LEMMA AstrayKeeps ==
    ASSUME IInv, NEW s \in Strays, Astray(s)
    PROVE  /\ IInv' /\ check'[s] = check[Turn] /\ check'[Turn] = NoCheck
           /\ \A v \in Slots \ {s, Turn} : check'[v] = check[v]
<1>1. /\ check'[s] = check[Turn] /\ check'[Turn] = NoCheck
      /\ \A v \in Slots \ {s, Turn} : check'[v] = check[v]
      /\ check' \in [Slots -> Check]
  BY Unpacked, TurnIsSlot, NoCheckType DEF Astray, AllFine
<1>2. AllFine'
  BY <1>1, Unpacked, TurnIsSlot, NoCheckIsFine DEF AllFine
<1>3. /\ loop' \in Loops /\ forced' \in {"idle", "due", "sweep"}
      /\ loop'.at # "sweep" /\ forced' # "sweep"
  BY SweepEnds DEF Astray
<1>4. Turns'
  BY <1>1, <1>3, NoCheckType DEF Turns
<1> QED
  BY <1>1, <1>2, <1>3, <1>4, Unpacked, Assembled DEF Astray

LEMMA ReadCredentialKeeps ==
    ASSUME IInv, NEW w \in Slots, ReadCredential(w)
    PROVE  IInv'
<1>1. mishaps' \in 0..MaxMishaps
  BY Unpacked DEF ReadCredential
<1>2. CASE Over(w, FALSE)
  BY <1>1, <1>2, Unpacked, OverKeeps, Assembled DEF ReadCredential
<1>3. ASSUME NEW c \in {[check[w] EXCEPT !.pc = "creds", !.creds = stored],
                        [check[w] EXCEPT !.pc = "keep"]},
             Becomes(w, c), UNCHANGED <<loop, forced>>
      PROVE  IInv'
  <2>1. /\ c \in Check /\ c.pc \in {"creds", "keep"}
        /\ c.force = check[w].force /\ c.prev = check[w].prev
    BY <1>3, Unpacked DEF Check
  <2>2. Fine(c)
    BY <2>1, Unpacked DEF Fine, Blamed, AllFine
  <2> QED
    BY <1>1, <1>3, <2>1, <2>2, OnKeeps, Unpacked, Assembled DEF ReadCredential
<1> QED
  BY <1>2, <1>3 DEF ReadCredential

LEMMA ReadKeptKeeps == ASSUME IInv, NEW w \in Slots, ReadKept(w) PROVE IInv'
<1>1. mishaps' \in 0..MaxMishaps
  BY Unpacked DEF ReadKept
<1>2. CASE Over(w, FALSE)
  BY <1>1, <1>2, Unpacked, OverKeeps, Assembled DEF ReadKept
<1>3. CASE /\ Becomes(w, [check[w] EXCEPT !.pc = "kept", !.prev = row])
           /\ UNCHANGED <<loop, forced>>
  <2> DEFINE c == [check[w] EXCEPT !.pc = "kept", !.prev = row]
  <2>1. c \in Check /\ c.pc = "kept" /\ c.force = check[w].force /\ c.prev = row
    BY Unpacked DEF Check
  <2> HIDE DEF c
  <2>2. Fine(c)
    BY <2>1, Unpacked DEF Fine, Blamed
  <2>3. Becomes(w, c)
    BY <1>3 DEF c
  <2> QED
    BY <1>1, <1>3, <2>1, <2>2, <2>3, OnKeeps, Unpacked, Assembled DEF ReadKept
<1> QED
  BY <1>2, <1>3 DEF ReadKept

LEMMA WriteKeptKeeps == ASSUME IInv, NEW w \in Slots, WriteKept(w) PROVE IInv'
<1>1. mishaps' \in 0..MaxMishaps
  BY Unpacked DEF WriteKept
<1>2. row' \in Row /\ Sound(row')
  BY Unpacked, BlankIsSound DEF WriteKept, Check, Statuses, AllFine, Fine
<1> QED
  BY <1>1, <1>2, Unpacked, OverKeeps, Assembled DEF WriteKept

LEMMA ReadPreviousKeeps ==
    ASSUME IInv, NEW w \in Slots, ReadPrevious(w)
    PROVE  IInv'
<1>1. mishaps' \in 0..MaxMishaps /\ owed' \in [streak : 0..MaxStreak, ticks : Nat]
  BY Unpacked DEF ReadPrevious
<1> DEFINE seen == [row EXCEPT !.status = "unknown"]
<1>2. seen \in Row /\ Sound(seen)
  BY Unpacked DEF Row, Sound, Statuses, Clearing
<1>3. InForce(row) \in BOOLEAN
  BY Unpacked DEF InForce, Row
<1> HIDE DEF seen
<1>4. ASSUME NEW c \in {[check[w] EXCEPT !.pc = "probing", !.prev = seen,
                            !.held = ~ check[w].force /\ InForce(row)],
                        [check[w] EXCEPT !.pc = "probing"]},
             Becomes(w, c)
      PROVE  IInv'
  <2>1. /\ c \in Check /\ c.pc = "probing" /\ c.force = check[w].force
        /\ c.prev \in {seen, check[w].prev}
    BY <1>2, <1>3, <1>4, Unpacked DEF Check
  <2>2. Fine(c)
    BY <1>2, <2>1, Unpacked DEF Fine, Blamed, AllFine
  <2> QED
    BY <1>1, <1>4, <2>1, <2>2, OnKeeps, Unpacked, Assembled DEF ReadPrevious
<1> QED
  BY <1>4 DEF ReadPrevious, seen

LEMMA ProbeKeeps ==
    ASSUME IInv, NEW w \in Slots, NEW k \in Conditions, NEW secret \in Secrets,
           Probe(w, k, secret)
    PROVE  IInv'
<1>1. PICK v \in Verdicts(check[w], k, secret) :
          Becomes(w, [check[w] EXCEPT !.pc = "answered", !.verdict = v,
                         !.held = check[w].held /\ v = "auth_failed"])
  BY DEF Probe
<1>2. v \in Statuses
  BY <1>1 DEF Verdicts, HeldVerdicts, TcpVerdicts, AskedVerdicts, JsonVerdict,
              LegacyVerdict, OddVerdicts, Statuses, Conditions
<1>3. v = "auth_failed" => check[w].creds # None
  BY <1>1 DEF Verdicts, TcpVerdicts
<1> DEFINE c == [check[w] EXCEPT !.pc = "answered", !.verdict = v,
                     !.held = check[w].held /\ v = "auth_failed"]
<1>4. /\ c \in Check /\ c.pc = "answered" /\ c.force = check[w].force
      /\ c.prev = check[w].prev /\ c.creds = check[w].creds /\ c.verdict = v
  BY <1>2, Unpacked DEF Check
<1>5. Becomes(w, c)
  BY <1>1
<1> HIDE DEF c
<1>6. Fine(c)
  BY <1>3, <1>4, Unpacked DEF Fine, Blamed, AllFine
<1> QED
  BY <1>4, <1>5, <1>6, OnKeeps, Unpacked, Assembled DEF Probe

LEMMA RereadKeeps == ASSUME IInv, NEW w \in Slots, Reread(w) PROVE IInv'
<1>1. mishaps' \in 0..MaxMishaps
  BY Unpacked DEF Reread
<1>2. PICK b \in BOOLEAN :
          \/ Becomes(w, [check[w] EXCEPT !.pc = "reread", !.cleared = b])
          \/ Becomes(w, [check[w] EXCEPT !.pc = "reread"])
  BY DEF Reread
<1>3. ASSUME NEW c \in {[check[w] EXCEPT !.pc = "reread", !.cleared = b],
                        [check[w] EXCEPT !.pc = "reread"]},
             Becomes(w, c)
      PROVE  IInv'
  <2>1. /\ c \in Check /\ c.pc = "reread" /\ c.force = check[w].force
        /\ c.prev = check[w].prev /\ c.creds = check[w].creds
        /\ c.verdict = check[w].verdict /\ c.held = check[w].held
    BY <1>3, Unpacked DEF Check
  <2>2. Fine(c)
    BY <2>1, Unpacked DEF Fine, Blamed, AllFine, Reread
  <2> QED
    BY <1>1, <1>3, <2>1, <2>2, OnKeeps, Unpacked, Assembled DEF Reread
<1> QED
  BY <1>2, <1>3

LEMMA WriteKeeps == ASSUME IInv, NEW w \in Slots, Write(w) PROVE IInv'
<1>1. mishaps' \in 0..MaxMishaps
  BY Unpacked DEF Write
<1>2. row' \in Row /\ Sound(row')
  <2>1. NewRow(check[w]) \in Row /\ Sound(NewRow(check[w]))
    BY NewRowIsSound, Unpacked DEF Write, AllFine
  <2> QED
    BY <2>1, Unpacked DEF Write
<1>3. owed' \in [streak : 0..MaxStreak, ticks : Nat]
  <2> DEFINE n == Longer(owed.streak)
  <2>1. n \in 1..MaxStreak
    BY Unpacked, LongerType
  <2>2. Wait(n) \in Nat
    BY <2>1, WaitIsNat
  <2>3. [streak |-> n, ticks |-> Wait(n)] \in [streak : 0..MaxStreak, ticks : Nat]
    BY <2>1, <2>2, HealthAssumption
  <2>4. owed' \in {NothingOwed, [streak |-> n, ticks |-> Wait(n)], owed}
    BY DEF Write
  <2> HIDE DEF n
  <2> QED
    BY <2>3, <2>4, Unpacked
<1>4. PICK raised \in BOOLEAN : Over(w, raised)
  BY DEF Write
<1> QED
  BY <1>1, <1>2, <1>3, <1>4, Unpacked, OverKeeps, Assembled DEF Write

LEMMA ClearHoldKeeps == ASSUME IInv, ClearHold PROVE IInv'
<1>1. mishaps' \in 0..MaxMishaps
  BY Unpacked DEF ClearHold
<1>2. row' \in Row /\ Sound(row')
  <2>1. row.status \in Statuses
    BY Unpacked DEF Row
  <2>2. Blank(TRUE, row.status) \in Row /\ Sound(Blank(TRUE, row.status))
    BY <2>1, BlankIsSound
  <2> QED
    BY <2>2, Unpacked DEF ClearHold
<1>3. AllFine' /\ Turns'
  BY Unpacked DEF ClearHold, Turns, AllFine
<1> QED
  BY <1>1, <1>2, <1>3, Unpacked, Assembled DEF ClearHold

LEMMA RestartKeeps == ASSUME IInv, Restart PROVE IInv'
<1>1. mishaps' \in 0..MaxMishaps
  BY Unpacked DEF Restart
<1>2. row' \in Row /\ Sound(row')
  BY Unpacked, AbsentIsSound DEF Restart
<1>3. \A w \in Slots : check'[w] = NoCheck
  BY DEF Restart
<1>4. AllFine'
  BY <1>3, NoCheckType, NoCheckIsFine DEF Restart, AllFine
<1>5. Turns' /\ loop' \in Loops
  BY <1>3, TurnIsSlot, NoCheckType DEF Restart, Turns, Loops
<1> QED
  BY <1>1, <1>2, <1>4, <1>5, Unpacked, Assembled DEF Restart

LEMMA TickKeeps == ASSUME IInv, Tick PROVE IInv'
<1>1. \A n \in Nat : Less(n) \in Nat
  BY DEF Less
<1>2. \A r \in Row : Sound(r) =>
          /\ [r EXCEPT !.retry = Sooner(@)] \in Row
          /\ Sound([r EXCEPT !.retry = Sooner(@)])
  BY SoonerType DEF Row, Sound, Sooner
<1>3. row' \in Row /\ Sound(row')
  BY <1>2, Unpacked DEF Tick
<1>4. ASSUME NEW w \in Slots
      PROVE  /\ check'[w] \in Check /\ Fine(check'[w])
             /\ check'[w].pc = check[w].pc /\ check'[w].force = check[w].force
  <2> DEFINE q == [check[w].prev EXCEPT !.retry = Sooner(@)]
  <2>1. check'[w] = [check[w] EXCEPT !.prev = q]
    BY <1>4, Unpacked DEF Tick, Check
  <2>2. q \in Row /\ Sound(q)
    BY <1>2, <1>4, Unpacked DEF Check, AllFine, Fine
  <2> HIDE DEF q
  <2>3. /\ check'[w] \in Check /\ check'[w].prev = q
        /\ check'[w].pc = check[w].pc /\ check'[w].force = check[w].force
        /\ check'[w].verdict = check[w].verdict
        /\ check'[w].held = check[w].held /\ check'[w].creds = check[w].creds
    BY <1>4, <2>1, <2>2, Unpacked DEF Check
  <2> QED
    BY <1>4, <2>2, <2>3, Unpacked DEF AllFine, Fine, Blamed
<1>5. AllFine'
  BY <1>4 DEF Tick, AllFine
<1>6. loop' \in Loops /\ loop'.at = loop.at
  BY <1>1, Unpacked DEF Tick, Loops
<1>7. owed' \in [streak : 0..MaxStreak, ticks : Nat]
  BY <1>1, Unpacked DEF Tick
<1>8. Turns'
  BY <1>4, <1>6, TurnIsSlot, Unpacked DEF Tick, Turns
<1> QED
  BY <1>3, <1>5, <1>6, <1>7, <1>8, Unpacked, Assembled DEF Tick

\* The actions that touch neither a check nor the row, or empty the row.
LEMMA OthersKeep ==
    ASSUME IInv,
           \/ LoopWakes \/ AskForSweep \/ RemoveDevice \/ RegisterDevice
           \/ \E p \in Passwords \cup {None} : WriteCredential(p)
           \/ UNCHANGED vars
    PROVE  IInv'
<1>1. check' = check => AllFine'
  BY Unpacked DEF AllFine
<1>2. CASE LoopWakes
  BY <1>1, <1>2, Unpacked, Assembled DEF LoopWakes, Turns, Loops
<1>3. CASE AskForSweep
  BY <1>1, <1>3, Unpacked, Assembled DEF AskForSweep, Turns
<1>4. CASE RemoveDevice
  BY <1>1, <1>4, Unpacked, AbsentIsSound, Assembled DEF RemoveDevice, Turns
<1>5. CASE RegisterDevice
  BY <1>1, <1>5, Unpacked, Assembled DEF RegisterDevice, Turns
<1>6. CASE \E p \in Passwords \cup {None} : WriteCredential(p)
  BY <1>1, <1>6, Unpacked, Assembled DEF WriteCredential, Turns
<1>7. CASE UNCHANGED vars
  BY <1>1, <1>7, Unpacked, Assembled DEF vars, Turns
<1> QED
  BY <1>2, <1>3, <1>4, <1>5, <1>6, <1>7

LEMMA StepInv == IInv /\ [Next]_vars => IInv'
<1> SUFFICES ASSUME IInv, [Next]_vars PROVE IInv'
  OBVIOUS
<1>1. CASE Monitor
  BY <1>1, AcquireKeeps, ReadCredentialKeeps, ReadKeptKeeps, WriteKeptKeeps,
     ReadPreviousKeeps, ProbeKeeps, RereadKeeps, WriteKeeps, OthersKeep
  DEF Monitor, CheckSteps
<1>2. CASE ClearHold \/ Restart \/ Tick \/ \E s \in Strays : Astray(s)
  BY <1>2, ClearHoldKeeps, RestartKeeps, TickKeeps, AstrayKeeps
<1> QED
  BY <1>1, <1>2, OthersKeep DEF Next, Others

-----------------------------------------------------------------------------
(* The theorems.                                                           *)

(* The sweeps take turns, and every step of a check leaves a row and a     *)
(* deadline of the right shape, whatever fails.                            *)
THEOREM TypeCorrect == Spec => []TypeOK
<1>1. IInv => TypeOK
  BY DEF IInv
<1> QED
  BY InitInv, StepInv, <1>1, PTL DEF Spec

(* A deadline always belongs to a refusal of a password that nothing has   *)
(* answered since, although the row is written from what was read before   *)
(* the probe, and by several checks at once where sweeps ended early.      *)
THEOREM HoldsAreVerdicts == Spec => []HoldIsAVerdict
<1>1. IInv => HoldIsAVerdict
  BY DEF IInv
<1> QED
  BY InitInv, StepInv, <1>1, PTL DEF Spec
-----------------------------------------------------------------------------
(* What the refusals impose is kept: the invariant behind NoBurn.          *)

\* A row imposes on the next refusal, and on the next probe, at least what
\* the refusals so far impose.
Serves(r) ==
    owed # NothingOwed =>
        /\ r.there /\ owed.streak <= r.streak
        /\ owed.ticks > 0 =>
              \E t \in r.retry : owed.ticks <= t /\ t <= Ceiling

\* There is no password that a sweep could put to the device.
Lost == stored = None /\ \A w \in Slots : check[w].creds = None

\* The row that a check has read serves what is owed; while the check works
\* on its row the deadline goes only where the debt goes too.
Backed(c) ==
    /\ c.pc \in {"kept", "probing", "answered", "reread"} => Serves(c.prev)
    /\ c.pc \in {"probing", "answered", "reread"}
          /\ c.prev.retry # {} /\ owed # NothingOwed =>
          row.there /\ row.retry # {}
    /\ c.pc = "kept" /\ owed # NothingOwed => c.prev = row
    /\ c.cleared => owed = NothingOwed
    /\ c.pc = "probing" /\ ~ c.held /\ ~ c.force => owed.ticks = 0

Covered == Serves(row) /\ \A w \in Slots : Backed(check[w])

\* Whether the hold was cleared is known at the end of a check only.
Fresh(c) == c.pc # "reread" => ~ c.cleared

BInv ==
    /\ IInv
    /\ ~ registered => stored = None
    /\ \A w \in Slots : Fresh(check[w])
    /\ Lost \/ Covered

\* A longer streak never means a shorter wait: the powers of two count the
\* subsets of an interval.
LEMMA PowerGrows == \A m, n \in Nat : m <= n => 2^m <= 2^n
<1> SUFFICES ASSUME NEW m \in Nat, NEW n \in Nat, m <= n PROVE 2^m <= 2^n
  OBVIOUS
<1>1. \A k \in Nat : /\ IsFiniteSet(SUBSET (1..k))
                     /\ Cardinality(SUBSET (1..k)) = 2^k
  <2> TAKE k \in Nat
  <2>1. IsFiniteSet(1..k) /\ Cardinality(1..k) = k
    BY FS_Interval
  <2> QED
    BY <2>1, FS_SUBSET
<1>2. SUBSET (1..m) \subseteq SUBSET (1..n)
  OBVIOUS
<1>3. Cardinality(SUBSET (1..m)) <= Cardinality(SUBSET (1..n))
  BY <1>1, <1>2, FS_Subset
<1> QED
  BY <1>1, <1>3

LEMMA Scaled ==
    ASSUME NEW k \in Nat, NEW p \in Nat, NEW q \in Nat, p <= q
    PROVE  k * p <= k * q
<1>1. PICK d \in Nat : q = p + d
  <2>1. q - p \in Nat /\ q = p + (q - p)
    OBVIOUS
  <2> QED
    BY <2>1
<1>2. k * q = k * p + k * d
  BY <1>1
<1>3. k * d \in Nat /\ k * p \in Nat
  BY <1>1
<1> QED
  BY <1>2, <1>3

LEMMA WaitGrows ==
    ASSUME NEW m \in 1..MaxStreak, NEW n \in 1..MaxStreak, m <= n
    PROVE  Wait(m) <= Wait(n) /\ Wait(n) <= Ceiling
<1> DEFINE p == 2^(m - 1)
           q == 2^(n - 1)
<1>1. m - 1 \in Nat /\ n - 1 \in Nat /\ m - 1 <= n - 1
  BY HealthAssumption
<1>2. p \in Nat /\ q \in Nat /\ p <= q
  BY <1>1, PowerIsNat, PowerGrows
<1>3. Wait(m) = Smaller(Interval * p, Ceiling)
      /\ Wait(n) = Smaller(Interval * q, Ceiling)
  BY DEF Wait
<1> HIDE DEF p, q
<1>4. Interval * p <= Interval * q /\ Interval * p \in Nat /\ Interval * q \in Nat
  BY <1>2, Scaled, HealthAssumption
<1> QED
  BY <1>3, <1>4, HealthAssumption DEF Smaller

\* Where nothing is owed, everything serves.
LEMMA FreeIsCovered ==
    ASSUME owed' = NothingOwed
    PROVE  Covered'
  BY DEF Covered, Backed, Serves, NothingOwed

LEMMA NoCheckIsIdle ==
    /\ NoCheck.pc = "none" /\ ~ NoCheck.cleared /\ NoCheck.creds = None
    /\ Fresh(NoCheck)
  BY DEF NoCheck, Fresh

\* A check that has not read its row is backed.
LEMMA IdleIsBacked ==
    ASSUME NEW c, c.pc \in {"none", "listed", "creds", "keep"}, ~ c.cleared
    PROVE  Backed(c)'
  BY DEF Backed

\* A check that stays as it is, while the row and the debt do.
LEMMA StaysBacked ==
    ASSUME UNCHANGED <<row, owed>>, NEW c, Backed(c)
    PROVE  Backed(c)'
  BY DEF Backed, Serves

\* One check moves, and the row and the debt stay.
LEMMA OneCovers ==
    ASSUME BInv, UNCHANGED <<row, owed, stored>>, NEW w \in Slots, NEW c,
           check'[w] = c, \A v \in Slots \ {w} : check'[v] = check[v],
           Fresh(c), c.creds \in {None, stored, check[w].creds},
           Covered => Backed(c)'
    PROVE  (Lost' \/ Covered') /\ \A v \in Slots : Fresh(check[v])'
<1>1. \A v \in Slots : Fresh(check[v])'
  BY DEF BInv, Fresh
<1>2. CASE Lost
  BY <1>1, <1>2 DEF Lost
<1>3. CASE Covered
  <2>1. \A v \in Slots \ {w} : Backed(check[v])'
    BY <1>3, StaysBacked DEF Covered, Backed, Serves
  <2>2. Backed(check[w])'
    BY <1>3 DEF Backed, Serves
  <2> QED
    BY <1>1, <1>3, <2>1, <2>2 DEF Covered, Serves
<1> QED
  BY <1>1, <1>2, <1>3 DEF BInv

\* A failed lookup or an undecided probe carries the deadline on; a refusal
\* makes a longer one of it.
LEMMA NewRowServes ==
    ASSUME BInv, Covered, NEW w \in Slots, NEW c, c = check[w],
           c.pc = "reread", row' = NewRow(c),
           owed' = IF c.verdict \in Clearing THEN NothingOwed
                   ELSE IF Refused(c)
                   THEN LET n == Longer(owed.streak)
                        IN  [streak |-> n, ticks |-> Wait(n)]
                   ELSE owed
    PROVE  Serves(row)'
<1>1. /\ c.prev \in Row /\ Serves(c.prev)
      /\ owed \in [streak : 0..MaxStreak, ticks : Nat]
      /\ c.cleared => owed = NothingOwed
  BY Unpacked DEF BInv, Covered, Backed, Check
<1>2. CASE c.verdict \in Clearing
  BY <1>2 DEF Serves, NothingOwed
<1>3. CASE c.verdict \notin Clearing /\ c.cleared
  BY <1>1, <1>3 DEF Serves, NothingOwed, Refused
<1>4. CASE ~ Forgiven(c) /\ Refused(c)
  <2> DEFINE n == Longer(owed.streak)
             k == Longer(c.prev.streak)
  <2>1. owed' = [streak |-> n, ticks |-> Wait(n)]
    BY <1>4 DEF Forgiven
  <2>2. row'.there /\ row'.streak = k /\ row'.retry = RetryAfter(k)
    BY <1>4 DEF NewRow, Forgiven, Refused
  <2>3. owed.streak <= c.prev.streak
    BY <1>1 DEF Serves, NothingOwed, Row
  <2>4. n \in 1..MaxStreak /\ k \in 1..MaxStreak
    BY <1>1, LongerType DEF Row
  <2>5. n <= k
    BY <1>1, <2>3, HealthAssumption DEF Row, Longer, Smaller
  <2>6. owed'.streak = n /\ owed'.ticks = Wait(n)
    BY <2>1
  <2> HIDE DEF n, k
  <2>7. /\ Wait(n) <= Wait(k) /\ Wait(k) <= Ceiling /\ Wait(n) \in Nat
        /\ Wait(k) \in Nat
    BY <2>4, <2>5, WaitGrows, WaitIsNat
  <2>8. owed'.ticks > 0 => RetryAfter(k) = {Wait(k)}
    BY <2>6, <2>7, HealthAssumption DEF RetryAfter
  <2> QED
    BY <2>2, <2>5, <2>6, <2>7, <2>8 DEF Serves
<1>5. CASE ~ Forgiven(c) /\ ~ Refused(c)
  <2>1. /\ owed' = owed /\ row'.there /\ row'.streak = c.prev.streak
        /\ row'.retry \in {c.prev.retry, c.prev.retry \ {0}}
    BY <1>5 DEF NewRow, Carried, Forgiven
  <2>2. \A t \in c.prev.retry : owed.ticks > 0 /\ owed.ticks <= t => t # 0
    BY <1>1 DEF Row
  <2>3. owed # NothingOwed /\ owed.ticks > 0 =>
          \E t \in row'.retry : owed.ticks <= t /\ t <= Ceiling
    BY <1>1, <2>1, <2>2 DEF Serves
  <2> QED
    BY <1>1, <2>1, <2>3 DEF Serves
<1> QED
  BY <1>2, <1>3, <1>4, <1>5 DEF Forgiven

\* Between its reading and its writing of the row a check gives way, but the
\* others are not at it: where one of them is, nothing is owed.
LEMMA AloneAtTheRow ==
    ASSUME BInv, NEW w \in Slots, GivesWay(w), ~ Overlapped(w)
    PROVE  \A v \in Slots \ {w} :
              check[v].pc \in {"none", "listed"} /\ ~ check[v].cleared
<1> TAKE v \in Slots \ {w}
<1>1. check[v].pc \in {"none", "listed"}
  BY Unpacked DEF BInv, GivesWay, Midway, Overlapped, Check
<1> QED
  BY <1>1 DEF BInv, Fresh

LEMMA WriteCovers ==
    ASSUME BInv, NEW w \in Slots, GivesWay(w), Write(w)
    PROVE  (Lost' \/ Covered') /\ \A v \in Slots : Fresh(check[v])'
<1>1. /\ check'[w] = NoCheck /\ \A v \in Slots \ {w} : check'[v] = check[v]
      /\ stored' = stored /\ check[w].pc = "reread"
  <2>1. PICK raised \in BOOLEAN : Over(w, raised)
    BY DEF Write
  <2> QED
    BY <2>1, OverKeeps DEF Write, BInv
<1>2. CASE UNCHANGED <<row, owed>>
  BY <1>1, <1>2, OneCovers, NoCheckIsIdle, IdleIsBacked
<1>3. CASE ~ UNCHANGED <<row, owed>>
  <2>1. \A v \in Slots : Fresh(check[v])'
    BY <1>1, NoCheckIsIdle DEF BInv, Fresh
  <2>2. CASE owed' = NothingOwed
    BY <2>1, <2>2, FreeIsCovered
  <2>3. CASE owed' # NothingOwed
    <3>1. /\ ~ Overlapped(w) /\ row' = NewRow(check[w])
          /\ owed' = IF check[w].verdict \in Clearing THEN NothingOwed
                     ELSE IF Refused(check[w])
                     THEN LET n == Longer(owed.streak)
                          IN  [streak |-> n, ticks |-> Wait(n)]
                     ELSE owed
      BY <1>3, <2>3 DEF Write
    <3>2. CASE Lost
      BY <1>1, <2>1, <3>2, NoCheckIsIdle DEF Lost
    <3>3. CASE Covered
      <4>1. Serves(row)'
        BY <1>1, <3>1, <3>3, NewRowServes
      <4>2. \A v \in Slots : check'[v].pc \in {"none", "listed"} /\ ~ check'[v].cleared
        BY <1>1, <3>1, AloneAtTheRow, NoCheckIsIdle
      <4>3. \A v \in Slots : Backed(check[v])'
        BY <4>2 DEF Backed
      <4> QED
        BY <2>1, <4>1, <4>3 DEF Covered
    <3> QED
      BY <2>1, <3>2, <3>3 DEF BInv
  <2> QED
    BY <2>2, <2>3
<1> QED
  BY <1>2, <1>3

\* The row that a failed lookup writes back is the row as it is.
LEMMA WriteKeptCovers ==
    ASSUME BInv, NEW w \in Slots, WriteKept(w)
    PROVE  (Lost' \/ Covered') /\ \A v \in Slots : Fresh(check[v])'
<1>1. /\ check'[w] = NoCheck /\ \A v \in Slots \ {w} : check'[v] = check[v]
      /\ UNCHANGED <<stored, owed>> /\ check[w].pc = "kept"
  BY OverKeeps DEF WriteKept, BInv
<1>2. CASE row' = row
  BY <1>1, <1>2, OneCovers, NoCheckIsIdle, IdleIsBacked
<1>3. CASE owed = NothingOwed \/ Lost
  <2>1. \A v \in Slots : Fresh(check[v])'
    BY <1>1, NoCheckIsIdle DEF BInv, Fresh
  <2>2. Lost => Lost'
    BY <1>1, NoCheckIsIdle DEF Lost
  <2> QED
    BY <1>1, <1>3, <2>1, <2>2, FreeIsCovered
<1>4. CASE Covered /\ owed # NothingOwed
  BY <1>2, <1>4, <1>1 DEF Covered, Backed, Serves, WriteKept
<1> QED
  BY <1>3, <1>4 DEF BInv

\* The steps of a check before its last.
LEMMA ChecksCover ==
    ASSUME BInv, NEW w \in Slots,
           \/ ReadCredential(w) \/ ReadKept(w) \/ ReadPrevious(w) \/ Reread(w)
           \/ \E k \in Conditions, secret \in Secrets : Probe(w, k, secret)
    PROVE  (Lost' \/ Covered') /\ \A v \in Slots : Fresh(check[v])'
<1>0. /\ check[w] \in Check /\ row \in Row /\ Fresh(check[w])
      /\ owed \in [streak : 0..MaxStreak, ticks : Nat]
      /\ Covered => Backed(check[w]) /\ Serves(row)
      /\ AllFine
  BY Unpacked DEF BInv, Covered
<1>1. ASSUME NEW c, Becomes(w, c)
      PROVE  check'[w] = c /\ \A v \in Slots \ {w} : check'[v] = check[v]
  BY <1>0, <1>1 DEF Becomes, AllFine
<1>2. ASSUME Over(w, FALSE), UNCHANGED <<row, owed, stored>>, check[w].pc # "none"
      PROVE  (Lost' \/ Covered') /\ \A v \in Slots : Fresh(check[v])'
  <2>1. check'[w] = NoCheck /\ \A v \in Slots \ {w} : check'[v] = check[v]
    BY <1>2, OverKeeps DEF BInv
  <2> QED
    BY <1>2, <2>1, OneCovers, NoCheckIsIdle, IdleIsBacked
<1>3. CASE ReadCredential(w)
  <2>1. ASSUME NEW c \in {[check[w] EXCEPT !.pc = "creds", !.creds = stored],
                          [check[w] EXCEPT !.pc = "keep"]},
               Becomes(w, c)
        PROVE  (Lost' \/ Covered') /\ \A v \in Slots : Fresh(check[v])'
    <3>1. /\ c.pc \in {"creds", "keep"} /\ ~ c.cleared
          /\ c.creds \in {stored, check[w].creds}
      BY <1>0, <1>3, <2>1 DEF Check, ReadCredential, Fresh
    <3>2. Backed(c)' /\ Fresh(c)
      BY <3>1, IdleIsBacked DEF Fresh
    <3> QED
      BY <1>1, <1>3, <2>1, <3>1, <3>2, OneCovers DEF ReadCredential
  <2> QED
    BY <1>2, <1>3, <2>1 DEF ReadCredential
<1>4. CASE ReadKept(w)
  <2>1. ASSUME NEW c, c = [check[w] EXCEPT !.pc = "kept", !.prev = row],
               Becomes(w, c)
        PROVE  (Lost' \/ Covered') /\ \A v \in Slots : Fresh(check[v])'
    <3>1. /\ c.pc = "kept" /\ c.prev = row /\ ~ c.cleared
          /\ c.creds = check[w].creds
      BY <1>0, <1>4, <2>1 DEF Check, ReadKept, Fresh
    <3>2. UNCHANGED <<row, owed, stored>>
      BY <1>4 DEF ReadKept
    <3>3. (Covered => Backed(c)') /\ Fresh(c)
      BY <1>0, <3>1, <3>2 DEF Backed, Serves, Fresh
    <3> QED
      BY <1>1, <2>1, <3>1, <3>2, <3>3, OneCovers
  <2> QED
    BY <1>2, <1>4, <2>1 DEF ReadKept
<1>5. CASE ReadPrevious(w)
  <2> DEFINE seen == [row EXCEPT !.status = "unknown"]
  <2>1. CASE owed' = NothingOwed
    <3>1. PICK c \in {[check[w] EXCEPT !.pc = "probing", !.prev = seen,
                           !.held = ~ check[w].force /\ InForce(row)],
                      [check[w] EXCEPT !.pc = "probing"]} : Becomes(w, c)
      BY <1>5 DEF ReadPrevious
    <3>2. ~ c.cleared
      BY <1>0, <1>5, <3>1 DEF Check, ReadPrevious, Fresh
    <3>3. \A v \in Slots : Fresh(check[v])'
      BY <1>1, <3>1, <3>2 DEF BInv, Fresh
    <3> QED
      BY <2>1, <3>3, FreeIsCovered
  <2>2. CASE owed' # NothingOwed
    <3>1. /\ Becomes(w, [check[w] EXCEPT !.pc = "probing", !.prev = seen,
                            !.held = ~ check[w].force /\ InForce(row)])
          /\ UNCHANGED <<row, owed, stored>>
      BY <1>5, <2>2 DEF ReadPrevious
    <3>0. PICK c : c = [check[w] EXCEPT !.pc = "probing", !.prev = seen,
                            !.held = ~ check[w].force /\ InForce(row)]
      OBVIOUS
    <3>2. /\ c.pc = "probing" /\ ~ c.cleared /\ c.creds = check[w].creds
          /\ c.prev = seen /\ c.force = check[w].force
          /\ c.held = (~ check[w].force /\ InForce(row))
      BY <1>0, <1>5, <3>0 DEF Check, ReadPrevious, Fresh
    <3>3. /\ seen.there = row.there /\ seen.streak = row.streak
          /\ seen.retry = row.retry
      BY <1>0 DEF Row
    <3> HIDE DEF seen
    <3>4. Covered => (Serves(row) /\ Serves(c.prev))'
      BY <1>0, <3>1, <3>2, <3>3 DEF Serves
    <3>5. Covered /\ ~ InForce(row) => owed.ticks = 0
      BY <1>0, <2>2, <3>1 DEF Serves, InForce, Row
    <3>6. Covered => Backed(c)'
      BY <1>0, <2>2, <3>1, <3>2, <3>3, <3>4, <3>5 DEF Backed, Serves
    <3>7. Fresh(c)
      BY <3>2 DEF Fresh
    <3> QED
      BY <1>1, <3>0, <3>1, <3>2, <3>6, <3>7, OneCovers
  <2> QED
    BY <2>1, <2>2
<1>6. CASE \E k \in Conditions, secret \in Secrets : Probe(w, k, secret)
  <2>1. PICK k \in Conditions, secret \in Secrets : Probe(w, k, secret)
    BY <1>6
  <2>2. PICK v \in Verdicts(check[w], k, secret) :
            Becomes(w, [check[w] EXCEPT !.pc = "answered", !.verdict = v,
                           !.held = check[w].held /\ v = "auth_failed"])
    BY <2>1 DEF Probe
  <2>0. PICK c : c = [check[w] EXCEPT !.pc = "answered", !.verdict = v,
                          !.held = check[w].held /\ v = "auth_failed"]
    OBVIOUS
  <2>3. /\ c.pc = "answered" /\ c.prev = check[w].prev
        /\ ~ c.cleared /\ c.creds = check[w].creds
        /\ check[w].pc = "probing"
    BY <1>0, <2>0, <2>1 DEF Check, Probe, Fresh
  <2>4. Becomes(w, c) /\ UNCHANGED <<row, owed, stored>>
    BY <2>0, <2>1, <2>2 DEF Probe
  <2>5. (Covered => Backed(c)') /\ Fresh(c)
    BY <1>0, <2>3, <2>4 DEF Backed, Serves, Fresh
  <2> QED
    BY <1>1, <2>3, <2>4, <2>5, OneCovers
<1>7. CASE Reread(w)
  <2> DEFINE gone == /\ check[w].prev.there /\ check[w].prev.retry # {}
                     /\ ~ row.there \/ row.retry = {}
  <2>1. ASSUME NEW c \in {[check[w] EXCEPT !.pc = "reread", !.cleared = gone],
                          [check[w] EXCEPT !.pc = "reread"]},
               Becomes(w, c)
        PROVE  (Lost' \/ Covered') /\ \A v \in Slots : Fresh(check[v])'
    <3>1. /\ c.pc = "reread" /\ c.prev = check[w].prev
          /\ c.creds = check[w].creds /\ (c.cleared => gone)
          /\ check[w].pc = "answered"
      BY <1>0, <1>7, <2>1 DEF Check, Reread, Fresh
    <3>2. UNCHANGED <<row, owed, stored>>
      BY <1>7 DEF Reread
    <3>3. (Covered => Backed(c)') /\ Fresh(c)
      BY <1>0, <3>1, <3>2 DEF Backed, Serves, Fresh
    <3> QED
      BY <1>1, <2>1, <3>1, <3>2, <3>3, OneCovers
  <2> QED
    BY <1>7, <2>1 DEF Reread
<1> QED
  BY <1>3, <1>4, <1>5, <1>6, <1>7

\* A sweep begins or ends, and its check comes, or goes astray as it is.
LEMMA SweepsCover ==
    ASSUME BInv,
           \/ \E force \in BOOLEAN : Acquire(force)
           \/ \E s \in Strays : Astray(s)
    PROVE  (Lost' \/ Covered') /\ \A v \in Slots : Fresh(check[v])'
<1>1. ASSUME NEW force \in BOOLEAN, Acquire(force)
      PROVE  (Lost' \/ Covered') /\ \A v \in Slots : Fresh(check[v])'
  <2>0. PICK c : c = [NoCheck EXCEPT !.pc = "listed", !.force = force]
    OBVIOUS
  <2>1. UNCHANGED <<row, owed, stored>> /\ Turn \in Slots /\ AllFine
    BY <1>1, TurnIsSlot, Unpacked DEF Acquire, BInv
  <2>2. CASE check' = check
    BY <2>1, <2>2, OneCovers, StaysBacked DEF BInv, Covered
  <2>3. CASE Becomes(Turn, c)
    <3>1. check'[Turn] = c /\ \A v \in Slots \ {Turn} : check'[v] = check[v]
      BY <2>1, <2>3 DEF Becomes, AllFine
    <3>2. c.pc = "listed" /\ ~ c.cleared /\ c.creds = None
      BY <2>0 DEF NoCheck
    <3>3. Backed(c)' /\ Fresh(c)
      BY <3>2, IdleIsBacked DEF Fresh
    <3> QED
      BY <2>1, <3>1, <3>2, <3>3, OneCovers
  <2> QED
    BY <1>1, <2>0, <2>2, <2>3 DEF Acquire
<1>2. ASSUME NEW s \in Strays, Astray(s)
      PROVE  (Lost' \/ Covered') /\ \A v \in Slots : Fresh(check[v])'
  <2>1. /\ check'[s] = check[Turn] /\ check'[Turn] = NoCheck
        /\ \A v \in Slots \ {s, Turn} : check'[v] = check[v]
        /\ UNCHANGED <<row, owed, stored>>
    BY <1>2, AstrayKeeps DEF BInv, Astray
  <2>2. \A v \in Slots : \E u \in Slots :
            check'[v] = NoCheck \/ check'[v] = check[u]
    BY <2>1, TurnIsSlot
  <2>3. \A v \in Slots : Fresh(check[v])'
    BY <2>2, NoCheckIsIdle DEF BInv, Fresh
  <2>4. CASE Lost
    BY <2>1, <2>2, <2>3, <2>4, NoCheckIsIdle DEF Lost
  <2>5. CASE Covered
    <3>1. \A v \in Slots : Backed(check[v])'
      BY <2>1, <2>2, <2>5, NoCheckIsIdle DEF Covered, Backed, Serves
    <3> QED
      BY <2>1, <2>3, <2>5, <3>1 DEF Covered, Serves
  <2> QED
    BY <2>3, <2>4, <2>5 DEF BInv
<1> QED
  BY <1>1, <1>2

\* Every countdown goes down together.
LEMMA TickServes ==
    ASSUME NEW r \in Row, Serves(r), Tick,
           owed \in [streak : 0..MaxStreak, ticks : Nat],
           NEW q, q = [r EXCEPT !.retry = Sooner(@)],
           owed' # NothingOwed
    PROVE  /\ q.there /\ owed'.streak <= q.streak
           /\ owed'.ticks > 0 =>
                 \E t \in q.retry : owed'.ticks <= t /\ t <= Ceiling
<1>1. /\ owed' = [streak |-> owed.streak, ticks |-> Less(owed.ticks)]
      /\ owed = [streak |-> owed.streak, ticks |-> owed.ticks]
  BY DEF Tick
<1>2. owed # NothingOwed
  BY <1>1 DEF NothingOwed, Less
<1>3. /\ q.there = r.there /\ q.streak = r.streak
      /\ q.retry = {Less(t) : t \in r.retry}
  BY DEF Row, Sooner
<1>4. ASSUME owed'.ticks > 0
      PROVE  \E t \in q.retry : owed'.ticks <= t /\ t <= Ceiling
  <2>1. owed.ticks > 0
    BY <1>1, <1>4 DEF Less
  <2>2. PICK t \in r.retry : owed.ticks <= t /\ t <= Ceiling
    BY <1>2, <2>1 DEF Serves
  <2>3. t \in Nat
    BY <2>2 DEF Row
  <2>4. Less(t) \in q.retry
    BY <1>3, <2>2
  <2>5. owed'.ticks <= Less(t) /\ Less(t) <= Ceiling
    BY <1>1, <2>1, <2>2, <2>3, HealthAssumption DEF Less
  <2> QED
    BY <2>4, <2>5
<1> QED
  BY <1>1, <1>2, <1>3, <1>4 DEF Serves

LEMMA TickCovers ==
    ASSUME BInv, Tick
    PROVE  (Lost' \/ Covered') /\ \A v \in Slots : Fresh(check[v])'
<1>1. /\ row \in Row /\ row' = [row EXCEPT !.retry = Sooner(@)]
      /\ owed \in [streak : 0..MaxStreak, ticks : Nat]
      /\ owed' = [owed EXCEPT !.ticks = Less(@)] /\ stored' = stored
      /\ \A w \in Slots : check[w] \in Check
  BY Unpacked DEF BInv, Tick
<1>2. ASSUME NEW w \in Slots
      PROVE  /\ check'[w].pc = check[w].pc /\ check'[w].creds = check[w].creds
             /\ check'[w].cleared = check[w].cleared
             /\ check'[w].held = check[w].held
             /\ check'[w].force = check[w].force
             /\ check[w].prev \in Row
             /\ check'[w].prev = [check[w].prev EXCEPT !.retry = Sooner(@)]
  <2>1. check'[w] = [check[w] EXCEPT !.prev =
                        [check[w].prev EXCEPT !.retry = Sooner(@)]]
    BY <1>1, <1>2 DEF Tick, Check
  <2> QED
    BY <1>1, <1>2, <2>1 DEF Check
<1>3. \A w \in Slots : Fresh(check[w])'
  BY <1>2 DEF BInv, Fresh
<1>4. CASE Lost
  BY <1>1, <1>2, <1>3, <1>4 DEF Lost
<1>5. CASE Covered /\ owed' = NothingOwed
  BY <1>3, <1>5, FreeIsCovered
<1>6. CASE Covered /\ owed' # NothingOwed
  <2>1. owed # NothingOwed /\ (owed.ticks = 0 => owed'.ticks = 0)
    BY <1>1, <1>6 DEF NothingOwed, Less
  <2>2. Serves(row)'
    BY <1>1, <1>6, TickServes DEF Covered, Serves
  <2>3. ASSUME NEW w \in Slots
        PROVE  Backed(check[w])'
    <3>1. Backed(check[w])
      BY <1>6, <2>3 DEF Covered
    <3>2. check[w].pc \in {"kept", "probing", "answered", "reread"} =>
              Serves(check[w].prev)'
      BY <1>1, <1>2, <1>6, <3>1, TickServes DEF Backed, Serves
    <3>3. /\ check'[w].prev.retry # {} => check[w].prev.retry # {}
          /\ row.retry # {} => row'.retry # {}
          /\ row'.there = row.there
      <4>1. \A r \in Row : LET q == [r EXCEPT !.retry = Sooner(@)] IN
                /\ q.there = r.there
                /\ q.retry # {} <=> r.retry # {}
        BY DEF Row, Sooner
      <4>2. check'[w].prev = [check[w].prev EXCEPT !.retry = Sooner(@)]
            /\ check[w].prev \in Row
        BY <1>2, <2>3
      <4> QED
        BY <1>1, <4>1, <4>2
    <3>4. ASSUME check[w].prev = row PROVE check'[w].prev = row'
      <4>1. check'[w].prev = [check[w].prev EXCEPT !.retry = Sooner(@)]
        BY <1>2, <2>3
      <4> QED
        BY <1>1, <3>4, <4>1
    <3> QED
      BY <1>2, <2>1, <3>1, <3>2, <3>3, <3>4 DEF Backed
  <2> QED
    BY <1>3, <2>2, <2>3 DEF Covered
<1> QED
  BY <1>4, <1>5, <1>6 DEF BInv

\* What happens outside the checks.
LEMMA OthersCover ==
    ASSUME BInv,
           \/ LoopWakes \/ AskForSweep \/ ClearHold \/ RemoveDevice
           \/ RegisterDevice \/ Restart
           \/ \E p \in Passwords \cup {None} : WriteCredential(p)
           \/ UNCHANGED vars
    PROVE  (Lost' \/ Covered') /\ \A v \in Slots : Fresh(check[v])'
<1>0. /\ \A v \in Slots : Fresh(check[v])
      /\ Lost \/ Covered
      /\ ~ registered => stored = None
  BY DEF BInv
<1>1. CASE \/ LoopWakes \/ AskForSweep \/ RegisterDevice \/ UNCHANGED vars
  <2>1. UNCHANGED <<stored, row, check, owed>>
    BY <1>1 DEF LoopWakes, AskForSweep, RegisterDevice, vars
  <2> QED
    BY <1>0, <2>1 DEF Lost, Covered, Backed, Serves, Fresh
<1>2. CASE \/ ClearHold \/ RemoveDevice
           \/ \E p \in Passwords \cup {None} : WriteCredential(p)
  <2>1. owed' = NothingOwed /\ check' = check
    BY <1>2 DEF ClearHold, RemoveDevice, WriteCredential
  <2> QED
    BY <1>0, <2>1, FreeIsCovered DEF Fresh
<1>3. CASE Restart
  <2>1. /\ \A w \in Slots : check'[w] = NoCheck
        /\ UNCHANGED <<stored, owed>>
        /\ row' = IF registered THEN row ELSE Absent
    BY <1>3 DEF Restart
  <2>2. \A w \in Slots : Fresh(check[w])'
    BY <2>1, NoCheckIsIdle DEF Fresh
  <2>3. CASE Lost \/ ~ registered
    BY <1>0, <2>1, <2>2, <2>3, NoCheckIsIdle DEF Lost
  <2>4. CASE Covered /\ registered
    <3>1. \A w \in Slots : Backed(check[w])'
      BY <2>1, NoCheckIsIdle DEF Backed
    <3> QED
      BY <2>1, <2>2, <2>4, <3>1 DEF Covered, Serves
  <2> QED
    BY <1>0, <2>3, <2>4
<1> QED
  BY <1>1, <1>2, <1>3

\* A device that is not registered has no account.
LEMMA UnregisteredHasNone ==
    ASSUME BInv, [Next]_vars
    PROVE  ~ registered' => stored' = None
<1>0. ~ registered => stored = None
  BY DEF BInv
<1>1. CASE UNCHANGED <<registered, stored>>
  BY <1>0, <1>1
<1>2. CASE \/ RemoveDevice \/ RegisterDevice
           \/ \E p \in Passwords \cup {None} : WriteCredential(p)
  BY <1>2 DEF RemoveDevice, RegisterDevice, WriteCredential
<1>3. CASE Monitor
  BY <1>1, <1>3 DEF Monitor, CheckSteps, LoopWakes, Acquire, ReadCredential,
     ReadKept, WriteKept, ReadPrevious, Probe, Reread, Write
<1>4. CASE \/ AskForSweep \/ ClearHold \/ Restart \/ Tick \/ UNCHANGED vars
           \/ \E s \in Strays : Astray(s)
  BY <1>1, <1>4 DEF AskForSweep, ClearHold, Restart, Tick, Astray, vars
<1> QED
  BY <1>2, <1>3, <1>4 DEF Next, Others

LEMMA InitBurn == Init => BInv
<1> SUFFICES ASSUME Init PROVE BInv
  OBVIOUS
<1>1. owed = NothingOwed /\ registered /\ \A w \in Slots : check[w] = NoCheck
  BY DEF Init
<1>2. Covered
  BY <1>1, NoCheckIsIdle DEF Covered, Backed, Serves, NothingOwed
<1> QED
  BY <1>1, <1>2, InitInv, NoCheckIsIdle DEF BInv

LEMMA StepBurn == BInv /\ [Next]_vars => BInv'
<1> SUFFICES ASSUME BInv, [Next]_vars PROVE BInv'
  OBVIOUS
<1>1. IInv' /\ (~ registered' => stored' = None)
  BY StepInv, UnregisteredHasNone DEF BInv
<1>2. (Lost' \/ Covered') /\ \A v \in Slots : Fresh(check[v])'
  <2>1. ASSUME NEW w \in Slots, CheckSteps(w)
        PROVE  (Lost' \/ Covered') /\ \A v \in Slots : Fresh(check[v])'
    BY <2>1, ChecksCover, WriteCovers, WriteKeptCovers DEF CheckSteps
  <2>2. CASE Tick
    BY <2>2, TickCovers
  <2> QED
    BY <2>1, <2>2, SweepsCover, OthersCover DEF Next, Others, Monitor
<1> QED
  BY <1>1, <1>2 DEF BInv

(* Under every interval and ceiling, the sweep of the loop does not put a  *)
(* refused password to the device again before the wait that the refusals  *)
(* impose: whatever was removed, restarted or failed meanwhile, the row    *)
(* that the check decided on imposed at least that wait (FR-HLT-012).      *)
THEOREM NoBurns == Spec => NoBurn
<1>1. ASSUME BInv, NEW w \in Slots, check[w].pc = "probing", Asks(check[w]),
             ~ check[w].force
      PROVE  owed.ticks = 0
  BY <1>1 DEF BInv, Asks, Lost, Covered, Backed
<1>2. BInv /\ [Next]_vars =>
        [ \A w \in Slots :
             /\ check[w].pc = "probing" /\ check'[w].pc = "answered"
             /\ Asks(check[w]) /\ ~ check[w].force
             => owed.ticks = 0 ]_vars
  BY <1>1
<1> QED
  BY InitBurn, StepBurn, <1>2, PTL DEF Spec, NoBurn
=============================================================================
