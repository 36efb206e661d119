-------------------------- MODULE AcsFiringsProofs --------------------------
(***************************************************************************)
(* A firing is acted on once, history is not acted on, and what happens in *)
(* service is not lost: for every number of firings, loops and requests,   *)
(* and whatever fails.                                                     *)
(***************************************************************************)
EXTENDS AcsFirings, TLAPS

(* Nothing is known of a firing before it happens, and a process that is   *)
(* down has neither loops nor requests.                                    *)
Bounded ==
    /\ gone <= last /\ hw <= last /\ mark <= last
    /\ \A f \in rows \cup pruned \cup promised : f <= last
    /\ \A f \in Firings : heard[f] > 0 => f <= last
    /\ \A k \in Loops : loop[k].since <= last /\ loop[k].until <= last
    /\ \A h \in Handlers : request[h].max <= last
    /\ ~up => Live = {} /\ Pending = {}

Typed == TypeOK /\ Bounded

(* The records of the model have their types.                              *)
LEMMA Records ==
    /\ \A p \in {"none", "new", "asked", "sleep"} :
          /\ LoopAt(p) \in LoopType
          /\ LoopAt(p).pc = p /\ LoopAt(p).since = 0 /\ LoopAt(p).until = 0
    /\ NoLoop \in LoopType
    /\ NoLoop.pc = "none" /\ NoLoop.since = 0 /\ NoLoop.until = 0
    /\ Idle \in RequestType /\ Idle.pc = "idle" /\ Idle.max = 0
<1>1. 0 \in 0..N
  BY FiringsAssumption DEF FiringsAssumption
<1> QED
  BY <1>1 DEF NoLoop, LoopAt, Idle, RequestAt, LoopType, RequestType

LEMMA RequestRecord ==
    ASSUME NEW p \in {"stopping", "reading", "read"}, NEW on \in BOOLEAN, NEW max \in 0..N
    PROVE  /\ RequestAt(p, on, max) \in RequestType
           /\ RequestAt(p, on, max).pc = p
           /\ RequestAt(p, on, max).max = max /\ RequestAt(p, on, max).on = on
BY DEF RequestAt, RequestType

(* A new loop is the only change to the loops, and has not asked yet.      *)
LEMMA Launch ==
    ASSUME Typed, NEW from \in 0..last, NEW max \in 0..last, Launched(from, max)
    PROVE  /\ running' = TRUE /\ seeded' = FALSE /\ hw' = max /\ mark' = from
           /\ refused' = FALSE
           /\ loop' \in [Loops -> LoopType]
           /\ \A k \in Loops : loop'[k].since <= last /\ loop'[k].until <= last
           /\ \A k \in Loops : loop'[k].pc = "asked" => loop'[k] = loop[k]
           /\ task' \in Loops
           /\ \A k \in Loops : loop'[k].pc # "none" => k = task' \/ loop[k].pc # "none"
           /\ loop'[task'].pc = "new"
<1>1. PICK k \in Loops \ Live :
         /\ task' = k
         /\ loop' = [loop EXCEPT ![k] = LoopAt("new")]
  BY DEF Launched
<1>2. loop \in [Loops -> LoopType] /\ last \in Nat
  BY FiringsAssumption DEF FiringsAssumption, Typed, TypeOK, LoopType
<1> QED
  BY <1>1, <1>2, Records DEF Launched, Typed, Bounded

(* The end of a poll.                                                      *)
LEMMA PollEnd ==
    ASSUME Typed, NEW k \in Loops, PollEnds(k)
    PROVE  /\ loop' \in [Loops -> LoopType]
           /\ loop'[k].pc = IF running THEN "sleep" ELSE "none"
           /\ loop'[k].since = 0 /\ loop'[k].until = 0
           /\ \A j \in Loops \ {k} : loop'[j] = loop[j]
           /\ polls' \in [Firings -> 0..(MaxFaults + 1)]
           /\ \A f \in Firings : \/ polls'[f] = polls[f]
                                 \/ polls'[f] = polls[f] + 1 /\ f <= loop[k].until
<1>1. loop \in [Loops -> LoopType]
  BY DEF Typed, TypeOK, LoopType
<1>2. polls \in [Firings -> 0..(MaxFaults + 1)] /\ MaxFaults \in Nat
  BY FiringsAssumption DEF FiringsAssumption, Typed, TypeOK
<1>3. polls' = [f \in Firings |->
                  IF source = "recorded" /\ f <= loop[k].until /\ polls[f] <= MaxFaults
                  THEN polls[f] + 1 ELSE polls[f]]
  BY DEF PollEnds
<1>4. \A f \in Firings : /\ polls[f] \in Nat /\ polls'[f] \in 0..(MaxFaults + 1)
                         /\ \/ polls'[f] = polls[f]
                            \/ polls'[f] = polls[f] + 1 /\ f <= loop[k].until
  BY <1>2, <1>3
<1>5. polls' \in [Firings -> 0..(MaxFaults + 1)]
  BY <1>3, <1>4
<1>6. /\ loop' \in [Loops -> LoopType]
      /\ loop'[k].pc = IF running THEN "sleep" ELSE "none"
      /\ loop'[k].since = 0 /\ loop'[k].until = 0
      /\ \A j \in Loops \ {k} : loop'[j] = loop[j]
  <2>1. PICK p \in {"sleep", "none"} :
           p = (IF running THEN "sleep" ELSE "none") /\ loop' = [loop EXCEPT ![k] = LoopAt(p)]
    BY Zenon DEF PollEnds
  <2> QED
    BY <1>1, <2>1, Records
<1> QED
  BY <1>4, <1>5, <1>6

(* The page of an answer.                                                  *)
LEMMA PageOfLoop ==
    ASSUME Typed, NEW k \in Loops, NEW from \in Froms(k)
    PROVE  /\ from \in 0..last /\ from >= loop[k].since
           /\ loop[k].since \in 0..last /\ loop[k].until \in 0..last
           /\ source = "recorded" => from <= gone
           /\ source = "log" => from = loop[k].since
           /\ \A f \in Nat : f \in (from + 1)..last => f \in Firings
           /\ last \in 0..N /\ N \in Nat
<1>1. loop[k] \in LoopType /\ last \in 0..N /\ gone \in 0..N /\ N \in Nat
  BY FiringsAssumption DEF FiringsAssumption, Typed, TypeOK, LoopType
<1>2. loop[k].since \in 0..N /\ loop[k].until \in 0..N
  BY <1>1 DEF LoopType
<1>3. loop[k].since <= last /\ loop[k].until <= last /\ gone <= last
  BY DEF Typed, Bounded
<1>4. source \in {"recorded", "log"}
  BY DEF Typed, TypeOK
<1> QED
  BY <1>1, <1>2, <1>3, <1>4 DEF Froms, Firings

(* Hearing counts up, to the cap.                                          *)
LEMMA Hearing ==
    ASSUME Typed, NEW fs
    PROVE  /\ Heard(fs) \in [Firings -> 0..HeardCap]
           /\ \A f \in Firings : f \notin fs => Heard(fs)[f] = heard[f]
           /\ \A f \in Firings : f \in fs /\ heard[f] < 2 => Heard(fs)[f] = heard[f] + 1
           /\ \A f \in Firings : f \in fs => Heard(fs)[f] > 0
           /\ \A f \in Firings : Heard(fs)[f] >= heard[f]
BY DEF Typed, TypeOK, Heard, HeardCap

(* What a request does when it goes on.                                    *)
LEMMA Going ==
    ASSUME Typed, NEW h \in Handlers, NEW on \in BOOLEAN, NEW isRunning \in BOOLEAN,
           NEW isOn \in BOOLEAN, GoesOn(h, on, isRunning, isOn)
    PROVE  /\ running' \in BOOLEAN /\ seeded' \in BOOLEAN /\ hw' \in 0..last
           /\ mark' \in 0..last /\ refused' \in BOOLEAN
           /\ loop' \in [Loops -> LoopType] /\ task' \in Loops \cup {0}
           /\ \A k \in Loops : loop'[k].since <= last /\ loop'[k].until <= last
           /\ request' \in [Handlers -> RequestType]
           /\ \A g \in Handlers : request'[g].max <= last
           /\ \A g \in Handlers \ {h} : request'[g] = request[g]
<1>1. /\ request \in [Handlers -> RequestType] /\ loop \in [Loops -> LoopType]
      /\ last \in Nat /\ hw \in 0..last /\ mark \in 0..last
      /\ seeded \in BOOLEAN /\ refused \in BOOLEAN
      /\ \A g \in Handlers : request[g].max <= last
      /\ \A k \in Loops : loop[k].since <= last /\ loop[k].until <= last
      /\ last \in 0..last
  BY FiringsAssumption DEF FiringsAssumption, Typed, TypeOK, Bounded, RequestType, LoopType
<1>0. 0 \in 0..N
  BY FiringsAssumption DEF FiringsAssumption
<1>2. /\ RequestAt("reading", FALSE, 0) \in RequestType
      /\ RequestAt("reading", FALSE, 0).max = 0
  BY <1>0 DEF RequestAt, RequestType
<1>7. \/ request' = [request EXCEPT ![h] = Idle]
      \/ request' = [request EXCEPT ![h] = RequestAt("reading", FALSE, 0)]
  BY Zenon DEF GoesOn
<1>3. \/ Launched(last, hw)
      \/ /\ running' = isRunning /\ task' = 0
         /\ UNCHANGED <<loop, seeded, hw, mark, refused>>
  BY Zenon DEF GoesOn
<1>8. \A r \in RequestType : request' = [request EXCEPT ![h] = r] /\ r.max = 0 =>
        /\ request' \in [Handlers -> RequestType]
        /\ \A g \in Handlers : request'[g].max <= last
        /\ \A g \in Handlers \ {h} : request'[g] = request[g]
  BY <1>1
<1>4. /\ request' \in [Handlers -> RequestType]
      /\ \A g \in Handlers : request'[g].max <= last
      /\ \A g \in Handlers \ {h} : request'[g] = request[g]
  BY <1>2, <1>7, <1>8, Records
<1>5. CASE Launched(last, hw)
  BY <1>1, <1>4, <1>5, Launch
<1>6. CASE running' = isRunning /\ task' = 0 /\ UNCHANGED <<loop, seeded, hw, mark, refused>>
  BY <1>1, <1>4, <1>6
<1> QED
  BY <1>3, <1>5, <1>6

(* ACS, the operator and retention.                                        *)
LEMMA WorldType ==
    ASSUME Typed, Fire \/ Slide \/ Edit \/ (\E n \in Firings : Prune(n))
    PROVE  Typed'
<1>0. last \in 0..N /\ gone \in 0..N /\ N \in Nat /\ Firings = 1..N
  BY FiringsAssumption DEF FiringsAssumption, Typed, TypeOK, Firings
<1>1. CASE Fire
  <2>1. last' \in 0..N /\ last + 1 \in Firings /\ last < last'
    BY <1>0, <1>1 DEF Fire
  <2>2. TypeOK'
    BY <2>1, <1>1 DEF Fire, pollerVars, ruleVars, bounds, Typed, TypeOK
  <2>3. \A i \in 0..N : i <= last => i <= last'
    BY <1>0, <2>1
  <2>4. \A k \in Loops : loop[k].since \in 0..N /\ loop[k].until \in 0..N
    BY DEF Typed, TypeOK, LoopType
  <2>5. \A h \in Handlers : request[h].max \in 0..N
    BY DEF Typed, TypeOK, RequestType
  <2>6. Bounded'
    BY <1>0, <1>1, <2>1, <2>3, <2>4, <2>5
       DEF Fire, pollerVars, ruleVars, bounds, Typed, TypeOK, Bounded, Live, Pending
  <2> QED
    BY <2>2, <2>6 DEF Typed
<1>2. CASE Slide
  <2>1. gone' \in 0..N /\ gone' <= last
    BY <1>0, <1>2 DEF Slide
  <2>2. TypeOK'
    BY <2>1, <1>2 DEF Slide, pollerVars, ruleVars, bounds, histories, Typed, TypeOK
  <2>3. Bounded'
    BY <2>1, <1>2 DEF Slide, pollerVars, ruleVars, bounds, histories, Typed, Bounded, Live,
                      Pending
  <2> QED
    BY <2>2, <2>3 DEF Typed
<1>3. CASE Edit
  <2>0. rule' \in BOOLEAN /\ fresh' \in BOOLEAN
    BY <1>3, Zenon DEF Edit
  <2>1. TypeOK'
    BY <1>3, <2>0 DEF Edit, acsVars, pollerVars, histories, Typed, TypeOK
  <2>2. Bounded'
    BY <1>3 DEF Edit, acsVars, pollerVars, histories, Typed, Bounded, Live, Pending
  <2> QED
    BY <2>1, <2>2 DEF Typed
<1>4. CASE \E n \in Firings : Prune(n)
  <2>1. TypeOK'
    BY <1>4 DEF Prune, acsVars, pollerVars, ruleVars, Typed, TypeOK
  <2>2. Bounded'
    BY <1>4 DEF Prune, acsVars, pollerVars, ruleVars, Typed, Bounded, Live, Pending
  <2> QED
    BY <2>1, <2>2 DEF Typed
<1> QED
  BY <1>1, <1>2, <1>3, <1>4

(* The start of the process.                                               *)
LEMMA BootType == ASSUME Typed, Boot PROVE Typed'
<1>9. /\ last \in 0..last /\ last \in 0..N /\ hw \in 0..last /\ N \in Nat
      /\ 0..last \subseteq 0..N /\ up \in BOOLEAN /\ 0 \in 0..N /\ 0 <= last
      /\ request \in [Handlers -> RequestType]
      /\ running \in BOOLEAN /\ flag \in BOOLEAN
      /\ loop \in [Loops -> LoopType]
  BY FiringsAssumption DEF FiringsAssumption, Typed, TypeOK, Bounded
<1>0. up' = TRUE /\ ~up /\ Live = {} /\ Pending = {}
  BY <1>9, Zenon DEF Boot, Typed, Bounded
<1>1. CASE Launched(last, IF source = "log" THEN last ELSE hw)
  <2>1. (IF source = "log" THEN last ELSE hw) \in 0..last
    BY <1>9
  <2>2. /\ running' = TRUE /\ seeded' = FALSE /\ hw' \in 0..last /\ mark' = last
        /\ refused' = FALSE /\ loop' \in [Loops -> LoopType] /\ task' \in Loops
        /\ \A k \in Loops : loop'[k].since <= last /\ loop'[k].until <= last
    BY <1>9, <1>1, <2>1, Launch
  <2>3. faults' \in Nat
    BY DEF Boot, Typed, TypeOK
  <2>4. TypeOK'
    BY <1>9, <1>0, <2>2, <2>3 DEF Boot, acsVars, ruleVars, Typed, TypeOK
  <2>5. Bounded'
    BY <1>9, <1>0, <2>2 DEF Boot, acsVars, ruleVars, Typed, Bounded
  <2> QED
    BY <2>4, <2>5 DEF Typed
<1>2. CASE UNCHANGED <<running, task, loop, seeded, hw, mark>>
  <2>1. faults' \in Nat
    BY DEF Boot, Typed, TypeOK
  <2>2. refused' \in BOOLEAN
    <3>1. refused \in BOOLEAN
      BY DEF Typed, TypeOK
    <3>2. refused' = refused \/ refused' = TRUE \/ refused' = FALSE
      BY Zenon DEF Boot, Launched
    <3> QED
      BY <3>1, <3>2, Zenon
  <2>4. TypeOK'
    BY <1>9, <1>0, <1>2, <2>1, <2>2 DEF Boot, acsVars, ruleVars, Typed, TypeOK
  <2>5. Bounded'
    BY <1>9, <1>0, <1>2 DEF Boot, acsVars, ruleVars, Typed, Bounded
  <2> QED
    BY <2>4, <2>5 DEF Typed
<1> QED
  BY <1>1, <1>2 DEF Boot

(* The requests.                                                           *)
LEMMA RequestsType ==
    ASSUME Typed, NEW h \in Handlers,
           RequestStep(h) \/ (\E on \in BOOLEAN : up /\ Click(h, on))
    PROVE  Typed'
<1>0. /\ last \in 0..last /\ last \in 0..N /\ hw \in 0..last /\ N \in Nat
      /\ 0..last \subseteq 0..N /\ up \in BOOLEAN /\ 0 \in 0..N /\ 0 <= last
      /\ request \in [Handlers -> RequestType]
      /\ running \in BOOLEAN /\ flag \in BOOLEAN
      /\ loop \in [Loops -> LoopType]
  BY FiringsAssumption DEF FiringsAssumption, Typed, TypeOK, Bounded
<1>2. CASE Stopped(h)
  <2>1. request[h].on \in BOOLEAN
    BY <1>0 DEF RequestType
  <2>2. GoesOn(h, request[h].on, running, flag)
    BY <1>2 DEF Stopped
  <2>3. h \in Pending /\ up
    BY <1>2 DEF Stopped, Pending, Typed, Bounded
  <2>4. /\ running' \in BOOLEAN /\ seeded' \in BOOLEAN /\ hw' \in 0..last
        /\ mark' \in 0..last /\ refused' \in BOOLEAN
        /\ loop' \in [Loops -> LoopType] /\ task' \in Loops \cup {0}
        /\ \A k \in Loops : loop'[k].since <= last /\ loop'[k].until <= last
        /\ request' \in [Handlers -> RequestType]
        /\ \A g \in Handlers : request'[g].max <= last
    BY <1>0, <2>1, <2>2, Going
  <2>5. promised' \subseteq promised
    BY <1>2 DEF Stopped, Kept
  <2>6. TypeOK'
    BY <1>0, <1>2, <2>4, <2>5 DEF Stopped, acsVars, ruleVars, bounds, Typed, TypeOK
  <2>7. Bounded'
    BY <1>0, <1>2, <2>3, <2>4, <2>5 DEF Stopped, acsVars, ruleVars, bounds, Typed, Bounded
  <2> QED
    BY <2>6, <2>7 DEF Typed
<1>3. CASE ReadMax(h)
  <2>1. h \in Pending /\ up
    BY <1>3 DEF ReadMax, Pending, Typed, Bounded
  <2>2. RequestAt("read", FALSE, last) \in RequestType
    BY <1>0 DEF RequestAt, RequestType
  <2>3. RequestAt("read", FALSE, last).max = last
    BY DEF RequestAt
  <2>4. /\ request' \in [Handlers -> RequestType]
        /\ \A g \in Handlers : request'[g].max <= last
    <3>1. request' = [request EXCEPT ![h] = RequestAt("read", FALSE, last)]
      BY <1>3 DEF ReadMax
    <3>2. \A g \in Handlers : request[g].max <= last
      BY DEF Typed, Bounded
    <3>3. last <= last
      BY <1>0
    <3>4. \A g \in Handlers : request'[g].max <= last
      <4> SUFFICES ASSUME NEW g \in Handlers PROVE request'[g].max <= last
        OBVIOUS
      <4>1. CASE g = h
        BY <1>0, <2>3, <3>1, <3>3, <4>1
      <4>2. CASE g # h
        BY <1>0, <3>1, <3>2, <4>2
      <4> QED
        BY <4>1, <4>2
    <3> QED
      BY <1>0, <2>2, <3>1, <3>4
  <2>6. TypeOK'
    BY <1>0, <1>3, <2>4
       DEF ReadMax, acsVars, pollerVars, ruleVars, bounds, histories, Typed, TypeOK
  <2>7. Bounded'
    BY <1>0, <1>3, <2>1, <2>4
       DEF ReadMax, acsVars, pollerVars, ruleVars, bounds, histories, Typed, Bounded
  <2> QED
    BY <2>6, <2>7 DEF Typed
<1>4. CASE ReadFails(h)
  <2>1. h \in Pending /\ up
    BY <1>4 DEF ReadFails, Pending, Typed, Bounded
  <2>4. /\ request' \in [Handlers -> RequestType]
        /\ \A g \in Handlers : request'[g].max <= last
    BY <1>0, <1>4, Records DEF ReadFails, Typed, Bounded
  <2>5. faults' \in Nat
    BY <1>4 DEF ReadFails, Typed, TypeOK
  <2>6. TypeOK'
    BY <1>0, <1>4, <2>4, <2>5
       DEF ReadFails, acsVars, pollerVars, ruleVars, Typed, TypeOK
  <2>7. Bounded'
    BY <1>0, <1>4, <2>1, <2>4
       DEF ReadFails, acsVars, pollerVars, ruleVars, Typed, Bounded
  <2> QED
    BY <2>6, <2>7 DEF Typed
<1>5. CASE Started(h)
  <2>0. request[h].max \in 0..N
    BY <1>0 DEF RequestType
  <2>1. request[h].max \in 0..last
    BY <1>0, <2>0 DEF Typed, Bounded
  <2>2. h \in Pending /\ up
    BY <1>5 DEF Started, Pending, Typed, Bounded
  <2>3. Launched(request[h].max, request[h].max)
    BY <1>5 DEF Started
  <2>4. /\ running' = TRUE /\ seeded' = FALSE /\ hw' \in 0..last /\ mark' \in 0..last
        /\ refused' = FALSE /\ loop' \in [Loops -> LoopType] /\ task' \in Loops
        /\ \A k \in Loops : loop'[k].since <= last /\ loop'[k].until <= last
    BY <2>1, <2>3, Launch
  <2>5. /\ request' \in [Handlers -> RequestType]
        /\ \A g \in Handlers : request'[g].max <= last
    BY <1>0, <1>5, Records DEF Started, Typed, Bounded
  <2>8. promised' \subseteq promised
    BY <1>5 DEF Started, Kept
  <2>6. TypeOK'
    BY <1>0, <1>5, <2>4, <2>5, <2>8 DEF Started, acsVars, ruleVars, bounds, Typed, TypeOK
  <2>7. Bounded'
    BY <1>0, <1>5, <2>2, <2>4, <2>5, <2>8
       DEF Started, acsVars, ruleVars, bounds, Typed, Bounded
  <2> QED
    BY <2>6, <2>7 DEF Typed
<1>6. CASE \E on \in BOOLEAN : up /\ Click(h, on)
  <2>1. PICK on \in BOOLEAN : up /\ Click(h, on)
    BY <1>6
  <2>2. /\ running' \in BOOLEAN /\ seeded' \in BOOLEAN /\ hw' \in 0..last
        /\ mark' \in 0..last /\ refused' \in BOOLEAN
        /\ loop' \in [Loops -> LoopType] /\ task' \in Loops \cup {0}
        /\ \A k \in Loops : loop'[k].since <= last /\ loop'[k].until <= last
        /\ request' \in [Handlers -> RequestType]
        /\ \A g \in Handlers : request'[g].max <= last
    <3>1. CASE GoesOn(h, on, FALSE, on)
      BY <1>0, <3>1, Going
    <3>2. CASE /\ task # 0 /\ running' = FALSE
               /\ loop' = [loop EXCEPT ![task] = NoLoop]
               /\ request' = [request EXCEPT ![h] = RequestAt("stopping", on, 0)]
               /\ UNCHANGED <<task, seeded, hw, mark, refused>>
      <4>1. RequestAt("stopping", on, 0) \in RequestType /\ RequestAt("stopping", on, 0).max = 0
        BY <1>0 DEF RequestAt, RequestType
      <4>2. /\ request' \in [Handlers -> RequestType]
            /\ \A g \in Handlers : request'[g].max <= last
        BY <1>0, <3>2, <4>1 DEF Typed, Bounded
      <4>3. /\ loop' \in [Loops -> LoopType]
            /\ \A k \in Loops : loop'[k].since <= last /\ loop'[k].until <= last
        BY <1>0, <3>2, Records DEF Typed, Bounded
      <4>4. /\ running' \in BOOLEAN /\ seeded' \in BOOLEAN /\ hw' \in 0..last
            /\ mark' \in 0..last /\ refused' \in BOOLEAN /\ task' \in Loops \cup {0}
        <5>1. /\ seeded \in BOOLEAN /\ refused \in BOOLEAN /\ mark \in 0..last
              /\ task \in Loops \cup {0}
          BY <1>0 DEF Typed, TypeOK, Bounded
        <5> QED
          BY <1>0, <3>2, <5>1
      <4> QED
        BY <4>2, <4>3, <4>4
    <3> QED
      BY <2>1, <3>1, <3>2 DEF Click
  <2>3. promised' \subseteq promised /\ clicks' \in Nat /\ up' = TRUE
    BY <1>0, <2>1 DEF Click, Kept, Typed, TypeOK
  <2>4. flag' \in BOOLEAN /\ crossed' \in BOOLEAN
    BY <2>1, Zenon DEF Click
  <2>5. TypeOK'
    BY <1>0, <2>1, <2>2, <2>3, <2>4 DEF Click, acsVars, ruleVars, Typed, TypeOK
  <2>6. Bounded'
    BY <1>0, <2>1, <2>2, <2>3 DEF Click, acsVars, ruleVars, Typed, Bounded
  <2> QED
    BY <2>5, <2>6 DEF Typed
<1> QED
  BY <1>2, <1>3, <1>4, <1>5, <1>6 DEF RequestStep

(* A loop asks, waits, or ends.                                            *)
LEMMA LoopsType ==
    ASSUME Typed, NEW k \in Loops, Ask(k) \/ Skip(k) \/ Leave(k) \/ CallFails(k)
    PROVE  Typed'
<1>0. /\ loop \in [Loops -> LoopType] /\ last \in 0..N /\ gone \in 0..last
      /\ hw \in 0..last /\ last \in 0..last /\ N \in Nat /\ 0 <= last /\ last <= last
      /\ \A j \in Loops : loop[j].since <= last /\ loop[j].until <= last
  BY FiringsAssumption DEF FiringsAssumption, Typed, TypeOK, Bounded
<1>1. up
  <2>1. k \in Live
    BY DEF Ask, Skip, Leave, CallFails, Live
  <2> QED
    BY <2>1 DEF Typed, Bounded
<1>2. ASSUME NEW r \in LoopType, r.since <= last, r.until <= last,
             loop' = [loop EXCEPT ![k] = r]
      PROVE  /\ loop' \in [Loops -> LoopType]
             /\ \A j \in Loops : loop'[j].since <= last /\ loop'[j].until <= last
  BY <1>0, <1>2
<1>3. /\ loop' \in [Loops -> LoopType]
      /\ \A j \in Loops : loop'[j].since <= last /\ loop'[j].until <= last
  <2>1. CASE Ask(k)
    <3>1. PICK i \in 0..last : loop' = [loop EXCEPT ![k] =
                                  [pc |-> "asked", until |-> last, since |-> i]]
      BY <1>0, <2>1 DEF Ask
    <3>2. [pc |-> "asked", until |-> last, since |-> i] \in LoopType
      BY <1>0 DEF LoopType
    <3> QED
      BY <1>0, <1>2, <3>1, <3>2
  <2>2. CASE Skip(k) \/ CallFails(k)
    <3>1. PICK p \in {"sleep", "none"} : loop' = [loop EXCEPT ![k] = LoopAt(p)]
      BY <2>2 DEF Skip, CallFails, PollEnds
    <3> QED
      BY <1>0, <1>2, <3>1, Records
  <2>3. CASE Leave(k)
    BY <1>0, <1>2, <2>3, Records DEF Leave
  <2> QED
    BY <2>1, <2>2, <2>3
<1>4. /\ UNCHANGED <<acsVars, rows, pollerVars, request, ruleVars, heard, histories,
                     clicks, mishaps>>
      /\ faults' \in Nat
      /\ polls' \in [Firings -> 0..(MaxFaults + 1)]
  BY PollEnd DEF Ask, Skip, Leave, CallFails, bounds, Typed, TypeOK
<1>5. TypeOK'
  BY <1>3, <1>4 DEF acsVars, pollerVars, ruleVars, histories, Typed, TypeOK
<1>6. Bounded'
  BY <1>1, <1>3, <1>4
     DEF acsVars, pollerVars, ruleVars, histories, Typed, Bounded
<1> QED
  BY <1>5, <1>6 DEF Typed

(* What is handed over is in the page.                                     *)
LEMMA HandsFromPage ==
    ASSUME NEW page, NEW bad PROVE Hands(page, bad) \subseteq page
BY DEF Hands

(* A page is worked off.                                                   *)
LEMMA HandleType ==
    ASSUME Typed, NEW k \in Loops, NEW from \in Froms(k), NEW until \in Untils(k),
           NEW readable \in BOOLEAN, NEW bad \in SUBSET ((from + 1)..until),
           Handle(k, from, until, bad, readable)
    PROVE  Typed'
<1> DEFINE page == (from + 1)..until
<1>0. /\ from \in 0..last /\ until \in 0..last /\ last \in 0..N /\ N \in Nat
      /\ page \subseteq Firings /\ \A f \in page : f <= last
  <2>1. from \in 0..last /\ loop[k].until \in 0..last /\ last \in 0..N /\ N \in Nat
    BY PageOfLoop
  <2>2. until \in 0..last
    BY <2>1 DEF Untils
  <2> QED
    BY <2>1, <2>2 DEF Firings
<1>1. up
  BY DEF Handle, Live, Typed, Bounded
<1>2. /\ loop' \in [Loops -> LoopType]
      /\ \A j \in Loops : loop'[j].since <= last /\ loop'[j].until <= last
  <2>1. PollEnds(k)
    BY DEF Handle
  <2>2. \A j \in Loops : loop[j].since <= last /\ loop[j].until <= last
    BY DEF Typed, Bounded
  <2>3. /\ loop' \in [Loops -> LoopType]
        /\ loop'[k].since = 0 /\ loop'[k].until = 0
        /\ \A j \in Loops \ {k} : loop'[j] = loop[j]
    BY <2>1, PollEnd
  <2> QED
    BY <1>0, <2>2, <2>3
<1>3. /\ heard' = Heard(Hands(page, bad))
      /\ rows' = rows \cup (page \ bad)
      /\ hw' = IF source = "log" /\ page # {} /\ until > hw THEN until ELSE hw
      /\ seeded' = (source = "recorded")
      /\ missed' = IF seeded \/ source = "log" THEN missed ELSE missed \cup bad
      /\ UNCHANGED <<acsVars, flag, up, running, task, request, rule,
                     mark, promised, pruned, crossed, refused, clicks, mishaps>>
  BY Zenon DEF Handle, Evaluate, Stored
<1>4. /\ heard' \in [Firings -> 0..HeardCap]
      /\ \A f \in Firings : heard'[f] > 0 => f \in page \/ heard[f] > 0
  <2>1. \A f \in Firings : f \notin Hands(page, bad) => heard'[f] = heard[f]
    BY <1>3, Hearing
  <2> QED
    BY <1>3, <2>1, Hearing, HandsFromPage
<1>5. known' \in BOOLEAN /\ fresh' \in BOOLEAN /\ seeded' \in BOOLEAN
  <2>1. known \in BOOLEAN /\ fresh \in BOOLEAN /\ rule \in BOOLEAN
    BY DEF Typed, TypeOK
  <2>2. (known' = rule /\ fresh' = TRUE) \/ (known' = known /\ fresh' = fresh)
    BY Zenon DEF Handle, Evaluate
  <2>3. known' \in BOOLEAN /\ fresh' \in BOOLEAN
    BY <2>1, <2>2
  <2> QED
    BY <1>3, <2>3, Zenon
<1>6. hw' \in 0..last
  BY <1>0, <1>3 DEF Typed, TypeOK, Bounded
<1>7. faults' \in Nat /\ polls' \in [Firings -> 0..(MaxFaults + 1)]
  BY PollEnd DEF Handle, Typed, TypeOK
<1>8. rows' \subseteq Firings /\ missed' \subseteq Firings /\ \A f \in rows' : f \in rows \/ f <= last
  BY <1>0, <1>3 DEF Typed, TypeOK
<1>9. TypeOK'
  BY <1>0, <1>2, <1>3, <1>4, <1>5, <1>6, <1>7, <1>8 DEF acsVars, Typed, TypeOK
<1>10. Bounded'
  BY <1>0, <1>1, <1>2, <1>3, <1>4, <1>6, <1>8 DEF acsVars, Typed, Bounded
<1> QED
  BY <1>9, <1>10 DEF Typed

(* The end of the process, perhaps in the middle of a page.                *)
LEMMA CrashType ==
    ASSUME Typed, NEW stored, NEW handed, stored \subseteq 1..last, handed \subseteq stored,
           Crash(stored, handed)
    PROVE  Typed'
<1>0. /\ last \in 0..N /\ N \in Nat /\ 0 <= last /\ 0 \in 0..N
      /\ \A f \in stored : f \in Firings /\ f <= last
      /\ \A f \in handed : f \in stored
  BY FiringsAssumption DEF FiringsAssumption, Typed, TypeOK, Firings
<1>1. /\ heard' = Heard(Hands(handed, {})) /\ rows' = rows \cup stored
      /\ up' = FALSE /\ running' = FALSE /\ task' = 0 /\ seeded' = FALSE /\ hw' = 0
      /\ loop' = [k \in Loops |-> NoLoop] /\ request' = [h \in Handlers |-> Idle]
      /\ known' = FALSE /\ fresh' = FALSE /\ promised' \subseteq promised
      /\ UNCHANGED <<acsVars, flag, rule, mark, missed, pruned, crossed, refused,
                     polls, faults, clicks>>
      /\ mishaps' \in Nat
  BY DEF Crash, Kept, Typed, TypeOK
<1>2. /\ loop' \in [Loops -> LoopType] /\ request' \in [Handlers -> RequestType]
      /\ \A k \in Loops : loop'[k].since <= last /\ loop'[k].until <= last
      /\ \A h \in Handlers : request'[h].max <= last
      /\ \A k \in Loops : loop'[k].pc = "none"
      /\ \A h \in Handlers : request'[h].pc = "idle"
  BY <1>0, <1>1, Records
<1>3. /\ heard' \in [Firings -> 0..HeardCap]
      /\ \A f \in Firings : heard'[f] > 0 => f \in stored \/ heard[f] > 0
  <2>1. \A f \in Firings : f \notin Hands(handed, {}) => heard'[f] = heard[f]
    BY <1>1, Hearing
  <2> QED
    BY <1>0, <1>1, <2>1, Hearing, HandsFromPage
<1>4. TypeOK'
  BY <1>0, <1>1, <1>2, <1>3 DEF acsVars, Typed, TypeOK
<1>5. Bounded'
  BY <1>0, <1>1, <1>2, <1>3 DEF acsVars, Typed, Bounded, Live, Pending
<1> QED
  BY <1>4, <1>5 DEF Typed

(* No step leaves the types.                                               *)
LEMMA TypedStep == Typed /\ [Next]_vars => Typed'
<1> SUFFICES ASSUME Typed, [Next]_vars PROVE Typed'
  OBVIOUS
<1>1. CASE Fire \/ Slide \/ Edit \/ (\E n \in Firings : Prune(n))
  BY <1>1, WorldType
<1>2. CASE Boot
  BY <1>2, BootType
<1>3. CASE \E k \in Loops : LoopStep(k)
  BY <1>3, LoopsType, HandleType DEF LoopStep
<1>4. CASE Crash({}, {})
  BY <1>4, CrashType
<1>5. CASE \E k \in Loops : \E from \in Froms(k) : \E at \in from..last :
              /\ loop[k].pc = "asked"
              /\ Crash((from + 1)..at, (from + 1)..at) \/ Crash((from + 1)..at, (from + 1)..(at - 1))
  <2>5. PICK k \in Loops : \E from \in Froms(k) : \E at \in from..last :
          Crash((from + 1)..at, (from + 1)..at) \/ Crash((from + 1)..at, (from + 1)..(at - 1))
    BY <1>5
  <2>6. PICK from \in Froms(k) : \E at \in from..last :
          Crash((from + 1)..at, (from + 1)..at) \/ Crash((from + 1)..at, (from + 1)..(at - 1))
    BY <2>5
  <2>1. PICK at \in from..last :
          Crash((from + 1)..at, (from + 1)..at) \/ Crash((from + 1)..at, (from + 1)..(at - 1))
    BY <2>6
  <2>2. from \in 0..last /\ last \in Nat
    BY PageOfLoop
  <2>3. /\ (from + 1)..at \subseteq 1..last
        /\ (from + 1)..(at - 1) \subseteq (from + 1)..at
    BY <2>2
  <2> QED
    BY <2>1, <2>3, CrashType
<1>6. CASE \E h \in Handlers : RequestStep(h)
  BY <1>6, RequestsType
<1>7. CASE \E h \in Handlers \ Pending, on \in BOOLEAN : Click(h, on)
  <2>1. PICK h \in Handlers, on \in BOOLEAN : Click(h, on)
    BY <1>7
  <2>2. up
    BY <2>1 DEF Click
  <2> QED
    BY <2>1, <2>2, RequestsType
<1>8. CASE UNCHANGED vars
  <2>1. TypeOK'
    BY <1>8 DEF vars, acsVars, pollerVars, ruleVars, histories, bounds, Typed, TypeOK
  <2>2. Bounded'
    BY <1>8 DEF vars, acsVars, pollerVars, ruleVars, histories, bounds, Typed, Bounded,
                Live, Pending
  <2> QED
    BY <2>1, <2>2 DEF Typed
<1> QED
  BY <1>1, <1>2, <1>3, <1>4, <1>5, <1>6, <1>7, <1>8 DEF Next

(* What holds before anything happened.                                    *)
LEMMA TypedInit == Init => Typed
<1> SUFFICES ASSUME Init PROVE Typed
  OBVIOUS
<1>1. /\ N \in Nat /\ 0 \in 0..N /\ 0 \in 0..HeardCap /\ Before \in 0..N
      /\ 0 \in 0..(MaxFaults + 1)
  BY FiringsAssumption DEF FiringsAssumption, HeardCap
<1>2. /\ loop \in [Loops -> LoopType] /\ request \in [Handlers -> RequestType]
      /\ \A k \in Loops : loop[k].pc = "none" /\ loop[k].since = 0 /\ loop[k].until = 0
      /\ \A h \in Handlers : request[h].pc = "idle" /\ request[h].max = 0
  BY Records DEF Init
<1>3. TypeOK
  BY <1>1, <1>2 DEF Init, TypeOK
<1>4. Bounded
  BY <1>1, <1>2 DEF Init, Bounded, Live, Pending
<1> QED
  BY <1>3, <1>4 DEF Typed

(* Type correctness.                                                       *)
THEOREM TypeCorrect == Spec => []TypeOK
<1>1. Typed => TypeOK
  BY DEF Typed
<1> QED
  BY TypedInit, TypedStep, <1>1, PTL DEF Spec

----------------------------------------------------------------------------
(* The inductive invariant.                                                *)

Asking == {k \in Loops : loop[k].pc = "asked"}

\* Rules that count as current are.
Known == fresh => known = rule

\* The store remembers what was acted on, until retention deletes it.
Remembered ==
    source = "recorded" =>
        \A f \in Firings :
            /\ heard[f] > 0 => f \in rows \cup pruned
            /\ heard[f] <= 1 \/ f \in pruned

\* While requests come one at a time there is one loop, the one that _task
\* names, and none while a request is under way.
OneLoop ==
    ~crossed =>
        /\ \A g, h \in Pending : g = h
        /\ Pending # {} => Live = {}
        /\ Live \subseteq {task}

\* Then whatever was acted on is behind the mark of the log, the loop asks for
\* what follows the mark, and the mark is not before the start.
Behind ==
    source = "log" /\ ~crossed =>
        /\ \A f \in Firings : heard[f] <= 1
        /\ Live # {} => mark <= hw /\ \A f \in Firings : heard[f] > 0 => f <= hw
        /\ \A k \in Asking : loop[k].since = hw
        /\ \A h \in Handlers : request[h].pc = "read" =>
              \A f \in Firings : heard[f] > 0 => f <= request[h].max

\* And a seeded poller has stored the history, but for what failed, what
\* retention deleted, and what has left the window of every poll.
Seeding ==
    source = "recorded" /\ ~crossed =>
        /\ \A k \in Asking : mark <= loop[k].until
        /\ seeded =>
              \A f \in Firings : f <= mark =>
                  \/ f \in rows \cup missed \cup pruned
                  \/ f <= gone /\ \A k \in Asking : f <= loop[k].since

\* What fell to a poller in service and was not acted on yet still can be.
Ahead(f) ==
    /\ flag /\ running /\ Live # {}
    /\ source = "recorded" => seeded /\ f \notin rows \cup pruned /\ gone < f
    /\ source = "log" => hw < f /\ \A k \in Asking : loop[k].since < f

Promise == \A f \in promised : heard[f] = 0 => Ahead(f)

Safe == Known /\ Remembered /\ OneLoop /\ Behind /\ Seeding /\ Promise

\* Every poll that is over and did not deal with a firing that was there when
\* it asked has met a fault, so the window does not pass it.
Spent ==
    /\ faults <= MaxFaults
    /\ \A f \in Firings : f > last => polls[f] = 0
    /\ source = "recorded" => \A f \in promised : heard[f] = 0 => polls[f] <= faults

IInv == Typed /\ Safe /\ Spent

(* The numbers of the invariant.                                           *)
LEMMA Numbers ==
    ASSUME Typed
    PROVE  /\ N \in Nat /\ Firings = 1..N /\ last \in 0..N /\ gone \in 0..last
           /\ hw \in 0..last /\ mark \in 0..last
           /\ \A k \in Loops : loop[k].since \in 0..last /\ loop[k].until \in 0..last
           /\ \A h \in Handlers : request[h].max \in 0..last
           /\ \A f \in Firings : f \in Nat /\ heard[f] \in 0..2
           /\ source \in {"recorded", "log"}
<1>1. /\ N \in Nat /\ Firings = 1..N /\ last \in 0..N /\ gone \in 0..N /\ hw \in 0..N
      /\ mark \in 0..N /\ source \in {"recorded", "log"}
      /\ heard \in [Firings -> 0..2]
  BY FiringsAssumption DEF FiringsAssumption, Typed, TypeOK, HeardCap, Firings
<1>2. /\ \A k \in Loops : loop[k].since \in 0..N /\ loop[k].until \in 0..N
      /\ \A h \in Handlers : request[h].max \in 0..N
  BY DEF Typed, TypeOK, LoopType, RequestType
<1> QED
  BY <1>1, <1>2 DEF Typed, Bounded

(* What a loop does between its polls.                                     *)
LEMMA LoopEffect ==
    ASSUME Typed, NEW k \in Loops, Ask(k) \/ Skip(k) \/ Leave(k) \/ CallFails(k)
    PROVE  /\ UNCHANGED <<acsVars, rows, pollerVars, request, ruleVars, heard, histories>>
           /\ \A j \in Loops \ {k} : loop'[j] = loop[j]
           /\ loop[k].pc # "none"
           /\ loop'[k].pc = "asked" =>
                 /\ loop'[k].until = last
                 /\ loop'[k].since = IF source = "recorded" THEN gone ELSE hw
           /\ flag /\ running => loop'[k].pc # "none"
<1>0. loop \in [Loops -> LoopType]
  BY DEF Typed, TypeOK
<1>1. /\ UNCHANGED <<acsVars, rows, pollerVars, request, ruleVars, heard, histories>>
      /\ loop[k].pc # "none"
  BY DEF Ask, Skip, Leave, CallFails
<1>2. CASE Ask(k)
  BY <1>0, <1>1, <1>2 DEF Ask
<1>3. CASE Skip(k)
  BY <1>0, <1>1, <1>3, Records DEF Skip
<1>4. CASE Leave(k)
  BY <1>0, <1>1, <1>4, Records DEF Leave
<1>5. CASE CallFails(k)
  BY <1>0, <1>1, <1>5, Records DEF CallFails, PollEnds
<1> QED
  BY <1>2, <1>3, <1>4, <1>5

(* What an answer does.                                                    *)
LEMMA PageEffect ==
    ASSUME Typed, NEW k \in Loops, NEW from \in Froms(k), NEW until \in Untils(k),
           NEW readable \in BOOLEAN, NEW bad \in SUBSET ((from + 1)..until),
           Handle(k, from, until, bad, readable)
    PROVE  /\ from \in loop[k].since..last /\ until \in loop[k].until..last
           /\ source = "recorded" => from <= gone
           /\ source = "log" => from = loop[k].since
           /\ loop[k].pc = "asked"
           /\ loop'[k].pc = IF running THEN "sleep" ELSE "none"
           /\ \A j \in Loops \ {k} : loop'[j] = loop[j]
           /\ heard' = Heard(Hands((from + 1)..until, bad))
           /\ rows' = rows \cup (((from + 1)..until) \ bad)
           /\ hw' = IF source = "log" /\ (from + 1)..until # {} /\ until > hw THEN until ELSE hw
           /\ seeded' = (source = "recorded")
           /\ missed' = IF seeded \/ source = "log" THEN missed ELSE missed \cup bad
           /\ UNCHANGED <<acsVars, flag, up, running, task, request, rule,
                          mark, promised, pruned, crossed, refused>>
           /\ (known' = rule /\ fresh' = TRUE) \/ (known' = known /\ fresh' = fresh)
<1>1. /\ heard' = Heard(Hands((from + 1)..until, bad))
      /\ rows' = rows \cup (((from + 1)..until) \ bad)
      /\ hw' = IF source = "log" /\ (from + 1)..until # {} /\ until > hw THEN until ELSE hw
      /\ seeded' = (source = "recorded")
      /\ missed' = IF seeded \/ source = "log" THEN missed ELSE missed \cup bad
      /\ UNCHANGED <<acsVars, flag, up, running, task, request, rule,
                     mark, promised, pruned, crossed, refused>>
      /\ (known' = rule /\ fresh' = TRUE) \/ (known' = known /\ fresh' = fresh)
      /\ loop[k].pc = "asked" /\ PollEnds(k)
  BY Zenon DEF Handle, Evaluate, Stored
<1>2. /\ from \in loop[k].since..last /\ until \in loop[k].until..last
      /\ source = "recorded" => from <= gone
      /\ source = "log" => from = loop[k].since
  BY PageOfLoop DEF Untils
<1>3. /\ loop'[k].pc = IF running THEN "sleep" ELSE "none"
      /\ \A j \in Loops \ {k} : loop'[j] = loop[j]
  BY <1>1, PollEnd
<1> QED
  BY <1>1, <1>2, <1>3, Zenon

(* ACS, the operator and retention keep it.                                *)
LEMMA WorldStep ==
    ASSUME IInv, Fire \/ Slide \/ Edit \/ (\E n \in Firings : Prune(n)) \/ UNCHANGED vars
    PROVE  Safe'
<1>0. Typed /\ Safe /\ Spent
  BY DEF IInv
<1>1. CASE Fire
  <2>1. /\ UNCHANGED <<source, gone, rows, flag, up, running, task, seeded, hw, loop, request,
                       rule, known, fresh, heard, mark, missed, pruned, crossed>>
        /\ promised' = IF InService THEN promised \cup {last + 1} ELSE promised
    BY <1>1 DEF Fire, pollerVars, ruleVars
  <2>2. (Known /\ Remembered /\ OneLoop /\ Behind /\ Seeding)'
    BY <1>0, <2>1
       DEF Safe, Known, Remembered, OneLoop, Behind, Seeding, Live, Pending, Asking
  <2>3. \A f \in promised : heard[f] = 0 => Ahead(f)'
    BY <1>0, <2>1 DEF Safe, Promise, Ahead, Live, Asking
  <2>4. ASSUME InService, NEW n, n = last + 1 PROVE Ahead(n)'
    <3>1. gone < n /\ hw < n /\ \A k \in Loops : loop[k].since < n
      BY <1>0, <2>4, Numbers
    <3>2. n \notin rows \cup pruned
      BY <1>0, <2>4, Numbers DEF Typed, Bounded
    <3> QED
      BY <2>1, <2>4, <3>1, <3>2 DEF InService, Ahead, Live, Asking
  <2>5. Promise'
    BY <2>1, <2>3, <2>4 DEF Promise
  <2> QED
    BY <2>2, <2>5 DEF Safe
<1>2. CASE Slide
  <2>1. /\ UNCHANGED <<source, last, rows, flag, up, running, task, seeded, hw, loop, request,
                       rule, known, fresh, heard, mark, promised, missed, pruned, crossed>>
        /\ gone' = gone + 1 /\ source = "recorded"
        /\ polls[gone + 1] > MaxFaults \/ ~InService
    BY <1>2 DEF Slide, pollerVars, ruleVars, histories
  <2>2. (Known /\ Remembered /\ OneLoop /\ Behind)'
    BY <1>0, <2>1 DEF Safe, Known, Remembered, OneLoop, Behind, Live, Pending, Asking
  <2>3. Seeding'
    <3>1. \A f \in Firings : f <= gone => f <= gone'
      BY <1>0, <2>1, Numbers
    <3> QED
      BY <1>0, <2>1, <3>1 DEF Safe, Seeding, Asking
  <2>4. Promise'
    <3> SUFFICES ASSUME NEW f \in promised, heard[f] = 0 PROVE Ahead(f)'
      BY <2>1 DEF Promise
    <3>1. Ahead(f)
      BY <1>0 DEF Safe, Promise
    <3>2. f # gone + 1
      <4>1. InService /\ polls[f] <= faults /\ faults <= MaxFaults
        BY <1>0, <2>1, <3>1 DEF Ahead, InService, Spent
      <4>2. polls[f] \in Nat /\ faults \in Nat /\ MaxFaults \in Nat
        BY <1>0, FiringsAssumption DEF FiringsAssumption, Typed, TypeOK
      <4> QED
        BY <2>1, <4>1, <4>2
    <3>3. gone + 1 < f
      <4>1. f \in Nat /\ gone \in Nat
        BY <1>0, Numbers DEF Typed, TypeOK
      <4> QED
        BY <2>1, <3>1, <3>2, <4>1 DEF Ahead
    <3> QED
      BY <2>1, <3>1, <3>3 DEF Ahead, Live, Asking
  <2> QED
    BY <2>2, <2>3, <2>4 DEF Safe
<1>3. CASE Edit \/ UNCHANGED vars
  <2>1. /\ UNCHANGED <<source, last, gone, rows, flag, up, running, task, seeded, hw, loop,
                       request, heard, mark, promised, missed, pruned, crossed>>
        /\ fresh' = FALSE \/ UNCHANGED <<rule, known, fresh>>
    BY <1>3, Zenon DEF Edit, vars, acsVars, pollerVars, ruleVars, histories
  <2>2. Known'
    BY <1>0, <2>1, Zenon DEF Safe, Known
  <2>3. (Remembered /\ OneLoop /\ Behind /\ Seeding /\ Promise)'
    BY <1>0, <2>1
       DEF Safe, Remembered, OneLoop, Behind, Seeding, Promise, Ahead, Live, Pending, Asking
  <2> QED
    BY <2>2, <2>3 DEF Safe
<1>4. CASE \E n \in Firings : Prune(n)
  <2>1. /\ UNCHANGED <<source, last, gone, flag, up, running, task, seeded, hw, loop, request,
                       rule, known, fresh, heard, mark, promised, missed, crossed>>
        /\ rows' \cup pruned' = rows \cup pruned /\ pruned \subseteq pruned'
    <3>1. PICK n \in Firings : Prune(n)
      BY <1>4
    <3>2. \A f \in rows : f > n \/ f <= n
      BY <1>0, Numbers DEF Typed, TypeOK
    <3> QED
      BY <3>1, <3>2 DEF Prune, acsVars, pollerVars, ruleVars
  <2>2. (Known /\ OneLoop /\ Behind)'
    BY <1>0, <2>1 DEF Safe, Known, OneLoop, Behind, Live, Pending, Asking
  <2>3. (Remembered /\ Seeding /\ Promise)'
    BY <1>0, <2>1 DEF Safe, Remembered, Seeding, Promise, Ahead, Live, Asking
  <2> QED
    BY <2>2, <2>3 DEF Safe
<1> QED
  BY <1>1, <1>2, <1>3, <1>4

(* A loop that asks, waits or ends keeps it.                               *)
LEMMA LoopKeeps ==
    ASSUME IInv, NEW k \in Loops, Ask(k) \/ Skip(k) \/ Leave(k) \/ CallFails(k)
    PROVE  Safe'
<1>0. Typed /\ Safe
  BY DEF IInv
<1>1. /\ UNCHANGED <<source, last, gone, rows, flag, up, running, task, seeded, hw, request,
                     rule, known, fresh, heard, mark, promised, missed, pruned, crossed>>
      /\ \A j \in Loops \ {k} : loop'[j] = loop[j]
      /\ loop[k].pc # "none"
      /\ loop'[k].pc = "asked" =>
            /\ loop'[k].until = last
            /\ loop'[k].since = IF source = "recorded" THEN gone ELSE hw
      /\ flag /\ running => loop'[k].pc # "none"
  BY <1>0, LoopEffect DEF acsVars, pollerVars, ruleVars, histories
<1>2. Live' \subseteq Live /\ k \in Live /\ Pending' = Pending
  BY <1>1 DEF Live, Pending
<1>3. \A j \in Asking' : j = k \/ (j \in Asking /\ loop'[j] = loop[j])
  BY <1>1 DEF Asking
<1>4. Known' /\ Remembered'
  BY <1>0, <1>1 DEF Safe, Known, Remembered
<1>5. OneLoop'
  BY <1>0, <1>1, <1>2 DEF Safe, OneLoop
<1>6. Behind'
  BY <1>0, <1>1, <1>2, <1>3 DEF Safe, Behind, Asking
<1>7. Seeding'
  <2>1. mark <= last
    BY <1>0, Numbers
  <2> QED
    BY <1>0, <1>1, <1>3, <2>1 DEF Safe, Seeding, Asking
<1>8. Promise'
  <2> SUFFICES ASSUME NEW f \in promised, heard[f] = 0 PROVE Ahead(f)'
    BY <1>1 DEF Promise
  <2>1. Ahead(f)
    BY <1>0 DEF Safe, Promise
  <2>2. Live' # {}
    BY <1>1, <2>1 DEF Ahead, Live
  <2> QED
    BY <1>1, <1>3, <2>1, <2>2 DEF Ahead, Asking
<1> QED
  BY <1>4, <1>5, <1>6, <1>7, <1>8 DEF Safe

(* What is handed over, by poller.                                         *)
LEMMA HandsAre ==
    ASSUME NEW page, NEW bad, NEW f
    PROVE  /\ source = "log" => (f \in Hands(page, bad) <=> f \in page)
           /\ source = "recorded" =>
                 (f \in Hands(page, bad) <=> seeded /\ f \in page /\ f \notin bad /\ f \notin rows)
BY DEF Hands

(* An answer keeps it: what is handed over was not acted on before.        *)
LEMMA PageKeeps ==
    ASSUME IInv, NEW k \in Loops, NEW from \in Froms(k), NEW until \in Untils(k),
           NEW readable \in BOOLEAN, NEW bad \in SUBSET ((from + 1)..until),
           Handle(k, from, until, bad, readable)
    PROVE  Safe'
<1> DEFINE page == (from + 1)..until
           hands == Hands(page, bad)
<1>0. Typed /\ Safe
  BY DEF IInv
<1>1. /\ from \in loop[k].since..last /\ until \in loop[k].until..last
      /\ source = "recorded" => from <= gone
      /\ source = "log" => from = loop[k].since
      /\ loop[k].pc = "asked"
      /\ loop'[k].pc = IF running THEN "sleep" ELSE "none"
      /\ \A j \in Loops \ {k} : loop'[j] = loop[j]
      /\ heard' = Heard(hands)
      /\ rows' = rows \cup (page \ bad)
      /\ hw' = IF source = "log" /\ page # {} /\ until > hw THEN until ELSE hw
      /\ seeded' = (source = "recorded")
      /\ missed' = IF seeded \/ source = "log" THEN missed ELSE missed \cup bad
      /\ UNCHANGED <<source, last, gone, flag, up, running, task, request, rule,
                     mark, promised, pruned, crossed, refused>>
      /\ (known' = rule /\ fresh' = TRUE) \/ (known' = known /\ fresh' = fresh)
  BY <1>0, PageEffect, Zenon DEF acsVars
<1>2. /\ from \in 0..last /\ until \in 0..last /\ hw \in 0..last /\ gone \in 0..last
      /\ mark \in 0..last /\ last \in Nat
      /\ source \in {"recorded", "log"} /\ \A f \in Firings : f \in Nat /\ heard[f] \in 0..2
  BY <1>0, <1>1, Numbers
<1>3. /\ Live' \subseteq Live /\ k \in Live /\ Pending' = Pending
      /\ Asking' \subseteq Asking /\ k \notin Asking' /\ k \in Asking
      /\ \A j \in Asking' : loop'[j] = loop[j]
  BY <1>1 DEF Live, Pending, Asking
<1>4. /\ \A f \in Firings : f \notin hands => heard'[f] = heard[f]
      /\ \A f \in Firings : f \in hands => heard'[f] > 0
      /\ \A f \in Firings : f \in hands /\ heard[f] < 2 => heard'[f] = heard[f] + 1
  BY <1>0, <1>1, Hearing
<1>12. /\ source = "log" => hands = page
       /\ source = "recorded" /\ seeded => hands = (page \ bad) \ rows
       /\ source = "recorded" /\ ~seeded => hands = {}
  BY DEF Hands
<1>5. Known'
  BY <1>0, <1>1, Zenon DEF Safe, Known
<1>6. Remembered'
  <2> SUFFICES ASSUME source = "recorded", NEW f \in Firings
               PROVE  (/\ heard[f] > 0 => f \in rows \cup pruned
                       /\ heard[f] <= 1 \/ f \in pruned)'
    BY <1>1 DEF Remembered
  <2>1. /\ heard[f] > 0 => f \in rows \cup pruned
        /\ heard[f] <= 1 \/ f \in pruned
    BY <1>0 DEF Safe, Remembered
  <2>2. CASE f \in hands
    <3>1. f \in page /\ f \notin bad /\ f \notin rows
      BY <1>12, <2>2
    <3>2. heard[f] > 0 => f \in pruned
      BY <2>1, <3>1
    <3>3. heard[f] = 0 => heard'[f] = 1
      BY <1>2, <1>4, <2>2
    <3> QED
      BY <1>1, <1>2, <3>1, <3>2, <3>3
  <2>3. CASE f \notin hands
    BY <1>1, <1>4, <2>1, <2>3
  <2> QED
    BY <2>2, <2>3
<1>7. OneLoop'
  BY <1>0, <1>1, <1>3 DEF Safe, OneLoop
<1>8. ~crossed => Asking' = {} /\ Pending = {} /\ Live # {}
  BY <1>0, <1>3 DEF Safe, OneLoop, Asking, Live
<1>9. Behind'
  <2> SUFFICES ASSUME source = "log", ~crossed PROVE Behind'
    BY <1>1 DEF Behind
  <2>1. /\ mark <= hw /\ \A f \in Firings : heard[f] > 0 => f <= hw
        /\ from = hw /\ \A f \in Firings : heard[f] <= 1
    BY <1>0, <1>1, <1>3, <1>8 DEF Safe, Behind
  <2>2. \A f \in page : f \in Firings => heard[f] = 0
    BY <1>2, <2>1
  <2>3. hw <= hw' /\ \A f \in page : f <= hw'
    BY <1>1, <1>2, <2>1
  <2>4. \A f \in Firings : heard'[f] <= 1 /\ (heard'[f] > 0 => f <= hw')
    <3> SUFFICES ASSUME NEW f \in Firings
                 PROVE  heard'[f] <= 1 /\ (heard'[f] > 0 => f <= hw')
      OBVIOUS
    <3>1. CASE f \in hands
      <4>1. f \in page
        BY <1>12, <3>1
      <4>2. heard'[f] = 1
        BY <1>4, <2>2, <3>1, <4>1
      <4> QED
        BY <2>3, <4>1, <4>2
    <3>2. CASE f \notin hands
      <4>1. hw' \in Nat
        BY <1>1, <1>2
      <4> QED
        BY <1>2, <1>4, <2>1, <2>3, <3>2, <4>1
    <3> QED
      BY <3>1, <3>2
  <2>5. mark' <= hw'
    BY <1>1, <1>2, <2>1, <2>3
  <2>6. \A h \in Handlers : request'[h].pc # "read"
    BY <1>1, <1>8 DEF Pending
  <2> QED
    BY <1>8, <2>4, <2>5, <2>6 DEF Behind
<1>10. Seeding'
  <2> SUFFICES ASSUME source = "recorded", ~crossed PROVE Seeding'
    BY <1>1 DEF Seeding
  <2>1. mark <= loop[k].until
    BY <1>0, <1>3 DEF Safe, Seeding
  <2>2. mark <= until
    BY <1>0, <1>1, <1>2, <2>1, Numbers
  <2>3. ASSUME NEW f \in Firings, f <= mark
        PROVE  f \in rows' \cup missed' \cup pruned \/ f <= gone
    <3>1. CASE seeded
      BY <1>0, <1>1, <2>3, <3>1 DEF Safe, Seeding
    <3>2. CASE ~seeded /\ from < f
      BY <1>1, <1>2, <2>2, <2>3, <3>2
    <3>3. CASE ~(from < f)
      BY <1>1, <1>2, <3>3
    <3> QED
      BY <3>1, <3>2, <3>3
  <2> QED
    BY <1>1, <1>8, <2>3 DEF Seeding
<1>11. Promise'
  <2> SUFFICES ASSUME NEW f \in promised, heard'[f] = 0 PROVE Ahead(f)'
    BY <1>1 DEF Promise
  <2>1. f \in Firings /\ f \in Nat
    BY <1>0, <1>2 DEF Typed, TypeOK
  <2>2. f \notin hands /\ heard[f] = 0
    BY <1>4, <2>1
  <2>3. Ahead(f)
    BY <1>0, <2>2 DEF Safe, Promise
  <2>4. flag' /\ running' /\ Live' # {}
    BY <1>1, <2>3 DEF Ahead, Live
  <2>5. source = "recorded" => seeded' /\ f \notin rows' \cup pruned' /\ gone' < f
    BY <1>1, <1>12, <2>2, <2>3 DEF Ahead
  <2>6. source = "log" => hw' < f /\ \A j \in Asking' : loop'[j].since < f
    <3> SUFFICES ASSUME source = "log"
                 PROVE  hw' < f /\ \A j \in Asking' : loop'[j].since < f
      OBVIOUS
    <3>1. f \notin page
      BY <1>12, <2>2
    <3>2. from < f /\ hw < f
      BY <1>1, <1>3, <2>3 DEF Ahead
    <3>3. until < f
      BY <1>2, <2>1, <3>1, <3>2
    <3> QED
      BY <1>1, <1>3, <2>3, <3>2, <3>3 DEF Ahead
  <2> QED
    BY <1>1, <2>4, <2>5, <2>6 DEF Ahead
<1> QED
  BY <1>5, <1>6, <1>7, <1>9, <1>10, <1>11 DEF Safe

(* A crash keeps it: what was handed over of a page was not acted on       *)
(* before, and what was stored of it is remembered.                        *)
LEMMA CrashKeeps ==
    ASSUME IInv, NEW stored, NEW handed, handed \subseteq stored, Crash(stored, handed),
           \A f \in handed : \E k \in Asking : loop[k].since < f
    PROVE  Safe'
<1>0. Typed /\ Safe
  BY DEF IInv
<1> DEFINE hands == Hands(handed, {})
<1>1. /\ heard' = Heard(hands) /\ rows' = rows \cup stored
      /\ fresh' = FALSE /\ seeded' = FALSE /\ promised' = Kept
      /\ loop' = [k \in Loops |-> NoLoop] /\ request' = [h \in Handlers |-> Idle]
      /\ UNCHANGED <<source, last, gone, mark, missed, pruned, crossed>>
  BY DEF Crash, acsVars
<1>2. Live' = {} /\ Pending' = {} /\ Asking' = {}
  BY <1>1, Records DEF Live, Pending, Asking
<1>3. /\ \A f \in Firings : f \notin hands => heard'[f] = heard[f]
      /\ \A f \in Firings : f \in hands => heard'[f] > 0
      /\ \A f \in Firings : f \in hands /\ heard[f] < 2 => heard'[f] = heard[f] + 1
      /\ \A f \in Firings : f \in Nat /\ heard[f] \in 0..2
  BY <1>0, <1>1, Hearing, Numbers
<1>4. Known'
  BY <1>1, Zenon DEF Known
<1>5. Remembered'
  <2> SUFFICES ASSUME source = "recorded", NEW f \in Firings
               PROVE  (/\ heard[f] > 0 => f \in rows \cup pruned
                       /\ heard[f] <= 1 \/ f \in pruned)'
    BY <1>1 DEF Remembered
  <2>1. /\ heard[f] > 0 => f \in rows \cup pruned
        /\ heard[f] <= 1 \/ f \in pruned
    BY <1>0 DEF Safe, Remembered
  <2>2. CASE f \in hands
    <3>1. f \in stored /\ f \notin rows
      BY <2>2, HandsAre
    <3>2. heard[f] > 0 => f \in pruned
      BY <2>1, <3>1
    <3>3. heard[f] = 0 => heard'[f] = 1
      BY <1>3, <2>2
    <3> QED
      BY <1>1, <1>3, <3>1, <3>2, <3>3
  <2>3. CASE f \notin hands
    BY <1>1, <1>3, <2>1, <2>3
  <2> QED
    BY <2>2, <2>3
<1>6. OneLoop'
  BY <1>2 DEF OneLoop
<1>7. Behind'
  <2> SUFFICES ASSUME source = "log", ~crossed, NEW f \in Firings PROVE heard'[f] <= 1
    BY <1>1, <1>2, Records DEF Behind
  <2>1. heard[f] <= 1
    BY <1>0 DEF Safe, Behind
  <2>2. CASE f \in hands
    <3>1. PICK k \in Asking : loop[k].since < f
      BY <2>2, HandsAre
    <3>2. hw < f
      BY <1>0, <3>1 DEF Safe, Behind
    <3>3. Live # {}
      BY <3>1 DEF Asking, Live
    <3>4. heard[f] = 0
      <4>1. heard[f] > 0 => f <= hw
        BY <1>0, <3>3 DEF Safe, Behind
      <4>2. hw \in Nat
        BY <1>0 DEF Typed, TypeOK
      <4> QED
        BY <1>3, <3>2, <4>1, <4>2
    <3> QED
      BY <1>3, <2>2, <3>4
  <2>3. CASE f \notin hands
    BY <1>3, <2>1, <2>3
  <2> QED
    BY <2>2, <2>3
<1>8. Seeding'
  BY <1>1, <1>2 DEF Seeding
<1>9. Promise'
  <2>1. \A f \in promised : heard[f] > 0 => heard'[f] # 0
    BY <1>0, <1>3 DEF Typed, TypeOK
  <2> QED
    BY <1>1, <2>1 DEF Promise, Kept
<1> QED
  BY <1>4, <1>5, <1>6, <1>7, <1>8, <1>9 DEF Safe

(* A new loop keeps the facts about loops: nobody else is under way, and   *)
(* nothing after its mark was acted on.                                    *)
LEMMA LaunchKeeps ==
    ASSUME IInv, NEW from \in 0..last, NEW max \in 0..last, Launched(from, max),
           ~crossed' => Live = {} /\ Pending' = {},
           source = "log" /\ ~crossed' =>
              from = max /\ \A f \in Firings : heard[f] <= 1 /\ (heard[f] > 0 => f <= max),
           UNCHANGED <<source, last, heard>>
    PROVE  (OneLoop /\ Behind /\ Seeding)'
<1>0. Typed /\ Safe
  BY DEF IInv
<1>1. /\ seeded' = FALSE /\ hw' = max /\ mark' = from
      /\ \A k \in Loops : loop'[k].pc = "asked" => loop'[k] = loop[k]
      /\ task' \in Loops
      /\ \A k \in Loops : loop'[k].pc # "none" => k = task' \/ loop[k].pc # "none"
  BY <1>0, Launch
<1>2. ~crossed' => Live' \subseteq {task'} /\ Pending' = {} /\ Asking' = {}
  BY <1>1 DEF Live, Asking
<1>3. OneLoop'
  BY <1>2 DEF OneLoop
<1>4. Behind'
  <2> SUFFICES ASSUME source = "log", ~crossed' PROVE Behind'
    BY DEF Behind
  <2>1. from <= max
    <3>1. max \in Nat
      BY <1>0, Numbers
    <3> QED
      BY <3>1
  <2>2. \A h \in Handlers : request'[h].pc # "read"
    BY <1>2 DEF Pending
  <2> QED
    BY <1>1, <1>2, <2>1, <2>2 DEF Behind
<1>5. Seeding'
  BY <1>1, <1>2 DEF Seeding
<1> QED
  BY <1>3, <1>4, <1>5

(* So does a step after which there is no loop.                            *)
LEMMA QuietKeeps ==
    ASSUME IInv, crossed => crossed',
           ~crossed' =>
              /\ Live' = {} /\ \A g, h \in Pending' : g = h
              /\ \A h \in Handlers : request'[h].pc = "read" => request'[h].max = last,
           UNCHANGED <<source, last, gone, rows, heard, missed, pruned, seeded, mark>>
    PROVE  (OneLoop /\ Behind /\ Seeding)'
<1>0. Typed /\ Safe
  BY DEF IInv
<1>1. ~crossed' => Asking' = {} /\ Live' = {}
  BY DEF Asking, Live
<1>2. OneLoop'
  BY <1>1 DEF OneLoop
<1>3. Behind'
  <2>1. \A f \in Firings : heard[f] > 0 => f <= last
    BY <1>0 DEF Typed, Bounded
  <2> QED
    BY <1>0, <1>1, <2>1 DEF Safe, Behind
<1>4. Seeding'
  BY <1>0, <1>1 DEF Safe, Seeding
<1> QED
  BY <1>2, <1>3, <1>4

(* The start of the process keeps it.                                      *)
LEMMA BootKeeps == ASSUME IInv, Boot PROVE Safe'
<1>0. Typed /\ Safe
  BY DEF IInv
<1>1. /\ Live = {} /\ Pending = {}
      /\ UNCHANGED <<source, last, gone, rows, flag, request, rule, known, fresh, heard,
                     promised, missed, pruned, crossed>>
  BY <1>0 DEF Boot, Typed, Bounded, acsVars, ruleVars
<1>2. \A f \in promised : heard[f] # 0
  BY <1>0, <1>1 DEF Safe, Promise, Ahead
<1>3. (Known /\ Remembered /\ Promise)'
  BY <1>0, <1>1, <1>2 DEF Safe, Known, Remembered, Promise
<1>4. (OneLoop /\ Behind /\ Seeding)'
  <2>1. CASE Launched(last, IF source = "log" THEN last ELSE hw)
    <3>1. last \in 0..last /\ (IF source = "log" THEN last ELSE hw) \in 0..last
      BY <1>0, Numbers
    <3>2. Pending' = {}
      BY <1>1 DEF Pending
    <3>3. source = "log" /\ ~crossed' => \A f \in Firings : heard[f] <= 1 /\ (heard[f] > 0 => f <= last)
      BY <1>0, <1>1 DEF Safe, Behind, Typed, Bounded
    <3> QED
      BY <1>1, <2>1, <3>1, <3>2, <3>3, LaunchKeeps
  <2>2. CASE UNCHANGED <<running, task, loop, seeded, hw, mark>>
    <3>1. Live' = {} /\ Pending' = {}
      BY <1>1, <2>2 DEF Live, Pending
    <3>2. \A h \in Handlers : request'[h].pc # "read"
      BY <3>1 DEF Pending
    <3> QED
      BY <1>1, <2>2, <3>1, <3>2, QuietKeeps
  <2> QED
    BY <2>1, <2>2 DEF Boot
<1> QED
  BY <1>3, <1>4 DEF Safe

(* A request that goes on, while no other is under way and no loop is.     *)
LEMMA GoingKeeps ==
    ASSUME IInv, NEW h \in Handlers, NEW on \in BOOLEAN, NEW isRunning \in BOOLEAN,
           NEW isOn \in BOOLEAN, GoesOn(h, on, isRunning, isOn),
           crossed => crossed',
           ~crossed' => Live = {} /\ \A g \in Pending : g = h,
           UNCHANGED <<source, last, gone, rows, heard, missed, pruned>>
    PROVE  (OneLoop /\ Behind /\ Seeding)'
<1>0. Typed /\ Safe /\ request \in [Handlers -> RequestType]
  BY DEF IInv, Typed, TypeOK
<1>1. CASE Launched(last, hw) /\ source = "recorded" /\ request' = [request EXCEPT ![h] = Idle]
  <2>1. ~crossed' => Pending' = {}
    BY <1>0, <1>1, Records DEF Pending
  <2>2. last \in 0..last /\ hw \in 0..last
    BY <1>0, Numbers
  <2> QED
    BY <1>1, <2>1, <2>2, LaunchKeeps
<1>2. ASSUME NEW r, r.pc # "read", request' = [request EXCEPT ![h] = r],
             UNCHANGED <<loop, seeded, hw, mark, refused>>
      PROVE  (OneLoop /\ Behind /\ Seeding)'
  <2>1. ~crossed' => Live' = {} /\ \A g \in Pending' : g = h
    BY <1>0, <1>2 DEF Live, Pending
  <2>2. ~crossed' => \A g \in Handlers : request'[g].pc # "read"
    BY <1>0, <1>2 DEF Pending
  <2>3. ~crossed' => \A f, g \in Pending' : f = g
    BY <2>1
  <2> QED
    BY <1>2, <2>1, <2>2, <2>3, QuietKeeps
<1>3. RequestAt("reading", FALSE, 0).pc # "read" /\ Idle.pc # "read"
  BY Records DEF RequestAt
<1>4. \/ Launched(last, hw) /\ source = "recorded" /\ request' = [request EXCEPT ![h] = Idle]
      \/ /\ UNCHANGED <<loop, seeded, hw, mark, refused>>
         /\ \/ request' = [request EXCEPT ![h] = Idle]
            \/ request' = [request EXCEPT ![h] = RequestAt("reading", FALSE, 0)]
  BY Zenon DEF GoesOn
<1>5. CASE request' = [request EXCEPT ![h] = Idle] /\ UNCHANGED <<loop, seeded, hw, mark, refused>>
  BY <1>2, <1>3, <1>5
<1>6. CASE /\ request' = [request EXCEPT ![h] = RequestAt("reading", FALSE, 0)]
           /\ UNCHANGED <<loop, seeded, hw, mark, refused>>
  BY <1>2, <1>3, <1>6
<1> QED
  BY <1>1, <1>4, <1>5, <1>6

(* A request keeps it.                                                     *)
LEMMA RequestKeeps ==
    ASSUME IInv, NEW h \in Handlers,
           RequestStep(h) \/ (h \notin Pending /\ \E on \in BOOLEAN : Click(h, on))
    PROVE  Safe'
<1>0. /\ Typed /\ Safe /\ request \in [Handlers -> RequestType] /\ running \in BOOLEAN
      /\ loop \in [Loops -> LoopType] /\ flag \in BOOLEAN
  BY DEF IInv, Typed, TypeOK
<1>1. /\ UNCHANGED <<source, last, gone, rows, rule, known, fresh, heard, missed, pruned>>
      /\ crossed => crossed'
  <2>1. UNCHANGED <<source, last, gone, rows, rule, known, fresh, heard, missed, pruned>>
    <3>1. CASE Stopped(h)
      BY <3>1 DEF Stopped, acsVars, ruleVars
    <3>2. CASE ReadMax(h)
      BY <3>2 DEF ReadMax, acsVars, ruleVars, histories
    <3>3. CASE ReadFails(h)
      BY <3>3 DEF ReadFails, acsVars, ruleVars
    <3>4. CASE Started(h)
      BY <3>4 DEF Started, acsVars, ruleVars
    <3>5. CASE \E on \in BOOLEAN : Click(h, on)
      BY <3>5 DEF Click, acsVars, ruleVars
    <3> QED
      BY <3>1, <3>2, <3>3, <3>4, <3>5 DEF RequestStep
  <2>2. crossed' = crossed \/ crossed' = (crossed \/ Pending # {})
    BY Zenon DEF RequestStep, Stopped, ReadMax, ReadFails, Started, Click, histories
  <2>3. crossed => crossed'
    BY <2>2, Zenon
  <2> QED
    BY <2>1, <2>3
<1>2. Known' /\ Remembered'
  BY <1>0, <1>1 DEF Safe, Known, Remembered
<1>3. Promise'
  <2>1. CASE promised' = Kept
    BY <1>1, <2>1 DEF Promise, Kept
  <2>2. CASE ReadMax(h) \/ ReadFails(h)
    <3>1. UNCHANGED <<flag, running, seeded, hw, loop, promised>>
      BY <2>2 DEF ReadMax, ReadFails, pollerVars, histories
    <3> QED
      BY <1>0, <1>1, <3>1 DEF Safe, Promise, Ahead, Live, Asking
  <2> QED
    BY <2>1, <2>2 DEF RequestStep, Stopped, Started, Click
<1>4. ASSUME h \in Pending, ~crossed PROVE Live = {} /\ \A g \in Pending : g = h
  BY <1>0, <1>4 DEF Safe, OneLoop
<1>5. CASE Stopped(h)
  <2>1. h \in Pending /\ crossed' = crossed /\ GoesOn(h, request[h].on, running, flag)
    BY <1>5 DEF Stopped, Pending
  <2>2. request[h].on \in BOOLEAN
    BY <1>0 DEF RequestType
  <2>3. (OneLoop /\ Behind /\ Seeding)'
    BY <1>0, <1>1, <1>4, <2>1, <2>2, GoingKeeps
  <2> QED
    BY <1>2, <1>3, <2>3 DEF Safe
<1>6. CASE ReadMax(h) \/ ReadFails(h)
  <2>1. /\ h \in Pending /\ UNCHANGED <<seeded, mark, crossed, loop>>
        /\ \E r \in {RequestAt("read", FALSE, last), Idle} : request' = [request EXCEPT ![h] = r]
    BY <1>6 DEF ReadMax, ReadFails, Pending, pollerVars, histories
  <2>2. \A r \in {RequestAt("read", FALSE, last), Idle} : r.pc = "read" => r.max = last
    BY Records DEF RequestAt
  <2>3. ~crossed' => Live' = {} /\ \A g \in Pending' : g = h
    BY <1>0, <1>4, <2>1 DEF Live, Pending
  <2>4. ~crossed' => \A g \in Handlers : request'[g].pc = "read" => request'[g].max = last
    BY <1>0, <1>4, <2>1, <2>2 DEF Pending
  <2>5. ~crossed' => \A f, g \in Pending' : f = g
    BY <2>3
  <2>6. (OneLoop /\ Behind /\ Seeding)'
    BY <1>1, <2>1, <2>3, <2>4, <2>5, QuietKeeps
  <2> QED
    BY <1>2, <1>3, <2>6 DEF Safe
<1>7. CASE Started(h)
  <2>1. /\ h \in Pending /\ request[h].pc = "read" /\ crossed' = crossed
        /\ Launched(request[h].max, request[h].max) /\ request' = [request EXCEPT ![h] = Idle]
    BY <1>7 DEF Started, Pending
  <2>2. request[h].max \in 0..last
    BY <1>0, Numbers
  <2>3. ~crossed' => Live = {} /\ Pending' = {}
    BY <1>0, <1>4, <2>1, Records DEF Pending
  <2>4. source = "log" /\ ~crossed' =>
           \A f \in Firings : heard[f] <= 1 /\ (heard[f] > 0 => f <= request[h].max)
    BY <1>0, <2>1 DEF Safe, Behind
  <2>5. (OneLoop /\ Behind /\ Seeding)'
    BY <1>1, <2>1, <2>2, <2>3, <2>4, LaunchKeeps
  <2> QED
    BY <1>2, <1>3, <2>5 DEF Safe
<1>8. CASE h \notin Pending /\ \E on \in BOOLEAN : Click(h, on)
  <2>1. PICK on \in BOOLEAN : Click(h, on)
    BY <1>8
  <2>2. ~crossed' => ~crossed /\ Pending = {}
    BY <2>1 DEF Click
  <2>3. ~crossed => Live \subseteq {task}
    BY <1>0 DEF Safe, OneLoop
  <2>4. CASE task = 0 /\ GoesOn(h, on, FALSE, on)
    <3>1. ~crossed' => Live = {}
      BY <2>2, <2>3, <2>4, FiringsAssumption DEF FiringsAssumption, Live
    <3>2. (OneLoop /\ Behind /\ Seeding)'
      BY <1>1, <2>2, <2>4, <3>1, GoingKeeps
    <3> QED
      BY <1>2, <1>3, <3>2 DEF Safe
  <2>5. CASE /\ task # 0 /\ loop' = [loop EXCEPT ![task] = NoLoop]
             /\ request' = [request EXCEPT ![h] = RequestAt("stopping", on, 0)]
             /\ UNCHANGED <<seeded, mark>>
    <3>1. ~crossed' => Live' = {}
      BY <1>0, <2>2, <2>3, <2>5, Records DEF Live
    <3>2. RequestAt("stopping", on, 0).pc = "stopping"
      BY DEF RequestAt
    <3>3. ~crossed' => \A g \in Pending' : g = h
      BY <1>0, <2>2, <2>5 DEF Pending
    <3>4. ~crossed' => \A g \in Handlers : request'[g].pc # "read"
      BY <1>0, <2>2, <2>5, <3>2 DEF Pending
    <3>5. ~crossed' => \A f, g \in Pending' : f = g
      BY <3>3
    <3>6. (OneLoop /\ Behind /\ Seeding)'
      BY <1>1, <2>5, <3>1, <3>4, <3>5, QuietKeeps
    <3> QED
      BY <1>2, <1>3, <3>6 DEF Safe
  <2> QED
    BY <2>1, <2>4, <2>5 DEF Click
<1> QED
  BY <1>5, <1>6, <1>7, <1>8 DEF RequestStep

(* What a crash in the middle of a page can have handed over: firings      *)
(* after what the loop asked for.                                          *)
LEMMA CrashPage ==
    ASSUME Typed,
           \E k \in Loops : \E from \in Froms(k) : \E at \in from..last :
              /\ loop[k].pc = "asked"
              /\ Crash((from + 1)..at, (from + 1)..at) \/ Crash((from + 1)..at, (from + 1)..(at - 1))
    PROVE  \E k \in Asking : \E stored, handed :
              /\ handed \subseteq stored /\ Crash(stored, handed)
              /\ \A f \in handed : loop[k].since < f
<1>1. PICK k \in Loops : \E from \in Froms(k) : \E at \in from..last :
         /\ loop[k].pc = "asked"
         /\ Crash((from + 1)..at, (from + 1)..at) \/ Crash((from + 1)..at, (from + 1)..(at - 1))
  OBVIOUS
<1>2. PICK from \in Froms(k) : \E at \in from..last :
         /\ loop[k].pc = "asked"
         /\ Crash((from + 1)..at, (from + 1)..at) \/ Crash((from + 1)..at, (from + 1)..(at - 1))
  BY <1>1
<1>3. PICK at \in from..last :
         /\ loop[k].pc = "asked"
         /\ Crash((from + 1)..at, (from + 1)..at) \/ Crash((from + 1)..at, (from + 1)..(at - 1))
  BY <1>2
<1>4. from \in Nat /\ loop[k].since \in Nat /\ from >= loop[k].since /\ at \in Nat /\ k \in Asking
  BY <1>3, PageOfLoop DEF Asking
<1>5. \A f \in (from + 1)..at : loop[k].since < f
  BY <1>4
<1>6. (from + 1)..(at - 1) \subseteq (from + 1)..at
  BY <1>4
<1> QED
  BY <1>3, <1>4, <1>5, <1>6

(* A step that deals with no poll keeps the account of the faults.         *)
LEMMA SpentStill ==
    ASSUME IInv, UNCHANGED <<polls, last, source>>, promised' \subseteq promised,
           \A f \in Firings : heard'[f] >= heard[f],
           faults' = faults \/ (faults < MaxFaults /\ faults' = faults + 1)
    PROVE  Spent'
<1>1. Typed /\ Spent
  BY DEF IInv
<1>2. faults \in Nat /\ MaxFaults \in Nat /\ promised \subseteq Firings
  BY <1>1, FiringsAssumption DEF FiringsAssumption, Typed, TypeOK
<1>3. \A f \in Firings : polls[f] \in Nat /\ heard[f] \in Nat
  BY <1>1, <1>2, Numbers DEF Typed, TypeOK
<1>4. faults <= faults' /\ faults' <= MaxFaults /\ faults' \in Nat
  BY <1>1, <1>2 DEF Spent
<1>5. ASSUME source = "recorded", NEW f \in promised', heard'[f] = 0
      PROVE  polls[f] <= faults'
  <2>1. f \in Firings /\ f \in promised
    BY <1>2
  <2>2. heard[f] = 0
    BY <1>3, <1>5, <2>1
  <2>3. polls[f] <= faults
    BY <1>1, <1>5, <2>1, <2>2 DEF Spent
  <2> QED
    BY <1>2, <1>3, <1>4, <2>1, <2>3
<1> QED
  BY <1>1, <1>4, <1>5 DEF Spent

(* A poll that deals with nothing has met a fault.                         *)
LEMMA SpentPoll ==
    ASSUME IInv, NEW k \in Loops, PollEnds(k), UNCHANGED <<last, source, promised>>,
           \A f \in Firings : heard'[f] >= heard[f],
           faults' \in Nat, faults <= faults', faults' <= MaxFaults,
           \A f \in promised : source = "recorded" /\ heard'[f] = 0 /\ f <= loop[k].until
              => faults < faults'
    PROVE  Spent'
<1>1. Typed /\ Spent
  BY DEF IInv
<1>2. faults \in Nat /\ promised \subseteq Firings /\ last \in Nat
  BY <1>1, Numbers DEF Typed, TypeOK
<1>3. \A f \in Firings : polls[f] \in Nat /\ heard[f] \in Nat /\ f \in Nat
  BY <1>1, Numbers DEF Typed, TypeOK
<1>4. \A f \in Firings : \/ polls'[f] = polls[f]
                         \/ polls'[f] = polls[f] + 1 /\ f <= loop[k].until
  BY <1>1, PollEnd
<1>5. loop[k].until \in 0..last
  BY <1>1, Numbers
<1>6. \A f \in Firings : f > last => polls'[f] = 0
  BY <1>1, <1>2, <1>3, <1>4, <1>5 DEF Spent
<1>7. ASSUME source = "recorded", NEW f \in promised, heard'[f] = 0
      PROVE  polls'[f] <= faults'
  <2>1. f \in Firings
    BY <1>2
  <2>2. heard[f] = 0
    BY <1>3, <1>7, <2>1
  <2>3. polls[f] <= faults
    BY <1>1, <1>7, <2>2 DEF Spent
  <2>4. f <= loop[k].until => faults < faults'
    BY <1>7
  <2> QED
    BY <1>2, <1>3, <1>4, <2>1, <2>3, <2>4
<1> QED
  BY <1>6, <1>7 DEF Spent

(* A page deals with the firings it holds, but for the failed appends.     *)
LEMMA SpentPage ==
    ASSUME IInv, NEW k \in Loops, NEW from \in Froms(k), NEW until \in Untils(k),
           NEW readable \in BOOLEAN, NEW bad \in SUBSET ((from + 1)..until),
           Handle(k, from, until, bad, readable)
    PROVE  Spent'
<1> DEFINE page == (from + 1)..until
<1>1. Typed /\ Safe /\ Spent
  BY DEF IInv
<1>2. /\ heard' = Heard(Hands(page, bad)) /\ PollEnds(k)
      /\ UNCHANGED <<last, source, promised>>
  BY Zenon DEF Handle, Evaluate, acsVars
<1>3. \A f \in Firings : heard'[f] >= heard[f]
  BY <1>1, <1>2, Hearing
<1>4. /\ faults' \in Nat /\ faults <= faults' /\ faults' <= MaxFaults
      /\ bad # {} => faults < faults'
  <2>1. faults \in Nat /\ MaxFaults \in Nat
    BY <1>1, FiringsAssumption DEF FiringsAssumption, Typed, TypeOK
  <2> DEFINE b == IF bad = {} THEN 0 ELSE 1
             r == IF readable THEN 0 ELSE 1
  <2>2. faults' = faults + (b + r) /\ faults + (b + r) <= MaxFaults
    BY Zenon DEF Handle
  <2>3. b \in Nat /\ r \in Nat /\ (bad # {} => b = 1)
    OBVIOUS
  <2> HIDE DEF b, r
  <2> QED
    BY <2>1, <2>2, <2>3
<1>5. ASSUME NEW f \in promised, source = "recorded", heard'[f] = 0, f <= loop[k].until
      PROVE  faults < faults'
  <2>1. /\ from \in 0..last /\ from <= gone /\ loop[k].until \in 0..last
        /\ until \in loop[k].until..last /\ last \in Nat /\ gone \in Nat
        /\ f \in Firings /\ f \in Nat /\ heard[f] \in Nat
    BY <1>1, <1>5, PageOfLoop, Numbers DEF Typed, TypeOK, Untils
  <2>2. heard[f] = 0 /\ f \notin Hands(page, bad)
    BY <1>1, <1>2, <1>3, <1>5, <2>1, Hearing
  <2>3. seeded /\ f \notin rows /\ gone < f
    BY <1>1, <1>5, <2>2 DEF Safe, Promise, Ahead
  <2>4. f \in page
    BY <1>5, <2>1, <2>3
  <2>5. f \in bad
    BY <1>5, <2>2, <2>3, <2>4 DEF Hands
  <2> QED
    BY <1>4, <2>5
<1> QED
  BY <1>2, <1>3, <1>4, <1>5, SpentPoll

(* The account of the faults is kept.                                      *)
LEMMA SpentStep == IInv /\ [Next]_vars => Spent'
<1> SUFFICES ASSUME IInv, [Next]_vars PROVE Spent'
  OBVIOUS
<1>0. /\ Typed /\ Spent /\ faults \in Nat /\ MaxFaults \in Nat /\ last \in Nat
      /\ \A f \in Firings : heard[f] \in Nat /\ heard[f] >= heard[f]
  BY FiringsAssumption, Numbers DEF FiringsAssumption, IInv, Typed, TypeOK
<1>1. CASE Fire
  <2>1. /\ UNCHANGED <<polls, faults, source, heard>> /\ last' = last + 1
        /\ promised' \subseteq promised \cup {last + 1}
    BY <1>1 DEF Fire, bounds
  <2>2. last + 1 \in Firings /\ polls[last + 1] = 0
    <3>1. last + 1 \in Firings
      BY <1>0, <1>1, Numbers DEF Fire
    <3> QED
      BY <1>0, <3>1 DEF Spent
  <2>3. \A f \in Firings : f > last' => polls[f] = 0
    BY <1>0, <2>1, Numbers DEF Spent
  <2> QED
    BY <1>0, <2>1, <2>2, <2>3 DEF Spent
<1>2. CASE Slide \/ Edit \/ (\E n \in Firings : Prune(n)) \/ UNCHANGED vars
  <2>1. UNCHANGED <<polls, faults, source, last, heard, promised>>
    BY <1>2, Zenon DEF Slide, Edit, Prune, vars, acsVars, histories, bounds
  <2> QED
    BY <1>0, <2>1, SpentStill
<1>3. CASE Boot
  <2>1. /\ UNCHANGED <<polls, source, last, heard, promised>>
        /\ faults' = faults \/ (faults < MaxFaults /\ faults' = faults + 1)
    BY <1>3, Zenon DEF Boot, acsVars
  <2> QED
    BY <1>0, <2>1, SpentStill
<1>4. ASSUME NEW k \in Loops, LoopStep(k) PROVE Spent'
  <2>1. CASE Ask(k) \/ Skip(k) \/ Leave(k)
    <3>1. UNCHANGED <<polls, faults, source, last, heard, promised>>
      BY <2>1, Zenon DEF Ask, Skip, Leave, acsVars, histories, bounds
    <3> QED
      BY <1>0, <3>1, SpentStill
  <2>2. CASE CallFails(k)
    <3>1. /\ UNCHANGED <<source, last, heard, promised>> /\ PollEnds(k)
          /\ faults < MaxFaults /\ faults' = faults + 1
      BY <2>2, Zenon DEF CallFails, acsVars, histories
    <3>2. faults' \in Nat /\ faults <= faults' /\ faults' <= MaxFaults /\ faults < faults'
      BY <1>0, <3>1
    <3> QED
      BY <1>0, <3>1, <3>2, SpentPoll
  <2> QED
    BY <1>4, <2>1, <2>2, SpentPage DEF LoopStep
<1>5. ASSUME NEW stored, NEW handed, Crash(stored, handed) PROVE Spent'
  <2>1. /\ UNCHANGED <<polls, faults, source, last>> /\ promised' \subseteq promised
        /\ heard' = Heard(Hands(handed, {}))
    BY <1>5 DEF Crash, acsVars, Kept
  <2>2. \A f \in Firings : heard'[f] >= heard[f]
    BY <1>0, <2>1, Hearing
  <2> QED
    BY <2>1, <2>2, SpentStill
<1>6. ASSUME NEW h \in Handlers,
             RequestStep(h) \/ (\E on \in BOOLEAN : Click(h, on))
      PROVE  Spent'
  <2>1. /\ UNCHANGED <<polls, source, last, heard>> /\ promised' \subseteq promised
        /\ faults' = faults \/ (faults < MaxFaults /\ faults' = faults + 1)
    BY <1>6 DEF RequestStep, Stopped, ReadMax, ReadFails, Started, Click, acsVars, histories,
                bounds, Kept
  <2> QED
    BY <1>0, <2>1, SpentStill
<1> QED
  BY <1>1, <1>2, <1>3, <1>4, <1>5, <1>6 DEF Next

(* The invariant is inductive.                                             *)
LEMMA Inductive == IInv /\ [Next]_vars => IInv'
<1> SUFFICES ASSUME IInv, [Next]_vars PROVE IInv'
  OBVIOUS
<1>0. Typed
  BY DEF IInv
<1>1. Typed'
  BY <1>0, TypedStep
<1>2. Safe'
  <2>1. CASE Fire \/ Slide \/ Edit \/ (\E n \in Firings : Prune(n)) \/ UNCHANGED vars
    BY <2>1, WorldStep
  <2>2. CASE Boot
    BY <2>2, BootKeeps
  <2>3. CASE \E k \in Loops : LoopStep(k)
    BY <2>3, LoopKeeps, PageKeeps DEF LoopStep
  <2>4. CASE Crash({}, {})
    BY <2>4, CrashKeeps
  <2>5. CASE \E k \in Loops : \E from \in Froms(k) : \E at \in from..last :
                /\ loop[k].pc = "asked"
                /\ \/ Crash((from + 1)..at, (from + 1)..at)
                   \/ Crash((from + 1)..at, (from + 1)..(at - 1))
    <3>1. PICK k \in Asking : \E stored, handed :
             /\ handed \subseteq stored /\ Crash(stored, handed)
             /\ \A f \in handed : loop[k].since < f
      BY <1>0, <2>5, CrashPage
    <3> QED
      BY <3>1, CrashKeeps
  <2>6. CASE \E h \in Handlers : RequestStep(h)
    BY <2>6, RequestKeeps
  <2>7. CASE \E h \in Handlers \ Pending, on \in BOOLEAN : Click(h, on)
    BY <2>7, RequestKeeps
  <2> QED
    BY <2>1, <2>2, <2>3, <2>4, <2>5, <2>6, <2>7 DEF Next
<1>3. Spent'
  BY SpentStep
<1> QED
  BY <1>1, <1>2, <1>3 DEF IInv

(* And it holds before anything happened.                                  *)
LEMMA Initially == Init => IInv
<1> SUFFICES ASSUME Init PROVE IInv
  OBVIOUS
<1>1. Typed
  BY TypedInit
<1>2. Live = {} /\ Pending = {} /\ Asking = {} /\ promised = {}
  BY Records DEF Init, Live, Pending, Asking
<1>3. fresh = FALSE /\ seeded = FALSE /\ \A f \in Firings : heard[f] = 0
  BY DEF Init
<1>4. Known
  BY <1>3 DEF Known
<1>5. Remembered /\ OneLoop /\ Seeding /\ Promise
  BY <1>2, <1>3 DEF Remembered, OneLoop, Seeding, Promise
<1>6. Behind
  BY <1>2, <1>3 DEF Behind, Pending
<1>7. Spent
  BY <1>2, FiringsAssumption DEF FiringsAssumption, Init, Spent
<1> QED
  BY <1>1, <1>4, <1>5, <1>6, <1>7 DEF IInv, Safe

----------------------------------------------------------------------------

(* No firing is acted on twice, unless retention forgot it or requests     *)
(* crossed over the poller of the log.                                     *)
THEOREM ActedOnOnce == Spec => []HeardOnce
<1>1. IInv => HeardOnce
  <2> SUFFICES ASSUME IInv, NEW f \in Firings
               PROVE  heard[f] <= 1 \/ f \in pruned \/ (source = "log" /\ crossed)
    BY DEF HeardOnce
  <2>1. source \in {"recorded", "log"}
    BY DEF IInv, Typed, TypeOK
  <2> QED
    BY <2>1 DEF IInv, Safe, Remembered, Behind
<1> QED
  BY Initially, Inductive, <1>1, PTL DEF Spec

(* No cursor passes a firing that fell to a poller in service before the   *)
(* evaluator had it.                                                       *)
THEOREM Lossless == Spec => []NothingLost
<1>1. IInv => NothingLost
  <2> SUFFICES ASSUME IInv, NEW f \in promised,
                      IF source = "recorded" THEN f <= gone ELSE f <= hw
               PROVE  heard[f] > 0
    BY DEF NothingLost
  <2>1. /\ source \in {"recorded", "log"} /\ f \in Firings /\ f \in Nat /\ heard[f] \in 0..2
        /\ gone \in Nat /\ hw \in Nat
    BY Numbers DEF IInv, Typed, TypeOK
  <2>2. ASSUME heard[f] = 0 PROVE FALSE
    BY <2>1, <2>2 DEF IInv, Safe, Promise, Ahead
  <2> QED
    BY <2>1, <2>2
<1> QED
  BY Initially, Inductive, <1>1, PTL DEF Spec

(* What a loop hands over happened after the start.                        *)
LEMMA HandedIsNew ==
    ASSUME IInv, NEW k \in Asking, NEW f \in Firings, loop[k].since < f,
           NEW page, NEW bad, f \in Hands(page, bad)
    PROVE  f > mark \/ f \in missed \cup pruned \/ crossed
<1> SUFFICES ASSUME ~crossed, f \notin missed \cup pruned PROVE f > mark
  OBVIOUS
<1>0. Typed /\ Safe /\ k \in Loops
  BY DEF IInv, Asking
<1>1. /\ source \in {"recorded", "log"} /\ mark \in Nat /\ f \in Nat /\ loop[k].since \in Nat
      /\ hw \in Nat
  BY <1>0, Numbers
<1>2. CASE source = "recorded"
  <2>1. seeded /\ f \notin rows
    BY <1>2, HandsAre
  <2>2. ~(f <= loop[k].since)
    BY <1>1
  <2>3. ~(f <= mark)
    BY <1>0, <1>2, <2>1, <2>2 DEF Safe, Seeding
  <2> QED
    BY <1>1, <2>3
<1>3. CASE source = "log"
  <2>1. Live # {}
    BY <1>0 DEF Asking, Live
  <2>2. mark <= hw /\ loop[k].since = hw
    BY <1>0, <1>3, <2>1 DEF Safe, Behind
  <2> QED
    BY <1>1, <2>2
<1> QED
  BY <1>1, <1>2, <1>3

(* Who is heard of in a step was handed over in it.                        *)
LEMMA HistoryStep ==
    ASSUME IInv, [Next]_vars, NEW f \in Firings, heard'[f] > heard[f]
    PROVE  f > mark \/ f \in missed \cup pruned \/ crossed
<1>0. Typed /\ heard[f] \in Nat
  BY Numbers DEF IInv
<1>1. heard' # heard
  BY <1>0
<1>2. CASE \E k \in Loops : LoopStep(k)
  <2>1. PICK k \in Loops : LoopStep(k)
    BY <1>2
  <2>2. ~(Ask(k) \/ Skip(k) \/ Leave(k) \/ CallFails(k))
    BY <1>0, <1>1, LoopEffect
  <2>3. PICK from \in Froms(k), until \in Untils(k), readable \in BOOLEAN :
           \E bad \in SUBSET ((from + 1)..until) : Handle(k, from, until, bad, readable)
    BY <2>1, <2>2 DEF LoopStep
  <2>4. PICK bad \in SUBSET ((from + 1)..until) : Handle(k, from, until, bad, readable)
    BY <2>3
  <2>5. /\ heard' = Heard(Hands((from + 1)..until, bad)) /\ loop[k].pc = "asked"
    BY <2>4, Zenon DEF Handle, Evaluate
  <2>6. f \in Hands((from + 1)..until, bad)
    BY <1>0, <2>5, Hearing
  <2>7. f \in (from + 1)..until
    BY <2>6, HandsFromPage
  <2>8. loop[k].since < f /\ k \in Asking
    <3>1. loop[k].since \in Nat /\ from \in Nat /\ until \in Nat /\ from >= loop[k].since
      BY <1>0, PageOfLoop DEF Untils
    <3> QED
      BY <2>5, <2>7, <3>1 DEF Asking
  <2> QED
    BY <2>6, <2>8, HandedIsNew
<1>3. CASE Crash({}, {})
  <2>1. f \in Hands({}, {})
    BY <1>0, <1>3, Hearing DEF Crash
  <2> QED
    BY <2>1, HandsFromPage
<1>4. CASE \E k \in Loops : \E from \in Froms(k) : \E at \in from..last :
              /\ loop[k].pc = "asked"
              /\ Crash((from + 1)..at, (from + 1)..at) \/ Crash((from + 1)..at, (from + 1)..(at - 1))
  <2>1. PICK k \in Asking : \E stored, handed :
           /\ handed \subseteq stored /\ Crash(stored, handed)
           /\ \A g \in handed : loop[k].since < g
    BY <1>0, <1>4, CrashPage
  <2>2. PICK stored, handed : Crash(stored, handed) /\ \A g \in handed : loop[k].since < g
    BY <2>1
  <2>3. f \in Hands(handed, {})
    BY <1>0, <2>2, Hearing DEF Crash
  <2> QED
    BY <2>2, <2>3, HandsFromPage, HandedIsNew
<1>5. ~(Fire \/ Slide \/ Boot \/ Edit \/ (\E n \in Firings : Prune(n)) \/ UNCHANGED vars)
  BY <1>1 DEF Fire, Slide, Boot, Edit, Prune, vars
<1>6. ~((\E h \in Handlers : RequestStep(h)) \/ (\E h \in Handlers \ Pending, on \in BOOLEAN : Click(h, on)))
  BY <1>1 DEF RequestStep, Stopped, ReadMax, ReadFails, Started, Click
<1> QED
  BY <1>2, <1>3, <1>4, <1>5, <1>6 DEF Next

(* What happened before the start is not acted on, but for a failed        *)
(* append, a pruned row, or requests that crossed.                         *)
THEOREM HistoryStaysSilent == Spec => HistoryIsSilent
<1>1. IInv /\ [Next]_vars =>
         [\A f \in Firings :
             heard'[f] > heard[f] =>
                 f > mark \/ f \in missed \cup pruned \/ crossed]_vars
  BY HistoryStep
<1> QED
  BY Initially, Inductive, <1>1, PTL DEF Spec, HistoryIsSilent

(* After every evaluation the rules are the current ones, or are known not *)
(* to be.                                                                  *)
THEOREM CurrentRules == Spec => ActsOnCurrentRules
<1>1. IInv' => (heard' # heard => known' = rule' \/ ~fresh')
  BY Zenon DEF IInv, Safe, Known
<1>2. IInv /\ [Next]_vars => [heard' # heard => known' = rule' \/ ~fresh']_vars
  BY <1>1, Inductive
<1> QED
  BY Initially, Inductive, <1>2, PTL DEF Spec, ActsOnCurrentRules
=============================================================================
