---------------------------- MODULE PlanProofs ----------------------------
(***************************************************************************)
(* Plans: the engine that runs one, and the gate in front of many.         *)
(*                                                                         *)
(* The engine, for any devices, parameters, groups and step lists: no step *)
(* is sent before its prerequisites succeeded, a failure under "stop" ends *)
(* its lane, the results line up with the steps, and the rollback steps    *)
(* give the original configuration back.  The engine's lanes are           *)
(* interleaved in any way, each read may miss any group, and the answer of *)
(* each write may be lost.  It implements OrderedSteps.                    *)
(*                                                                         *)
(* The gate, for any plans, processes, risk words, policies, changes and   *)
(* deaths: the runs of a plan are paid for, no two engines run it at once, *)
(* and what a caller declares never lowers the level it is let in at.      *)
(***************************************************************************)
EXTENDS PlanEngine, GatedPlans, FiniteSetTheorems, TLAPS

-----------------------------------------------------------------------------
(* The engine.                                                             *)

(* Before a plan runs, nothing has been done.                              *)
Fresh ==
    status \in {"none", "pending_approval"} =>
        /\ todo = [l \in SUBSET Devices |-> {}]
        /\ answers = [l \in SUBSET Devices |-> <<>>]
        /\ told = [i \in Numbers |-> "unsent"]
        /\ undo = [i \in Numbers |-> NoWrites]
        /\ failed = {} /\ applied = {} /\ config = Original

(* What a lane has yet to reach is the end of its list of steps, and none  *)
(* of it was sent.                                                         *)
Queued ==
    \A l \in SUBSET Devices :
        /\ l \notin Lanes => todo[l] = {}
        /\ todo[l] \subseteq StepsOf(l)
        /\ \A i \in todo[l], j \in StepsOf(l) : i < j => j \in todo[l]
        /\ \A i \in todo[l] : ~ Sent(i) /\ i \notin applied

First(l, i) == i \in todo[l] /\ \A j \in todo[l] : i <= j

(* The position of step i in lane l.                                       *)
Place(l, i) == Cardinality({j \in StepsOf(l) : j <= i})

(* The answers of a lane are those of its first steps, in their order: the *)
(* next step of the lane is the one whose answer comes next.               *)
InStep ==
    \A l \in Lanes :
        /\ Len(answers[l]) <= Cardinality(StepsOf(l))
        /\ \A i \in todo[l] : First(l, i) => Place(l, i) = Len(answers[l]) + 1
        /\ \A i \in StepsOf(l) :
              IF Place(l, i) <= Len(answers[l])
                THEN answers[l][Place(l, i)] =
                        IF Sent(i) THEN told[i] ELSE "skipped"
                ELSE ~ Sent(i)

(* A step that is about to be sent waits for no failed step, and all the   *)
(* steps before it in its lane succeeded or count as failed.               *)
Cleared ==
    \A l \in Lanes \ reading : \A i \in todo[l] : First(l, i) => ~ MustSkip(i)
Settled ==
    \A l \in Lanes : todo[l] # {} =>
        \A j \in StepsOf(l) \ todo[l] : told[j] = "ok" \/ j \in failed

(* Under "stop" the first failure of a lane is its last step.              *)
Halted ==
    policy = "stop" =>
        \A l \in Lanes : \A i \in StepsOf(l) :
            told[i] = "failed" => todo[l] = {}

(* A parameter that no step wrote is what it was, ...                      *)
Untouched ==
    \A d \in Devices, k \in Keys :
        Writers(d, k) = {} => config[d][k] = Original[d][k]

(* ... so that what was read before the first write is the original.       *)
ReadFirst ==
    \A i \in Numbers :
        /\ DOMAIN undo[i] \subseteq DOMAIN plan[i].params
        /\ \A k \in DOMAIN undo[i] :
              (\A j \in Writers(plan[i].device, k) : i <= j)
                  => undo[i][k] = Original[plan[i].device][k]
        /\ told[i] = "ok" => i \in applied

Reported == Over => results = Collected /\ rollback = RollbackOf(Collected)

EngineInv ==
    /\ TypeOK /\ Valid(plan) /\ Fresh /\ Queued /\ InStep /\ Cleared /\ Settled
    /\ Halted /\ Untouched /\ ReadFirst /\ Reported
    /\ Prerequisites /\ StopHaltsLane

-----------------------------------------------------------------------------
(* The lanes.                                                              *)

LEMMA PlanTypes ==
    ASSUME plan \in Seq(Step)
    PROVE  /\ Len(plan) \in Nat /\ Numbers \subseteq Nat \ {0}
           /\ \A i \in Numbers : plan[i] \in Step /\ plan[i].device \in Devices
           /\ DevicesOf(plan) \subseteq Devices
           /\ Lanes \subseteq SUBSET Devices
<1>1. Len(plan) \in Nat /\ \A i \in Numbers : plan[i] \in Step
  BY DEF Numbers
<1>2. \A i \in Numbers : plan[i].device \in Devices
  BY <1>1 DEF Step
<1>3. DevicesOf(plan) \subseteq Devices
  BY <1>2 DEF DevicesOf, Numbers
<1> QED
  BY <1>1, <1>2, <1>3 DEF Lanes, Numbers

(* Each step is in one lane, with all the steps of its device.             *)
LEMMA OneLane ==
    ASSUME NEW l \in Lanes, NEW m \in Lanes, NEW i \in StepsOf(l),
           i \in StepsOf(m)
    PROVE  l = m
  BY DEF Lanes, StepsOf

LEMMA SomeLane ==
    ASSUME NEW i \in Numbers
    PROVE  /\ \E l \in Lanes : i \in StepsOf(l)
           /\ LET l == IF Fleet THEN {plan[i].device} ELSE DevicesOf(plan)
              IN  l \in Lanes /\ i \in StepsOf(l)
  BY DEF Lanes, StepsOf, DevicesOf, Numbers

LEMMA SameLanes ==
    ASSUME plan' = plan
    PROVE  /\ Numbers' = Numbers /\ Fleet' = Fleet /\ Lanes' = Lanes
           /\ \A l : StepsOf(l)' = StepsOf(l)
           /\ \A l, i : Place(l, i)' = Place(l, i)
  BY DEF Numbers, Fleet, Lanes, StepsOf, Place

-----------------------------------------------------------------------------
(* The positions in a lane.                                                *)

LEMMA CountOf ==
    ASSUME NEW n \in Nat, NEW S \in SUBSET (1..n)
    PROVE  /\ IsFiniteSet(S) /\ Cardinality(S) \in Nat /\ Cardinality(S) <= n
           /\ \A i \in S : LET upto == {j \in S : j <= i}
                           IN  /\ Cardinality(upto) \in Nat
                               /\ 1 <= Cardinality(upto)
                               /\ Cardinality(upto) <= Cardinality(S)
<1>1. IsFiniteSet(1..n) /\ Cardinality(1..n) = n
  BY FS_Interval
<1>2. IsFiniteSet(S) /\ Cardinality(S) <= n
  BY <1>1, FS_Subset
<1>3. ASSUME NEW i \in S, NEW upto, upto = {j \in S : j <= i}
      PROVE  /\ Cardinality(upto) \in Nat /\ 1 <= Cardinality(upto)
             /\ Cardinality(upto) <= Cardinality(S)
  <2>1. upto \in SUBSET S /\ {i} \in SUBSET upto
    BY <1>3
  <2>2. IsFiniteSet(upto) /\ Cardinality(upto) <= Cardinality(S)
    BY <1>2, <2>1, FS_Subset
  <2>3. Cardinality({i}) = 1 /\ Cardinality({i}) <= Cardinality(upto)
    BY <2>1, <2>2, FS_Singleton, FS_Subset
  <2> QED
    BY <2>2, <2>3, FS_CardinalityType
<1> QED
  BY <1>2, <1>3, FS_CardinalityType

LEMMA StepsFinite ==
    ASSUME plan \in Seq(Step), NEW l
    PROVE  /\ StepsOf(l) \subseteq Nat /\ IsFiniteSet(StepsOf(l))
           /\ Cardinality(StepsOf(l)) \in Nat
           /\ Cardinality(StepsOf(l)) <= Len(plan)
<1>1. StepsOf(l) \in SUBSET (1..Len(plan)) /\ Len(plan) \in Nat
  BY PlanTypes DEF StepsOf, Numbers
<1> QED
  BY <1>1, CountOf

LEMMA PlaceBounds ==
    ASSUME plan \in Seq(Step), NEW l, NEW i \in StepsOf(l)
    PROVE  /\ Place(l, i) \in Nat /\ 1 <= Place(l, i)
           /\ Place(l, i) <= Cardinality(StepsOf(l))
<1>1. StepsOf(l) \in SUBSET (1..Len(plan)) /\ Len(plan) \in Nat
  BY PlanTypes DEF StepsOf, Numbers
<1> QED
  BY <1>1, CountOf DEF Place

(* Later steps have later positions, ...                                   *)
LEMMA PlaceOrder ==
    ASSUME plan \in Seq(Step), NEW l, NEW i \in StepsOf(l),
           NEW j \in StepsOf(l), i < j
    PROVE  Place(l, i) < Place(l, j)
<1> DEFINE S == {m \in StepsOf(l) : m <= i}
           T == {m \in StepsOf(l) : m <= j}
<1>1. IsFiniteSet(T) /\ Cardinality(T) \in Nat
  BY StepsFinite, FS_Subset, FS_CardinalityType
<1>2. S \subseteq T /\ j \in T /\ j \notin S
  BY StepsFinite
<1>3. IsFiniteSet(S) /\ Cardinality(S) <= Cardinality(T) /\ Cardinality(S) \in Nat
  BY <1>1, <1>2, FS_Subset, FS_CardinalityType
<1>4. Cardinality(S) # Cardinality(T)
  BY <1>1, <1>2, FS_Subset
<1> QED
  BY <1>1, <1>3, <1>4 DEF Place

(* ... the first step has the first one, and the next step the next one.   *)
LEMMA PlaceFirst ==
    ASSUME plan \in Seq(Step), NEW l, NEW i \in StepsOf(l),
           \A j \in StepsOf(l) : i <= j
    PROVE  Place(l, i) = 1
<1>1. {j \in StepsOf(l) : j <= i} = {i}
  BY StepsFinite
<1> QED
  BY <1>1, FS_Singleton DEF Place

LEMMA PlaceNext ==
    ASSUME plan \in Seq(Step), NEW l, NEW i \in StepsOf(l),
           NEW j \in StepsOf(l), i < j,
           \A m \in StepsOf(l) : m <= i \/ j <= m
    PROVE  Place(l, j) = Place(l, i) + 1
<1> DEFINE S == {m \in StepsOf(l) : m <= i}
           T == {m \in StepsOf(l) : m <= j}
<1>1. IsFiniteSet(S)
  BY StepsFinite, FS_Subset
<1>2. T = S \cup {j} /\ j \notin S
  BY StepsFinite
<1>3. Cardinality(S \cup {j}) = Cardinality(S) + 1
  <2> HIDE DEF S
  <2> QED
    BY <1>1, <1>2, FS_AddElement
<1> QED
  BY <1>2, <1>3 DEF Place

(* In the sequential mode the position is the number of the step, in the   *)
(* fleet mode its rank among the steps of its device.                      *)
LEMMA PlaceOfStep ==
    ASSUME plan \in Seq(Step), NEW i \in Numbers
    PROVE  /\ Place(DevicesOf(plan), i) = i
           /\ Place({plan[i].device}, i) = Rank(i)
<1>1. i \in Nat /\ i <= Len(plan) /\ Len(plan) \in Nat
  BY PlanTypes DEF Numbers
<1>2. {j \in StepsOf(DevicesOf(plan)) : j <= i} = 1..i
  BY <1>1 DEF StepsOf, DevicesOf, Numbers
<1>3. Cardinality(1..i) = i
  BY <1>1, FS_Interval
<1>4. {j \in StepsOf({plan[i].device}) : j <= i}
         = {j \in 1..i : plan[j].device = plan[i].device}
  BY <1>1 DEF StepsOf, Numbers
<1> QED
  BY <1>2, <1>3, <1>4 DEF Place, Rank

-----------------------------------------------------------------------------
(* What is known of the step a lane has come to.                           *)
LEMMA Reached ==
    ASSUME EngineInv, NEW l \in SUBSET Devices, NEW i, First(l, i)
    PROVE  /\ l \in Lanes /\ i \in StepsOf(l) /\ i \in Numbers
           /\ ~ Sent(i) /\ i \notin applied
           /\ \A j \in StepsOf(l) : j \in todo[l] <=> i <= j
           /\ Place(l, i) = Len(answers[l]) + 1
<1>1. i \in todo[l] /\ \A j \in todo[l] : i <= j
  BY DEF First
<1>2. l \in Lanes /\ i \in StepsOf(l)
  BY <1>1 DEF EngineInv, Queued
<1>3. i \in Numbers /\ Numbers \subseteq Nat
  BY <1>2, PlanTypes DEF StepsOf, EngineInv, TypeOK
<1>4. ASSUME NEW j \in StepsOf(l) PROVE j \in todo[l] <=> i <= j
  <2>1. j \in Nat /\ i \in Nat
    BY <1>3 DEF StepsOf
  <2>2. i < j => j \in todo[l]
    BY <1>1 DEF EngineInv, Queued
  <2> QED
    BY <1>1, <2>1, <2>2
<1>5. ~ Sent(i) /\ i \notin applied
  BY <1>1 DEF EngineInv, Queued
<1>6. Place(l, i) = Len(answers[l]) + 1
  BY <1>1, <1>2 DEF EngineInv, InStep, First
<1> QED
  BY <1>2, <1>3, <1>4, <1>5, <1>6

(* An answer is appended to its lane, and the lane goes on or breaks.      *)
AnswerOf(l, i, a) ==
    /\ First(l, i)
    /\ answers' = [answers EXCEPT ![l] = Append(@, a)]
    /\ told' = IF a = "skipped" THEN told ELSE [told EXCEPT ![i] = a]
    /\ \E left \in {{}, todo[l] \ {i}} : todo' = [todo EXCEPT ![l] = left]
    /\ plan' = plan
    /\ applied' \in {applied, applied \cup {i}}

AnswerEffect(l, i, a) ==
    /\ \A j \in Numbers :
          told'[j] = IF j = i /\ a # "skipped" THEN a ELSE told[j]
    /\ \A m \in SUBSET Devices :
          m # l => todo'[m] = todo[m] /\ answers'[m] = answers[m]
    /\ todo'[l] \in {{}, todo[l] \ {i}}
    /\ answers'[l] = Append(answers[l], a)

LEMMA AnswerTypes ==
    ASSUME EngineInv, NEW l \in SUBSET Devices, NEW i,
           NEW a \in {"ok", "failed", "skipped"}, AnswerOf(l, i, a)
    PROVE  /\ todo' \in [SUBSET Devices -> SUBSET Nat]
           /\ answers' \in [SUBSET Devices -> Seq(Results)]
           /\ told' \in [Numbers -> {"unsent", "ok", "failed"}]
           /\ applied' \in SUBSET Numbers
           /\ AnswerEffect(l, i, a)
<1>1. i \in Numbers
  BY Reached DEF AnswerOf
<1>2. a \in Results
  BY DEF Results
<1>3. answers' \in [SUBSET Devices -> Seq(Results)]
  <2>1. Append(answers[l], a) \in Seq(Results)
    BY <1>2 DEF EngineInv, TypeOK
  <2> QED
    BY <2>1 DEF AnswerOf, EngineInv, TypeOK
<1>4. todo' \in [SUBSET Devices -> SUBSET Nat]
  <2>1. PICK left \in {{}, todo[l] \ {i}} : todo' = [todo EXCEPT ![l] = left]
    BY DEF AnswerOf
  <2>2. left \in SUBSET Nat /\ todo \in [SUBSET Devices -> SUBSET Nat]
    BY DEF EngineInv, TypeOK
  <2> QED
    BY <2>1, <2>2
<1>5. /\ told' \in [Numbers -> {"unsent", "ok", "failed"}]
      /\ \A j \in Numbers : told'[j] = IF j = i /\ a # "skipped"
                                         THEN a ELSE told[j]
  BY <1>1 DEF AnswerOf, EngineInv, TypeOK
<1>6. applied' \in SUBSET Numbers
  BY <1>1 DEF AnswerOf, EngineInv, TypeOK
<1>7. \A m \in SUBSET Devices : m # l => /\ todo'[m] = todo[m]
                                         /\ answers'[m] = answers[m]
  BY DEF AnswerOf, EngineInv, TypeOK
<1>8. /\ todo'[l] \in {{}, todo[l] \ {i}}
      /\ answers'[l] = Append(answers[l], a)
  BY DEF AnswerOf, EngineInv, TypeOK
<1> QED
  BY <1>3, <1>4, <1>5, <1>6, <1>7, <1>8 DEF AnswerEffect

LEMMA AnswerQueued ==
    ASSUME EngineInv, NEW l \in SUBSET Devices, NEW i,
           NEW a \in {"ok", "failed", "skipped"}, AnswerOf(l, i, a)
    PROVE  Queued'
<1>0. /\ \A j \in Numbers : told'[j] = IF j = i /\ a # "skipped"
                                         THEN a ELSE told[j]
      /\ \A m \in SUBSET Devices : m # l => /\ todo'[m] = todo[m]
                                            /\ answers'[m] = answers[m]
      /\ todo'[l] \in {{}, todo[l] \ {i}}
      /\ answers'[l] = Append(answers[l], a)
  <2>1. AnswerEffect(l, i, a)
    BY AnswerTypes
  <2> QED
    BY <2>1 DEF AnswerEffect
<1>1. /\ l \in Lanes /\ i \in StepsOf(l) /\ i \in Numbers
      /\ \A j \in StepsOf(l) : j \in todo[l] <=> i <= j
  BY Reached DEF AnswerOf
<1>2. plan' = plan /\ \A j : j \in applied' => j \in applied \/ j = i
  BY DEF AnswerOf
<1>3. \A j \in Numbers : j # i /\ told[j] = "unsent" => told'[j] = "unsent"
  BY <1>0
<1>4. ASSUME NEW m \in SUBSET Devices
      PROVE  /\ m \notin Lanes => todo'[m] = {}
             /\ todo'[m] \subseteq StepsOf(m)
             /\ \A j \in todo'[m], n \in StepsOf(m) : j < n => n \in todo'[m]
             /\ \A j \in todo'[m] : told'[j] = "unsent" /\ j \notin applied'
  <2>1. /\ m \notin Lanes => todo[m] = {}
        /\ todo[m] \subseteq StepsOf(m)
        /\ \A j \in todo[m], n \in StepsOf(m) : j < n => n \in todo[m]
        /\ \A j \in todo[m] : told[j] = "unsent" /\ j \notin applied
    BY DEF EngineInv, Queued, Sent
  <2>2. CASE m # l
    <3>1. todo'[m] = todo[m]
      BY <2>2, <1>0
    <3>2. i \notin todo[m]
      BY <1>1, <2>1, <2>2, OneLane
    <3>3. todo[m] \subseteq Numbers
      BY <2>1 DEF StepsOf
    <3> QED
      BY <1>2, <1>3, <2>1, <3>1, <3>2, <3>3
  <2>3. CASE m = l /\ todo'[l] = {}
    BY <1>1, <2>3
  <2>4. CASE m = l /\ todo'[l] = todo[l] \ {i}
    <3>1. todo[m] \subseteq Numbers
      BY <2>1 DEF StepsOf
    <3>2. \A j \in todo'[m], n \in StepsOf(m) : j < n => n # i
      <4>1. \A j \in todo[m] : i <= j /\ j \in Nat
        BY <1>1, <2>1, <2>4, StepsFinite DEF EngineInv, TypeOK
      <4>2. i \in Nat
        BY <1>1, StepsFinite DEF EngineInv, TypeOK
      <4> QED
        BY <2>4, <4>1, <4>2
    <3> QED
      BY <1>1, <1>2, <1>3, <2>1, <2>4, <3>1, <3>2
  <2> QED
    BY <2>2, <2>3, <2>4, <1>0
<1> QED
  BY <1>2, <1>4, SameLanes DEF Queued, Sent

LEMMA AnswerInStep ==
    ASSUME EngineInv, NEW l \in SUBSET Devices, NEW i,
           NEW a \in {"ok", "failed", "skipped"}, AnswerOf(l, i, a)
    PROVE  InStep'
<1> DEFINE n == Len(answers[l])
<1>0. /\ \A j \in Numbers : told'[j] = IF j = i /\ a # "skipped"
                                         THEN a ELSE told[j]
      /\ \A m \in SUBSET Devices : m # l => /\ todo'[m] = todo[m]
                                            /\ answers'[m] = answers[m]
      /\ todo'[l] \in {{}, todo[l] \ {i}}
      /\ answers'[l] = Append(answers[l], a)
  <2>1. AnswerEffect(l, i, a)
    BY AnswerTypes
  <2> QED
    BY <2>1 DEF AnswerEffect
<1>1. /\ l \in Lanes /\ i \in StepsOf(l) /\ i \in Numbers /\ ~ Sent(i)
      /\ \A j \in StepsOf(l) : j \in todo[l] <=> i <= j
      /\ Place(l, i) = n + 1
  BY Reached DEF AnswerOf
<1>2. plan' = plan /\ plan \in Seq(Step) /\ Lanes \subseteq SUBSET Devices
  BY PlanTypes DEF AnswerOf, EngineInv, TypeOK
<1>3. answers[l] \in Seq(Results) /\ n \in Nat /\ answers'[l] = Append(answers[l], a)
  BY <1>0 DEF EngineInv, TypeOK
<1>4. \A m \in Lanes : StepsOf(m) \subseteq Numbers /\ StepsOf(m) \subseteq Nat
  BY <1>2, StepsFinite DEF StepsOf
<1>5. ASSUME NEW m \in Lanes
      PROVE  /\ Len(answers'[m]) <= Cardinality(StepsOf(m))
             /\ \A j \in todo'[m] : (\A k \in todo'[m] : j <= k)
                    => Place(m, j) = Len(answers'[m]) + 1
             /\ \A j \in StepsOf(m) :
                   IF Place(m, j) <= Len(answers'[m])
                     THEN answers'[m][Place(m, j)] =
                             IF told'[j] # "unsent" THEN told'[j] ELSE "skipped"
                     ELSE told'[j] = "unsent"
  <2>1. /\ Len(answers[m]) <= Cardinality(StepsOf(m))
        /\ \A j \in todo[m] : (\A k \in todo[m] : j <= k)
               => Place(m, j) = Len(answers[m]) + 1
        /\ \A j \in StepsOf(m) :
              IF Place(m, j) <= Len(answers[m])
                THEN answers[m][Place(m, j)] =
                        IF told[j] # "unsent" THEN told[j] ELSE "skipped"
                ELSE told[j] = "unsent"
    BY DEF EngineInv, InStep, First, Sent
  <2>2. CASE m # l
    <3>1. \A j \in StepsOf(m) : j # i
      BY <1>1, <2>2, OneLane
    <3>2. \A j \in StepsOf(m) : told'[j] = told[j]
      BY <1>4, <3>1, <1>0
    <3>3. todo'[m] = todo[m] /\ answers'[m] = answers[m]
      BY <1>2, <2>2, <1>0
    <3> QED
      BY <2>1, <3>2, <3>3
  <2>3. CASE m = l
    <3>1. Len(answers'[l]) = n + 1
      BY <1>3
    <3>2. n + 1 <= Cardinality(StepsOf(l))
      BY <1>1, <1>2, PlaceBounds
    <3>3. ASSUME NEW j \in todo'[l], \A k \in todo'[l] : j <= k
          PROVE  Place(l, j) = n + 2
      <4>1. todo'[l] = todo[l] \ {i} /\ j \in todo[l] /\ j # i
        BY <3>3, <1>0
      <4>2. j \in StepsOf(l) /\ i < j
        BY <1>1, <1>4, <4>1 DEF EngineInv, Queued
      <4>3. \A k \in StepsOf(l) : k <= i \/ j <= k
        BY <1>1, <1>4, <3>3, <4>1
      <4>4. Place(l, j) = Place(l, i) + 1
        BY <1>1, <1>2, <4>2, <4>3, PlaceNext
      <4> QED
        BY <1>1, <1>3, <4>4
    <3>4. ASSUME NEW j \in StepsOf(l)
          PROVE  IF Place(l, j) <= n + 1
                   THEN answers'[l][Place(l, j)] =
                           IF told'[j] # "unsent" THEN told'[j] ELSE "skipped"
                   ELSE told'[j] = "unsent"
      <4>1. Place(l, j) \in Nat /\ 1 <= Place(l, j) /\ j \in Numbers /\ j \in Nat
            /\ i \in Nat
        BY <1>1, <1>2, <1>4, PlaceBounds
      <4>2. CASE j = i
        <5>1. answers'[l][n + 1] = a
          BY <1>3
        <5>2. told'[i] = IF a # "skipped" THEN a ELSE "unsent"
          BY <1>1, <1>0 DEF Sent
        <5> QED
          BY <1>1, <1>3, <4>2, <5>1, <5>2
      <4>3. CASE j < i
        <5>1. Place(l, j) < n + 1
          BY <1>1, <1>2, <4>3, PlaceOrder
        <5>2. Place(l, j) <= n /\ Place(l, j) \in 1..n
          BY <1>3, <4>1, <5>1
        <5>3. answers'[l][Place(l, j)] = answers[l][Place(l, j)]
          BY <1>3, <5>2
        <5>4. told'[j] = told[j]
          BY <4>1, <4>3, <1>0
        <5> QED
          BY <1>3, <2>1, <2>3, <4>1, <5>2, <5>3, <5>4
      <4>4. CASE i < j
        <5>1. n + 1 < Place(l, j)
          BY <1>1, <1>2, <4>4, PlaceOrder
        <5>2. told'[j] = told[j]
          BY <4>1, <4>4, <1>0
        <5>3. told[j] = "unsent"
          BY <1>3, <2>1, <2>3, <4>1, <5>1
        <5> QED
          BY <1>3, <4>1, <5>1, <5>2, <5>3
      <4> QED
        BY <4>1, <4>2, <4>3, <4>4
    <3>5. Len(answers'[m]) = n + 1 /\ n + 1 + 1 = n + 2
      BY <1>3, <2>3, <3>1
    <3> HIDE DEF n
    <3> QED
      BY <2>3, <3>2, <3>3, <3>4, <3>5
  <2> QED
    BY <2>2, <2>3
<1> QED
  BY <1>2, <1>5, SameLanes DEF InStep, First, Sent

(* An answer that is no success is a failure, also for the steps that wait *)
(* for the step.                                                           *)
LEMMA AnswerSettled ==
    ASSUME EngineInv, NEW l \in SUBSET Devices, NEW i,
           NEW a \in {"ok", "failed", "skipped"}, AnswerOf(l, i, a),
           failed' = IF a = "ok" THEN failed ELSE failed \cup {i}
    PROVE  Settled'
<1>0. /\ \A j \in Numbers : told'[j] = IF j = i /\ a # "skipped"
                                         THEN a ELSE told[j]
      /\ \A m \in SUBSET Devices : m # l => todo'[m] = todo[m]
      /\ todo'[l] \in {{}, todo[l] \ {i}}
  <2>1. AnswerEffect(l, i, a)
    BY AnswerTypes
  <2> QED
    BY <2>1 DEF AnswerEffect
<1>1. l \in Lanes /\ i \in StepsOf(l) /\ i \in todo[l] /\ ~ Sent(i)
  BY Reached DEF AnswerOf, First
<1>2. plan' = plan /\ Lanes \subseteq SUBSET Devices
  BY PlanTypes DEF AnswerOf, EngineInv, TypeOK
<1>3. ASSUME NEW m \in Lanes, todo'[m] # {}, NEW j \in StepsOf(m) \ todo'[m]
      PROVE  told'[j] = "ok" \/ j \in failed'
  <2>1. j \in Numbers
    BY <1>3 DEF StepsOf
  <2>2. CASE j = i
    BY <1>0, <2>1, <2>2
  <2>3. CASE j # i
    <3>1. todo[m] # {} /\ j \notin todo[m]
      BY <1>0, <1>2, <1>3, <2>3
    <3>2. told[j] = "ok" \/ j \in failed
      BY <1>3, <3>1 DEF EngineInv, Settled
    <3> QED
      BY <1>0, <2>1, <2>3, <3>2
  <2> QED
    BY <2>2, <2>3
<1> QED
  BY <1>2, <1>3, SameLanes DEF Settled

(* Under "stop" a failure ends its lane, and no lane goes on after one.    *)
LEMMA AnswerHalted ==
    ASSUME EngineInv, NEW l \in SUBSET Devices, NEW i,
           NEW a \in {"ok", "failed", "skipped"}, AnswerOf(l, i, a),
           policy' = policy,
           policy = "stop" /\ a = "failed" => todo'[l] = {}
    PROVE  Halted' /\ StopHaltsLane'
<1>0. /\ \A j \in Numbers : told'[j] = IF j = i /\ a # "skipped"
                                         THEN a ELSE told[j]
      /\ \A m \in SUBSET Devices : m # l => todo'[m] = todo[m]
      /\ todo'[l] \in {{}, todo[l] \ {i}}
  <2>1. AnswerEffect(l, i, a)
    BY AnswerTypes
  <2> QED
    BY <2>1 DEF AnswerEffect
<1>1. /\ l \in Lanes /\ i \in StepsOf(l) /\ i \in todo[l] /\ ~ Sent(i)
      /\ \A j \in StepsOf(l) : j \in todo[l] <=> i <= j
  <2>1. First(l, i)
    BY DEF AnswerOf
  <2> QED
    BY <2>1, Reached DEF First
<1>2. plan' = plan /\ Lanes \subseteq SUBSET Devices
  BY PlanTypes DEF AnswerOf, EngineInv, TypeOK
<1>3. Numbers \subseteq Nat
  BY PlanTypes DEF EngineInv, TypeOK
<1>4. Halted'
  <2> SUFFICES ASSUME policy = "stop", NEW m \in Lanes, NEW j \in StepsOf(m),
                      told'[j] = "failed"
               PROVE  todo'[m] = {}
    BY <1>2, SameLanes DEF Halted
  <2>1. j \in Numbers
    BY DEF StepsOf
  <2>2. CASE j = i /\ a = "failed"
    BY <1>1, <2>2, OneLane
  <2>3. CASE told[j] = "failed"
    <3>1. todo[m] = {}
      BY <2>3 DEF EngineInv, Halted
    <3> QED
      BY <1>0, <1>1, <1>2, <3>1
  <2> QED
    BY <1>0, <2>1, <2>2, <2>3
<1>5. StopHaltsLane'
  <2> SUFFICES ASSUME policy = "stop", NEW j \in Numbers, NEW n \in Numbers,
                      j < n, plan[j].device = plan[n].device,
                      told'[j] = "failed"
               PROVE  told'[n] = "unsent"
    BY <1>2, SameLanes DEF StopHaltsLane, Sent
  <2>1. CASE told[j] = "failed"
    <3>1. told[n] = "unsent"
      BY <2>1 DEF EngineInv, StopHaltsLane, Sent
    <3>2. n # i
      <4>1. n = i => j \in StepsOf(l)
        BY <1>1 DEF StepsOf
      <4> QED
        BY <1>1, <2>1, <4>1 DEF EngineInv, Halted
    <3> QED
      BY <1>0, <3>1, <3>2
  <2>2. CASE told[j] # "failed"
    <3>1. j = i
      BY <1>0, <2>2
    <3>2. n \in StepsOf(l)
      BY <1>1, <3>1 DEF StepsOf
    <3>3. n \in todo[l] /\ n # i
      BY <1>1, <1>3, <3>1, <3>2
    <3> QED
      BY <1>0, <3>3 DEF EngineInv, Queued, Sent
  <2> QED
    BY <2>1, <2>2
<1> QED
  BY <1>4, <1>5

(* Lanes that interleave are lanes of a plan without dependencies.         *)
LEMMA AnswerCleared ==
    ASSUME EngineInv, NEW l \in SUBSET Devices, NEW i,
           NEW a \in {"ok", "failed", "skipped"}, AnswerOf(l, i, a),
           policy' = policy, reading' = reading \cup {l}
    PROVE  Cleared'
<1>1. l \in Lanes
  BY Reached DEF AnswerOf
<1>2. plan' = plan
  BY DEF AnswerOf
<1>3. ASSUME NEW m \in Lanes \ reading', NEW j \in Numbers
      PROVE  ~ MustSkip(j)'
  <2>1. Fleet
    BY <1>1, <1>3 DEF Lanes
  <2>2. plan'[j].deps = {}
    BY <1>2, <2>1 DEF Fleet
  <2> QED
    BY <2>2 DEF MustSkip
<1>4. Queued'
  BY AnswerQueued
<1>5. \A m \in Lanes : m \in SUBSET Devices /\ StepsOf(m) \subseteq Numbers
  BY PlanTypes DEF StepsOf, EngineInv, TypeOK
<1>6. \A m \in Lanes : todo'[m] \subseteq Numbers
  BY <1>2, <1>4, <1>5, SameLanes DEF Queued
<1> QED
  BY <1>2, <1>3, <1>6, SameLanes DEF Cleared

(* What a step waits for came before it in its lane.                       *)
LEMMA AnswerPrerequisites ==
    ASSUME EngineInv, NEW l \in SUBSET Devices, NEW i,
           NEW a \in {"ok", "failed", "skipped"}, AnswerOf(l, i, a),
           policy' = policy, a = "skipped" \/ l \notin reading
    PROVE  Prerequisites'
<1>0. \A j \in Numbers : told'[j] = IF j = i /\ a # "skipped"
                                       THEN a ELSE told[j]
  <2>1. AnswerEffect(l, i, a)
    BY AnswerTypes
  <2> QED
    BY <2>1 DEF AnswerEffect
<1>1. /\ l \in Lanes /\ i \in StepsOf(l) /\ i \in Numbers /\ First(l, i)
      /\ i \in todo[l] /\ ~ Sent(i)
      /\ \A j \in StepsOf(l) : j \in todo[l] <=> i <= j
  <2>1. First(l, i)
    BY DEF AnswerOf
  <2>2. i \in todo[l]
    BY <2>1 DEF First
  <2> QED
    BY <2>1, <2>2, Reached
<1>2. plan' = plan /\ Numbers \subseteq Nat
  BY PlanTypes DEF AnswerOf, EngineInv, TypeOK
<1>3. \A n \in Numbers : plan[n].deps \subseteq 1..(n - 1)
  BY DEF EngineInv, Valid, Numbers
<1>4. ASSUME policy # "continue", a # "skipped", NEW j \in plan[i].deps
      PROVE  told[j] = "ok"
  <2>1. j \in Numbers /\ j < i
    BY <1>1, <1>2, <1>3, PlanTypes DEF Numbers, EngineInv, TypeOK
  <2>2. ~ MustSkip(i)
    BY <1>1, <1>4 DEF EngineInv, Cleared
  <2>3. j \notin failed
    BY <1>4, <2>2 DEF MustSkip
  <2>4. ~ Fleet
    BY <1>1, <1>4 DEF Fleet
  <2>5. j \in StepsOf(l)
    BY <1>1, <2>1, <2>4 DEF Lanes, StepsOf, DevicesOf, Numbers
  <2>6. j \notin todo[l]
    BY <1>1, <1>2, <2>1, <2>5
  <2> QED
    BY <1>1, <2>3, <2>5, <2>6 DEF EngineInv, Settled
<1>5. ASSUME policy # "continue", NEW n \in Numbers, told'[n] # "unsent",
             NEW j \in plan[n].deps
      PROVE  told'[j] = "ok"
  <2>1. j \in Numbers
    BY <1>2, <1>3, <1>5, PlanTypes DEF Numbers, EngineInv, TypeOK
  <2>2. told[j] = "ok"
    <3>1. CASE n = i /\ a # "skipped"
      BY <1>4, <1>5, <3>1
    <3>2. CASE ~ (n = i /\ a # "skipped")
      BY <1>0, <1>5, <3>2 DEF EngineInv, Prerequisites, Sent
    <3> QED
      BY <3>1, <3>2
  <2>3. j # i
    BY <1>1, <2>2 DEF Sent
  <2> QED
    BY <1>0, <2>1, <2>2, <2>3
<1> QED
  BY <1>2, <1>5, SameLanes DEF Prerequisites, Sent

-----------------------------------------------------------------------------
(* The devices.                                                            *)

LEMMA WriteTypes ==
    ASSUME NEW V, NEW w \in Writes(V)
    PROVE  DOMAIN w \subseteq Keys /\ \A k \in DOMAIN w : w[k] \in V
  BY DEF Writes

LEMMA ApplyTypes ==
    ASSUME EngineInv, NEW i \in Numbers, Apply(i)
    PROVE  /\ config' \in [Devices -> [Keys -> Values \cup {Absent}]]
           /\ applied' = applied \cup {i}
           /\ \A d \in Devices, k \in Keys :
                 ~ (d = plan[i].device /\ k \in DOMAIN plan[i].params)
                     => config'[d][k] = config[d][k]
<1> DEFINE d == plan[i].device
           new == [k \in Keys |-> IF k \in DOMAIN plan[i].params
                                    THEN plan[i].params[k] ELSE config[d][k]]
<1>1. d \in Devices /\ plan[i].params \in Writes(Values)
  BY PlanTypes DEF EngineInv, TypeOK, Step
<1>2. new \in [Keys -> Values \cup {Absent}]
  BY <1>1, WriteTypes DEF EngineInv, TypeOK
<1>3. config' = [config EXCEPT ![d] = new] /\ applied' = applied \cup {i}
  BY DEF Apply
<1>4. \A k \in Keys : k \notin DOMAIN plan[i].params => new[k] = config[d][k]
  OBVIOUS
<1> HIDE DEF new
<1> QED
  BY <1>1, <1>2, <1>3, <1>4 DEF EngineInv, TypeOK

LEMMA DeviceKeeps ==
    ASSUME EngineInv, NEW i \in Numbers, NEW a \in {"ok", "failed"},
           Apply(i) \/ (a = "failed" /\ UNCHANGED <<applied, config>>),
           plan' = plan, undo' = undo,
           \A j \in Numbers : told'[j] = IF j = i THEN a ELSE told[j]
    PROVE  /\ config' \in [Devices -> [Keys -> Values \cup {Absent}]]
           /\ Untouched' /\ ReadFirst'
<1>1. /\ config' \in [Devices -> [Keys -> Values \cup {Absent}]]
      /\ applied \subseteq applied'
      /\ \A d \in Devices, k \in Keys :
            config'[d][k] # config[d][k] =>
                /\ d = plan[i].device /\ k \in DOMAIN plan[i].params
                /\ i \in applied'
      /\ a = "ok" => i \in applied'
  <2>1. CASE Apply(i)
    BY <2>1, ApplyTypes
  <2>2. CASE a = "failed" /\ UNCHANGED <<applied, config>>
    BY <2>2 DEF EngineInv, TypeOK
  <2> QED
    BY <2>1, <2>2
<1>2. \A d, k : Writers(d, k) \subseteq Writers(d, k)'
  BY <1>1 DEF Writers
<1>3. \A d \in Devices, k \in Keys :
          config'[d][k] # config[d][k] => i \in Writers(d, k)'
  BY <1>1 DEF Writers
<1>4. Untouched'
  BY <1>2, <1>3 DEF EngineInv, Untouched
<1>5. ReadFirst'
  <2> SUFFICES ASSUME NEW j \in Numbers
               PROVE  /\ DOMAIN undo[j] \subseteq DOMAIN plan[j].params
                      /\ \A k \in DOMAIN undo[j] :
                            (\A n \in Writers(plan[j].device, k)' : j <= n)
                                => undo[j][k] = Original[plan[j].device][k]
                      /\ told'[j] = "ok" => j \in applied'
    BY SameLanes DEF ReadFirst, Writers
  <2> QED
    BY <1>1, <1>2 DEF EngineInv, ReadFirst
<1> QED
  BY <1>1, <1>4, <1>5

-----------------------------------------------------------------------------
(* The steps of a lane.                                                    *)

LEMMA SkipInv ==
    ASSUME EngineInv, NEW l \in SUBSET Devices, Skip(l)
    PROVE  EngineInv'
<1>1. PICK i \in Numbers :
          /\ Begins(l, i) /\ MustSkip(i)
          /\ answers' = [answers EXCEPT ![l] = Append(@, "skipped")]
          /\ failed' = failed \cup {i}
          /\ todo' = [todo EXCEPT ![l] = @ \ {i}]
          /\ UNCHANGED <<verdict, plan, policy, reading, undo, device>>
  BY DEF Skip
<1>2. /\ First(l, i) /\ l \in reading /\ status = "executing"
      /\ UNCHANGED <<status, results, rollback, plan, policy, reading, undo,
                     config, told, applied>>
  BY <1>1 DEF Begins, Reaches, First, verdict, device
<1>3. AnswerOf(l, i, "skipped")
  BY <1>1, <1>2 DEF AnswerOf
<1>4. TypeOK'
  <2>1. /\ todo' \in [SUBSET Devices -> SUBSET Nat]
        /\ answers' \in [SUBSET Devices -> Seq(Results)]
    BY <1>3, AnswerTypes
  <2>2. failed' \in SUBSET Nat
    BY <1>1, PlanTypes DEF EngineInv, TypeOK
  <2> QED
    BY <1>2, <2>1, <2>2, SameLanes DEF EngineInv, TypeOK
<1>5. Valid(plan') /\ Fresh' /\ Reported'
  BY <1>2 DEF EngineInv, Valid, Fresh, Reported, Over
<1>6. Queued' /\ InStep'
  BY <1>3, AnswerQueued, AnswerInStep
<1>7. Cleared'
  BY <1>2, <1>3, AnswerCleared
<1>8. Settled'
  BY <1>1, <1>3, AnswerSettled
<1>9. Halted' /\ StopHaltsLane'
  BY <1>2, <1>3, AnswerHalted
<1>10. Prerequisites'
  BY <1>2, <1>3, AnswerPrerequisites
<1>11. Untouched' /\ ReadFirst'
  BY <1>2, SameLanes DEF EngineInv, Untouched, ReadFirst, Writers
<1> QED
  BY <1>2, <1>4, <1>5, <1>6, <1>7, <1>8, <1>9, <1>10, <1>11 DEF EngineInv

LEMMA ExecuteInv ==
    ASSUME EngineInv, NEW l \in SUBSET Devices, ExecuteOk(l) \/ ExecuteFailed(l)
    PROVE  EngineInv'
<1>1. PICK i \in Numbers, a \in {"ok", "failed"} :
          /\ Sends(l, i)
          /\ Apply(i) \/ (a = "failed" /\ UNCHANGED <<applied, config>>)
          /\ Answered(l, i, a)
          /\ failed' = IF a = "ok" THEN failed ELSE failed \cup {i}
          /\ todo' = [todo EXCEPT ![l] =
                IF policy = "stop" /\ a = "failed" THEN {} ELSE @ \ {i}]
  BY DEF ExecuteOk, ExecuteFailed, Break
<1>2. /\ First(l, i) /\ l \notin reading /\ status = "executing"
      /\ answers' = [answers EXCEPT ![l] = Append(@, a)]
      /\ told' = [told EXCEPT ![i] = a]
      /\ reading' = reading \cup {l}
      /\ UNCHANGED <<status, results, rollback, plan, policy, undo>>
  BY <1>1 DEF Sends, Reaches, First, Answered, verdict
<1>3. applied' \in {applied, applied \cup {i}}
  BY <1>1 DEF Apply
<1>4. AnswerOf(l, i, a)
  <2>1. \E left \in {{}, todo[l] \ {i}} : todo' = [todo EXCEPT ![l] = left]
    BY <1>1
  <2> QED
    BY <1>2, <1>3, <2>1 DEF AnswerOf
<1>5. policy = "stop" /\ a = "failed" => todo'[l] = {}
  BY <1>1 DEF EngineInv, TypeOK
<1>6. AnswerEffect(l, i, a)
  BY <1>4, AnswerTypes
<1>7. /\ config' \in [Devices -> [Keys -> Values \cup {Absent}]]
      /\ Untouched' /\ ReadFirst'
  <2>1. \A j \in Numbers : told'[j] = IF j = i THEN a ELSE told[j]
    BY <1>6 DEF AnswerEffect
  <2> QED
    BY <1>1, <1>2, <2>1, DeviceKeeps
<1>8. TypeOK'
  <2>1. /\ todo' \in [SUBSET Devices -> SUBSET Nat]
        /\ answers' \in [SUBSET Devices -> Seq(Results)]
        /\ told' \in [Numbers -> {"unsent", "ok", "failed"}]
        /\ applied' \in SUBSET Numbers
    BY <1>4, AnswerTypes
  <2>2. failed' \in SUBSET Nat
    BY <1>1, PlanTypes DEF EngineInv, TypeOK
  <2> QED
    BY <1>2, <1>7, <2>1, <2>2, SameLanes DEF EngineInv, TypeOK
<1>9. Valid(plan') /\ Fresh' /\ Reported'
  BY <1>2 DEF EngineInv, Valid, Fresh, Reported, Over
<1>10. Queued' /\ InStep'
  BY <1>4, AnswerQueued, AnswerInStep
<1>11. Cleared'
  BY <1>2, <1>4, AnswerCleared
<1>12. Settled'
  BY <1>1, <1>4, AnswerSettled
<1>13. Halted' /\ StopHaltsLane'
  BY <1>2, <1>4, <1>5, AnswerHalted
<1>14. Prerequisites'
  BY <1>2, <1>4, AnswerPrerequisites
<1> QED
  BY <1>2, <1>7, <1>8, <1>9, <1>10, <1>11, <1>12, <1>13, <1>14 DEF EngineInv

(* What is read before a step is what its predecessors left, and these     *)
(* were the only writers so far.                                           *)
LEMMA PreReadInv ==
    ASSUME EngineInv, NEW l \in SUBSET Devices, PreRead(l)
    PROVE  EngineInv'
<1>1. PICK i \in Numbers :
          /\ Begins(l, i) /\ ~ MustSkip(i)
          /\ \E G \in SUBSET {GroupOf[k] : k \in DOMAIN plan[i].params} :
                undo' = [undo EXCEPT ![i] = IF plan[i].update
                                              THEN ReadBack(i, G) ELSE NoWrites]
          /\ reading' = reading \ {l}
          /\ UNCHANGED <<verdict, plan, policy, todo, answers, failed, device>>
  BY DEF PreRead
<1>2. /\ First(l, i) /\ status = "executing"
      /\ UNCHANGED <<status, results, rollback, plan, policy, todo, answers,
                     failed, config, told, applied>>
  BY <1>1 DEF Begins, Reaches, First, verdict, device
<1>3. PICK r : /\ undo' = [undo EXCEPT ![i] = r]
               /\ r \in Writes(Values)
               /\ DOMAIN r \subseteq DOMAIN plan[i].params
               /\ \A k \in DOMAIN r : r[k] = config[plan[i].device][k]
  <2>1. PICK G : undo' = [undo EXCEPT ![i] = IF plan[i].update
                                              THEN ReadBack(i, G) ELSE NoWrites]
    BY <1>1
  <2>2. plan[i].device \in Devices /\ plan[i].params \in Writes(Values)
    BY PlanTypes DEF EngineInv, TypeOK, Step
  <2>3. DOMAIN plan[i].params \subseteq Keys
    BY <2>2, WriteTypes
  <2>4. NoWrites \in Writes(Values) /\ DOMAIN NoWrites = {}
    BY DEF NoWrites, Writes
  <2>5. /\ ReadBack(i, G) \in Writes(Values)
        /\ DOMAIN ReadBack(i, G) \subseteq DOMAIN plan[i].params
        /\ \A k \in DOMAIN ReadBack(i, G) :
              ReadBack(i, G)[k] = config[plan[i].device][k]
    <3> DEFINE now  == config[plan[i].device]
               keys == {k \in DOMAIN plan[i].params :
                           GroupOf[k] \in G /\ now[k] # Absent}
    <3>1. now \in [Keys -> Values \cup {Absent}]
      BY <2>2 DEF EngineInv, TypeOK
    <3>2. keys \in SUBSET Keys /\ \A k \in keys : now[k] \in Values
      BY <2>3, <3>1
    <3>3. ReadBack(i, G) = [k \in keys |-> now[k]]
      BY DEF ReadBack
    <3>4. ReadBack(i, G) \in [keys -> Values]
      BY <3>2, <3>3
    <3>5. keys \subseteq DOMAIN plan[i].params
      OBVIOUS
    <3> HIDE DEF keys
    <3> QED
      BY <3>2, <3>3, <3>4, <3>5 DEF Writes
  <2> QED
    BY <2>1, <2>4, <2>5
<1>4. \A j \in Numbers : undo'[j] = IF j = i THEN r ELSE undo[j]
  BY <1>3 DEF EngineInv, TypeOK
<1>5. TypeOK'
  BY <1>1, <1>2, <1>3, SameLanes DEF EngineInv, TypeOK
<1>6. Valid(plan') /\ Fresh' /\ Reported'
  BY <1>2 DEF EngineInv, Valid, Fresh, Reported, Over
<1>7. Queued' /\ InStep' /\ Settled' /\ Halted'
  BY <1>2, SameLanes
  DEF EngineInv, Queued, InStep, Settled, Halted, Sent, First
<1>8. Cleared'
  <2>1. \A m \in Lanes, j \in Numbers : MustSkip(j)' = MustSkip(j)
    BY <1>2 DEF MustSkip
  <2>2. \A j \in todo[l] : First(l, j) => j = i
    <3>1. todo[l] \subseteq Nat
      BY DEF EngineInv, TypeOK
    <3> QED
      BY <1>2, <3>1 DEF First
  <2>3. \A m \in Lanes : m # l /\ m \notin reading' => m \notin reading
    BY <1>1
  <2>4. \A m \in Lanes : todo[m] \subseteq Numbers
    BY PlanTypes DEF EngineInv, TypeOK, Queued, StepsOf
  <2>5. ASSUME NEW m \in Lanes \ reading', NEW j \in todo[m], First(m, j)
        PROVE  ~ MustSkip(j)
    BY <1>1, <2>2, <2>3, <2>5 DEF EngineInv, Cleared
  <2> QED
    BY <1>2, <2>1, <2>4, <2>5, SameLanes DEF Cleared, First
<1>9. Untouched' /\ Prerequisites' /\ StopHaltsLane'
  BY <1>2, SameLanes
  DEF EngineInv, Untouched, Writers, Prerequisites, StopHaltsLane, Sent
<1>10. ReadFirst'
  <2>1. ASSUME NEW k \in DOMAIN r,
               \A j \in Writers(plan[i].device, k) : i <= j
        PROVE  r[k] = Original[plan[i].device][k]
    <3>1. /\ i \in StepsOf(l) /\ i \in Nat /\ i \notin applied
          /\ \A j \in StepsOf(l) : j \in todo[l] <=> i <= j
      BY <1>2, Reached, PlanTypes DEF EngineInv, TypeOK
    <3>2. \A j \in Writers(plan[i].device, k) : j \in StepsOf(l)
      BY <3>1 DEF Writers, StepsOf, EngineInv, TypeOK
    <3>3. \A j \in Writers(plan[i].device, k) : j \in applied /\ j \notin todo[l]
      BY DEF Writers, EngineInv, Queued
    <3>4. Writers(plan[i].device, k) = {}
      BY <2>1, <3>1, <3>2, <3>3
    <3>5. plan[i].device \in Devices /\ k \in Keys
      BY <1>3, PlanTypes, WriteTypes DEF EngineInv, TypeOK
    <3> QED
      BY <1>3, <3>4, <3>5 DEF EngineInv, Untouched
  <2> SUFFICES ASSUME NEW j \in Numbers
               PROVE  /\ DOMAIN undo'[j] \subseteq DOMAIN plan[j].params
                      /\ \A k \in DOMAIN undo'[j] :
                            (\A n \in Writers(plan[j].device, k) : j <= n)
                                => undo'[j][k] = Original[plan[j].device][k]
                      /\ told[j] = "ok" => j \in applied
    BY <1>2, SameLanes DEF ReadFirst, Writers
  <2>2. CASE j = i
    BY <1>3, <1>4, <2>1, <2>2 DEF EngineInv, ReadFirst
  <2>3. CASE j # i
    BY <1>4, <2>3 DEF EngineInv, ReadFirst
  <2> QED
    BY <2>2, <2>3
<1> QED
  BY <1>2, <1>5, <1>6, <1>7, <1>8, <1>9, <1>10 DEF EngineInv

-----------------------------------------------------------------------------
(* The initial state, and the steps that start and end a plan.             *)

LEMMA InitInv ==
    ASSUME Init
    PROVE  EngineInv
<1>1. /\ status = "none" /\ plan = <<>> /\ policy = "stop" /\ reading = {}
      /\ todo = [l \in SUBSET Devices |-> {}]
      /\ answers = [l \in SUBSET Devices |-> <<>>]
      /\ failed = {} /\ undo = <<>> /\ results = <<>> /\ rollback = <<>>
      /\ config = Original /\ told = <<>> /\ applied = {}
  BY DEF Init
<1>2. plan \in Seq(Step) /\ Len(plan) = 0 /\ Numbers = {}
  BY <1>1 DEF Numbers
<1>3. /\ Fleet = FALSE /\ Lanes = {{}}
      /\ \A l : StepsOf(l) = {}
  <2>1. DevicesOf(plan) = {} /\ \A l : StepsOf(l) = {}
    BY <1>2 DEF DevicesOf, StepsOf
  <2>2. Cardinality(DevicesOf(plan)) = 0
    BY <2>1, FS_EmptySet
  <2> QED
    BY <2>1, <2>2 DEF Fleet, Lanes
<1>4. undo = [i \in Numbers |-> NoWrites] /\ told = [i \in Numbers |-> "unsent"]
  BY <1>1, <1>2
<1>5. TypeOK
  <2>1. /\ todo \in [SUBSET Devices -> SUBSET Nat]
        /\ answers \in [SUBSET Devices -> Seq(Results)]
    BY <1>1
  <2>2. /\ undo \in [Numbers -> Writes(Values)]
        /\ told \in [Numbers -> {"unsent", "ok", "failed"}]
    BY <1>2, <1>4
  <2>3. /\ DOMAIN rollback \subseteq Nat
        /\ rollback \in [DOMAIN rollback ->
                           [device : Devices, params : Writes(Values)]]
    BY <1>1
  <2>4. status \in Statuses /\ policy \in Policies /\ results \in Seq(Results)
    BY <1>1 DEF Statuses, Policies
  <2> QED
    BY <1>1, <1>2, <2>1, <2>2, <2>3, <2>4, DeviceAssumption DEF TypeOK
<1>6. Valid(plan) /\ Fresh /\ Queued
  BY <1>1, <1>2, <1>4 DEF Valid, Fresh, Queued
<1>7. InStep /\ Cleared /\ Settled /\ Halted
  <2>1. answers[{}] = <<>> /\ todo[{}] = {} /\ Cardinality({}) = 0
    BY <1>1, FS_EmptySet
  <2>2. Len(answers[{}]) <= 0
    BY <2>1
  <2>3. InStep
    BY <1>3, <2>1, <2>2 DEF InStep
  <2> QED
    BY <1>3, <2>1, <2>3 DEF Cleared, Settled, Halted
<1>8. Untouched /\ ReadFirst /\ Prerequisites /\ StopHaltsLane
  BY <1>1, <1>2 DEF Untouched, ReadFirst, Prerequisites, StopHaltsLane
<1>9. Reported
  BY <1>1 DEF Reported, Over
<1> QED
  BY <1>2, <1>5, <1>6, <1>7, <1>8, <1>9 DEF EngineInv

LEMMA CreateInv ==
    ASSUME EngineInv, NEW list \in Offered, NEW p \in Policies,
           Create(list, p)
    PROVE  EngineInv'
<1>1. /\ Valid(list) /\ status' = "pending_approval" /\ plan' = list
      /\ policy' = p
      /\ undo' = [i \in 1..Len(list) |-> NoWrites]
      /\ told' = [i \in 1..Len(list) |-> "unsent"]
      /\ UNCHANGED <<todo, reading, answers, failed, results, rollback,
                     config, applied>>
  BY DEF Create
<1>2. /\ todo = [l \in SUBSET Devices |-> {}]
      /\ answers = [l \in SUBSET Devices |-> <<>>]
      /\ failed = {} /\ applied = {} /\ config = Original
  BY DEF Create, EngineInv, Fresh
<1>3. plan' \in Seq(Step) /\ Numbers' = 1..Len(list) /\ Len(list) \in Nat
  BY <1>1, DeviceAssumption DEF Numbers
<1>4. /\ Lanes' \subseteq SUBSET Devices
      /\ \A l : StepsOf(l)' \in SUBSET (1..Len(list))
  <2>1. \A i \in 1..Len(list) : list[i].device \in Devices
    <3>1. list \in Seq(Step)
      BY DeviceAssumption
    <3>2. \A i \in 1..Len(list) : list[i] \in Step
      BY <3>1
    <3> QED
      BY <3>2 DEF Step
  <2>2. DevicesOf(plan)' \subseteq Devices
    BY <1>1, <2>1 DEF DevicesOf
  <2>3. \A d \in DevicesOf(plan)' : {d} \subseteq Devices
    BY <2>2
  <2>4. \A l : StepsOf(l)' \subseteq 1..Len(list)
    BY <1>3 DEF StepsOf
  <2>5. Lanes' = IF Fleet' THEN {{d} : d \in DevicesOf(plan)'}
                          ELSE {DevicesOf(plan)'}
    BY DEF Lanes
  <2> HIDE DEF DevicesOf
  <2> QED
    BY <2>2, <2>3, <2>4, <2>5
<1>5. TypeOK'
  <2>1. NoWrites \in Writes(Values)
    BY DEF NoWrites, Writes
  <2>2. /\ undo' \in [Numbers' -> Writes(Values)]
        /\ told' \in [Numbers' -> {"unsent", "ok", "failed"}]
    BY <1>1, <1>3, <2>1
  <2>3. applied' \in SUBSET Numbers'
    BY <1>1, <1>2
  <2> QED
    BY <1>1, <1>3, <2>2, <2>3 DEF EngineInv, TypeOK, Statuses
<1>6. Valid(plan') /\ Fresh' /\ Reported'
  BY <1>1, <1>2, <1>3 DEF Valid, Fresh, Reported, Over
<1>7. Queued' /\ Cleared' /\ Settled'
  BY <1>1, <1>2, <1>4 DEF Queued, Cleared, Settled
<1>8. \A i \in Numbers' : ~ Sent(i)' /\ told'[i] = "unsent"
  BY <1>1, <1>3 DEF Sent
<1>9. InStep'
  <2> SUFFICES ASSUME NEW l \in Lanes'
               PROVE  /\ Len(answers'[l]) <= Cardinality(StepsOf(l)')
                      /\ todo'[l] = {}
                      /\ \A i \in StepsOf(l)' :
                            ~ (Place(l, i)' <= Len(answers'[l])) /\ ~ Sent(i)'
    BY DEF InStep
  <2>1. todo'[l] = {} /\ Len(answers'[l]) = 0
    BY <1>1, <1>2, <1>4
  <2>2. /\ Cardinality(StepsOf(l)') \in Nat
        /\ \A i \in StepsOf(l)' : 1 <= Place(l, i)' /\ Place(l, i)' \in Nat
    BY <1>3, <1>4, CountOf DEF Place
  <2>3. \A i \in StepsOf(l)' : ~ Sent(i)'
    BY <1>3, <1>4, <1>8
  <2> QED
    BY <2>1, <2>2, <2>3
<1>10. Halted' /\ Prerequisites' /\ StopHaltsLane'
  BY <1>3, <1>4, <1>8 DEF Halted, Prerequisites, StopHaltsLane
<1>11. Untouched'
  BY <1>1, <1>2 DEF Untouched
<1>12. ReadFirst'
  BY <1>1, <1>3, <1>8 DEF ReadFirst, NoWrites
<1> QED
  BY <1>3, <1>5, <1>6, <1>7, <1>9, <1>10, <1>11, <1>12 DEF EngineInv

LEMMA RunInv ==
    ASSUME EngineInv, Run
    PROVE  EngineInv'
<1>1. /\ status = "pending_approval" /\ status' = "executing"
      /\ results' = <<>>
      /\ todo' = [l \in SUBSET Devices |->
                     IF l \in Lanes THEN StepsOf(l) ELSE {}]
      /\ reading' = Lanes
      /\ UNCHANGED <<plan, policy, answers, failed, undo, rollback, config,
                     told, applied>>
  BY DEF Run, device
<1>2. /\ answers = [l \in SUBSET Devices |-> <<>>]
      /\ told = [i \in Numbers |-> "unsent"]
      /\ undo = [i \in Numbers |-> NoWrites]
      /\ failed = {} /\ applied = {} /\ config = Original
  BY <1>1 DEF EngineInv, Fresh
<1>3. plan \in Seq(Step) /\ Lanes \subseteq SUBSET Devices
      /\ \A l : StepsOf(l) \subseteq Numbers /\ StepsOf(l) \subseteq Nat
  BY PlanTypes, StepsFinite DEF EngineInv, TypeOK, StepsOf
<1>4. TypeOK'
  <2>1. todo' \in [SUBSET Devices -> SUBSET Nat]
    BY <1>1, <1>3
  <2>2. status' \in Statuses /\ reading' \in SUBSET SUBSET Devices
        /\ results' \in Seq(Results)
    BY <1>1, <1>3 DEF Statuses
  <2> QED
    BY <1>1, <2>1, <2>2, SameLanes DEF EngineInv, TypeOK
<1>5. Valid(plan') /\ Fresh' /\ Reported'
  BY <1>1 DEF EngineInv, Valid, Fresh, Reported, Over
<1>6. \A i \in Numbers : ~ Sent(i)' /\ told'[i] = "unsent"
  BY <1>1, <1>2 DEF Sent
<1>7. Queued'
  <2>1. \A l \in SUBSET Devices :
            todo'[l] = IF l \in Lanes THEN StepsOf(l) ELSE {}
    BY <1>1
  <2> QED
    BY <1>1, <1>2, <1>3, <1>6, <2>1, SameLanes DEF Queued
<1>8. InStep'
  <2> SUFFICES ASSUME NEW l \in Lanes
               PROVE  /\ Len(answers'[l]) <= Cardinality(StepsOf(l))
                      /\ \A i \in todo'[l] : (\A j \in todo'[l] : i <= j)
                             => Place(l, i) = Len(answers'[l]) + 1
                      /\ \A i \in StepsOf(l) :
                            ~ (Place(l, i) <= Len(answers'[l])) /\ ~ Sent(i)'
    BY <1>1, SameLanes DEF InStep, First
  <2>1. todo'[l] = StepsOf(l) /\ Len(answers'[l]) = 0
    BY <1>1, <1>2, <1>3
  <2>2. \A i \in StepsOf(l) : 1 <= Place(l, i) /\ Place(l, i) \in Nat
    BY <1>3, PlaceBounds
  <2>3. Cardinality(StepsOf(l)) \in Nat
    BY <1>3, StepsFinite
  <2>4. \A i \in StepsOf(l) : (\A j \in StepsOf(l) : i <= j) => Place(l, i) = 1
    BY <1>3, PlaceFirst
  <2> QED
    BY <1>3, <1>6, <2>1, <2>2, <2>3, <2>4
<1>9. Cleared' /\ Settled'
  BY <1>1, <1>3, SameLanes DEF Cleared, Settled
<1>10. Halted' /\ Prerequisites' /\ StopHaltsLane'
  BY <1>1, <1>3, <1>6, SameLanes DEF Halted, Prerequisites, StopHaltsLane
<1>11. Untouched' /\ ReadFirst'
  BY <1>1, SameLanes DEF EngineInv, Untouched, ReadFirst, Writers
<1> QED
  BY <1>1, <1>4, <1>5, <1>7, <1>8, <1>9, <1>10, <1>11 DEF EngineInv

(* The results that are collected, and what they say of each step.         *)
LEMMA CollectedTypes ==
    ASSUME EngineInv
    PROVE  /\ Collected \in Seq(Results) /\ Len(Collected) \in Nat
           /\ Len(Collected) <= Len(plan)
<1>1. /\ plan \in Seq(Step) /\ Len(plan) \in Nat /\ Numbers = 1..Len(plan)
      /\ answers \in [SUBSET Devices -> Seq(Results)]
  BY PlanTypes DEF EngineInv, TypeOK, Numbers
<1>2. CASE Fleet
  <2>1. ASSUME NEW i \in Numbers
        PROVE  (IF Rank(i) <= Len(answers[{plan[i].device}])
                  THEN answers[{plan[i].device}][Rank(i)]
                  ELSE "missing") \in Results
    <3> DEFINE l == {plan[i].device}
    <3>1. plan[i].device \in Devices
      BY <1>1, PlanTypes
    <3>2. i \in StepsOf(l)
      BY DEF StepsOf
    <3>3. Rank(i) \in Nat /\ 1 <= Rank(i)
      BY <1>1, <3>2, PlaceOfStep, PlaceBounds
    <3>4. answers[l] \in Seq(Results)
      BY <1>1, <3>1
    <3>5. Rank(i) <= Len(answers[l]) => answers[l][Rank(i)] \in Results
      BY <3>3, <3>4
    <3> QED
      BY <3>5 DEF Results
  <2>2. Flattened \in [1..Len(plan) -> Results]
    BY <1>1, <2>1 DEF Flattened
  <2> QED
    BY <1>1, <1>2, <2>2 DEF Collected
<1>3. CASE ~ Fleet
  <2>1. DevicesOf(plan) \in Lanes /\ DevicesOf(plan) \in SUBSET Devices
    BY <1>1, <1>3, PlanTypes DEF Lanes
  <2>2. answers[DevicesOf(plan)] \in Seq(Results)
    BY <1>1, <2>1
  <2>3. Len(answers[DevicesOf(plan)]) <= Cardinality(StepsOf(DevicesOf(plan)))
    BY <2>1 DEF EngineInv, InStep
  <2> QED
    BY <1>1, <1>3, <2>2, <2>3, StepsFinite DEF Collected
<1> QED
  BY <1>2, <1>3

(* What is collected of a step is the answer at its position in its lane.  *)
LEMMA CollectedAt ==
    ASSUME plan \in Seq(Step), NEW i \in Numbers
    PROVE  LET l == IF Fleet THEN {plan[i].device} ELSE DevicesOf(plan)
           IN  IF i <= Len(Collected)
                 THEN Collected[i] = IF Place(l, i) <= Len(answers[l])
                                       THEN answers[l][Place(l, i)] ELSE "missing"
                 ELSE ~ (Place(l, i) <= Len(answers[l]))
<1>1. Numbers = 1..Len(plan) /\ Len(plan) \in Nat
  BY PlanTypes DEF Numbers
<1> DEFINE l == IF Fleet THEN {plan[i].device} ELSE DevicesOf(plan)
<1>2. CASE Fleet
  <2>1. /\ Collected = Flattened /\ Len(Flattened) = Len(plan)
        /\ i <= Len(Collected)
    BY <1>1, <1>2 DEF Collected, Flattened
  <2>2. Place(l, i) = Rank(i) /\ l = {plan[i].device}
    BY <1>2, PlaceOfStep
  <2>3. Flattened[i] = IF Rank(i) <= Len(answers[l])
                         THEN answers[l][Rank(i)] ELSE "missing"
    BY <2>2 DEF Flattened
  <2> HIDE DEF l
  <2>4. Collected[i] = IF Place(l, i) <= Len(answers[l])
                         THEN answers[l][Place(l, i)] ELSE "missing"
    BY <2>1, <2>2, <2>3
  <2> QED
    BY <2>1, <2>4 DEF l
<1>3. CASE ~ Fleet
  <2>1. Collected = answers[l] /\ Place(l, i) = i
    BY <1>3, PlaceOfStep DEF Collected
  <2> HIDE DEF l
  <2>2. IF i <= Len(Collected)
          THEN Collected[i] = IF Place(l, i) <= Len(answers[l])
                                THEN answers[l][Place(l, i)] ELSE "missing"
          ELSE ~ (Place(l, i) <= Len(answers[l]))
    BY <2>1
  <2> QED
    BY <2>2 DEF l
<1> QED
  BY <1>2, <1>3

LEMMA CollectedAligned ==
    ASSUME EngineInv, NEW i \in Numbers
    PROVE  IF i <= Len(Collected) /\ Collected[i] \in {"ok", "failed"}
             THEN told[i] = Collected[i]
             ELSE ~ Sent(i)
<1>1. plan \in Seq(Step) /\ told[i] \in {"unsent", "ok", "failed"}
  BY DEF EngineInv, TypeOK
<1>2. PICK l \in Lanes :
         /\ i \in StepsOf(l)
         /\ IF i <= Len(Collected)
              THEN Collected[i] = IF Place(l, i) <= Len(answers[l])
                                    THEN answers[l][Place(l, i)] ELSE "missing"
              ELSE ~ (Place(l, i) <= Len(answers[l]))
  BY <1>1, SomeLane, CollectedAt
<1>3. IF Place(l, i) <= Len(answers[l])
        THEN answers[l][Place(l, i)] = IF Sent(i) THEN told[i] ELSE "skipped"
        ELSE ~ Sent(i)
  BY <1>2 DEF EngineInv, InStep
<1> QED
  BY <1>1, <1>2, <1>3 DEF Sent

LEMMA SameCollected ==
    ASSUME UNCHANGED <<plan, answers, undo>>
    PROVE  Collected' = Collected /\ RollbackOf(Collected)' = RollbackOf(Collected)
<1>1. Numbers' = Numbers /\ Fleet' = Fleet /\ DevicesOf(plan)' = DevicesOf(plan)
  BY SameLanes DEF DevicesOf
<1>2. \A i : Rank(i)' = Rank(i)
  BY DEF Rank
<1>3. Flattened' = Flattened
  BY <1>1, <1>2 DEF Flattened
<1>4. Collected' = Collected
  BY <1>1, <1>3 DEF Collected
<1> QED
  BY <1>4 DEF RollbackOf, Covered

LEMMA FinishInv ==
    ASSUME EngineInv, Finish
    PROVE  EngineInv'
<1>1. /\ results' = Collected /\ rollback' = RollbackOf(Collected)
      /\ status' \in {"completed", "failed"}
      /\ UNCHANGED <<plan, policy, todo, reading, answers, failed, undo,
                     config, told, applied>>
  BY DEF Finish, running, device
<1>2. /\ Collected \in Seq(Results) /\ Len(Collected) \in Nat
      /\ Len(Collected) <= Len(plan) /\ Len(plan) \in Nat
  BY CollectedTypes, PlanTypes DEF EngineInv, TypeOK
<1>3. /\ DOMAIN RollbackOf(Collected) \subseteq Nat
      /\ RollbackOf(Collected) \in [DOMAIN RollbackOf(Collected) ->
                           [device : Devices, params : Writes(Values)]]
  <2> DEFINE n == Len(Collected)
             P == {m \in 1..n : Covered(Collected, n + 1 - m)}
  <2>1. ASSUME NEW m \in P
        PROVE  [device |-> plan[n + 1 - m].device, params |-> undo[n + 1 - m]]
                  \in [device : Devices, params : Writes(Values)]
    <3>1. n + 1 - m \in Numbers
      BY <1>2 DEF Numbers
    <3> QED
      BY <3>1, PlanTypes DEF EngineInv, TypeOK
  <2>2. P \subseteq Nat
    BY <1>2
  <2>3. RollbackOf(Collected) =
           [m \in P |-> [device |-> plan[n + 1 - m].device,
                         params |-> undo[n + 1 - m]]]
    BY DEF RollbackOf
  <2> HIDE DEF P, n
  <2> QED
    BY <2>1, <2>2, <2>3
<1>4. TypeOK'
  BY <1>1, <1>2, <1>3, SameLanes DEF EngineInv, TypeOK, Statuses
<1>5. Valid(plan') /\ Fresh'
  BY <1>1 DEF EngineInv, Valid, Fresh
<1>6. Queued' /\ InStep' /\ Settled' /\ Halted'
  BY <1>1, SameLanes
  DEF EngineInv, Queued, InStep, Settled, Halted, Sent, First
<1>7. Cleared'
  BY <1>1, SameLanes DEF EngineInv, Cleared, First, MustSkip
<1>8. Untouched' /\ ReadFirst' /\ Prerequisites' /\ StopHaltsLane'
  BY <1>1, SameLanes
  DEF EngineInv, Untouched, ReadFirst, Writers, Prerequisites, StopHaltsLane,
      Sent
<1>9. Reported'
  <2>1. Collected' = Collected /\ RollbackOf(Collected)' = RollbackOf(Collected)
    BY <1>1, SameCollected
  <2> QED
    BY <1>1, <2>1 DEF Reported
<1> QED
  BY <1>1, <1>4, <1>5, <1>6, <1>7, <1>8, <1>9 DEF EngineInv

LEMMA CutInv ==
    ASSUME EngineInv, Cut
    PROVE  EngineInv'
<1>1. /\ status' = "cut"
      /\ UNCHANGED <<results, rollback, plan, policy, todo, reading, answers,
                     failed, undo, config, told, applied>>
  BY DEF Cut, running, device
<1>2. TypeOK' /\ Valid(plan') /\ Fresh' /\ Reported'
  BY <1>1, SameLanes
  DEF EngineInv, TypeOK, Statuses, Valid, Fresh, Reported, Over
<1>3. Queued' /\ InStep' /\ Settled' /\ Halted' /\ Cleared'
  BY <1>1, SameLanes DEF EngineInv, Queued, InStep, Settled, Halted, Cleared,
                         Sent, First, MustSkip
<1>4. Untouched' /\ ReadFirst' /\ Prerequisites' /\ StopHaltsLane'
  BY <1>1, SameLanes
  DEF EngineInv, Untouched, ReadFirst, Writers, Prerequisites, StopHaltsLane,
      Sent
<1> QED
  BY <1>1, <1>2, <1>3, <1>4 DEF EngineInv

LEMMA QuietInv ==
    ASSUME EngineInv, UNCHANGED vars
    PROVE  EngineInv'
<1>1. UNCHANGED <<status, results, rollback, plan, policy, todo, reading,
                  answers, failed, undo, config, told, applied>>
  BY DEF vars, verdict, running, device
<1>2. TypeOK' /\ Valid(plan') /\ Fresh'
  BY <1>1, SameLanes DEF EngineInv, TypeOK, Valid, Fresh
<1>3. Queued' /\ InStep' /\ Settled' /\ Halted' /\ Cleared'
  BY <1>1, SameLanes DEF EngineInv, Queued, InStep, Settled, Halted, Cleared,
                         Sent, First, MustSkip
<1>4. Untouched' /\ ReadFirst' /\ Prerequisites' /\ StopHaltsLane'
  BY <1>1, SameLanes
  DEF EngineInv, Untouched, ReadFirst, Writers, Prerequisites, StopHaltsLane,
      Sent
<1>5. Reported'
  <2>1. Collected' = Collected /\ RollbackOf(Collected)' = RollbackOf(Collected)
    BY <1>1, SameCollected
  <2> QED
    BY <1>1, <2>1 DEF EngineInv, Reported, Over
<1> QED
  BY <1>1, <1>2, <1>3, <1>4, <1>5 DEF EngineInv

LEMMA EngineStepInv ==
    ASSUME EngineInv, [Next]_vars
    PROVE  EngineInv'
<1>1. ASSUME NEW list \in Offered, NEW p \in Policies, Create(list, p)
      PROVE  EngineInv'
  BY <1>1, CreateInv
<1>2. ASSUME NEW l \in SUBSET Devices, LaneStep(l)
      PROVE  EngineInv'
  BY <1>2, SkipInv, PreReadInv, ExecuteInv DEF LaneStep
<1>3. CASE Run \/ Finish \/ Cut
  BY <1>3, RunInv, FinishInv, CutInv
<1>4. CASE UNCHANGED vars
  BY <1>4, QuietInv
<1> QED
  BY <1>1, <1>2, <1>3, <1>4 DEF Next

-----------------------------------------------------------------------------
(* The theorems.                                                           *)

(* The invariant of a plan's life: what its lanes have yet to do, what     *)
(* they answered, and what is known of the devices.                        *)
THEOREM EngineInvariant == Spec => []EngineInv
  BY InitInv, EngineStepInv, PTL DEF Spec

(* The state of a plan, of its lanes and of the devices has its type.      *)
THEOREM EngineTypeCorrect == Spec => []TypeOK
<1>1. EngineInv => TypeOK
  BY DEF EngineInv
<1> QED
  BY <1>1, EngineInvariant, PTL

(* No step is sent before what it depends on has succeeded, under every    *)
(* policy but "continue" (the loop's test of failed_steps in execute).     *)
THEOREM PrerequisitesFirst == Spec => []Prerequisites
<1>1. EngineInv => Prerequisites
  BY DEF EngineInv
<1> QED
  BY <1>1, EngineInvariant, PTL

(* Under "stop" the first failure of a device is its last step, in the     *)
(* fleet mode as in the sequential one.                                    *)
THEOREM FailureStopsLane == Spec => []StopHaltsLane
<1>1. EngineInv => StopHaltsLane
  BY DEF EngineInv
<1> QED
  BY <1>1, EngineInvariant, PTL

(* Position i of the results is about step i, whatever order the lanes     *)
(* finished in.                                                            *)
LEMMA ReportedAligned ==
    ASSUME EngineInv
    PROVE  ResultsAligned
<1>1. Over => results = Collected
  BY DEF EngineInv, Reported
<1>2. \A i \in Numbers :
          IF i <= Len(Collected) /\ Collected[i] \in {"ok", "failed"}
            THEN told[i] = Collected[i]
            ELSE ~ Sent(i)
  BY CollectedAligned
<1> QED
  BY <1>1, <1>2 DEF ResultsAligned

(* The caller is told of each step what its device answered, although the  *)
(* fleet mode collects the results lane by lane (engine.py:333).           *)
THEOREM ResultsAreAligned == Spec => []ResultsAligned
<1>1. EngineInv => ResultsAligned
  BY ReportedAligned
<1> QED
  BY <1>1, EngineInvariant, PTL

(* The last rollback step that touches a parameter undoes the first step   *)
(* that wrote it, and that one was read before anything was written.       *)
LEMMA RestoresFirst ==
    ASSUME EngineInv
    PROVE  RollbackRestores
<1> SUFFICES ASSUME Over, NEW d \in Devices, NEW k \in Keys,
                    NEW i \in Writers(d, k),
                    \A j \in Writers(d, k) : i <= j,
                    told[i] = "ok", k \in DOMAIN undo[i]
             PROVE  RolledBack(d, k) = Original[d][k]
  BY DEF RollbackRestores
<1> DEFINE n == Len(results)
           p == n + 1 - i
           touching == {j \in DOMAIN rollback :
                           rollback[j].device = d /\ k \in DOMAIN rollback[j].params}
<1>1. /\ results \in Seq(Results) /\ n \in Nat /\ n <= Len(plan)
      /\ Len(plan) \in Nat /\ rollback = RollbackOf(results)
  BY CollectedTypes, PlanTypes DEF EngineInv, TypeOK, Reported
<1>2. i \in Numbers /\ i \in Nat \ {0} /\ plan[i].device = d
  BY PlanTypes DEF Writers, EngineInv, TypeOK
<1>3. \A s \in Numbers :
          told[s] = "ok" <=> s <= n /\ results[s] = "ok"
  BY ReportedAligned DEF ResultsAligned, Sent
<1>4. /\ DOMAIN rollback = {m \in 1..n : Covered(results, n + 1 - m)}
      /\ \A m \in DOMAIN rollback :
            rollback[m] = [device |-> plan[n + 1 - m].device,
                           params |-> undo[n + 1 - m]]
  BY <1>1 DEF RollbackOf
<1>5. i <= n /\ results[i] = "ok" /\ undo[i] # NoWrites
  BY <1>2, <1>3 DEF NoWrites
<1>6. p \in 1..n /\ n + 1 - p = i
  BY <1>1, <1>2, <1>5
<1>7. p \in touching /\ rollback[p].params = undo[i]
  <2>1. Covered(results, i)
    BY <1>1, <1>2, <1>5 DEF Covered
  <2>2. p \in DOMAIN rollback
    BY <1>4, <1>6, <2>1
  <2>3. rollback[p] = [device |-> plan[i].device, params |-> undo[i]]
    BY <1>4, <1>6, <2>2
  <2> QED
    BY <1>2, <2>2, <2>3
<1>8. ASSUME NEW m \in touching
      PROVE  m \in Nat /\ m <= p
  <2> DEFINE s == n + 1 - m
  <2>1. m \in 1..n /\ Covered(results, s)
    BY <1>4
  <2>2. s \in 1..n /\ s \in Numbers /\ s \in Nat
    BY <1>1, <2>1 DEF Numbers
  <2>3. results[s] = "ok"
    BY <2>1 DEF Covered
  <2>4. told[s] = "ok"
    BY <1>1, <1>3, <2>2, <2>3
  <2>5. plan[s].device = d /\ k \in DOMAIN undo[s]
    BY <1>4
  <2>6. s \in applied /\ k \in DOMAIN plan[s].params
    BY <2>2, <2>4, <2>5 DEF EngineInv, ReadFirst
  <2>7. i <= s
    BY <2>5, <2>6 DEF Writers
  <2> QED
    BY <1>1, <1>2, <2>1, <2>7
<1>9. (CHOOSE j \in touching : \A m \in touching : m <= j) = p
  <2>1. p \in Nat
    BY <1>1, <1>6
  <2> HIDE DEF touching, p
  <2>2. \A m \in touching : m <= p
    BY <1>8
  <2>3. \A j \in touching : (\A m \in touching : m <= j) => j = p
    BY <1>7, <1>8, <2>1
  <2> QED
    BY <1>7, <2>2, <2>3
<1>10. RolledBack(d, k) = rollback[p].params[k]
  BY <1>7, <1>9 DEF RolledBack
<1>11. undo[i][k] = Original[d][k]
  BY <1>2 DEF EngineInv, ReadFirst
<1> QED
  BY <1>7, <1>10, <1>11

(* The rollback steps give each parameter the value it had when the plan   *)
(* was made (the order of _build_rollback_steps).                          *)
THEOREM RollbackRestoresOriginal == Spec => []RollbackRestores
<1>1. EngineInv => RollbackRestores
  BY RestoresFirst
<1> QED
  BY <1>1, EngineInvariant, PTL

-----------------------------------------------------------------------------
(* Refinement: the lanes implement OrderedSteps.                           *)

(* The failed steps are those that were answered, and not with success.    *)
Tallied ==
    \A l \in Lanes : \A i \in StepsOf(l) :
        i \in failed <=> Place(l, i) <= Len(answers[l]) /\ told[i] # "ok"

(* A lane gives up a step only under "stop", after an earlier failure.     *)
Dropped ==
    status \notin {"none", "pending_approval"} =>
        \A l \in Lanes : \A i \in StepsOf(l) :
            (~ (Place(l, i) <= Len(answers[l])) /\ i \notin todo[l]) =>
                policy = "stop" /\ \E j \in StepsOf(l) : j < i /\ told[j] = "failed"

OrderInv == EngineInv /\ Tallied /\ Dropped

(* An answer is counted once, and one that gives steps up is a failure.    *)
LEMMA AnswerOrder ==
    ASSUME OrderInv, NEW l \in SUBSET Devices, NEW i,
           NEW a \in {"ok", "failed", "skipped"}, AnswerOf(l, i, a),
           status' = status, policy' = policy,
           failed' = IF a = "ok" THEN failed ELSE failed \cup {i},
           todo'[l] = todo[l] \ {i} \/ (policy = "stop" /\ a = "failed")
    PROVE  Tallied' /\ Dropped'
<1> DEFINE n == Len(answers[l])
<1>0. EngineInv /\ Tallied /\ Dropped
  BY DEF OrderInv
<1>1. /\ \A j \in Numbers : told'[j] = IF j = i /\ a # "skipped"
                                         THEN a ELSE told[j]
      /\ \A m \in SUBSET Devices : m # l => /\ todo'[m] = todo[m]
                                            /\ answers'[m] = answers[m]
      /\ answers'[l] = Append(answers[l], a)
  <2>1. AnswerEffect(l, i, a)
    BY <1>0, AnswerTypes
  <2> QED
    BY <2>1 DEF AnswerEffect
<1>2. /\ l \in Lanes /\ i \in StepsOf(l) /\ i \in Numbers /\ ~ Sent(i)
      /\ \A j \in StepsOf(l) : j \in todo[l] <=> i <= j
      /\ Place(l, i) = n + 1
  BY <1>0, Reached DEF AnswerOf
<1>3. /\ plan' = plan /\ plan \in Seq(Step) /\ Lanes \subseteq SUBSET Devices
      /\ \A m \in Lanes : StepsOf(m) \subseteq Numbers
      /\ \A m \in Lanes : StepsOf(m) \subseteq Nat
  BY <1>0, PlanTypes, StepsFinite DEF AnswerOf, EngineInv, TypeOK, StepsOf
<1>4. n \in Nat /\ Len(answers'[l]) = n + 1
  BY <1>0, <1>1 DEF EngineInv, TypeOK
<1>5. \A m \in Lanes : m # l => i \notin StepsOf(m)
  BY <1>2, OneLane
<1>6. \A j \in StepsOf(l) : /\ Place(l, j) \in Nat
                            /\ j < i => Place(l, j) < n + 1
                            /\ i < j => n + 1 < Place(l, j)
  BY <1>2, <1>3, PlaceBounds, PlaceOrder
<1>7. Tallied'
  <2> SUFFICES ASSUME NEW m \in Lanes, NEW j \in StepsOf(m)
               PROVE  j \in failed' <=>
                         Place(m, j) <= Len(answers'[m]) /\ told'[j] # "ok"
    BY <1>3, SameLanes DEF Tallied
  <2>1. j \in failed <=> Place(m, j) <= Len(answers[m]) /\ told[j] # "ok"
    BY <1>0 DEF Tallied
  <2>2. j \in Numbers /\ j \in Nat /\ i \in Nat
    BY <1>2, <1>3
  <2>3. CASE m # l
    BY <1>1, <1>3, <1>5, <2>1, <2>2, <2>3
  <2>4. CASE m = l /\ j = i
    <3>1. i \notin failed
      BY <1>2, <1>4, <2>1, <2>4
    <3>2. told'[i] = "ok" <=> a = "ok"
      BY <1>1, <1>2 DEF Sent
    <3> QED
      BY <1>2, <1>4, <2>4, <3>1, <3>2
  <2>5. CASE m = l /\ j # i
    <3>1. j \in StepsOf(l) /\ told'[j] = told[j] /\ (j \in failed' <=> j \in failed)
      BY <1>1, <2>2, <2>5
    <3>2. Place(l, j) <= n + 1 <=> Place(l, j) <= n
      BY <1>4, <1>6, <2>2, <2>5, <3>1
    <3> HIDE DEF n
    <3> QED
      BY <1>4, <2>1, <2>5, <3>1, <3>2 DEF n
  <2> QED
    BY <2>3, <2>4, <2>5
<1>8. Dropped'
  <2> SUFFICES ASSUME status \notin {"none", "pending_approval"},
                      NEW m \in Lanes, NEW j \in StepsOf(m),
                      ~ (Place(m, j) <= Len(answers'[m])), j \notin todo'[m]
               PROVE  /\ policy = "stop"
                      /\ \E k \in StepsOf(m) : k < j /\ told'[k] = "failed"
    BY <1>3, SameLanes DEF Dropped
  <2>1. /\ j \in Numbers /\ j \in Nat /\ i \in Nat
        /\ \A k \in StepsOf(m) : told[k] = "failed" => told'[k] = "failed"
    BY <1>1, <1>2, <1>3 DEF Sent
  <2>2. CASE m # l
    BY <1>0, <1>1, <1>3, <2>1, <2>2 DEF Dropped
  <2>3. CASE m = l
    <3>1. j # i /\ ~ (j < i) /\ i < j
      BY <1>2, <1>4, <1>6, <2>1, <2>3
    <3>2. j \in todo[l]
      BY <1>2, <2>1, <2>3, <3>1
    <3>3. policy = "stop" /\ a = "failed"
      BY <2>3, <3>1, <3>2
    <3>4. told'[i] = "failed"
      BY <1>1, <1>2, <3>3
    <3> QED
      BY <1>2, <2>3, <3>1, <3>3, <3>4
  <2> QED
    BY <2>2, <2>3
<1> QED
  BY <1>7, <1>8

(* A skipped step, and one that was sent, is answered in its lane.         *)
LEMMA SkipAnswers ==
    ASSUME EngineInv, NEW l \in SUBSET Devices, Skip(l)
    PROVE  \E i \in Numbers :
              /\ AnswerOf(l, i, "skipped") /\ MustSkip(i)
              /\ failed' = failed \cup {i} /\ todo'[l] = todo[l] \ {i}
              /\ status = "executing" /\ told' = told
              /\ UNCHANGED <<status, policy, results>>
<1>1. PICK i \in Numbers :
          /\ Begins(l, i) /\ MustSkip(i)
          /\ answers' = [answers EXCEPT ![l] = Append(@, "skipped")]
          /\ failed' = failed \cup {i}
          /\ todo' = [todo EXCEPT ![l] = @ \ {i}]
          /\ UNCHANGED <<verdict, plan, policy, reading, undo, device>>
  BY DEF Skip
<1>2. /\ First(l, i) /\ status = "executing"
      /\ UNCHANGED <<status, results, plan, policy, told, applied>>
  BY <1>1 DEF Begins, Reaches, First, verdict, device
<1>3. AnswerOf(l, i, "skipped")
  BY <1>1, <1>2 DEF AnswerOf
<1>4. todo'[l] = todo[l] \ {i}
  BY <1>1 DEF EngineInv, TypeOK
<1> QED
  BY <1>1, <1>2, <1>3, <1>4

LEMMA ExecuteAnswers ==
    ASSUME EngineInv, NEW l \in SUBSET Devices, ExecuteOk(l) \/ ExecuteFailed(l)
    PROVE  \E i \in Numbers, a \in {"ok", "failed"} :
              /\ AnswerOf(l, i, a)
              /\ failed' = IF a = "ok" THEN failed ELSE failed \cup {i}
              /\ todo'[l] = todo[l] \ {i} \/ (policy = "stop" /\ a = "failed")
              /\ status = "executing"
              /\ UNCHANGED <<status, policy, results>>
<1>1. PICK i \in Numbers, a \in {"ok", "failed"} :
          /\ Sends(l, i)
          /\ Apply(i) \/ UNCHANGED <<applied, config>>
          /\ Answered(l, i, a)
          /\ failed' = IF a = "ok" THEN failed ELSE failed \cup {i}
          /\ todo' = [todo EXCEPT ![l] =
                IF policy = "stop" /\ a = "failed" THEN {} ELSE @ \ {i}]
  BY DEF ExecuteOk, ExecuteFailed, Break
<1>2. /\ First(l, i) /\ status = "executing"
      /\ answers' = [answers EXCEPT ![l] = Append(@, a)]
      /\ told' = [told EXCEPT ![i] = a]
      /\ UNCHANGED <<status, results, plan, policy>>
  BY <1>1 DEF Sends, Reaches, First, Answered, verdict
<1>3. applied' \in {applied, applied \cup {i}}
  BY <1>1 DEF Apply
<1>4. AnswerOf(l, i, a)
  <2>1. \E left \in {{}, todo[l] \ {i}} : todo' = [todo EXCEPT ![l] = left]
    BY <1>1
  <2> QED
    BY <1>2, <1>3, <2>1 DEF AnswerOf
<1>5. todo'[l] = todo[l] \ {i} \/ (policy = "stop" /\ a = "failed")
  BY <1>1 DEF EngineInv, TypeOK
<1> QED
  BY <1>1, <1>2, <1>4, <1>5

LEMMA StartOrder ==
    ASSUME Init
    PROVE  Tallied /\ Dropped
<1>1. plan = <<>> /\ failed = {} /\ status = "none"
  BY DEF Init
<1>2. \A l : StepsOf(l) = {}
  BY <1>1 DEF StepsOf, Numbers
<1> QED
  BY <1>1, <1>2 DEF Tallied, Dropped

LEMMA KeepsTally ==
    ASSUME OrderInv, UNCHANGED <<plan, answers, failed, told, policy, todo>>,
           status = status' \/ status \notin {"none", "pending_approval"}
    PROVE  Tallied' /\ Dropped'
  BY SameLanes DEF OrderInv, Tallied, Dropped

LEMMA StepOrder ==
    ASSUME OrderInv, [Next]_vars
    PROVE  Tallied' /\ Dropped'
<1>0. EngineInv /\ EngineInv'
  BY EngineStepInv DEF OrderInv
<1>1. ASSUME NEW list \in Offered, NEW p \in Policies, Create(list, p)
      PROVE  Tallied' /\ Dropped'
  <2>1. /\ plan' = list /\ status' = "pending_approval"
        /\ failed' = {} /\ answers' = [l \in SUBSET Devices |-> <<>>]
    BY <1>0, <1>1 DEF Create, EngineInv, Fresh
  <2>2. list \in Seq(Step) /\ Len(list) \in Nat /\ Numbers' = 1..Len(list)
    BY <2>1, DeviceAssumption DEF Numbers
  <2>3. \A l : StepsOf(l)' \in SUBSET (1..Len(list))
    BY <2>2 DEF StepsOf
  <2>4. \A l : \A i \in StepsOf(l)' : Place(l, i)' \in Nat /\ 1 <= Place(l, i)'
    BY <2>2, <2>3, CountOf DEF Place
  <2>5. \A l \in Lanes' : \A i \in StepsOf(l)' : Len(answers'[l]) = 0
    <3>1. \A i \in 1..Len(list) : list[i].device \in Devices
      <4>1. \A i \in 1..Len(list) : list[i] \in Step
        BY <2>2
      <4> QED
        BY <4>1 DEF Step
    <3>2. DevicesOf(plan)' \subseteq Devices
      BY <2>1, <3>1 DEF DevicesOf
    <3>3. \A d \in DevicesOf(plan)' : {d} \subseteq Devices
      BY <3>2
    <3>4. \A l \in Lanes' : l \subseteq Devices
      <4>1. Lanes' = IF Fleet' THEN {{d} : d \in DevicesOf(plan)'}
                              ELSE {DevicesOf(plan)'}
        BY DEF Lanes
      <4> QED
        BY <3>2, <3>3, <4>1
    <3> QED
      BY <2>1, <3>4
  <2>6. Tallied'
    BY <2>1, <2>4, <2>5 DEF Tallied
  <2> QED
    BY <2>1, <2>6 DEF Dropped
<1>2. CASE Run
  <2>1. /\ status = "pending_approval"
        /\ todo' = [l \in SUBSET Devices |->
                       IF l \in Lanes THEN StepsOf(l) ELSE {}]
        /\ UNCHANGED <<plan, answers, failed, told>>
    BY <1>2 DEF Run, device
  <2>2. \A l \in Lanes : l \in SUBSET Devices
    BY <1>0, PlanTypes DEF EngineInv, TypeOK
  <2>3. \A l \in Lanes : todo'[l] = StepsOf(l)
    BY <2>1, <2>2
  <2>4. Tallied'
    BY <2>1, SameLanes DEF OrderInv, Tallied
  <2>5. Dropped'
    BY <2>1, <2>3, SameLanes DEF Dropped
  <2> QED
    BY <2>4, <2>5
<1>3. ASSUME NEW l \in SUBSET Devices, Skip(l)
      PROVE  Tallied' /\ Dropped'
  <2>1. PICK i \in Numbers :
          /\ AnswerOf(l, i, "skipped")
          /\ failed' = failed \cup {i} /\ todo'[l] = todo[l] \ {i}
          /\ status' = status /\ policy' = policy
    BY <1>0, <1>3, SkipAnswers
  <2> QED
    BY <2>1, AnswerOrder
<1>4. ASSUME NEW l \in SUBSET Devices, ExecuteOk(l) \/ ExecuteFailed(l)
      PROVE  Tallied' /\ Dropped'
  <2>1. PICK i \in Numbers, a \in {"ok", "failed"} :
          /\ AnswerOf(l, i, a)
          /\ failed' = IF a = "ok" THEN failed ELSE failed \cup {i}
          /\ todo'[l] = todo[l] \ {i} \/ (policy = "stop" /\ a = "failed")
          /\ status' = status /\ policy' = policy
    BY <1>0, <1>4, ExecuteAnswers
  <2> QED
    BY <2>1, AnswerOrder
<1>5. ASSUME NEW l \in SUBSET Devices, PreRead(l)
      PROVE  Tallied' /\ Dropped'
  BY <1>5, KeepsTally DEF PreRead, verdict, device
<1>6. CASE Finish \/ Cut
  BY <1>6, KeepsTally DEF Finish, Cut, running, device
<1>7. CASE UNCHANGED vars
  BY <1>7, KeepsTally DEF vars, verdict, running, device
<1> QED
  BY <1>1, <1>2, <1>3, <1>4, <1>5, <1>6, <1>7 DEF Next, LaneStep

(* Outcome, read off the answers of the lanes.                             *)
LEMMA OutcomeAt ==
    ASSUME OrderInv, NEW l \in Lanes, NEW i \in StepsOf(l)
    PROVE  /\ i \in Numbers
           /\ Outcome[i] = IF Place(l, i) <= Len(answers[l])
                             THEN answers[l][Place(l, i)] ELSE "waiting"
           /\ Place(l, i) <= Len(answers[l]) => Outcome[i] # "waiting"
<1>1. i \in Numbers /\ told[i] \in {"unsent", "ok", "failed"}
  BY DEF StepsOf, OrderInv, EngineInv, TypeOK
<1>2. i \in failed <=> Place(l, i) <= Len(answers[l]) /\ told[i] # "ok"
  BY DEF OrderInv, Tallied
<1>3. IF Place(l, i) <= Len(answers[l])
        THEN answers[l][Place(l, i)] = IF Sent(i) THEN told[i] ELSE "skipped"
        ELSE ~ Sent(i)
  BY DEF OrderInv, EngineInv, InStep
<1>4. Outcome[i] = IF Sent(i) THEN told[i]
                   ELSE IF i \in failed THEN "skipped" ELSE "waiting"
  BY <1>1 DEF Outcome
<1> QED
  BY <1>1, <1>2, <1>3, <1>4 DEF Sent

LEMMA SettleRefines ==
    ASSUME OrderInv, NEW l \in SUBSET Devices, NEW i \in Numbers,
           NEW a \in {"ok", "failed", "skipped"}, AnswerOf(l, i, a),
           failed' = IF a = "ok" THEN failed ELSE failed \cup {i},
           status = "executing", UNCHANGED <<status, policy, results>>
    PROVE  Ordered!Settle(i, a)
<1>0. EngineInv
  BY DEF OrderInv
<1>1. /\ l \in Lanes /\ i \in StepsOf(l) /\ i \in Numbers /\ ~ Sent(i)
      /\ Place(l, i) = Len(answers[l]) + 1
  BY <1>0, Reached DEF AnswerOf
<1>2. /\ plan' = plan /\ Numbers' = Numbers /\ plan \in Seq(Step)
      /\ Len(answers[l]) \in Nat
  BY <1>0, <1>1, PlanTypes, SameLanes DEF AnswerOf, EngineInv, TypeOK
<1>3. \A j \in Numbers : told'[j] = IF j = i /\ a # "skipped"
                                      THEN a ELSE told[j]
  <2>1. AnswerEffect(l, i, a)
    BY <1>0, AnswerTypes
  <2> QED
    BY <2>1 DEF AnswerEffect
<1>4. Outcome[i] = "waiting"
  BY <1>1, <1>2, OutcomeAt
<1>5. \A j \in Ordered!Before(i) : Outcome[j] # "waiting"
  <2> SUFFICES ASSUME NEW j \in Ordered!Before(i)
               PROVE  Outcome[j] # "waiting"
    OBVIOUS
  <2>1. j \in 1..(i - 1) /\ plan[j].device = plan[i].device
    BY DEF Ordered!Before
  <2>2. j \in Numbers /\ j < i
    BY <1>0, <2>1, PlanTypes DEF Numbers, EngineInv, TypeOK
  <2>3. j \in StepsOf(l)
    BY <1>1, <2>1, <2>2 DEF StepsOf
  <2>4. Place(l, j) < Place(l, i) /\ Place(l, j) \in Nat
    BY <1>1, <1>2, <2>2, <2>3, PlaceOrder, PlaceBounds
  <2>5. Place(l, j) <= Len(answers[l])
    BY <1>1, <1>2, <2>4
  <2> QED
    BY <1>1, <2>3, <2>5, OutcomeAt
<1>6. Outcome' = [Outcome EXCEPT ![i] = a]
  <2>1. \A j \in Numbers :
           Outcome'[j] = IF told'[j] # "unsent" THEN told'[j]
                         ELSE IF j \in failed' THEN "skipped" ELSE "waiting"
    BY <1>2 DEF Outcome, Sent
  <2>2. \A j \in Numbers :
           Outcome[j] = IF told[j] # "unsent" THEN told[j]
                        ELSE IF j \in failed THEN "skipped" ELSE "waiting"
    BY DEF Outcome, Sent
  <2>3. \A j \in Numbers : Outcome'[j] = IF j = i THEN a ELSE Outcome[j]
    BY <1>1, <1>3, <2>1, <2>2 DEF Sent
  <2>4. /\ Outcome' = [j \in Numbers |-> Outcome'[j]]
        /\ Outcome = [j \in Numbers |-> Outcome[j]]
    BY <1>2 DEF Outcome
  <2> HIDE DEF Outcome
  <2> QED
    BY <1>1, <2>3, <2>4
<1>7. Report' = Report
  BY DEF Report, Over
<1> QED
  BY <1>2, <1>4, <1>5, <1>6, <1>7 DEF Ordered!Settle

(* A step is skipped because of one that it waits for, ...                 *)
LEMMA SkipRefines ==
    ASSUME OrderInv, NEW l \in SUBSET Devices, Skip(l)
    PROVE  Ordered!Next
<1>0. EngineInv
  BY DEF OrderInv
<1>1. PICK i \in Numbers :
          /\ AnswerOf(l, i, "skipped") /\ MustSkip(i)
          /\ failed' = failed \cup {i}
          /\ status = "executing" /\ UNCHANGED <<status, policy, results>>
  BY <1>0, SkipAnswers
<1>2. Ordered!Settle(i, "skipped")
  BY <1>1, SettleRefines
<1>3. policy # "continue" /\ \E j \in plan[i].deps : j \in failed
  BY <1>1 DEF MustSkip
<1>4. PICK j \in plan[i].deps : j \in failed
  BY <1>3
<1>5. j \in Numbers
  <2>1. plan[i].deps \subseteq 1..(i - 1)
    BY <1>0 DEF EngineInv, Valid, Numbers
  <2> QED
    BY <1>0, <2>1, PlanTypes DEF Numbers, EngineInv, TypeOK
<1>6. Outcome[j] \in {"failed", "skipped"}
  <2>1. PICK m \in Lanes : j \in StepsOf(m)
    BY <1>5, SomeLane
  <2>2. told[j] # "ok" /\ told[j] \in {"unsent", "ok", "failed"}
    BY <1>0, <1>4, <1>5, <2>1 DEF OrderInv, Tallied, EngineInv, TypeOK
  <2> QED
    BY <1>4, <1>5, <2>2 DEF Outcome, Sent
<1>7. Ordered!Skipped(i)
  BY <1>2, <1>3, <1>6 DEF Ordered!Skipped
<1> QED
  BY <1>7 DEF Ordered!Next, Numbers

(* ... and one is sent only when those have all succeeded.                 *)
LEMMA ExecuteRefines ==
    ASSUME OrderInv, NEW l \in SUBSET Devices, ExecuteOk(l) \/ ExecuteFailed(l)
    PROVE  Ordered!Next
<1>0. EngineInv /\ EngineInv'
  BY ExecuteInv DEF OrderInv
<1>1. PICK i \in Numbers, a \in {"ok", "failed"} :
          /\ AnswerOf(l, i, a)
          /\ failed' = IF a = "ok" THEN failed ELSE failed \cup {i}
          /\ status = "executing" /\ UNCHANGED <<status, policy, results>>
  BY <1>0, ExecuteAnswers
<1>2. Ordered!Settle(i, a)
  BY <1>1, SettleRefines
<1>3. /\ Numbers' = Numbers /\ plan' = plan /\ told'[i] = a /\ told[i] = "unsent"
      /\ \A j \in Numbers : j # i => told'[j] = told[j]
  <2>1. AnswerEffect(l, i, a)
    BY <1>0, <1>1, AnswerTypes
  <2>2. ~ Sent(i)
    BY <1>0, <1>1, Reached DEF AnswerOf
  <2> QED
    BY <1>1, <2>1, <2>2, SameLanes DEF AnswerEffect, AnswerOf, Sent
<1>4. \A j \in 1..(i - 1) : j \in Numbers /\ j < i /\ j # i
  BY <1>0, PlanTypes DEF Numbers, EngineInv, TypeOK
<1>5. ASSUME policy # "continue", NEW j \in plan[i].deps
      PROVE  Outcome[j] = "ok"
  <2>1. j \in 1..(i - 1)
    BY <1>0 DEF EngineInv, Valid, Numbers
  <2>2. told'[j] = "ok"
    <3>1. Prerequisites'
      BY <1>0 DEF EngineInv
    <3> QED
      BY <1>1, <1>3, <1>5, <3>1 DEF Prerequisites, Sent
  <2> QED
    BY <1>3, <1>4, <2>1, <2>2 DEF Outcome, Sent
<1>6. ASSUME policy = "stop", NEW j \in Ordered!Before(i)
      PROVE  Outcome[j] # "failed"
  <2>1. j \in 1..(i - 1) /\ plan[j].device = plan[i].device
    BY DEF Ordered!Before
  <2>2. told'[j] # "failed"
    <3>1. StopHaltsLane'
      BY <1>0 DEF EngineInv
    <3> QED
      BY <1>1, <1>3, <1>4, <1>6, <2>1, <3>1 DEF StopHaltsLane, Sent
  <2> QED
    BY <1>3, <1>4, <2>1, <2>2 DEF Outcome, Sent
<1>7. Ordered!Sent(i, a)
  BY <1>2, <1>5, <1>6 DEF Ordered!Sent
<1> QED
  BY <1>7 DEF Ordered!Next, Numbers

LEMMA FinishRefines ==
    ASSUME OrderInv, Finish
    PROVE  Ordered!Next
<1>0. EngineInv
  BY DEF OrderInv
<1>1. /\ status = "executing" /\ \A l \in Lanes : todo[l] = {}
      /\ results' = Collected
      /\ status' = IF \A i \in DOMAIN Collected : Collected[i] = "ok"
                     THEN "completed" ELSE "failed"
      /\ UNCHANGED <<plan, policy, told, failed>>
  BY DEF Finish, running, device
<1>2. /\ plan \in Seq(Step) /\ Numbers = 1..Len(plan) /\ Numbers \subseteq Nat
      /\ Len(plan) \in Nat /\ Len(Collected) \in Nat
      /\ Len(Collected) <= Len(plan) /\ DOMAIN Collected = 1..Len(Collected)
  <2>1. /\ Collected \in Seq(Results) /\ Len(Collected) \in Nat
        /\ Len(Collected) <= Len(plan)
    BY <1>0, CollectedTypes
  <2>2. DOMAIN Collected = 1..Len(Collected)
    BY <2>1
  <2>3. plan \in Seq(Step)
    BY <1>0 DEF EngineInv, TypeOK
  <2> QED
    BY <2>1, <2>2, <2>3, PlanTypes DEF Numbers
<1>3. ASSUME NEW i \in Numbers
      PROVE  /\ (IF i <= Len(Collected) THEN Collected[i] ELSE "missing")
                   = IF Outcome[i] = "waiting" THEN "missing" ELSE Outcome[i]
             /\ Outcome[i] = "waiting" =>
                   /\ policy = "stop"
                   /\ \E j \in 1..(i - 1) : Outcome[j] = "failed"
  <2>1. PICK l \in Lanes :
           /\ i \in StepsOf(l)
           /\ IF i <= Len(Collected)
                THEN Collected[i] = IF Place(l, i) <= Len(answers[l])
                                      THEN answers[l][Place(l, i)] ELSE "missing"
                ELSE ~ (Place(l, i) <= Len(answers[l]))
    BY <1>2, SomeLane, CollectedAt
  <2>2. /\ Outcome[i] = IF Place(l, i) <= Len(answers[l])
                          THEN answers[l][Place(l, i)] ELSE "waiting"
        /\ Place(l, i) <= Len(answers[l]) => Outcome[i] # "waiting"
    BY <2>1, OutcomeAt
  <2>3. ASSUME Outcome[i] = "waiting"
        PROVE  policy = "stop" /\ \E j \in 1..(i - 1) : Outcome[j] = "failed"
    <3>1. ~ (Place(l, i) <= Len(answers[l])) /\ i \notin todo[l]
      BY <1>1, <2>2, <2>3
    <3>2. policy = "stop" /\ \E j \in StepsOf(l) : j < i /\ told[j] = "failed"
      BY <1>1, <2>1, <3>1 DEF OrderInv, Dropped
    <3>3. PICK j \in StepsOf(l) : j < i /\ told[j] = "failed"
      BY <3>2
    <3>4. j \in Numbers /\ j \in 1..(i - 1)
      BY <1>2, <3>3 DEF StepsOf
    <3>5. Outcome[j] = "failed"
      BY <3>3, <3>4 DEF Outcome, Sent
    <3> QED
      BY <3>2, <3>4, <3>5
  <2> QED
    BY <2>1, <2>2, <2>3
<1>4. Outcome' = Outcome
  BY <1>1, SameLanes DEF Outcome, Sent
<1>5. Report' = [i \in 1..Len(plan) |->
                    IF Outcome[i] = "waiting" THEN "missing" ELSE Outcome[i]]
  <2>1. Over'
    BY <1>1 DEF Over
  <2>2. Report' = [i \in Numbers |->
                      IF i <= Len(Collected) THEN Collected[i] ELSE "missing"]
    BY <1>1, <2>1, SameLanes DEF Report
  <2> HIDE DEF Outcome
  <2> QED
    BY <1>2, <1>3, <2>2
<1>6. (\A i \in DOMAIN Collected : Collected[i] = "ok")
         <=> (\A i \in 1..Len(plan) : Outcome[i] = "ok")
  <2>1. ASSUME \A i \in DOMAIN Collected : Collected[i] = "ok", NEW i \in Numbers
        PROVE  Outcome[i] = "ok"
    <3>1. \A j \in Numbers : j <= Len(Collected) => Outcome[j] = "ok"
      BY <1>2, <1>3, <2>1
    <3>2. CASE Outcome[i] = "waiting"
      <4>1. PICK j \in 1..(i - 1) : Outcome[j] = "failed"
        BY <1>3, <3>2
      <4>2. j \in Numbers
        BY <1>2
      <4>3. j <= Len(Collected)
        BY <1>3, <4>1, <4>2
      <4> QED
        BY <3>1, <4>1, <4>2, <4>3
    <3>3. CASE Outcome[i] # "waiting"
      <4>1. Outcome[i] # "missing"
        BY <1>0 DEF Outcome, Sent, EngineInv, TypeOK
      <4>2. i <= Len(Collected)
        BY <1>3, <3>3, <4>1
      <4> QED
        BY <3>1, <4>2
    <3> QED
      BY <3>2, <3>3
  <2>2. ASSUME \A i \in Numbers : Outcome[i] = "ok", NEW i \in DOMAIN Collected
        PROVE  Collected[i] = "ok"
    <3>1. i \in Numbers /\ i <= Len(Collected)
      BY <1>2
    <3> QED
      BY <1>3, <2>2, <3>1
  <2> QED
    BY <1>2, <2>1, <2>2
<1>7. Ordered!End
  <2>1. status' = IF \A i \in 1..Len(plan) : Outcome[i] = "ok"
                    THEN "completed" ELSE "failed"
    BY <1>1, <1>6
  <2> QED
    BY <1>1, <1>2, <1>3, <1>4, <1>5, <2>1 DEF Ordered!End
<1> QED
  BY <1>7 DEF Ordered!Next

LEMMA StartRefines ==
    ASSUME Init
    PROVE  Ordered!Init
<1>1. /\ status = "none" /\ plan = <<>> /\ policy = "stop"
      /\ Numbers = {}
  BY DEF Init, Numbers
<1>2. Outcome = <<>> /\ Report = <<>>
  BY <1>1 DEF Outcome, Report, Over
<1> QED
  BY <1>1, <1>2 DEF Ordered!Init

LEMMA StepRefines ==
    ASSUME OrderInv, [Next]_vars
    PROVE  [Ordered!Next]_(Ordered!vars)
<1>0. EngineInv
  BY DEF OrderInv
<1>1. ASSUME NEW list \in Offered, NEW p \in Policies, Create(list, p)
      PROVE  Ordered!Next
  <2>1. /\ status = "none" /\ status' = "pending_approval" /\ plan' = list
        /\ policy' = p /\ told' = [i \in 1..Len(list) |-> "unsent"]
        /\ failed' = {}
    BY <1>0, <1>1 DEF Create, EngineInv, Fresh
  <2>2. Outcome' = [i \in 1..Len(plan') |-> "waiting"]
    BY <2>1 DEF Outcome, Sent, Numbers
  <2>3. Report' = Report
    BY <2>1 DEF Report, Over
  <2>4. Ordered!Make
    BY <2>1, <2>2, <2>3 DEF Ordered!Make
  <2> QED
    BY <2>4 DEF Ordered!Next
<1>2. CASE Run
  <2>1. /\ status = "pending_approval" /\ status' = "executing"
        /\ UNCHANGED <<plan, policy, told, failed>>
    BY <1>2 DEF Run, device
  <2>2. Outcome' = Outcome /\ Report' = Report
    BY <2>1, SameLanes DEF Outcome, Sent, Report, Over
  <2>3. Ordered!Start
    BY <2>1, <2>2 DEF Ordered!Start
  <2> QED
    BY <2>3 DEF Ordered!Next
<1>3. CASE Cut
  <2>1. /\ status = "executing" /\ status' = "cut"
        /\ UNCHANGED <<plan, policy, told, failed>>
    BY <1>3 DEF Cut, running, device
  <2>2. Outcome' = Outcome /\ Report' = Report
    BY <2>1, SameLanes DEF Outcome, Sent, Report, Over
  <2>3. Ordered!Abandon
    BY <2>1, <2>2 DEF Ordered!Abandon
  <2> QED
    BY <2>3 DEF Ordered!Next
<1>4. ASSUME UNCHANGED <<status, plan, policy, told, failed, results>>
      PROVE  UNCHANGED Ordered!vars
  <2>1. Outcome' = Outcome /\ Report' = Report
    BY <1>4, SameLanes DEF Outcome, Sent, Report, Over
  <2> QED
    BY <1>4, <2>1 DEF Ordered!vars
<1>5. ASSUME NEW l \in SUBSET Devices, PreRead(l)
      PROVE  UNCHANGED Ordered!vars
  BY <1>4, <1>5 DEF PreRead, verdict, device
<1>6. CASE UNCHANGED vars
  BY <1>4, <1>6 DEF vars, verdict, running, device
<1> QED
  BY <1>1, <1>2, <1>3, <1>5, <1>6, SkipRefines, ExecuteRefines, FinishRefines
  DEF Next, LaneStep

(* The engine implements OrderedSteps: whatever the mode, the order of the *)
(* lanes and the answers of the devices, each step has one outcome, and    *)
(* the report has it.                                                      *)
THEOREM EngineImplements == Spec => KeepsOrder
<1>1. Init => OrderInv
  BY InitInv, StartOrder DEF OrderInv
<1>2. OrderInv /\ [Next]_vars => OrderInv'
  BY EngineStepInv, StepOrder DEF OrderInv
<1>3. Init => Ordered!Init
  BY StartRefines
<1>4. OrderInv /\ [Next]_vars => [Ordered!Next]_(Ordered!vars)
  BY StepRefines
<1> QED
  BY <1>1, <1>2, <1>3, <1>4, PTL DEF Spec, KeepsOrder, Ordered!Spec

-----------------------------------------------------------------------------
(* The gate in front of the plans.                                         *)

(* A plan that was never made is unknown everywhere, and only the engine   *)
(* that made a plan, or the web engine, has a copy of it.                  *)
Made ==
    /\ \A pl \in Plans : maker[pl] = Nobody =>
          runs[pl] = 0 /\ \A p \in Processes : copy[p][pl] = "absent"
    /\ \A p \in Processes : asking[p] # Nobody => maker[asking[p]] # Nobody
    /\ \A t \in Tokens : phase[t] # "unissued" =>
          subject[t] \in Plans /\ maker[subject[t]] # Nobody
    /\ \A p \in Processes, pl \in Plans :
          copy[p][pl] # "absent" => p = maker[pl] \/ p = Web

(* While the policy stays: a declared risk has only raised the gate, ...   *)
Raised ==
    changes = 0 => \A pl \in Plans :
        maker[pl] # Nobody => Required(pl) >= Demanded(pl)

(* ... a session is asked for, and carries, the level of its plan, which   *)
(* is one that the chat cannot confirm, ...                                *)
AtLevel ==
    changes = 0 =>
        /\ \A p \in Processes :
              asking[p] # Nobody => Required(asking[p]) > LlmConfirm
        /\ \A t \in Tokens : phase[t] # "unissued" =>
              level[t] = Required(subject[t]) /\ level[t] > LlmConfirm

(* ... and the level says which engine runs a plan: the web engine one     *)
(* that needs an approval, and the engine that made it any other one.      *)
Ran == {"executing", "completed", "failed"}
Placed ==
    changes = 0 => \A p \in Processes, pl \in Plans :
        /\ copy[p][pl] # "absent" => p = maker[pl] \/ Required(pl) > LlmConfirm
        /\ copy[p][pl] \in Ran =>
              p = IF Required(pl) > LlmConfirm THEN Web ELSE maker[pl]

(* Whether the engine of an MCP process can still start a plan, and        *)
(* whether the web engine can, by its own copy or by rebuilding it.        *)
Startable(pl)   == \E p \in Processes \ {Web} : Runnable(copy[p][pl])
Rebuildable(pl) == copy[Web][pl] = "absent" \/ Runnable(copy[Web][pl])

(* What is left to each plan: one run in each engine, and one more for     *)
(* each death, ...                                                         *)
Budget ==
    \A pl \in Plans :
        /\ runs[pl] <= 2 + crashes
        /\ Startable(pl) \/ Rebuildable(pl) => runs[pl] <= 1 + crashes
        /\ Startable(pl) /\ Rebuildable(pl) => runs[pl] <= crashes

(* ... and while the policy stays, in one of the engines only.             *)
SteadyBudget ==
    changes = 0 => \A pl \in Plans : maker[pl] # Nobody =>
        IF Required(pl) > LlmConfirm
          THEN /\ runs[pl] <= 1 + crashes
               /\ Rebuildable(pl) => runs[pl] <= crashes
          ELSE /\ runs[pl] <= 1
               /\ \A p \in Processes : Runnable(copy[p][pl]) => runs[pl] = 0

GatedInv == GatedTypeOK /\ Made /\ Raised /\ AtLevel /\ Placed /\ Budget
              /\ SteadyBudget /\ StrictEnough
-----------------------------------------------------------------------------
(* The strictest level of a set of risk words exists: a word demands it,   *)
(* or there is no word.                                                    *)
LEMMA StrictestLevel ==
    ASSUME riskPolicy \in [Risks -> Levels], NEW words \in SUBSET Risks
    PROVE  /\ Strictest(words) \in Levels
           /\ \A w \in words : riskPolicy[w] <= Strictest(words)
           /\ \/ Strictest(words) = 0
              \/ \E w \in words : riskPolicy[w] = Strictest(words)
<1> DEFINE Fits(l) == /\ \A w \in words : riskPolicy[w] <= l
                      /\ l = 0 \/ \E w \in words : riskPolicy[w] = l
<1>1. Levels = {0, 1, 2, 3} /\ \A w \in words : riskPolicy[w] \in Levels
  BY DEF Levels
<1>2. \E l \in Levels : Fits(l)
  <2>1. CASE \E w \in words : riskPolicy[w] = 3
    <3>1. Fits(3)
      BY <2>1, <1>1
    <3> QED
      BY <3>1, <1>1
  <2>2. CASE /\ ~ \E w \in words : riskPolicy[w] = 3
             /\ \E w \in words : riskPolicy[w] = 2
    <3>1. Fits(2)
      BY <2>2, <1>1
    <3> QED
      BY <3>1, <1>1
  <2>3. CASE /\ ~ \E w \in words : riskPolicy[w] \in {2, 3}
             /\ \E w \in words : riskPolicy[w] = 1
    <3>1. Fits(1)
      BY <2>3, <1>1
    <3> QED
      BY <3>1, <1>1
  <2>4. CASE ~ \E w \in words : riskPolicy[w] \in {1, 2, 3}
    <3>1. Fits(0)
      BY <2>4, <1>1
    <3> QED
      BY <3>1, <1>1
  <2> QED
    BY <2>1, <2>2, <2>3, <2>4
<1>3. Strictest(words) = CHOOSE l \in Levels : Fits(l)
  BY DEF Strictest
<1> HIDE DEF Fits
<1>4. Strictest(words) \in Levels /\ Fits(Strictest(words))
  BY <1>2, <1>3
<1> QED
  BY <1>4 DEF Fits

(* The recorded word of a step is never laxer than the one of the catalog. *)
LEMMA RecordedRaises ==
    ASSUME riskPolicy \in [Risks -> Levels], NEW s \in Rating
    PROVE  /\ Recorded(s) \in Risks /\ s.catalog \in Risks
           /\ riskPolicy[Recorded(s)] >= riskPolicy[s.catalog]
<1>1. s.catalog \in Risks /\ riskPolicy[s.catalog] \in 0..3
  BY DEF Rating, Levels
<1>2. CASE s.declared \in Known /\ riskPolicy[s.declared] > riskPolicy[s.catalog]
  BY <1>1, <1>2, PlanAssumption DEF Recorded, Levels
<1>3. CASE ~ (s.declared \in Known /\ riskPolicy[s.declared] > riskPolicy[s.catalog])
  BY <1>1, <1>3 DEF Recorded
<1> QED
  BY <1>2, <1>3

(* What a plan demands does not change unless the policy or the plan does. *)
LEMMA SameLevel ==
    ASSUME riskPolicy' = riskPolicy, NEW pl,
           risks'[pl] = risks[pl], steps'[pl] = steps[pl]
    PROVE  Required(pl)' = Required(pl) /\ Demanded(pl)' = Demanded(pl)
  BY DEF Required, Demanded, Strictest

LEMMA LevelTypes ==
    ASSUME GatedTypeOK, NEW pl \in Plans
    PROVE  Required(pl) \in Levels /\ Demanded(pl) \in Levels
<1>1. risks[pl] \in SUBSET Risks /\ {s.catalog : s \in steps[pl]} \in SUBSET Risks
  BY DEF GatedTypeOK, Rating
<1> QED
  BY <1>1, StrictestLevel DEF GatedTypeOK, Required, Demanded

(* The level of a set of ratings by the recorded words is at least their   *)
(* level by the catalog.                                                   *)
LEMMA RecordedLevel ==
    ASSUME riskPolicy \in [Risks -> Levels], NEW S \in SUBSET Rating
    PROVE  Strictest({Recorded(s) : s \in S}) >= Strictest({s.catalog : s \in S})
<1> DEFINE R == {Recorded(s) : s \in S}
           C == {s.catalog : s \in S}
<1>1. R \in SUBSET Risks /\ C \in SUBSET Risks
  BY RecordedRaises
<1>2. CASE Strictest(C) = 0
  BY <1>1, <1>2, StrictestLevel DEF Levels
<1>3. CASE \E w \in C : riskPolicy[w] = Strictest(C)
  <2>1. PICK s \in S : riskPolicy[s.catalog] = Strictest(C)
    BY <1>3
  <2>2. /\ riskPolicy[Recorded(s)] >= riskPolicy[s.catalog]
        /\ riskPolicy[Recorded(s)] \in Levels /\ riskPolicy[s.catalog] \in Levels
    BY RecordedRaises
  <2>3. /\ riskPolicy[Recorded(s)] <= Strictest(R)
        /\ Strictest(R) \in Levels
    BY <1>1, StrictestLevel
  <2> QED
    BY <2>1, <2>2, <2>3 DEF Levels
<1> QED
  BY <1>1, <1>2, <1>3, StrictestLevel

-----------------------------------------------------------------------------
(* Type correctness.                                                       *)

LEMMA GatedInitType == GatedInit => GatedTypeOK
  BY PlanAssumption
  DEF GatedInit, GatedTypeOK, Levels, Copies, Gate!Init, Gate!TypeOK,
      Gate!Phases

(* Only tokens that were issued have a handler, and they have a plan.      *)
LEMMA GateMoves ==
    ASSUME Gate!TypeOK, NEW t \in Tokens, NEW from,
           NEW to \in Gate!Phases, Gate!Move(t, from, to)
    PROVE  /\ Gate!TypeOK'
           /\ phase[t] \in from
           /\ phase'[t] = to /\ \A u \in Tokens \ {t} : phase'[u] = phase[u]
  BY DEF Gate!TypeOK, Gate!Move

-----------------------------------------------------------------------------
(* The steps that ask for an approval or resolve it start no plan.         *)
Quiet == UNCHANGED <<riskPolicy, made, copy, count, past>>

LEMMA QuietKeeps ==
    ASSUME GatedInv, Quiet
    PROVE  Raised' /\ Placed' /\ Budget' /\ SteadyBudget' /\ StrictEnough'
<1>1. \A pl \in Plans : /\ Required(pl)' = Required(pl)
                        /\ Demanded(pl)' = Demanded(pl)
  BY SameLevel DEF Quiet, made
<1>2. /\ copy' = copy /\ runs' = runs /\ doors' = doors /\ maker' = maker
      /\ changes' = changes /\ crashes' = crashes
  BY DEF Quiet, made, count, past
<1>3. Raised'
  BY <1>1, <1>2 DEF GatedInv, Raised
<1>4. Placed'
  BY <1>1, <1>2 DEF GatedInv, Placed
<1>5. Budget'
  BY <1>2 DEF GatedInv, Budget, Startable, Rebuildable, Runnable
<1>6. SteadyBudget'
  BY <1>1, <1>2 DEF GatedInv, SteadyBudget, Rebuildable, Runnable
<1>7. StrictEnough'
  BY <1>2 DEF GatedInv, StrictEnough
<1> QED
  BY <1>3, <1>4, <1>5, <1>6, <1>7

LEMMA AskLookupInv ==
    ASSUME GatedInv, NEW p \in Processes, NEW pl \in Plans, AskLookup(p, pl)
    PROVE  GatedInv'
<1>1. Quiet /\ UNCHANGED gate /\ asking' = [asking EXCEPT ![p] = pl]
      /\ copy[p][pl] # "absent" /\ Required(pl) > LlmConfirm
  BY DEF AskLookup, Quiet
<1>2. \A q \in Plans : Required(q)' = Required(q)
  BY <1>1, SameLevel DEF Quiet, made
<1>3. GatedTypeOK'
  BY <1>1
  DEF GatedInv, GatedTypeOK, Quiet, made, count, past, gate, Gate!TypeOK
<1>4. maker[pl] # Nobody
  BY <1>1 DEF GatedInv, Made
<1>5. Made'
  BY <1>1, <1>4
  DEF GatedInv, Made, GatedTypeOK, Quiet, made, count, past, gate
<1>6. AtLevel'
  <2>1. \A q \in Processes :
            asking'[q] = IF q = p THEN pl ELSE asking[q]
    BY <1>1 DEF GatedInv, GatedTypeOK
  <2>2. \A q \in Processes : asking[q] \in Plans \cup {Nobody}
    BY DEF GatedInv, GatedTypeOK
  <2>3. \A t \in Tokens : phase[t] # "unissued" => subject[t] \in Plans
    BY DEF GatedInv, Made
  <2> QED
    BY <1>1, <1>2, <2>1, <2>2, <2>3
    DEF GatedInv, AtLevel, Quiet, count, gate
<1> QED
  BY <1>1, <1>3, <1>5, <1>6, QuietKeeps DEF GatedInv

LEMMA AskCreateInv ==
    ASSUME GatedInv, NEW p \in Processes, NEW t \in Tokens, AskCreate(p, t)
    PROVE  GatedInv'
<1> DEFINE pl == asking[p]
<1>1. Quiet /\ asking' = [asking EXCEPT ![p] = Nobody]
      /\ subject' = [subject EXCEPT ![t] = pl]
      /\ level' = [level EXCEPT ![t] = Required(pl)]
      /\ lapsed' = lapsed /\ held' = held
  BY DEF AskCreate, Quiet
<1>2. pl \in Plans /\ maker[pl] # Nobody
  BY DEF AskCreate, Idle, GatedInv, GatedTypeOK, Made
<1>3. /\ Gate!TypeOK' /\ phase'[t] = "pending"
      /\ \A u \in Tokens \ {t} : phase'[u] = phase[u]
  BY GateMoves DEF AskCreate, Gate!Request, Gate!Phases, GatedInv, GatedTypeOK
<1>4. \A q \in Plans : Required(q)' = Required(q)
  BY <1>1, SameLevel DEF Quiet, made
<1> HIDE DEF pl
<1>5. GatedTypeOK'
  <2>1. Required(pl) \in Levels
    BY <1>2, LevelTypes DEF GatedInv
  <2>2. level' \in [Tokens -> Levels] /\ subject' \in [Tokens -> Plans \cup {Nobody}]
        /\ asking' \in [Processes -> Plans \cup {Nobody}]
    BY <1>1, <1>2, <2>1 DEF GatedInv, GatedTypeOK
  <2> QED
    BY <1>1, <1>3, <2>2
    DEF GatedInv, GatedTypeOK, Quiet, made, count, past
<1>6. \A u \in Tokens :
          /\ subject'[u] = IF u = t THEN pl ELSE subject[u]
          /\ level'[u] = IF u = t THEN Required(pl) ELSE level[u]
  BY <1>1 DEF GatedInv, GatedTypeOK
<1>7. \A q \in Processes : asking'[q] = IF q = p THEN Nobody ELSE asking[q]
  BY <1>1 DEF GatedInv, GatedTypeOK
<1>8. /\ copy' = copy /\ runs' = runs /\ maker' = maker /\ changes' = changes
  BY <1>1 DEF Quiet, made, count, past
<1>9. Made'
  <2>1. \A u \in Tokens : phase'[u] # "unissued" =>
            subject'[u] \in Plans /\ maker'[subject'[u]] # Nobody
    BY <1>2, <1>3, <1>6, <1>8 DEF GatedInv, Made
  <2> QED
    BY <1>7, <1>8, <2>1 DEF GatedInv, Made
<1>10. AtLevel'
  <2> SUFFICES ASSUME changes = 0 PROVE AtLevel'
    BY <1>8 DEF AtLevel
  <2>1. Required(pl) > LlmConfirm
    BY <1>2, PlanAssumption DEF GatedInv, AtLevel, pl
  <2>2. ASSUME NEW q \in Processes, asking'[q] # Nobody
        PROVE  Required(asking[q])' > LlmConfirm /\ asking'[q] = asking[q]
    BY <1>4, <1>7, <2>2 DEF GatedInv, AtLevel, GatedTypeOK
  <2>3. ASSUME NEW u \in Tokens, phase'[u] # "unissued"
        PROVE  level'[u] = Required(subject[u])' /\ level'[u] > LlmConfirm
    <3>1. CASE u = t
      BY <1>2, <1>4, <1>6, <2>1, <3>1 DEF Required
    <3>2. CASE u # t
      BY <1>3, <1>4, <1>6, <2>3, <3>2 DEF GatedInv, AtLevel, Made, Required
    <3> QED
      BY <3>1, <3>2
  <2> QED
    BY <2>2, <2>3 DEF AtLevel, Required
<1> QED
  BY <1>1, <1>5, <1>9, <1>10, QuietKeeps DEF GatedInv

LEMMA ResolveInv ==
    ASSUME GatedInv, NEW t \in Tokens, Approve(t) \/ Deny(t) \/ Lapse(t)
    PROVE  GatedInv'
<1>1. Quiet /\ UNCHANGED <<asking, subject, level>>
  BY DEF Approve, Deny, Lapse, Quiet
<1>2. Gate!TypeOK' /\ \A u \in Tokens :
          phase'[u] # "unissued" => phase[u] # "unissued"
  <2>1. CASE Approve(t)
    BY <2>1, GateMoves
    DEF Approve, Gate!Approve, Gate!Phases, GatedInv, GatedTypeOK
  <2>2. CASE Deny(t)
    BY <2>2, GateMoves
    DEF Deny, Gate!Deny, Gate!Phases, GatedInv, GatedTypeOK
  <2>3. CASE Lapse(t)
    BY <2>3 DEF Lapse, GatedInv, GatedTypeOK, Gate!TypeOK
  <2> QED
    BY <2>1, <2>2, <2>3
<1>3. lapsed' \in SUBSET Tokens /\ held' \in SUBSET Tokens
  BY DEF Approve, Deny, Lapse, GatedInv, GatedTypeOK
<1>4. GatedTypeOK'
  BY <1>1, <1>2, <1>3 DEF GatedInv, GatedTypeOK, Quiet, made, count, past
<1>5. Made'
  BY <1>1, <1>2 DEF GatedInv, Made, Quiet, made, past
<1>6. AtLevel'
  <2>1. \A pl \in Plans : Required(pl)' = Required(pl)
    BY <1>1, SameLevel DEF Quiet, made
  <2>2. \A p \in Processes : asking[p] # Nobody => asking[p] \in Plans
    BY DEF GatedInv, GatedTypeOK
  <2>3. \A u \in Tokens : phase[u] # "unissued" => subject[u] \in Plans
    BY DEF GatedInv, Made
  <2> QED
    BY <1>1, <1>2, <2>1, <2>2, <2>3 DEF GatedInv, AtLevel, Quiet, count
<1> QED
  BY <1>1, <1>4, <1>5, <1>6, QuietKeeps DEF GatedInv

(* A change of the policy ends what is promised while it stays.            *)
LEMMA SetPolicyInv ==
    ASSUME GatedInv, NEW new \in RiskPolicies, SetPolicy(new)
    PROVE  GatedInv'
<1>1. /\ riskPolicy' = new /\ changes' = changes + 1 /\ changes \in Nat
      /\ UNCHANGED <<made, copy, asking, gate, crashes, past>>
  BY DEF SetPolicy, GatedInv, GatedTypeOK
<1>2. changes' # 0
  BY <1>1
<1>3. GatedTypeOK'
  BY <1>1, PlanAssumption
  DEF GatedInv, GatedTypeOK, Gate!TypeOK, made, gate, past
<1>4. Made'
  BY <1>1 DEF GatedInv, Made, made, gate, past
<1>5. Budget'
  BY <1>1 DEF GatedInv, Budget, Startable, Rebuildable, Runnable, past
<1> QED
  BY <1>2, <1>3, <1>4, <1>5
  DEF GatedInv, Raised, AtLevel, Placed, SteadyBudget, StrictEnough

-----------------------------------------------------------------------------
(* The steps that touch the copies.                                        *)

(* A step that leaves plans, sessions and policy alone keeps the levels.   *)
LEMMA LevelsKept ==
    ASSUME GatedInv, UNCHANGED <<riskPolicy, made, subject, level, changes>>,
           \A p \in Processes : asking'[p] # Nobody => asking'[p] = asking[p],
           \A u \in Tokens : phase'[u] # "unissued" => phase[u] # "unissued"
    PROVE  /\ Raised' /\ AtLevel'
           /\ \A pl \in Plans : Required(pl)' = Required(pl)
           /\ \A pl \in Plans : Demanded(pl)' = Demanded(pl)
<1>1. \A pl \in Plans : /\ Required(pl)' = Required(pl)
                        /\ Demanded(pl)' = Demanded(pl)
  BY SameLevel DEF made
<1>2. Raised'
  BY <1>1 DEF GatedInv, Raised, made
<1>3. AtLevel'
  <2>1. \A p \in Processes : asking[p] # Nobody => asking[p] \in Plans
    BY DEF GatedInv, GatedTypeOK
  <2>2. \A u \in Tokens : phase[u] # "unissued" => subject[u] \in Plans
    BY DEF GatedInv, Made
  <2> QED
    BY <1>1, <2>1, <2>2 DEF GatedInv, AtLevel
<1> QED
  BY <1>1, <1>2, <1>3

(* Starting a plan, in the engine of an MCP process by its own copy, or in *)
(* the web engine by its copy or by rebuilding it.                         *)
LEMMA StartedKeeps ==
    ASSUME GatedInv, NEW p \in Processes, NEW pl \in Plans, NEW by \in Levels,
           Started(p, pl, by), UNCHANGED <<riskPolicy, made, count>>,
           copy[p][pl] # "absent" \/ p = Web,
           copy[p][pl] = "absent" \/ Runnable(copy[p][pl]),
           maker[pl] # Nobody,
           changes = 0 =>
               /\ by = Required(pl)
               /\ p = IF Required(pl) > LlmConfirm THEN Web ELSE maker[pl]
               /\ Required(pl) > LlmConfirm \/ Runnable(copy[p][pl])
    PROVE  /\ copy' \in [Processes -> [Plans -> Copies]]
           /\ runs' \in [Plans -> Nat]
           /\ doors' \in [Plans -> SUBSET [by : Levels, demanded : Levels]]
           /\ \A q \in Plans : maker'[q] = Nobody =>
                  runs'[q] = 0 /\ \A r \in Processes : copy'[r][q] = "absent"
           /\ \A r \in Processes, q \in Plans :
                  copy'[r][q] # "absent" => r = maker'[q] \/ r = Web
           /\ Placed' /\ Budget' /\ SteadyBudget' /\ StrictEnough'
<1>1. Required(pl) \in Levels /\ Demanded(pl) \in Levels
  BY LevelTypes DEF GatedInv
<1>2. \A q \in Plans : Required(q)' = Required(q) /\ Demanded(q)' = Demanded(q)
  BY SameLevel DEF made
<1>3. \A r \in Processes, q \in Plans :
          copy'[r][q] = IF r = p /\ q = pl THEN "executing" ELSE copy[r][q]
  BY DEF Started, GatedInv, GatedTypeOK
<1>4. \A q \in Plans : runs'[q] = IF q = pl THEN runs[q] + 1 ELSE runs[q]
  BY DEF Started, GatedInv, GatedTypeOK
<1>5. /\ maker' = maker /\ changes' = changes /\ crashes' = crashes
      /\ crashes \in Nat /\ \A q \in Plans : runs[q] \in Nat
  BY DEF made, count, GatedInv, GatedTypeOK
<1>6. /\ copy' \in [Processes -> [Plans -> Copies]]
      /\ runs' \in [Plans -> Nat]
      /\ doors' \in [Plans -> SUBSET [by : Levels, demanded : Levels]]
  BY <1>1 DEF Started, GatedInv, GatedTypeOK, Copies
<1>7. \A q \in Plans : maker'[q] = Nobody =>
          runs'[q] = 0 /\ \A r \in Processes : copy'[r][q] = "absent"
  BY <1>3, <1>4, <1>5 DEF GatedInv, Made
<1>8. \A r \in Processes, q \in Plans :
          copy'[r][q] # "absent" => r = maker'[q] \/ r = Web
  BY <1>3, <1>5 DEF GatedInv, Made
<1>9. Placed'
  BY <1>2, <1>3, <1>5 DEF GatedInv, Placed, Ran, Runnable
<1>10. StrictEnough'
  <2>1. changes = 0 => by >= Demanded(pl)
    BY DEF GatedInv, Raised
  <2>2. \A q \in Plans : \A x \in doors'[q] :
            x \in doors[q] \/ (q = pl /\ x = [by |-> by, demanded |-> Demanded(pl)])
    BY DEF Started, GatedInv, GatedTypeOK
  <2> QED
    BY <1>5, <2>1, <2>2 DEF GatedInv, StrictEnough
<1>11. ASSUME NEW q \in Plans, q # pl
       PROVE  /\ Startable(q)' = Startable(q) /\ Rebuildable(q)' = Rebuildable(q)
              /\ \A r \in Processes : copy'[r][q] = copy[r][q]
              /\ runs'[q] = runs[q]
  BY <1>3, <1>4, <1>11, PlanAssumption DEF Startable, Rebuildable, Runnable
<1>12. Budget'
  <2>1. IF p = Web THEN /\ Rebuildable(pl) /\ ~ Rebuildable(pl)'
                        /\ Startable(pl)' = Startable(pl)
                   ELSE /\ Startable(pl) /\ ~ Startable(pl)'
                        /\ Rebuildable(pl)' = Rebuildable(pl)
    <3>1. CASE p = Web
      BY <1>3, <3>1 DEF Startable, Rebuildable, Runnable
    <3>2. CASE p # Web
      <4>1. Startable(pl)
        BY <3>2 DEF Startable
      <4>2. \A r \in Processes \ {Web} : r # p => copy[r][pl] = "absent"
        BY <3>2 DEF GatedInv, Made
      <4>3. ~ Startable(pl)'
        BY <1>3, <3>2, <4>2 DEF Startable, Runnable
      <4>4. Rebuildable(pl)' = Rebuildable(pl)
        BY <1>3, <3>2, PlanAssumption DEF Rebuildable, Runnable
      <4> QED
        BY <3>2, <4>1, <4>3, <4>4
    <3> QED
      BY <3>1, <3>2
  <2>2. /\ runs'[pl] <= 2 + crashes
        /\ Startable(pl)' \/ Rebuildable(pl)' => runs'[pl] <= 1 + crashes
        /\ ~ (Startable(pl)' /\ Rebuildable(pl)')
    BY <1>4, <1>5, <2>1 DEF GatedInv, Budget
  <2>3. \A q \in Plans \ {pl} :
            /\ runs'[q] <= 2 + crashes
            /\ Startable(q)' \/ Rebuildable(q)' => runs'[q] <= 1 + crashes
            /\ Startable(q)' /\ Rebuildable(q)' => runs'[q] <= crashes
    BY <1>11 DEF GatedInv, Budget
  <2> QED
    BY <1>5, <2>2, <2>3 DEF Budget
<1>13. SteadyBudget'
  <2> SUFFICES ASSUME changes = 0, NEW q \in Plans, maker[q] # Nobody
               PROVE  IF Required(q) > LlmConfirm
                        THEN /\ runs'[q] <= 1 + crashes
                             /\ Rebuildable(q)' => runs'[q] <= crashes
                        ELSE /\ runs'[q] <= 1
                             /\ \A r \in Processes :
                                    Runnable(copy[r][q])' => runs'[q] = 0
    BY <1>2, <1>5 DEF SteadyBudget
  <2>1. CASE q # pl
    BY <1>11, <2>1 DEF GatedInv, SteadyBudget, Runnable
  <2>2. CASE q = pl /\ Required(pl) > LlmConfirm
    <3>1. p = Web /\ Rebuildable(pl) /\ ~ Rebuildable(pl)'
      BY <1>3, <2>2 DEF Rebuildable, Runnable
    <3>2. runs[pl] <= crashes
      BY <2>2, <3>1 DEF GatedInv, SteadyBudget
    <3> QED
      BY <1>4, <1>5, <2>2, <3>1, <3>2
  <2>3. CASE q = pl /\ ~ (Required(pl) > LlmConfirm)
    <3>1. runs[pl] = 0
      BY <2>3 DEF GatedInv, SteadyBudget
    <3>2. \A r \in Processes : r # p => copy'[r][pl] = "absent"
      BY <1>3, <2>3 DEF GatedInv, Placed
    <3>3. \A r \in Processes : ~ Runnable(copy[r][pl])'
      BY <1>3, <3>2 DEF Runnable
    <3> QED
      BY <1>4, <2>3, <3>1, <3>3
  <2> QED
    BY <2>1, <2>2, <2>3
<1> QED
  BY <1>6, <1>7, <1>8, <1>9, <1>10, <1>12, <1>13

LEMMA RunInlineInv ==
    ASSUME GatedInv, NEW p \in Processes, NEW pl \in Plans, NEW yes \in BOOLEAN,
           RunInline(p, pl, yes)
    PROVE  GatedInv'
<1>1. /\ Started(p, pl, Required(pl)) /\ copy[p][pl] # "absent"
      /\ Runnable(copy[p][pl]) /\ Required(pl) \in {0, LlmConfirm}
      /\ UNCHANGED <<riskPolicy, made, asking, gate, count>>
  BY DEF RunInline
<1>2. Required(pl) \in Levels /\ maker[pl] # Nobody
  BY <1>1, LevelTypes DEF GatedInv, Made
<1>3. changes = 0 => p = maker[pl] /\ ~ (Required(pl) > LlmConfirm)
  BY <1>1 DEF GatedInv, Placed, LlmConfirm
<1>4. Raised' /\ AtLevel'
  BY <1>1, LevelsKept DEF gate, count
<1>5. /\ copy' \in [Processes -> [Plans -> Copies]]
      /\ runs' \in [Plans -> Nat]
      /\ doors' \in [Plans -> SUBSET [by : Levels, demanded : Levels]]
      /\ \A q \in Plans : maker'[q] = Nobody =>
             runs'[q] = 0 /\ \A r \in Processes : copy'[r][q] = "absent"
      /\ \A r \in Processes, q \in Plans :
             copy'[r][q] # "absent" => r = maker'[q] \/ r = Web
      /\ Placed' /\ Budget' /\ SteadyBudget' /\ StrictEnough'
  BY <1>1, <1>2, <1>3, StartedKeeps
<1>6. GatedTypeOK'
  BY <1>1, <1>5 DEF GatedInv, GatedTypeOK, Gate!TypeOK, made, gate, count
<1>7. Made'
  BY <1>1, <1>5 DEF GatedInv, Made, made, gate
<1> QED
  BY <1>4, <1>5, <1>6, <1>7 DEF GatedInv

LEMMA DispatchInv ==
    ASSUME GatedInv, NEW t \in Tokens, Dispatch(t)
    PROVE  GatedInv'
<1> DEFINE pl == subject[t]
<1>1. /\ Gate!Start(t) /\ held' = held \ {t}
      /\ UNCHANGED <<riskPolicy, made, asking, subject, level, lapsed, count>>
  BY DEF Dispatch
<1>2. /\ Gate!TypeOK' /\ phase[t] = "approved"
      /\ \A u \in Tokens : phase'[u] # "unissued" => phase[u] # "unissued"
  BY <1>1, GateMoves DEF Gate!Start, Gate!Phases, GatedInv, GatedTypeOK
<1>3. pl \in Plans /\ maker[pl] # Nobody /\ level[t] \in Levels
  BY <1>2 DEF GatedInv, Made, GatedTypeOK
<1>4. changes = 0 => level[t] = Required(pl) /\ Required(pl) > LlmConfirm
  BY <1>2 DEF GatedInv, AtLevel
<1>5. Raised' /\ AtLevel'
  BY <1>1, <1>2, LevelsKept DEF count
<1>6. CASE copy[Web][pl] = "absent" \/ Runnable(copy[Web][pl])
  <2>1. Started(Web, pl, level[t])
    BY <1>6 DEF Dispatch
  <2>2. /\ copy' \in [Processes -> [Plans -> Copies]]
        /\ runs' \in [Plans -> Nat]
        /\ doors' \in [Plans -> SUBSET [by : Levels, demanded : Levels]]
        /\ \A q \in Plans : maker'[q] = Nobody =>
               runs'[q] = 0 /\ \A r \in Processes : copy'[r][q] = "absent"
        /\ \A r \in Processes, q \in Plans :
               copy'[r][q] # "absent" => r = maker'[q] \/ r = Web
        /\ Placed' /\ Budget' /\ SteadyBudget' /\ StrictEnough'
    <3> HIDE DEF pl
    <3> QED
      BY <1>1, <1>3, <1>4, <1>6, <2>1, StartedKeeps, PlanAssumption
  <2>3. GatedTypeOK'
    BY <1>1, <1>2, <2>2 DEF GatedInv, GatedTypeOK, made, count
  <2>4. Made'
    BY <1>1, <1>2, <2>2 DEF GatedInv, Made, made
  <2> QED
    BY <1>5, <2>2, <2>3, <2>4 DEF GatedInv
<1>7. CASE ~ (copy[Web][pl] = "absent" \/ Runnable(copy[Web][pl]))
  <2>1. Quiet
    BY <1>1, <1>7 DEF Dispatch, Quiet
  <2>2. GatedTypeOK'
    BY <1>1, <1>2, <2>1 DEF GatedInv, GatedTypeOK, Quiet, made, count, past
  <2>3. Made'
    BY <1>1, <1>2, <2>1 DEF GatedInv, Made, Quiet, made, past
  <2> QED
    BY <1>5, <2>1, <2>2, <2>3, QuietKeeps DEF GatedInv
<1> QED
  BY <1>6, <1>7

LEMMA FinishRunInv ==
    ASSUME GatedInv, NEW p \in Processes, NEW pl \in Plans, FinishRun(p, pl)
    PROVE  GatedInv'
<1>1. /\ UNCHANGED <<riskPolicy, made, asking, gate, count, past>>
      /\ copy[p][pl] = "executing"
  BY DEF FinishRun
<1>2. PICK s \in {"completed", "failed"} : copy' = [copy EXCEPT ![p][pl] = s]
  BY DEF FinishRun
<1>3. \A r \in Processes, q \in Plans :
          copy'[r][q] = IF r = p /\ q = pl THEN s ELSE copy[r][q]
  BY <1>2 DEF GatedInv, GatedTypeOK
<1>4. /\ Raised' /\ AtLevel'
      /\ \A q \in Plans : Required(q)' = Required(q)
  BY <1>1, LevelsKept DEF gate, count
<1>5. GatedTypeOK'
  BY <1>1, <1>2
  DEF GatedInv, GatedTypeOK, Gate!TypeOK, Copies, made, gate, count, past
<1>6. Made'
  BY <1>1, <1>3 DEF GatedInv, Made, made, gate, past
<1>7. Placed'
  BY <1>1, <1>3, <1>4 DEF GatedInv, Placed, Ran, made, count
<1>8. \A q \in Plans : /\ Startable(q)' = Startable(q)
                       /\ Rebuildable(q)' = Rebuildable(q)
  BY <1>1, <1>3, PlanAssumption DEF Startable, Rebuildable, Runnable
<1>9. Budget'
  BY <1>1, <1>8 DEF GatedInv, Budget, count, past
<1>10. SteadyBudget'
  BY <1>1, <1>3, <1>4, <1>8
  DEF GatedInv, SteadyBudget, Runnable, made, count, past
<1>11. StrictEnough'
  BY <1>1 DEF GatedInv, StrictEnough, count, past
<1> QED
  BY <1>4, <1>5, <1>6, <1>7, <1>9, <1>10, <1>11 DEF GatedInv

(* Only the death of the web process lets it run a plan again.             *)
LEMMA ProcessCrashInv ==
    ASSUME GatedInv, NEW p \in Processes, Crash(p)
    PROVE  GatedInv'
<1>1. /\ crashes' = crashes + 1 /\ crashes \in Nat
      /\ copy' = [copy EXCEPT ![p] = [pl \in Plans |-> "absent"]]
      /\ asking' = [asking EXCEPT ![p] = Nobody]
      /\ held' = IF p = Web THEN {} ELSE held
      /\ UNCHANGED <<riskPolicy, made, phase, subject, level, lapsed, changes, past>>
  BY DEF Crash, GatedInv, GatedTypeOK
<1>2. \A r \in Processes, q \in Plans :
          copy'[r][q] = IF r = p THEN "absent" ELSE copy[r][q]
  BY <1>1 DEF GatedInv, GatedTypeOK
<1>3. /\ Raised' /\ AtLevel'
      /\ \A q \in Plans : Required(q)' = Required(q)
  <2>1. \A r \in Processes : asking'[r] # Nobody => asking'[r] = asking[r]
    BY <1>1 DEF GatedInv, GatedTypeOK
  <2> QED
    BY <1>1, <2>1, LevelsKept
<1>4. GatedTypeOK'
  BY <1>1 DEF GatedInv, GatedTypeOK, Gate!TypeOK, Copies, made, past
<1>5. Made'
  BY <1>1, <1>2 DEF GatedInv, GatedTypeOK, Made, made, past
<1>6. Placed'
  BY <1>1, <1>2, <1>3 DEF GatedInv, Placed, Ran, made
<1>7. \A q \in Plans : /\ runs[q] \in Nat /\ runs'[q] = runs[q]
                       /\ Startable(q)' => Startable(q)
                       /\ p # Web => Rebuildable(q)' = Rebuildable(q)
  BY <1>1, <1>2, PlanAssumption
  DEF Startable, Rebuildable, Runnable, past, GatedInv, GatedTypeOK
<1>8. Budget'
  BY <1>1, <1>7 DEF GatedInv, Budget
<1>9. SteadyBudget'
  <2>1. \A r \in Processes, q \in Plans :
            Runnable(copy[r][q])' => Runnable(copy[r][q])
    BY <1>2 DEF Runnable
  <2> QED
    BY <1>1, <1>3, <1>7, <2>1 DEF GatedInv, SteadyBudget, made
<1>10. StrictEnough'
  BY <1>1 DEF GatedInv, StrictEnough, past
<1> QED
  BY <1>3, <1>4, <1>5, <1>6, <1>8, <1>9, <1>10 DEF GatedInv

-----------------------------------------------------------------------------
(* Making a plan.                                                          *)

LEMMA CreatePlanInv ==
    ASSUME GatedInv, NEW p \in Processes, NEW pl \in Plans, NEW S \in Ratings,
           CreatePlan(p, pl, S)
    PROVE  GatedInv'
<1>1. /\ maker[pl] = Nobody
      /\ maker' = [maker EXCEPT ![pl] = p]
      /\ steps' = [steps EXCEPT ![pl] = S]
      /\ risks' = [risks EXCEPT ![pl] = {Recorded(s) : s \in S}]
      /\ copy' = [copy EXCEPT ![p][pl] = "pending_approval"]
      /\ UNCHANGED <<riskPolicy, asking, gate, count, past>>
  BY DEF CreatePlan
<1>2. S \in SUBSET Rating /\ riskPolicy \in [Risks -> Levels] /\ p # Nobody
  BY PlanAssumption DEF GatedInv, GatedTypeOK
<1>3. \A q \in Plans : maker'[q] = IF q = pl THEN p ELSE maker[q]
  BY <1>1 DEF GatedInv, GatedTypeOK
<1>4. \A r \in Processes, q \in Plans :
          copy'[r][q] = IF r = p /\ q = pl THEN "pending_approval" ELSE copy[r][q]
  BY <1>1 DEF GatedInv, GatedTypeOK
<1>5. {Recorded(s) : s \in S} \in SUBSET Risks
  BY <1>2, RecordedRaises
<1>6. GatedTypeOK'
  BY <1>1, <1>2, <1>5
  DEF GatedInv, GatedTypeOK, Gate!TypeOK, Copies, gate, count, past
<1>7. /\ risks'[pl] = {Recorded(s) : s \in S} /\ steps'[pl] = S
      /\ \A q \in Plans \ {pl} : risks'[q] = risks[q] /\ steps'[q] = steps[q]
  BY <1>1 DEF GatedInv, GatedTypeOK
<1>8. \A q \in Plans \ {pl} : Required(q)' = Required(q) /\ Demanded(q)' = Demanded(q)
  BY <1>1, <1>7, SameLevel
<1>9. Required(pl)' >= Demanded(pl)'
  <2>1. /\ Required(pl)' = Strictest({Recorded(s) : s \in S})
        /\ Demanded(pl)' = Strictest({s.catalog : s \in S})
    BY <1>1, <1>7 DEF Required, Demanded, Strictest
  <2> QED
    BY <1>2, <2>1, RecordedLevel
<1>10. Made'
  BY <1>1, <1>2, <1>3, <1>4 DEF GatedInv, Made, gate, past, GatedTypeOK
<1>11. Raised'
  BY <1>1, <1>3, <1>8, <1>9 DEF GatedInv, Raised, count
<1>12. AtLevel'
  <2>1. \A r \in Processes :
            asking[r] # Nobody => asking[r] \in Plans \ {pl}
    BY <1>1 DEF GatedInv, Made, GatedTypeOK
  <2>2. \A u \in Tokens : phase[u] # "unissued" => subject[u] \in Plans \ {pl}
    BY <1>1 DEF GatedInv, Made
  <2> QED
    BY <1>1, <1>8, <2>1, <2>2 DEF GatedInv, AtLevel, gate, count
<1>13. \A r \in Processes : copy[r][pl] = "absent"
  BY <1>1 DEF GatedInv, Made
<1>14. Placed'
  BY <1>1, <1>3, <1>4, <1>8, <1>13 DEF GatedInv, Placed, Ran, count
<1>15. runs'[pl] = 0 /\ runs' = runs /\ crashes' = crashes /\ crashes \in Nat
       /\ changes' = changes
  BY <1>1 DEF GatedInv, Made, GatedTypeOK, count, past
<1>16. \A q \in Plans \ {pl} : /\ Startable(q)' = Startable(q)
                               /\ Rebuildable(q)' = Rebuildable(q)
                               /\ \A r \in Processes : copy'[r][q] = copy[r][q]
  BY <1>4, PlanAssumption DEF Startable, Rebuildable, Runnable
<1>17. Budget'
  <2>1. Startable(pl) = FALSE /\ Rebuildable(pl)
    BY <1>13, PlanAssumption DEF Startable, Rebuildable, Runnable
  <2> QED
    BY <1>15, <1>16, <2>1 DEF GatedInv, Budget
<1>18. SteadyBudget'
  BY <1>3, <1>8, <1>15, <1>16 DEF GatedInv, SteadyBudget, Runnable
<1>19. StrictEnough'
  BY <1>1 DEF GatedInv, StrictEnough, count, past
<1> QED
  BY <1>6, <1>10, <1>11, <1>12, <1>14, <1>17, <1>18, <1>19 DEF GatedInv

-----------------------------------------------------------------------------

LEMMA GatedInitInv == GatedInit => GatedInv
<1> SUFFICES ASSUME GatedInit PROVE GatedInv
  OBVIOUS
<1> USE DEF GatedInit
<1>1. Made
  BY DEF Made, Gate!Init
<1>2. Raised /\ AtLevel /\ Placed
  BY DEF Raised, AtLevel, Placed, Ran, Gate!Init
<1>3. Budget /\ SteadyBudget
  BY PlanAssumption DEF Budget, SteadyBudget, Startable, Rebuildable, Runnable
<1>4. StrictEnough
  BY DEF StrictEnough
<1> QED
  BY <1>1, <1>2, <1>3, <1>4, GatedInitType DEF GatedInv

LEMMA GatedStepInv == GatedInv /\ [GatedNext]_gatedVars => GatedInv'
<1> SUFFICES ASSUME GatedInv, [GatedNext]_gatedVars PROVE GatedInv'
  OBVIOUS
<1>1. CASE UNCHANGED gatedVars
  <2>1. Quiet /\ UNCHANGED <<asking, gate>>
    BY <1>1 DEF gatedVars, Quiet
  <2>2. GatedTypeOK' /\ Made'
    BY <2>1 DEF GatedInv, GatedTypeOK, Gate!TypeOK, Made, Quiet, made, gate,
                count, past
  <2>3. AtLevel'
    BY <2>1, LevelsKept DEF Quiet, gate, count
  <2> QED
    BY <2>1, <2>2, <2>3, QuietKeeps DEF GatedInv
<1> QED
  BY <1>1, CreatePlanInv, RunInlineInv, AskLookupInv, FinishRunInv,
     AskCreateInv, ResolveInv, DispatchInv, SetPolicyInv, ProcessCrashInv
  DEF GatedNext

(* The inductive invariant: who has a copy of a plan, at which level its   *)
(* sessions stand, and how many runs are left to it.                       *)
THEOREM GatedInvariant == GatedSpec => []GatedInv
  BY GatedInitInv, GatedStepInv, PTL DEF GatedSpec

(* Type correctness of the plans behind the gate.                          *)
THEOREM GatedTypeCorrect == GatedSpec => []GatedTypeOK
<1>1. GatedInv => GatedTypeOK
  BY DEF GatedInv
<1> QED
  BY <1>1, GatedInvariant, PTL

(* Each run of a plan beyond the first is paid for with a death or with a  *)
(* change of the policy.                                                   *)
THEOREM RunsArePaidFor == GatedSpec => []RunsOnce
<1>1. GatedInv => RunsOnce
  <2> SUFFICES ASSUME GatedInv, NEW pl \in Plans
               PROVE  runs[pl] <= 1 + crashes + changes
    BY DEF RunsOnce
  <2>1. runs[pl] \in Nat /\ crashes \in Nat /\ changes \in Nat
    BY DEF GatedInv, GatedTypeOK
  <2>2. CASE changes # 0
    BY <2>1, <2>2 DEF GatedInv, Budget
  <2>3. CASE changes = 0 /\ maker[pl] = Nobody
    BY <2>1, <2>3 DEF GatedInv, Made
  <2>4. CASE changes = 0 /\ maker[pl] # Nobody
    BY <2>1, <2>4 DEF GatedInv, SteadyBudget
  <2> QED
    BY <2>2, <2>3, <2>4
<1> QED
  BY <1>1, GatedInvariant, PTL

(* While the policy stays, no plan is being executed in two engines.       *)
THEOREM OneEngine == GatedSpec => []NoOverlap
<1>1. GatedInv => NoOverlap
  BY DEF GatedInv, Placed, Ran, NoOverlap
<1> QED
  BY <1>1, GatedInvariant, PTL

(* While the policy stays, a plan is let in at the level of its catalog    *)
(* risks or at a stricter one.                                             *)
THEOREM DeclaredOnlyRaises == GatedSpec => []StrictEnough
<1>1. GatedInv => StrictEnough
  BY DEF GatedInv
<1> QED
  BY <1>1, GatedInvariant, PTL
=============================================================================
