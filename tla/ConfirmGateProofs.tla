------------------------- MODULE ConfirmGateProofs -------------------------
(***************************************************************************)
(* The gate, for any number of tokens, processes, handlers and crashes and *)
(* any passage of time: it is type correct, the work of a token starts at  *)
(* most once, and every behaviour is one OneShotApproval allows.           *)
(***************************************************************************)
EXTENDS ConfirmGate, TLAPS

LEMMA InitType == Init => TypeOK
<1> SUFFICES ASSUME Init PROVE TypeOK
  OBVIOUS
<1>1. (CHOOSE p \in Profiles : TRUE) \in [level : Levels, kind : Kinds, secret : BOOLEAN]
  BY ProfileAssumption
<1>2. (CHOOSE t \in Tokens : TRUE) \in Tokens
  BY ProfileAssumption
<1> QED
  BY <1>1, <1>2, TimeAssumption
  DEF Init, TypeOK, Statuses, Steps, NoFailures

(* The ways a handler moves keep pc, loop and stall well typed.            *)
LEMMA HandlerMoves ==
    ASSUME TypeOK, NEW h \in Handlers, NEW step \in Steps,
           Proceed(h, step) \/ HasLooked(h, step) \/ Await(h, step)
    PROVE  /\ pc' \in [Handlers -> Steps]
           /\ loop' \in [Processes -> Handlers \cup {Free}]
           /\ stall' \in [Handlers -> Nat]
<1>1. Home[h] \in Processes
  BY ProcessAssumption
<1>2. PICK who \in Handlers \cup {Free}, s \in {0, stall[h]} :
        /\ pc' = [pc EXCEPT ![h] = step]
        /\ loop' = [loop EXCEPT ![Home[h]] = who]
        /\ stall' = [stall EXCEPT ![h] = s]
  BY DEF Proceed, HasLooked, Continue, Await
<1> QED
  BY <1>1, <1>2 DEF TypeOK

LEMMA StepType == TypeOK /\ [Next]_vars => TypeOK'
<1> SUFFICES ASSUME TypeOK, [Next]_vars PROVE TypeOK'
  OBVIOUS
<1> USE DEF TypeOK, row, handler, history
<1>1. ASSUME NEW h \in Handlers, NEW t \in Tokens, CreateSweep(h, t) PROVE TypeOK'
  BY <1>1, HandlerMoves DEF CreateSweep, Statuses, Steps
<1>2. ASSUME NEW h \in Handlers, CreateInsert(h) PROVE TypeOK'
  BY <1>2, HandlerMoves, ProfileAssumption DEF CreateInsert, Return, Statuses, Steps
<1>3. ASSUME NEW h \in Handlers, NEW t \in Tokens, ApproveLookup(h, t) PROVE TypeOK'
  BY <1>3, HandlerMoves DEF ApproveLookup, Steps
<1>4. ASSUME NEW h \in Handlers, ApproveRefused(h) PROVE TypeOK'
  BY <1>4, HandlerMoves DEF ApproveRefused, Return, Steps
<1>5. ASSUME NEW h \in Handlers, ApproveWrongPassword(h) PROVE TypeOK'
  BY <1>5, HandlerMoves, TimeAssumption
  DEF ApproveWrongPassword, RecordPasswordFailure, Return, Steps
<1>6. ASSUME NEW h \in Handlers, ApproveChecked(h) PROVE TypeOK'
  BY <1>6, HandlerMoves DEF ApproveChecked, NoFailures, Steps
<1>7. ASSUME NEW h \in Handlers, NEW t \in Tokens, ConsumeLookup(h, t) PROVE TypeOK'
  BY <1>7, HandlerMoves DEF ConsumeLookup, Steps
<1>8. ASSUME NEW h \in Handlers, CompleteRecheck(h) PROVE TypeOK'
  BY <1>8, HandlerMoves DEF CompleteRecheck, Return, Steps
<1>9. ASSUME NEW h \in Handlers, CompleteFlip(h) PROVE TypeOK'
  <2>1. status' \in [Tokens -> Statuses]
    <3>1. status' = status \/ status' = [status EXCEPT ![tok[h]] = "completed"]
      BY <1>9 DEF CompleteFlip
    <3> QED
      BY <3>1 DEF Statuses
  <2>2. HasLooked(h, "dispatch") \/ Await(h, "idle")
    BY <1>9 DEF CompleteFlip, Return
  <2>3. /\ pc' \in [Handlers -> Steps] /\ loop' \in [Processes -> Handlers \cup {Free}]
        /\ stall' \in [Handlers -> Nat]
    BY <2>2, HandlerMoves DEF Steps
  <2> QED
    BY <1>9, <2>1, <2>3 DEF CompleteFlip
<1>10. ASSUME NEW h \in Handlers, DispatchStart(h) PROVE TypeOK'
  BY <1>10, HandlerMoves DEF DispatchStart, Steps
<1>11. ASSUME NEW h \in Handlers, DispatchRefused(h) PROVE TypeOK'
  BY <1>11, HandlerMoves DEF DispatchRefused, Return, Steps
<1>12. ASSUME NEW h \in Handlers, WorkEnds(h) PROVE TypeOK'
  BY <1>12, HandlerMoves DEF WorkEnds, Return, Steps
<1>13. ASSUME NEW h \in Handlers, StripPayload(h) PROVE TypeOK'
  BY <1>13, HandlerMoves DEF StripPayload, Return, Steps
<1>14. ASSUME NEW h \in Handlers, NEW t \in Tokens, DenyLookup(h, t) PROVE TypeOK'
  BY <1>14, HandlerMoves DEF DenyLookup, Steps
<1>15. ASSUME NEW h \in Handlers, DenyRecheck(h) PROVE TypeOK'
  BY <1>15, HandlerMoves DEF DenyRecheck, Return, Steps
<1>16. ASSUME NEW h \in Handlers, DenyFlip(h) PROVE TypeOK'
  BY <1>16, HandlerMoves DEF DenyFlip, Return, Statuses, Steps
<1>17. ASSUME NEW p \in Processes, Crash(p) PROVE TypeOK'
  BY <1>17 DEF Crash, NoFailures, Steps
<1>18. CASE Tick
  BY <1>18 DEF Tick
<1>19. CASE UNCHANGED vars
  BY <1>19 DEF vars
<1> QED
  BY <1>1, <1>2, <1>3, <1>4, <1>5, <1>6, <1>7, <1>8, <1>9, <1>10, <1>11, <1>12,
     <1>13, <1>14, <1>15, <1>16, <1>17, <1>18, <1>19
  DEF Next, Create, Approve, Consume, Complete, Execute, Deny

(* Type correctness of the gate.                                           *)
THEOREM TypeCorrect == Spec => []TypeOK
  BY InitType, StepType, PTL DEF Spec

-----------------------------------------------------------------------------
(* Ownership is inductive.                                                 *)

LEMMA InitOwnership == Init => Ownership
  BY DEF Init, Ownership, DispatchOwns, InsertOwns, StartsHaveReceipt

\* The handlers that are to start work, or to insert a row, and their tokens.
NobodyNew ==
    \A g \in Handlers :
        pc'[g] \in {"dispatch", "insert"} => pc'[g] = pc[g] /\ tok'[g] = tok[g]

LEMMA Untouched ==
    ASSUME Ownership, NobodyNew, status' = status, starts' = starts
    PROVE  Ownership'
  BY DEF NobodyNew, Ownership, DispatchOwns, InsertOwns, StartsHaveReceipt

\* A handler that moves on, with the token it had, to a step of no interest.
LEMMA MovesElsewhere ==
    ASSUME TypeOK, NEW h \in Handlers, NEW step \in Steps \ {"dispatch", "insert"},
           Proceed(h, step) \/ HasLooked(h, step) \/ Await(h, step),
           \A g \in Handlers \ {h} : tok'[g] = tok[g]
    PROVE  NobodyNew
  BY DEF TypeOK, Proceed, HasLooked, Continue, Await, NobodyNew

LEMMA SweepKeepsOwnership ==
    ASSUME TypeOK, Ownership, NEW h \in Handlers, NEW t \in Tokens, CreateSweep(h, t)
    PROVE  Ownership'
<1> USE DEF TypeOK, Ownership, DispatchOwns, InsertOwns, StartsHaveReceipt
<1>1. \A u \in Tokens : status[u] \in {"completed", "unissued"} => status'[u] = status[u]
  BY DEF CreateSweep, Reapable
<1>2. /\ pc' = [pc EXCEPT ![h] = "insert"]
      /\ tok' = [tok EXCEPT ![h] = t]
      /\ starts' = starts
      /\ status[t] = "unissued"
      /\ \A g \in Handlers : pc[g] = "insert" => tok[g] # t
  BY DEF CreateSweep, Proceed, HasLooked, Continue, history
<1>3. DispatchOwns'
  BY <1>1, <1>2
<1>4. InsertOwns'
  BY <1>1, <1>2
<1>5. StartsHaveReceipt'
  BY <1>1, <1>2
<1> QED
  BY <1>3, <1>4, <1>5

LEMMA InsertKeepsOwnership ==
    ASSUME TypeOK, Ownership, NEW h \in Handlers, CreateInsert(h)
    PROVE  Ownership'
<1> USE DEF TypeOK, Ownership, DispatchOwns, InsertOwns, StartsHaveReceipt
<1>1. /\ pc' = [pc EXCEPT ![h] = "idle"]
      /\ status' = [status EXCEPT ![tok[h]] = "pending"]
      /\ tok' = tok /\ starts' = starts
      /\ pc[h] = "insert"
  BY DEF CreateInsert, Return, Await, At, history
<1>2. status[tok[h]] = "unissued"
  BY <1>1
<1> QED
  BY <1>1, <1>2

LEMMA FlipKeepsOwnership ==
    ASSUME TypeOK, Ownership, NEW h \in Handlers, CompleteFlip(h)
    PROVE  Ownership'
<1> USE DEF TypeOK, Ownership, DispatchOwns, InsertOwns, StartsHaveReceipt
<1>1. CASE status[tok[h]] = "pending"
  <2>1. /\ pc' = [pc EXCEPT ![h] = "dispatch"]
        /\ status' = [status EXCEPT ![tok[h]] = "completed"]
        /\ tok' = tok /\ starts' = starts
    BY <1>1 DEF CompleteFlip, Proceed, HasLooked, Continue, history
  <2>2. starts[tok[h]] = 0
    BY <1>1
  <2>3. \A g \in Handlers : pc[g] = "dispatch" => tok[g] # tok[h]
    BY <1>1
  <2> QED
    BY <1>1, <2>1, <2>2, <2>3
<1>2. CASE status[tok[h]] # "pending"
  BY <1>2, MovesElsewhere, Untouched DEF CompleteFlip, Return, Steps, history
<1> QED
  BY <1>1, <1>2

LEMMA StartKeepsOwnership ==
    ASSUME TypeOK, Ownership, NEW h \in Handlers, DispatchStart(h)
    PROVE  Ownership'
<1> USE DEF TypeOK, Ownership, DispatchOwns, InsertOwns, StartsHaveReceipt
<1>1. /\ pc' = [pc EXCEPT ![h] = "running"]
      /\ starts' = [starts EXCEPT ![tok[h]] = @ + 1]
      /\ tok' = tok /\ status' = status
      /\ pc[h] = "dispatch"
  BY DEF DispatchStart, Await, At, row
<1>2. starts[tok[h]] = 0 /\ status[tok[h]] = "completed"
  BY <1>1
<1>3. \A g \in Handlers : pc'[g] = "dispatch" => pc[g] = "dispatch" /\ tok[g] # tok[h]
  BY <1>1
<1> QED
  BY <1>1, <1>2, <1>3

LEMMA DenyKeepsOwnership ==
    ASSUME TypeOK, Ownership, NEW h \in Handlers, DenyFlip(h)
    PROVE  Ownership'
<1> USE DEF TypeOK, Ownership, DispatchOwns, InsertOwns, StartsHaveReceipt
<1>1. /\ pc' = [pc EXCEPT ![h] = "idle"]
      /\ tok' = tok /\ starts' = starts
  BY DEF DenyFlip, Return, Await, history
<1>2. /\ tok[h] \in Tokens
      /\ status' = [status EXCEPT ![tok[h]] =
                       IF status[tok[h]] = "pending" THEN "denied" ELSE status[tok[h]]]
  BY DEF DenyFlip
<1>3. NobodyNew
  BY <1>1 DEF NobodyNew
<1>4. \A t \in Tokens :
        status[t] \in {"completed", "unissued"} => status'[t] = status[t]
  BY <1>2
<1> QED
  BY <1>1, <1>3, <1>4 DEF NobodyNew

LEMMA StepOwnership == TypeOK /\ Ownership /\ [Next]_vars => Ownership'
<1> SUFFICES ASSUME TypeOK, Ownership, [Next]_vars PROVE Ownership'
  OBVIOUS
<1> USE DEF row, history
<1>1. ASSUME NEW h \in Handlers, Create(h) PROVE Ownership'
  BY <1>1, SweepKeepsOwnership, InsertKeepsOwnership DEF Create
<1>2. ASSUME NEW h \in Handlers, Approve(h) PROVE Ownership'
  <2>1. CASE \E t \in Tokens : ApproveLookup(h, t)
    BY <2>1, MovesElsewhere, Untouched DEF ApproveLookup, TypeOK, Steps
  <2>2. CASE ApproveRefused(h)
    BY <2>2, MovesElsewhere, Untouched DEF ApproveRefused, Return, Steps
  <2>3. CASE ApproveWrongPassword(h)
    BY <2>3, MovesElsewhere, Untouched DEF ApproveWrongPassword, Return, Steps
  <2>4. CASE ApproveChecked(h)
    BY <2>4, MovesElsewhere, Untouched DEF ApproveChecked, Steps
  <2> QED
    BY <1>2, <2>1, <2>2, <2>3, <2>4 DEF Approve
<1>3. ASSUME NEW h \in Handlers, Consume(h) PROVE Ownership'
  BY <1>3, MovesElsewhere, Untouched DEF Consume, ConsumeLookup, TypeOK, Steps
<1>4. ASSUME NEW h \in Handlers, Complete(h) PROVE Ownership'
  <2>1. CASE CompleteRecheck(h)
    BY <2>1, MovesElsewhere, Untouched DEF CompleteRecheck, Return, Steps
  <2> QED
    BY <1>4, <2>1, FlipKeepsOwnership DEF Complete
<1>5. ASSUME NEW h \in Handlers, Execute(h) PROVE Ownership'
  <2>1. CASE DispatchRefused(h)
    BY <2>1, MovesElsewhere, Untouched DEF DispatchRefused, Return, Steps
  <2>2. CASE WorkEnds(h)
    BY <2>2, MovesElsewhere, Untouched DEF WorkEnds, Return, Steps
  <2>3. CASE StripPayload(h)
    BY <2>3, MovesElsewhere, Untouched DEF StripPayload, Return, Steps
  <2> QED
    BY <1>5, <2>1, <2>2, <2>3, StartKeepsOwnership DEF Execute
<1>6. ASSUME NEW h \in Handlers, Deny(h) PROVE Ownership'
  <2>1. CASE \E t \in Tokens : DenyLookup(h, t)
    BY <2>1, MovesElsewhere, Untouched DEF DenyLookup, TypeOK, Steps
  <2>2. CASE DenyRecheck(h)
    BY <2>2, MovesElsewhere, Untouched DEF DenyRecheck, Return, Steps
  <2> QED
    BY <1>6, <2>1, <2>2, DenyKeepsOwnership DEF Deny
<1>7. ASSUME NEW p \in Processes, Crash(p) PROVE Ownership'
  <2>1. NobodyNew
    BY <1>7 DEF Crash, NobodyNew, TypeOK
  <2> QED
    BY <1>7, <2>1, Untouched DEF Crash
<1>8. CASE Tick
  BY <1>8, Untouched DEF Tick, handler, NobodyNew
<1>9. CASE UNCHANGED vars
  BY <1>9, Untouched DEF vars, handler, NobodyNew
<1> QED
  BY <1>1, <1>2, <1>3, <1>4, <1>5, <1>6, <1>7, <1>8, <1>9 DEF Next

(* Ownership holds throughout.                                             *)
THEOREM Owned == Spec => []Ownership
  BY InitType, StepType, InitOwnership, StepOwnership, PTL DEF Spec

(* The work behind a token is started at most once, however the approvals  *)
(* of several processes interleave and whichever of them die.              *)
THEOREM SingleUse == Spec => []AtMostOnce
<1>1. Ownership => AtMostOnce
  BY DEF Ownership, StartsHaveReceipt, AtMostOnce
<1> QED
  BY <1>1, Owned, PTL

-----------------------------------------------------------------------------
(* Refinement: each step of the gate is a step of OneShotApproval or       *)
(* leaves Phase alone.                                                     *)

LEMMA SamePhase ==
    ASSUME status' = status, starts' = starts
    PROVE  Phase' = Phase
  BY DEF Phase

LEMMA OnePhase ==
    ASSUME NEW t \in Tokens,
           \A u \in Tokens \ {t} : status'[u] = status[u] /\ starts'[u] = starts[u]
    PROVE  Phase' = [Phase EXCEPT ![t] = Phase'[t]]
  BY DEF Phase

LEMMA InitRefines == Init => Promise!Init
  BY DEF Init, Promise!Init, Phase

LEMMA SweepRefines ==
    ASSUME TypeOK, NEW h \in Handlers, NEW t \in Tokens, CreateSweep(h, t)
    PROVE  Promise!Next
<1> DEFINE S == {u \in Tokens : Reapable(u)}
<1>1. status' = [u \in Tokens |-> IF Reapable(u) THEN "deleted" ELSE status[u]]
  BY DEF CreateSweep
<1>2. starts' = starts
  BY DEF CreateSweep, history
<1>3. \A u \in S : Phase[u] \in {"pending", "denied"}
  BY DEF Reapable, Phase
<1>4. Phase' = [u \in Tokens |-> IF u \in S THEN "forgotten" ELSE Phase[u]]
  BY <1>1, <1>2 DEF Phase
<1>5. Promise!Forget(S)
  BY <1>3, <1>4 DEF Promise!Forget
<1>6. S \in SUBSET Tokens
  OBVIOUS
<1> QED
  BY <1>5, <1>6 DEF Promise!Next

LEMMA InsertRefines ==
    ASSUME TypeOK, Ownership, NEW h \in Handlers, CreateInsert(h)
    PROVE  Promise!Next
<1> DEFINE t == tok[h]
<1>1. t \in Tokens /\ status[t] = "unissued"
  BY DEF CreateInsert, At, Ownership, InsertOwns, TypeOK
<1>2. status' = [status EXCEPT ![t] = "pending"] /\ starts' = starts
  BY DEF CreateInsert, history
<1>3. Phase[t] = "unissued" /\ Phase'[t] = "pending"
  BY <1>1, <1>2 DEF Phase, TypeOK
<1>4. Phase' = [Phase EXCEPT ![t] = Phase'[t]]
  BY <1>1, <1>2, OnePhase DEF TypeOK
<1> QED
  BY <1>1, <1>3, <1>4 DEF Promise!Next, Promise!Request, Promise!Move

LEMMA FlipRefines ==
    ASSUME TypeOK, Ownership, NEW h \in Handlers, CompleteFlip(h)
    PROVE  Promise!Next \/ Phase' = Phase
<1> DEFINE t == tok[h]
<1>1. t \in Tokens /\ starts' = starts
  BY DEF CompleteFlip, history, TypeOK
<1>2. CASE status[t] = "pending"
  <2>1. status' = [status EXCEPT ![t] = "completed"]
    BY <1>2 DEF CompleteFlip
  <2>2. starts[t] = 0
    BY <1>1, <1>2 DEF Ownership, StartsHaveReceipt
  <2>3. Phase[t] = "pending" /\ Phase'[t] = "approved"
    BY <1>1, <1>2, <2>1, <2>2 DEF Phase, TypeOK
  <2>4. Phase' = [Phase EXCEPT ![t] = Phase'[t]]
    BY <1>1, <2>1, OnePhase DEF TypeOK
  <2> QED
    BY <1>1, <2>3, <2>4 DEF Promise!Next, Promise!Approve, Promise!Move
<1>3. CASE status[t] # "pending"
  BY <1>1, <1>3, SamePhase DEF CompleteFlip
<1> QED
  BY <1>2, <1>3

LEMMA StartRefines ==
    ASSUME TypeOK, Ownership, NEW h \in Handlers, DispatchStart(h)
    PROVE  Promise!Next
<1> DEFINE t == tok[h]
<1>1. t \in Tokens /\ status[t] = "completed" /\ starts[t] = 0
  BY DEF DispatchStart, At, Ownership, DispatchOwns, TypeOK
<1>2. starts' = [starts EXCEPT ![t] = starts[t] + 1] /\ status' = status
  BY DEF DispatchStart, row
<1>3. Phase[t] = "approved" /\ Phase'[t] = "started"
  BY <1>1, <1>2 DEF Phase, TypeOK
<1>4. Phase' = [Phase EXCEPT ![t] = Phase'[t]]
  BY <1>1, <1>2, OnePhase DEF TypeOK
<1> QED
  BY <1>1, <1>3, <1>4 DEF Promise!Next, Promise!Start, Promise!Move

LEMMA DenyRefines ==
    ASSUME TypeOK, NEW h \in Handlers, DenyFlip(h)
    PROVE  Promise!Next \/ Phase' = Phase
<1> DEFINE t == tok[h]
<1>1. t \in Tokens /\ starts' = starts
  BY DEF DenyFlip, history, TypeOK
<1>2. status' = [status EXCEPT ![t] = IF status[t] = "pending" THEN "denied" ELSE status[t]]
  BY DEF DenyFlip
<1>3. CASE status[t] = "pending"
  <2>1. Phase[t] = "pending" /\ Phase'[t] = "denied"
    BY <1>1, <1>2, <1>3 DEF Phase, TypeOK
  <2>2. Phase' = [Phase EXCEPT ![t] = Phase'[t]]
    BY <1>1, <1>2, OnePhase DEF TypeOK
  <2> QED
    BY <1>1, <2>1, <2>2 DEF Promise!Next, Promise!Deny, Promise!Move
<1>4. CASE status[t] # "pending"
  <2>1. status' = status
    BY <1>1, <1>2, <1>4 DEF TypeOK
  <2> QED
    BY <1>1, <2>1, SamePhase
<1> QED
  BY <1>3, <1>4

LEMMA StepRefines ==
    TypeOK /\ Ownership /\ [Next]_vars => [Promise!Next]_Phase
<1> SUFFICES ASSUME TypeOK, Ownership, [Next]_vars
             PROVE  Promise!Next \/ Phase' = Phase
  OBVIOUS
<1> USE DEF row, history
<1>1. ASSUME NEW h \in Handlers, Create(h) PROVE Promise!Next \/ Phase' = Phase
  BY <1>1, SweepRefines, InsertRefines DEF Create
<1>2. ASSUME NEW h \in Handlers, Approve(h) PROVE Promise!Next \/ Phase' = Phase
  BY <1>2, SamePhase
  DEF Approve, ApproveLookup, ApproveRefused, ApproveWrongPassword, ApproveChecked
<1>3. ASSUME NEW h \in Handlers, Consume(h) PROVE Promise!Next \/ Phase' = Phase
  BY <1>3, SamePhase DEF Consume, ConsumeLookup
<1>4. ASSUME NEW h \in Handlers, Complete(h) PROVE Promise!Next \/ Phase' = Phase
  BY <1>4, SamePhase, FlipRefines DEF Complete, CompleteRecheck
<1>5. ASSUME NEW h \in Handlers, Execute(h) PROVE Promise!Next \/ Phase' = Phase
  BY <1>5, SamePhase, StartRefines DEF Execute, DispatchRefused, WorkEnds, StripPayload
<1>6. ASSUME NEW h \in Handlers, Deny(h) PROVE Promise!Next \/ Phase' = Phase
  BY <1>6, SamePhase, DenyRefines DEF Deny, DenyLookup, DenyRecheck
<1>7. ASSUME NEW p \in Processes, Crash(p) PROVE Promise!Next \/ Phase' = Phase
  BY <1>7, SamePhase DEF Crash
<1>8. CASE Tick
  BY <1>8, SamePhase DEF Tick
<1>9. CASE UNCHANGED vars
  BY <1>9, SamePhase DEF vars
<1> QED
  BY <1>1, <1>2, <1>3, <1>4, <1>5, <1>6, <1>7, <1>8, <1>9 DEF Next

(* The gate implements OneShotApproval.                                    *)
THEOREM Implements == Spec => KeepsPromise
<1>1. Init => Promise!Init
  BY InitRefines
<1>2. TypeOK /\ Ownership /\ [Next]_vars => [Promise!Next]_Phase
  BY StepRefines
<1>3. Spec => []TypeOK /\ []Ownership
  BY TypeCorrect, Owned
<1> QED
  BY <1>1, <1>2, <1>3, PTL DEF Spec, KeepsPromise, Promise!Spec

-----------------------------------------------------------------------------
(* What a step of a handler leaves alone.                                  *)

Acts(h) == Create(h) \/ Approve(h) \/ Consume(h) \/ Complete(h) \/ Execute(h) \/ Deny(h)

(* A handler that has the event loop, or takes it, disturbs no other       *)
(* handler that has one.                                                   *)
LEMMA Others ==
    ASSUME TypeOK, NEW h \in Handlers, Acts(h)
    PROVE  /\ now' = now /\ crashes' = crashes
           /\ pc' \in [Handlers -> Steps]
           /\ \A g \in Handlers \ {h} :
                 /\ pc'[g] = pc[g] /\ tok'[g] = tok[g] /\ stall'[g] = stall[g]
                 /\ Holds(g) => Holds(g)'
<1>1. Home \in [Handlers -> Processes] /\ Free \notin Handlers
  BY ProcessAssumption
<1>2. /\ now' = now /\ crashes' = crashes
      /\ tok' = tok \/ \E t \in Tokens : tok' = [tok EXCEPT ![h] = t]
  BY DEF Acts, Create, CreateSweep, CreateInsert, Approve, ApproveLookup, ApproveRefused,
         ApproveWrongPassword, ApproveChecked, Consume, ConsumeLookup, Complete,
         CompleteRecheck, CompleteFlip, Execute, DispatchStart, DispatchRefused, WorkEnds,
         StripPayload, Deny, DenyLookup, DenyRecheck, DenyFlip
<1>3. MayEnter(h) \/ Holds(h)
  BY DEF Acts, Create, CreateSweep, CreateInsert, Approve, ApproveLookup, ApproveRefused,
         ApproveWrongPassword, ApproveChecked, Consume, ConsumeLookup, Complete,
         CompleteRecheck, CompleteFlip, Execute, DispatchStart, DispatchRefused, WorkEnds,
         StripPayload, Deny, DenyLookup, DenyRecheck, DenyFlip, At
<1>4. \E step \in Steps : Proceed(h, step) \/ HasLooked(h, step) \/ Await(h, step)
  BY DEF Acts, Create, CreateSweep, CreateInsert, Approve, ApproveLookup, ApproveRefused,
         ApproveWrongPassword, ApproveChecked, Consume, ConsumeLookup, Complete,
         CompleteRecheck, CompleteFlip, Execute, DispatchStart, DispatchRefused, WorkEnds,
         StripPayload, Deny, DenyLookup, DenyRecheck, DenyFlip, Return, Steps
<1>5. PICK step \in Steps, who \in {h, Free}, s \in {0, stall[h]} :
         /\ pc' = [pc EXCEPT ![h] = step]
         /\ loop' = [loop EXCEPT ![Home[h]] = who]
         /\ stall' = [stall EXCEPT ![h] = s]
  BY <1>4 DEF Proceed, HasLooked, Continue, Await
<1>6. ASSUME NEW g \in Handlers \ {h}, Holds(g) PROVE Holds(g)'
  <2>1. Home[g] # Home[h]
    BY <1>1, <1>3, <1>6 DEF Holds, MayEnter
  <2> QED
    BY <1>1, <1>5, <1>6, <2>1 DEF Holds, TypeOK
<1> QED
  BY <1>2, <1>5, <1>6 DEF TypeOK

(* What becomes of the rows: a token is issued once, and a row that is no  *)
(* longer pending stays so.                                                *)
LEMMA Rows ==
    ASSUME TypeOK, Ownership, NEW h \in Handlers, Acts(h), NEW t \in Tokens
    PROVE  /\ status[t] # "unissued" => created'[t] = created[t] /\ status'[t] # "unissued"
           /\ status[t] \notin {"unissued", "pending"} => status'[t] # "pending"
           /\ status'[t] = status[t] \/ created'[t] = now \/ created'[t] = created[t]
           /\ created'[t] = now \/ created'[t] = created[t]
<1>1. CASE \E u \in Tokens : CreateSweep(h, u)
  <2>1. created' = created /\ status'[t] \in {"deleted", status[t]}
    BY <1>1 DEF CreateSweep
  <2>2. status[t] = "unissued" => status'[t] = "unissued"
    BY <1>1 DEF CreateSweep, Reapable
  <2> QED
    BY <2>1, <2>2
<1>2. CASE CreateInsert(h)
  <2>1. /\ status[tok[h]] = "unissued" /\ tok[h] \in Tokens
        /\ status' = [status EXCEPT ![tok[h]] = "pending"]
        /\ created' = [created EXCEPT ![tok[h]] = now]
    BY <1>2 DEF CreateInsert, At, Ownership, InsertOwns, TypeOK
  <2> QED
    BY <2>1 DEF TypeOK
<1>3. CASE ~Create(h)
  <2>1. created' = created /\ (status' = status
           \/ (status[tok[h]] = "pending" /\ \E s \in {"completed", "denied"} : status' = [status EXCEPT ![tok[h]] = s]))
    <3>1. CASE CompleteFlip(h)
      BY <3>1 DEF CompleteFlip
    <3>2. CASE DenyFlip(h)
      BY <3>2 DEF DenyFlip, TypeOK
    <3>3. CASE ~CompleteFlip(h) /\ ~DenyFlip(h)
      BY <1>3, <3>3 DEF Acts, Approve, ApproveLookup, ApproveRefused,
         ApproveWrongPassword, ApproveChecked, Consume, ConsumeLookup, Complete,
         CompleteRecheck, Execute, DispatchStart, DispatchRefused, WorkEnds,
         StripPayload, Deny, DenyLookup, DenyRecheck, row
    <3> QED
      BY <3>1, <3>2, <3>3
  <2> QED
    BY <2>1 DEF TypeOK
<1> QED
  BY <1>1, <1>2, <1>3 DEF Create

-----------------------------------------------------------------------------
(* Nothing is approved late, but by the stall of its own handler.          *)

\* On its way to the UPDATE a handler keeps the loop: the session it found
\* alive has aged by the time it stalled since, and no more.
Timely ==
    \A h \in Handlers :
        pc[h] \in {"checks", "recheck", "flip"} =>
            /\ Holds(h)
            /\ status[tok[h]] # "unissued"
            /\ now <= created[tok[h]] + TTL + stall[h]

LEMMA InitTimely == Init => Timely
  BY DEF Init, Timely

(* What a handler on that way has just done.                               *)
LEMMA OnTheWay ==
    ASSUME TypeOK, NEW h \in Handlers, Acts(h), pc'[h] \in {"checks", "recheck", "flip"}
    PROVE  /\ Holds(h)' /\ created' = created /\ status' = status /\ now' = now
           /\ tok'[h] \in Tokens
           /\ \/ LivePending(tok'[h]) /\ stall'[h] = 0
              \/ pc[h] = "checks" /\ tok' = tok /\ stall'[h] = stall[h]
<1>1. \/ \E t \in Tokens : ApproveLookup(h, t) \/ ConsumeLookup(h, t)
      \/ ApproveChecked(h)
      \/ CompleteRecheck(h) /\ LivePending(tok[h])
  BY DEF Acts, Create, CreateSweep, CreateInsert, Approve, ApproveRefused,
         ApproveWrongPassword, Consume, Complete,
         CompleteRecheck, CompleteFlip, Execute, DispatchStart, DispatchRefused, WorkEnds,
         StripPayload, Deny, DenyLookup, DenyRecheck, DenyFlip, Return, Proceed, HasLooked, Continue, Await, TypeOK
<1>2. \E step \in Steps : Proceed(h, step) \/ HasLooked(h, step)
  BY <1>1 DEF ApproveLookup, ConsumeLookup, ApproveChecked, CompleteRecheck, Steps
<1>3. Holds(h)'
  BY <1>2, ProcessAssumption DEF Proceed, HasLooked, Continue, Holds, TypeOK
<1>4. /\ created' = created /\ status' = status /\ now' = now
  BY <1>1 DEF ApproveLookup, ConsumeLookup, ApproveChecked, CompleteRecheck, row
<1>5. /\ tok'[h] \in Tokens
      /\ \/ LivePending(tok'[h]) /\ stall'[h] = 0
         \/ pc[h] = "checks" /\ tok' = tok /\ stall'[h] = stall[h]
  BY <1>1 DEF ApproveLookup, ConsumeLookup, ApproveChecked, CompleteRecheck, At, TypeOK,
              Proceed, HasLooked, Continue
<1> QED
  BY <1>3, <1>4, <1>5

LEMMA StepTimely ==
    ASSUME TypeOK, Ownership, Timely, [Next]_vars
    PROVE  Timely'
<1>0. TTL \in Nat /\ now \in Nat
  BY TimeAssumption DEF TypeOK
<1>1. ASSUME NEW h \in Handlers, Acts(h) PROVE Timely'
  <2> SUFFICES ASSUME NEW g \in Handlers, pc'[g] \in {"checks", "recheck", "flip"}
               PROVE  (/\ Holds(g) /\ status[tok[g]] # "unissued"
                       /\ now <= created[tok[g]] + TTL + stall[g])'
    BY DEF Timely
  <2>1. CASE g = h
    <3>1. /\ Holds(h)' /\ created' = created /\ status' = status /\ now' = now
          /\ tok'[h] \in Tokens
          /\ \/ LivePending(tok'[h]) /\ stall'[h] = 0
             \/ pc[h] = "checks" /\ tok' = tok /\ stall'[h] = stall[h]
      BY <1>1, <2>1, OnTheWay
    <3>2. CASE LivePending(tok'[h]) /\ stall'[h] = 0
      <4>1. created[tok'[h]] \in Nat
        BY <3>1 DEF TypeOK
      <4> QED
        BY <1>0, <2>1, <3>1, <3>2, <4>1 DEF LivePending
    <3>3. CASE pc[h] = "checks" /\ tok' = tok /\ stall'[h] = stall[h]
      BY <2>1, <3>1, <3>3 DEF Timely
    <3> QED
      BY <3>1, <3>2, <3>3
  <2>2. CASE g # h
    <3>1. /\ pc'[g] = pc[g] /\ tok'[g] = tok[g] /\ stall'[g] = stall[g]
          /\ Holds(g) => Holds(g)'
          /\ now' = now
      BY <1>1, <2>2, Others
    <3>2. Holds(g) /\ status[tok[g]] # "unissued" /\ now <= created[tok[g]] + TTL + stall[g]
      BY <3>1 DEF Timely
    <3>3. tok[g] \in Tokens
      BY DEF TypeOK
    <3>4. created'[tok[g]] = created[tok[g]] /\ status'[tok[g]] # "unissued"
      BY <1>1, <3>2, <3>3, Rows
    <3> QED
      BY <3>1, <3>2, <3>4
  <2> QED
    BY <2>1, <2>2
<1>2. ASSUME NEW p \in Processes, Crash(p) PROVE Timely'
  BY <1>2, ProcessAssumption DEF Crash, Timely, Holds, TypeOK, row
<1>3. CASE Tick
  <2> SUFFICES ASSUME NEW h \in Handlers, pc[h] \in {"checks", "recheck", "flip"}
               PROVE  /\ Holds(h) /\ status[tok[h]] # "unissued"
                      /\ now + 1 <= created[tok[h]] + TTL + stall'[h]
    BY <1>3 DEF Tick, row, Timely, Holds
  <2>1. Holds(h) /\ status[tok[h]] # "unissued" /\ now <= created[tok[h]] + TTL + stall[h]
    BY DEF Timely
  <2>2. stall'[h] = stall[h] + 1
    BY <1>3, <2>1 DEF Tick, Approving
  <2>3. created[tok[h]] \in Nat /\ stall[h] \in Nat
    BY DEF TypeOK
  <2> QED
    BY <1>0, <2>1, <2>2, <2>3
<1>4. CASE UNCHANGED vars
  BY <1>4 DEF vars, row, handler, Timely, Holds
<1> QED
  BY <1>1, <1>2, <1>3, <1>4 DEF Next, Acts

(* The UPDATE of complete_session tests the status and not the age.        *)
(* However long the processes stall, an approval is late by no more than   *)
(* the time its own handler kept the loop since it last read the row.      *)
THEOREM OnTime == Spec => LateOnlyByStall
<1>1. TypeOK /\ Ownership /\ Timely /\ [Next]_vars => Timely'
  BY StepTimely
<1>2. TypeOK /\ Timely /\ [Next]_vars =>
         [\A t \in Tokens :
             status[t] = "pending" /\ status'[t] = "completed"
                 => \E h \in Handlers :
                       /\ tok[h] = t /\ pc[h] = "flip" /\ pc'[h] = "dispatch"
                       /\ now <= created[t] + TTL + stall[h]]_vars
  <2> SUFFICES ASSUME TypeOK, Timely, Next, NEW t \in Tokens,
                      status[t] = "pending", status'[t] = "completed"
               PROVE  \E h \in Handlers :
                         /\ tok[h] = t /\ pc[h] = "flip" /\ pc'[h] = "dispatch"
                         /\ now <= created[t] + TTL + stall[h]
    OBVIOUS
  <2>1. PICK h \in Handlers : CompleteFlip(h)
    <3>1. PICK h \in Handlers : Acts(h)
      BY DEF Next, Acts, Crash, Tick, row
    <3>2. CompleteFlip(h)
      BY <3>1 DEF Acts, Create, CreateSweep, CreateInsert, Approve, ApproveLookup,
         ApproveRefused, ApproveWrongPassword, ApproveChecked, Consume, ConsumeLookup, Complete,
         CompleteRecheck, Execute, DispatchStart, DispatchRefused, WorkEnds,
         StripPayload, Deny, DenyLookup, DenyRecheck, DenyFlip, TypeOK, row
    <3> QED
      BY <3>2
  <2>2. tok[h] = t /\ pc[h] = "flip"
    BY <2>1 DEF CompleteFlip, At, TypeOK
  <2>3. pc'[h] = "dispatch"
    BY <2>1, <2>2 DEF CompleteFlip, HasLooked, Continue, TypeOK
  <2>4. now <= created[t] + TTL + stall[h]
    BY <2>2 DEF Timely
  <2> QED
    BY <2>2, <2>3, <2>4
<1> QED
  BY InitTimely, TypeCorrect, Owned, <1>1, <1>2, PTL DEF Spec, LateOnlyByStall

-----------------------------------------------------------------------------
(* The budget of wrong passwords.                                          *)

\* A handler on its way to the UPDATE keeps its loop, and has a row.
Engaged ==
    \A h \in Handlers :
        pc[h] \in {"checks", "recheck", "flip"} =>
            Holds(h) /\ status[tok[h]] # "unissued"

\* A password is about to be looked at for t.
Asking(t) == \E h \in Handlers : tok[h] = t /\ pc[h] = "checks"

\* A handler of the web process that has passed the checks for t.
Passed(t) ==
    \E h \in Handlers : Home[h] = Web /\ tok[h] = t /\ pc[h] \in {"recheck", "flip"}

\* No password is looked at any more: the session is over, or about to be
\* completed in the web process, which does nothing else meanwhile.
Closed(t) ==
    /\ status[t] # "unissued" /\ (status[t] # "pending" \/ Passed(t))
    /\ ~ Asking(t)

\* Until then the counter has every failure since the web process started.
Counted(t) == guesses[t] <= MaxAttempts * crashes + failures[t].count

\* And at its limit it stays locked until the session has expired.
Limited(t) ==
    /\ failures[t].count <= MaxAttempts
    /\ failures[t].count = MaxAttempts => created[t] + TTL < failures[t].lockedUntil

WithinBudget(t) == guesses[t] <= MaxAttempts * (crashes + 1)

LiveBudget(t) == WithinBudget(t) /\ (Counted(t) \/ Closed(t)) /\ Limited(t)

\* After its time the session can only lose the guess of the one handler that
\* is still at it.
LateBudget(t) ==
    /\ guesses[t] <= MaxAttempts * (crashes + 1) + 1
    /\ Asking(t) => WithinBudget(t)

Budget(t) ==
    /\ status[t] = "unissued" => guesses[t] = 0 /\ failures[t].count = 0
    /\ ~ Expired(t) => LiveBudget(t)
    /\ Expired(t) => LateBudget(t)

\* Only the web process checks passwords.
ChecksAtHome == \A h \in Handlers : pc[h] = "checks" => Home[h] = Web

Budgeted == ChecksAtHome /\ \A t \in Tokens : Budget(t)

LEMMA TimelyIsEngaged == Timely => Engaged
  BY DEF Timely, Engaged

LEMMA Product ==
    ASSUME TypeOK
    PROVE  /\ MaxAttempts * (crashes + 1) = MaxAttempts * crashes + MaxAttempts
           /\ MaxAttempts * crashes \in Nat /\ MaxAttempts \in Nat /\ MaxAttempts > 0
<1>1. crashes \in Nat /\ MaxAttempts \in Nat \ {0}
  BY TimeAssumption DEF TypeOK
<1> QED
  BY <1>1

(* A session that nobody has tried yet is within its budget.               *)
LEMMA FreshBudget ==
    ASSUME TypeOK, NEW t \in Tokens, guesses[t] = 0, failures[t].count = 0
    PROVE  Budget(t)
<1>1. WithinBudget(t) /\ Counted(t) /\ Limited(t)
  BY Product DEF WithinBudget, Counted, Limited
<1>2. guesses[t] <= MaxAttempts * (crashes + 1) + 1
  BY Product
<1> QED
  BY <1>1, <1>2 DEF Budget, LiveBudget, LateBudget

LEMMA InitBudgeted == Init => Budgeted
<1> SUFFICES ASSUME Init PROVE Budgeted
  OBVIOUS
<1>1. TypeOK
  BY InitType
<1>2. ASSUME NEW t \in Tokens PROVE Budget(t)
  BY <1>1, FreshBudget DEF Init, NoFailures
<1> QED
  BY <1>2 DEF Init, Budgeted, ChecksAtHome

(* The web process takes a session up for a password only while it lives,  *)
(* and while no other handler of it is on the way.                         *)
LEMMA AskedAlive ==
    ASSUME TypeOK, NEW h \in Handlers, Acts(h), NEW t \in Tokens,
           Asking(t)', ~ Asking(t)
    PROVE  ApproveLookup(h, t)
<1>1. PICK g \in Handlers : tok'[g] = t /\ pc'[g] = "checks"
  BY DEF Asking
<1>2. g = h
  BY <1>1, Others DEF Asking
<1>3. \E u \in Tokens : ApproveLookup(h, u)
  BY <1>1, <1>2 DEF Acts, Create, CreateSweep, CreateInsert, Approve, ApproveRefused,
     ApproveWrongPassword, ApproveChecked, Consume, ConsumeLookup, Complete,
     CompleteRecheck, CompleteFlip, Execute, DispatchStart, DispatchRefused, WorkEnds,
     StripPayload, Deny, DenyLookup, DenyRecheck, DenyFlip, Return, Proceed, HasLooked,
     Continue, Await, TypeOK, At
<1> QED
  BY <1>1, <1>2, <1>3 DEF ApproveLookup, TypeOK

(* A session that is closed stays closed while it lives.                   *)
LEMMA StaysClosed ==
    ASSUME TypeOK, Ownership, Engaged, NEW h \in Handlers, Acts(h),
           NEW t \in Tokens, ~ Expired(t), Closed(t)
    PROVE  Closed(t)'
<1>1. status'[t] # "unissued"
  BY Rows DEF Closed
<1>2. ~ Asking(t)'
  <2> SUFFICES ASSUME Asking(t)' PROVE FALSE
    OBVIOUS
  <2>1. ApproveLookup(h, t)
    BY AskedAlive DEF Closed
  <2>2. status[t] = "pending" /\ loop[Web] = Free
    BY <2>1 DEF ApproveLookup, LivePending, MayEnter
  <2>3. PICK k \in Handlers : Home[k] = Web /\ pc[k] \in {"recheck", "flip"}
    BY <2>2 DEF Closed, Passed
  <2>4. loop[Web] = k
    BY <2>3 DEF Engaged, Holds
  <2> QED
    BY <2>2, <2>4, ProcessAssumption
<1>3. status'[t] # "pending" \/ Passed(t)'
  <2>1. CASE status[t] # "pending"
    BY <2>1, Rows DEF Closed
  <2>2. CASE status[t] = "pending"
    <3>1. PICK k \in Handlers : Home[k] = Web /\ tok[k] = t /\ pc[k] \in {"recheck", "flip"}
      BY <2>2 DEF Closed, Passed
    <3>2. CASE k # h
      <4>1. pc'[k] = pc[k] /\ tok'[k] = tok[k]
        BY <3>2, Others
      <4> QED
        BY <3>1, <4>1 DEF Passed
    <3>3. CASE k = h
      <4>1. CASE CompleteRecheck(h)
        <5>1. LivePending(t)
          <6>1. created[t] \in Nat /\ now \in Nat /\ TTL \in Nat
            BY TimeAssumption DEF TypeOK
          <6> QED
            BY <2>2, <6>1 DEF Expired, LivePending
        <5>2. pc' = [pc EXCEPT ![h] = "flip"] /\ tok' = tok
          BY <3>1, <3>3, <4>1, <5>1 DEF CompleteRecheck, HasLooked, Continue
        <5>3. pc'[h] = "flip"
          BY <5>2 DEF TypeOK
        <5> QED
          BY <3>1, <3>3, <5>2, <5>3 DEF Passed
      <4>2. CASE CompleteFlip(h)
        BY <2>2, <3>1, <3>3, <4>2 DEF CompleteFlip, TypeOK
      <4>3. CompleteRecheck(h) \/ CompleteFlip(h)
        BY <3>1, <3>3 DEF Acts, Create, CreateSweep, CreateInsert, Approve, ApproveLookup,
         ApproveRefused, ApproveWrongPassword, ApproveChecked, Consume, ConsumeLookup, Complete,
         Execute, DispatchStart, DispatchRefused, WorkEnds,
         StripPayload, Deny, DenyLookup, DenyRecheck, DenyFlip, At
      <4> QED
        BY <4>1, <4>2, <4>3
    <3> QED
      BY <3>2, <3>3
  <2> QED
    BY <2>1, <2>2
<1> QED
  BY <1>1, <1>2, <1>3 DEF Closed

(* While one handler checks a password, no other handler does.             *)
LEMMA OneAsks ==
    ASSUME Engaged, ChecksAtHome, NEW h \in Handlers, pc[h] = "checks",
           NEW g \in Handlers, pc[g] = "checks"
    PROVE  g = h
  BY DEF Engaged, Holds, ChecksAtHome

(* A step of one handler that leaves t, and its counters, to the others.   *)
LEMMA OtherBudget ==
    ASSUME TypeOK, NEW h \in Handlers, NEW t \in Tokens, t # tok[h], Budget(t),
           UNCHANGED <<status, created, now, crashes, tok>>,
           guesses'[t] = guesses[t], failures'[t] = failures[t],
           \A g \in Handlers : g # h => pc'[g] = pc[g]
    PROVE  Budget(t)'
<1>1. /\ Asking(t)' <=> Asking(t)
      /\ Passed(t)' <=> Passed(t)
  BY DEF Asking, Passed
<1> QED
  BY <1>1 DEF Budget, LiveBudget, LateBudget, WithinBudget, Counted, Closed, Limited, Expired

(* A wrong password is counted, and the limit locks the session out.       *)
LEMMA WrongIsCounted ==
    ASSUME TTL <= Lockout, TypeOK, Engaged, Budgeted, NEW h \in Handlers,
           ApproveWrongPassword(h)
    PROVE  \A t \in Tokens : Budget(t)'
<1> SUFFICES ASSUME NEW t \in Tokens PROVE Budget(t)'
  OBVIOUS
<1>0. /\ status' = status /\ created' = created /\ crashes' = crashes /\ tok' = tok
      /\ now' = now /\ failures[tok[h]].count \in Nat /\ tok[h] \in Tokens
      /\ guesses' = [guesses EXCEPT ![tok[h]] = guesses[tok[h]] + 1]
      /\ pc' = [pc EXCEPT ![h] = "idle"] /\ pc[h] = "checks"
  BY DEF ApproveWrongPassword, row, Return, Await, At, TypeOK
<1>1. CASE t # tok[h]
  <2>1. guesses'[t] = guesses[t] /\ failures'[t] = failures[t]
    BY <1>0, <1>1 DEF ApproveWrongPassword, RecordPasswordFailure, TypeOK
  <2>2. \A g \in Handlers : g # h => pc'[g] = pc[g]
    BY <1>0 DEF TypeOK
  <2> QED
    BY <1>0, <1>1, <2>1, <2>2, OtherBudget DEF Budgeted
<1>2. CASE t = tok[h]
  <2>0. Budget(t) /\ Asking(t) /\ status[t] # "unissued"
    BY <1>0, <1>2 DEF Budgeted, Asking, Engaged
  <2>1. now > created[t] /\ failures[t].lockedUntil <= now
    <3>1. failures[t].lockedUntil \in Nat /\ now \in Nat
      BY DEF TypeOK
    <3> QED
      BY <1>0, <1>2, <3>1 DEF ApproveWrongPassword, Locked
  <2>2. /\ failures[t].count \in Nat /\ failures[t].lockedUntil \in Nat /\ guesses[t] \in Nat
        /\ now \in Nat /\ created[t] \in Nat /\ TTL \in Nat /\ Lockout \in Nat
        /\ MaxAttempts * crashes \in Nat /\ MaxAttempts \in Nat
        /\ MaxAttempts * (crashes + 1) = MaxAttempts * crashes + MaxAttempts
    BY TimeAssumption, Product DEF TypeOK
  <2>3. /\ guesses'[t] = guesses[t] + 1 /\ failures'[t].count = failures[t].count + 1
        /\ failures[t].count + 1 >= MaxAttempts => failures'[t].lockedUntil = now + Lockout
    BY <1>0, <1>2, <2>2 DEF ApproveWrongPassword, RecordPasswordFailure, TypeOK
  <2>4. Expired(t)' = Expired(t)
    BY <1>0 DEF Expired
  <2>5. CASE ~ Expired(t)
    <3>1. LiveBudget(t) /\ ~ Closed(t) /\ now <= created[t] + TTL
      BY <2>0, <2>2, <2>5 DEF Budget, Closed, Expired
    <3>2. failures[t].count < MaxAttempts /\ Counted(t)
      BY <2>1, <2>2, <3>1 DEF LiveBudget, Limited
    <3>3. Counted(t)'
      BY <1>0, <2>2, <2>3, <3>2 DEF Counted
    <3>4. Limited(t)'
      BY <1>0, <2>1, <2>2, <2>3, <3>1, <3>2 DEF Limited
    <3>5. WithinBudget(t)'
      BY <1>0, <2>2, <2>3, <3>2 DEF Counted, WithinBudget
    <3> QED
      BY <1>0, <2>0, <2>4, <2>5, <3>3, <3>4, <3>5 DEF Budget, LiveBudget
  <2>6. CASE Expired(t)
    <3>1. guesses[t] <= MaxAttempts * (crashes + 1)
      BY <2>0, <2>6 DEF Budget, LateBudget, WithinBudget
    <3>2. guesses'[t] <= MaxAttempts * (crashes' + 1) + 1
      BY <1>0, <2>2, <2>3, <3>1
    <3>3. ~ Asking(t)'
      <4> SUFFICES ASSUME NEW g \in Handlers, pc'[g] = "checks" PROVE FALSE
        BY DEF Asking
      <4>1. g # h /\ pc[g] = "checks"
        BY <1>0 DEF TypeOK
      <4> QED
        BY <1>0, <4>1, OneAsks DEF Budgeted
    <3> QED
      BY <1>0, <2>0, <2>4, <2>6, <3>2, <3>3 DEF Budget, LateBudget
  <2> QED
    BY <2>5, <2>6
<1> QED
  BY <1>1, <1>2

(* The right password resets the counter, and closes the session.          *)
LEMMA RightCloses ==
    ASSUME TypeOK, Engaged, Budgeted, NEW h \in Handlers, ApproveChecked(h)
    PROVE  \A t \in Tokens : Budget(t)'
<1> SUFFICES ASSUME NEW t \in Tokens PROVE Budget(t)'
  OBVIOUS
<1>0. /\ status' = status /\ created' = created /\ crashes' = crashes /\ tok' = tok
      /\ now' = now /\ guesses' = guesses /\ tok[h] \in Tokens
      /\ failures' = [failures EXCEPT ![tok[h]] = NoFailures]
      /\ pc' = [pc EXCEPT ![h] = "recheck"] /\ pc[h] = "checks"
  BY DEF ApproveChecked, row, history, Proceed, Continue, At, TypeOK
<1>1. Budget(t) /\ Home[h] = Web /\ ChecksAtHome
  BY <1>0 DEF Budgeted, ChecksAtHome
<1>2. CASE t # tok[h]
  <2>1. failures'[t] = failures[t] /\ \A g \in Handlers : g # h => pc'[g] = pc[g]
    BY <1>0, <1>2 DEF TypeOK
  <2> QED
    BY <1>0, <1>1, <1>2, <2>1, OtherBudget
<1>3. CASE t = tok[h]
  <2>1. failures'[t] = NoFailures /\ NoFailures.count = 0
    BY <1>0, <1>3 DEF NoFailures, TypeOK
  <2>2. Limited(t)'
    BY <2>1, TimeAssumption DEF Limited
  <2>3. Passed(t)'
    <3>1. pc'[h] = "recheck" /\ tok'[h] = t
      BY <1>0, <1>3 DEF TypeOK
    <3> QED
      BY <1>1, <3>1 DEF Passed
  <2>4. ~ Asking(t)'
    <3> SUFFICES ASSUME NEW g \in Handlers, pc'[g] = "checks" PROVE FALSE
      BY DEF Asking
    <3>1. g # h /\ pc[g] = "checks"
      BY <1>0 DEF TypeOK
    <3> QED
      BY <1>0, <1>1, <3>1, OneAsks
  <2>5. status'[t] # "unissued"
    BY <1>0, <1>3 DEF Engaged
  <2>6. Closed(t)'
    BY <2>3, <2>4, <2>5 DEF Closed
  <2>7. /\ WithinBudget(t) => WithinBudget(t)'
        /\ Expired(t)' = Expired(t)
    BY <1>0 DEF WithinBudget, Expired
  <2> QED
    BY <1>0, <1>1, <2>2, <2>4, <2>5, <2>6, <2>7 DEF Budget, LiveBudget, LateBudget
<1> QED
  BY <1>2, <1>3

(* Every other step of a handler leaves the counters alone, and takes no   *)
(* session up for a password after its time.                               *)
LEMMA OtherSteps ==
    ASSUME TypeOK, TypeOK', Ownership, Engaged, Budgeted, NEW h \in Handlers, Acts(h),
           ~ ApproveWrongPassword(h), ~ ApproveChecked(h), NEW t \in Tokens
    PROVE  Budget(t)'
<1>1. failures' = failures /\ guesses' = guesses /\ crashes' = crashes /\ now' = now
  BY DEF Acts, Create, CreateSweep, CreateInsert, Approve, ApproveLookup,
         ApproveRefused, Consume, ConsumeLookup, Complete,
         CompleteRecheck, CompleteFlip, Execute, DispatchStart, DispatchRefused, WorkEnds,
         StripPayload, Deny, DenyLookup, DenyRecheck, DenyFlip, history
<1>2. Budget(t)
  BY DEF Budgeted
<1>3. CASE status[t] = "unissued"
  <2>1. guesses'[t] = 0 /\ failures'[t].count = 0
    BY <1>1, <1>2, <1>3 DEF Budget
  <2>2. Budget(t)'
    <3>1. (guesses[t] = 0)' /\ (failures[t].count = 0)'
      BY <2>1
    <3>2. MaxAttempts * (crashes' + 1) \in Nat /\ MaxAttempts * crashes' \in Nat
      BY <1>1, Product
    <3>3. (WithinBudget(t) /\ Counted(t) /\ Limited(t))'
      BY <2>1, <3>2, TimeAssumption DEF WithinBudget, Counted, Limited
    <3>4. guesses'[t] <= MaxAttempts * (crashes' + 1) + 1
      BY <2>1, <3>2
    <3> QED
      BY <3>1, <3>3, <3>4 DEF Budget, LiveBudget, LateBudget
  <2> QED
    BY <2>2
<1>4. CASE status[t] # "unissued"
  <2>1. created'[t] = created[t] /\ status'[t] # "unissued"
    BY <1>4, Rows
  <2>2. /\ Expired(t)' = Expired(t) /\ WithinBudget(t)' = WithinBudget(t)
        /\ Counted(t)' = Counted(t) /\ Limited(t)' = Limited(t)
    BY <1>1, <2>1 DEF Expired, WithinBudget, Counted, Limited
  <2>3. CASE ~ Expired(t)
    BY <1>2, <2>1, <2>2, <2>3, StaysClosed DEF Budget, LiveBudget
  <2>4. CASE Expired(t)
    <3>1. Asking(t)' => Asking(t)
      <4> SUFFICES ASSUME Asking(t)', ~ Asking(t) PROVE FALSE
        OBVIOUS
      <4>1. LivePending(t)
        BY AskedAlive DEF ApproveLookup
      <4>2. created[t] \in Nat /\ now \in Nat /\ TTL \in Nat
        BY TimeAssumption DEF TypeOK
      <4> QED
        BY <2>4, <4>1, <4>2 DEF LivePending, Expired
    <3> QED
      BY <1>1, <1>2, <2>1, <2>2, <2>4, <3>1 DEF Budget, LateBudget
  <2> QED
    BY <2>3, <2>4
<1> QED
  BY <1>3, <1>4

(* A restart of the web process forgets the failures, and is paid for by   *)
(* the allowance of one more life.                                         *)
LEMMA CrashBudget ==
    ASSUME TypeOK, Budgeted, NEW p \in Processes, Crash(p), NEW t \in Tokens
    PROVE  Budget(t)'
<1>0. /\ crashes' = crashes + 1 /\ tok' = tok /\ guesses' = guesses /\ now' = now
      /\ status' = status /\ created' = created
      /\ pc' = [h \in Handlers |-> IF Home[h] = p THEN "idle" ELSE pc[h]]
      /\ failures' = IF p = Web THEN [u \in Tokens |-> NoFailures] ELSE failures
  BY DEF Crash, row, history
<1>1. Budget(t)
  BY DEF Budgeted
<1>2. /\ MaxAttempts * (crashes + 1) = MaxAttempts * crashes + MaxAttempts
      /\ MaxAttempts * (crashes' + 1) = MaxAttempts * (crashes + 1) + MaxAttempts
      /\ MaxAttempts * crashes' = MaxAttempts * (crashes + 1)
      /\ MaxAttempts * crashes \in Nat /\ MaxAttempts \in Nat
      /\ guesses[t] \in Nat /\ failures[t].count \in Nat
  <2>1. crashes \in Nat /\ MaxAttempts \in Nat
    BY TimeAssumption DEF TypeOK
  <2> QED
    BY <1>0, <2>1, Product DEF TypeOK
<1>3. /\ Expired(t)' = Expired(t)
      /\ WithinBudget(t) => WithinBudget(t)'
      /\ Asking(t)' => Asking(t)
  BY <1>0, <1>2 DEF Expired, WithinBudget, Asking
<1>4. LateBudget(t) => LateBudget(t)'
  BY <1>0, <1>2, <1>3 DEF LateBudget
<1>5. CASE p = Web
  <2>1. failures'[t] = NoFailures /\ NoFailures.count = 0
    BY <1>0, <1>5 DEF NoFailures
  <2>2. WithinBudget(t) => Counted(t)'
    BY <1>0, <1>2, <2>1 DEF WithinBudget, Counted
  <2>3. Limited(t)'
    BY <2>1, TimeAssumption DEF Limited
  <2> QED
    BY <1>0, <1>1, <1>3, <1>4, <2>1, <2>2, <2>3 DEF Budget, LiveBudget
<1>6. CASE p # Web
  <2>1. failures' = failures
    BY <1>0, <1>6
  <2>2. Counted(t) => Counted(t)'
    BY <1>0, <1>2, <2>1 DEF Counted
  <2>3. Passed(t) => Passed(t)'
    BY <1>0, <1>6 DEF Passed
  <2>4. Closed(t) => Closed(t)'
    BY <1>0, <1>3, <2>3 DEF Closed
  <2>5. Limited(t) => Limited(t)'
    BY <1>0, <2>1 DEF Limited
  <2> QED
    BY <1>0, <1>1, <1>3, <1>4, <2>1, <2>2, <2>4, <2>5 DEF Budget, LiveBudget
<1> QED
  BY <1>5, <1>6

LEMMA StepBudgeted ==
    ASSUME TTL <= Lockout, TypeOK, TypeOK', Ownership, Engaged, Budgeted, [Next]_vars
    PROVE  Budgeted'
<1>1. ASSUME NEW h \in Handlers, Acts(h) PROVE Budgeted'
  <2>1. ChecksAtHome'
    <3> SUFFICES ASSUME NEW g \in Handlers, pc'[g] = "checks" PROVE Home[g] = Web
      BY DEF ChecksAtHome
    <3>1. CASE g # h
      BY <1>1, <3>1, Others DEF Budgeted, ChecksAtHome
    <3>2. CASE g = h
      BY <1>1, <3>2 DEF Acts, Create, CreateSweep, CreateInsert, Approve, ApproveLookup,
         ApproveRefused, ApproveWrongPassword, ApproveChecked, Consume, ConsumeLookup, Complete,
         CompleteRecheck, CompleteFlip, Execute, DispatchStart, DispatchRefused, WorkEnds,
         StripPayload, Deny, DenyLookup, DenyRecheck, DenyFlip, Return, Proceed, HasLooked, Continue, Await, TypeOK
    <3> QED
      BY <3>1, <3>2
  <2>2. CASE ApproveWrongPassword(h)
    BY <2>1, <2>2, WrongIsCounted DEF Budgeted
  <2>3. CASE ApproveChecked(h)
    BY <2>1, <2>3, RightCloses DEF Budgeted
  <2>4. CASE ~ApproveWrongPassword(h) /\ ~ApproveChecked(h)
    BY <1>1, <2>1, <2>4, OtherSteps DEF Budgeted
  <2> QED
    BY <2>2, <2>3, <2>4
<1>2. ASSUME NEW p \in Processes, Crash(p) PROVE Budgeted'
  <2>1. ChecksAtHome'
    BY <1>2 DEF Crash, Budgeted, ChecksAtHome
  <2> QED
    BY <1>2, <2>1, CrashBudget DEF Budgeted
<1>3. CASE Tick
  <2>1. /\ UNCHANGED <<status, created, pc, tok, failures, crashes, guesses>>
        /\ now' = now + 1
    BY <1>3 DEF Tick, row, history
  <2>2. ChecksAtHome'
    BY <2>1 DEF Budgeted, ChecksAtHome
  <2>3. ASSUME NEW t \in Tokens PROVE Budget(t)'
    <3>1. Budget(t)
      BY DEF Budgeted
    <3>2. Expired(t) => Expired(t)'
      BY <2>1, TimeAssumption DEF Expired, TypeOK
    <3>3. /\ WithinBudget(t)' = WithinBudget(t) /\ Asking(t)' = Asking(t)
          /\ LiveBudget(t)' = LiveBudget(t) /\ LateBudget(t)' = LateBudget(t)
      BY <2>1 DEF WithinBudget, Asking, LiveBudget, LateBudget, Counted, Closed, Passed, Limited
    <3>4. LiveBudget(t) => LateBudget(t)
      <4>1. MaxAttempts * (crashes + 1) \in Nat /\ guesses[t] \in Nat
        BY Product DEF TypeOK
      <4> QED
        BY <4>1 DEF LiveBudget, LateBudget, WithinBudget
    <3> QED
      BY <2>1, <3>1, <3>2, <3>3, <3>4 DEF Budget
  <2> QED
    BY <2>2, <2>3 DEF Budgeted
<1>4. CASE UNCHANGED vars
  BY <1>4 DEF vars, row, handler, history, Budgeted, ChecksAtHome, Budget, LiveBudget,
              LateBudget, WithinBudget, Counted, Closed, Asking, Passed, Limited, Expired
<1> QED
  BY <1>1, <1>2, <1>3, <1>4 DEF Next, Acts

(* Where the lockout lasts as long as a session, a session sees at most    *)
(* MaxAttempts wrong passwords for each life of the web process, and one   *)
(* more from a request that stalled until the session was over.            *)
THEOREM GuessesAreBounded ==
    ASSUME TTL <= Lockout PROVE Spec => []GuessBudget
<1>1. TypeOK /\ TypeOK' /\ Ownership /\ Engaged /\ Budgeted /\ [Next]_vars => Budgeted'
  BY StepBudgeted
<1>2. TypeOK /\ Ownership /\ Timely /\ [Next]_vars => Timely'
  BY StepTimely
<1>3. TypeOK /\ Budgeted => GuessBudget
  <2> SUFFICES ASSUME TypeOK, Budgeted, NEW t \in Tokens
               PROVE  guesses[t] <= MaxAttempts * (crashes + 1)
                                      + (IF Expired(t) THEN 1 ELSE 0)
    BY DEF GuessBudget
  <2>1. Budget(t) /\ MaxAttempts * (crashes + 1) \in Nat
    BY Product DEF Budgeted
  <2> QED
    BY <2>1 DEF Budget, LiveBudget, LateBudget, WithinBudget
<1> QED
  BY InitTimely, InitBudgeted, TypeCorrect, Owned, TimelyIsEngaged, <1>1, <1>2, <1>3, PTL
  DEF Spec

-----------------------------------------------------------------------------
(* The payload follows the outcome.                                        *)

Held == {t \in Tokens : payload[t]}
Overtime(t) == created[t] + Retention < now
Working == {h \in Handlers : pc[h] \in {"dispatch", "running", "strip"}}

\* Whoever works has a completed row for itself, and what it knows of the
\* outcome is all there is to know.
WorkersOwn ==
    /\ \A h \in Working :
          /\ status[tok[h]] = "completed"
          /\ outcome[tok[h]] = IF pc[h] = "strip" THEN "success" ELSE "none"
          /\ \A g \in Working : tok[g] = tok[h] => g = h
    /\ \A t \in Tokens : outcome[t] # "none" => status[t] = "completed"

\* A row keeps its payload until success or its retention, and loses it after
\* success unless the process dies.
Keeps(t) ==
    /\ status[t] = "pending" => t \in Held
    /\ status[t] = "completed" => t \in Held \/ Overtime(t) \/ outcome[t] = "success"
    /\ outcome[t] = "success" /\ crashes = 0 /\ t \in Held =>
          \E h \in Handlers : tok[h] = t /\ pc[h] = "strip"

Kept == WorkersOwn /\ \A t \in Tokens : Keeps(t)

LEMMA InitKept == Init => Kept
  BY DEF Init, Kept, WorkersOwn, Working, Keeps, Held

(* A step that takes up no work, ends none, and leaves payloads alone.     *)
LEMMA Elsewhere ==
    ASSUME TypeOK, Kept, Working' = Working,
           \A h \in Working : pc'[h] = pc[h] /\ tok'[h] = tok[h],
           UNCHANGED <<status, created, payload, outcome>>,
           now' = now, crashes' = crashes
    PROVE  Kept'
<1>1. Held' = Held
  BY DEF Held
<1>2. WorkersOwn'
  BY DEF Kept, WorkersOwn
<1>3. ASSUME NEW t \in Tokens PROVE Keeps(t)'
  <2>1. Overtime(t)' = Overtime(t)
    BY DEF Overtime
  <2>2. \A h \in Handlers : pc[h] = "strip" => pc'[h] = "strip" /\ tok'[h] = tok[h]
    BY DEF Working
  <2> QED
    BY <1>1, <2>1, <2>2 DEF Kept, Keeps
<1> QED
  BY <1>2, <1>3 DEF Kept

(* The sweep strips and deletes what it may.                               *)
LEMMA SweepKeeps ==
    ASSUME TypeOK, Kept, NEW h \in Handlers, NEW t \in Tokens, CreateSweep(h, t)
    PROVE  Kept'
<1>1. /\ status' = [u \in Tokens |-> IF Reapable(u) THEN "deleted" ELSE status[u]]
      /\ pc' = [pc EXCEPT ![h] = "insert"] /\ tok' = [tok EXCEPT ![h] = t] /\ pc[h] = "idle"
      /\ UNCHANGED <<created, outcome, now, crashes>>
  BY DEF CreateSweep, Proceed, HasLooked, Continue, history
<1>2. Held' = {u \in Held : ~Reapable(u) /\ ~Overdue(u)}
  <2>1. payload' = [u \in Tokens |-> payload[u] /\ ~Reapable(u) /\ ~Overdue(u)]
    BY DEF CreateSweep
  <2> QED
    BY <2>1, Zenon DEF Held
<1>3. /\ Working' = Working
      /\ \A g \in Handlers \ {h} : pc'[g] = pc[g] /\ tok'[g] = tok[g]
      /\ \A g \in Handlers : pc[g] = "strip" => g # h
  BY <1>1 DEF Working, TypeOK
<1>4. \A u \in Tokens : status[u] = "completed" => status'[u] = "completed"
  BY <1>1 DEF Reapable
<1>5. WorkersOwn'
  <2>1. \A g \in Working : g # h /\ tok[g] \in Tokens
    BY <1>1 DEF Working, TypeOK
  <2> QED
    BY <1>1, <1>3, <1>4, <2>1 DEF Kept, WorkersOwn
<1>6. ASSUME NEW u \in Tokens PROVE Keeps(u)'
  <2>1. Overtime(u)' <=> Overtime(u)
    BY <1>1 DEF Overtime
  <2>2. status'[u] \in {"pending", "completed"} => status'[u] = status[u] /\ ~Reapable(u)
    BY <1>1
  <2>3. Overdue(u) => status[u] = "completed" /\ Overtime(u)
    BY DEF Overdue, Overtime
  <2>4. Keeps(u)
    BY DEF Kept
  <2> QED
    BY <1>1, <1>2, <1>3, <2>1, <2>2, <2>3, <2>4 DEF Keeps
<1> QED
  BY <1>5, <1>6 DEF Kept

(* A new row has its payload.                                              *)
LEMMA InsertKeeps ==
    ASSUME TypeOK, Ownership, Kept, NEW h \in Handlers, CreateInsert(h)
    PROVE  Kept'
<1>1. /\ status' = [status EXCEPT ![tok[h]] = "pending"] /\ status[tok[h]] = "unissued"
      /\ created' = [created EXCEPT ![tok[h]] = now]
      /\ pc' = [pc EXCEPT ![h] = "idle"] /\ tok' = tok /\ pc[h] = "insert"
      /\ UNCHANGED <<outcome, now, crashes>>
      /\ tok[h] \in Tokens
  BY DEF CreateInsert, Return, Await, At, history, Ownership, InsertOwns, TypeOK
<1>2. Held' = Held \cup {tok[h]}
  <2>1. payload' = [payload EXCEPT ![tok[h]] = TRUE]
    BY DEF CreateInsert
  <2>2. payload \in [Tokens -> BOOLEAN]
    BY DEF TypeOK
  <2> QED
    BY <1>1, <2>1, <2>2 DEF Held
<1>3. /\ Working' = Working /\ h \notin Working
      /\ \A g \in Handlers \ {h} : pc'[g] = pc[g]
  BY <1>1 DEF Working, TypeOK
<1>4. outcome[tok[h]] = "none" /\ \A g \in Working : tok[g] # tok[h]
  BY <1>1 DEF Kept, WorkersOwn
<1>5. WorkersOwn'
  BY <1>1, <1>3, <1>4 DEF Kept, WorkersOwn, Working, TypeOK
<1>6. ASSUME NEW u \in Tokens PROVE Keeps(u)'
  <2>1. CASE u = tok[h]
    BY <1>1, <1>2, <1>4, <2>1 DEF Keeps, TypeOK
  <2>2. CASE u # tok[h]
    <3>1. status'[u] = status[u] /\ (Overtime(u)' <=> Overtime(u)) /\ (u \in Held' <=> u \in Held)
      BY <1>1, <1>2, <2>2 DEF Overtime, TypeOK
    <3>2. \A g \in Handlers : pc[g] = "strip" => pc'[g] = "strip"
      BY <1>1, <1>3
    <3> QED
      BY <1>1, <3>1, <3>2 DEF Kept, Keeps
  <2> QED
    BY <2>1, <2>2
<1> QED
  BY <1>5, <1>6 DEF Kept

(* An approved row has its payload, and a denied one needs none.           *)
LEMMA FlipsKeep ==
    ASSUME TypeOK, Kept, NEW h \in Handlers, CompleteFlip(h) \/ DenyFlip(h)
    PROVE  Kept'
<1>1. /\ tok' = tok /\ pc[h] \in {"flip", "denyFlip"} /\ tok[h] \in Tokens
      /\ UNCHANGED <<created, payload, outcome, now, crashes>>
  BY DEF CompleteFlip, DenyFlip, At, history, TypeOK
<1>2. CASE /\ CompleteFlip(h) /\ status[tok[h]] = "pending"
  <2>1. status' = [status EXCEPT ![tok[h]] = "completed"] /\ pc' = [pc EXCEPT ![h] = "dispatch"]
    BY <1>2 DEF CompleteFlip, Proceed, HasLooked, Continue
  <2>2. /\ outcome[tok[h]] = "none" /\ \A g \in Working : tok[g] # tok[h]
        /\ tok[h] \in Held
    BY <1>1, <1>2 DEF Kept, WorkersOwn, Keeps
  <2>3. /\ Working' = Working \cup {h} /\ Held' = Held
        /\ \A g \in Handlers \ {h} : pc'[g] = pc[g]
        /\ pc'[h] = "dispatch"
    BY <1>1, <2>1 DEF Working, Held, TypeOK
  <2>4. \A t \in Tokens : status'[t] = IF t = tok[h] THEN "completed" ELSE status[t]
    BY <1>1, <2>1 DEF TypeOK
  <2>7. \A g \in Handlers : tok[g] \in Tokens
    BY DEF TypeOK
  <2>5. WorkersOwn'
    BY <1>1, <2>2, <2>3, <2>4, <2>7 DEF Kept, WorkersOwn, Working
  <2>6. ASSUME NEW u \in Tokens PROVE Keeps(u)'
    <3>1. Overtime(u)' <=> Overtime(u)
      BY <1>1 DEF Overtime
    <3>2. \A g \in Handlers : pc[g] = "strip" => pc'[g] = "strip"
      BY <1>1, <2>3
    <3> QED
      BY <1>1, <2>2, <2>3, <2>4, <3>1, <3>2 DEF Kept, Keeps
  <2> QED
    BY <2>5, <2>6 DEF Kept
<1>3. CASE ~(CompleteFlip(h) /\ status[tok[h]] = "pending")
  <2>1. pc' = [pc EXCEPT ![h] = "idle"]
    BY <1>3 DEF CompleteFlip, DenyFlip, Return, Await
  <2>2. \A t \in Tokens : status'[t] = status[t] \/ (status[t] = "pending" /\ status'[t] = "denied")
    BY <1>1, <1>3 DEF CompleteFlip, DenyFlip, TypeOK
  <2>3. /\ Working' = Working /\ h \notin Working /\ Held' = Held
        /\ \A g \in Handlers \ {h} : pc'[g] = pc[g]
    BY <1>1, <2>1 DEF Working, Held, TypeOK
  <2>4. WorkersOwn'
    <3>1. \A g \in Working : tok[g] \in Tokens /\ g \in Handlers /\ g # h
      BY <2>3 DEF Working, TypeOK
    <3>2. \A t \in Tokens : status[t] = "completed" => status'[t] = "completed"
      BY <2>2
    <3> QED
      BY <1>1, <2>3, <3>1, <3>2 DEF Kept, WorkersOwn
  <2>5. ASSUME NEW u \in Tokens PROVE Keeps(u)'
    <3>1. Overtime(u)' <=> Overtime(u)
      BY <1>1 DEF Overtime
    <3>2. \A g \in Handlers : pc[g] = "strip" => pc'[g] = "strip"
      BY <1>1, <2>3
    <3> QED
      BY <1>1, <2>2, <2>3, <3>1, <3>2 DEF Kept, Keeps
  <2> QED
    BY <2>4, <2>5 DEF Kept
<1> QED
  BY <1>2, <1>3

(* The work itself: started, refused, ended.                               *)
LEMMA WorkKeeps ==
    ASSUME TypeOK, Kept, NEW h \in Handlers,
           DispatchStart(h) \/ DispatchRefused(h) \/ WorkEnds(h)
    PROVE  Kept'
<1>1. /\ UNCHANGED <<status, created, payload, tok, now, crashes>>
      /\ pc[h] \in {"dispatch", "running"} /\ tok[h] \in Tokens
  BY DEF DispatchStart, DispatchRefused, WorkEnds, At, row, TypeOK
<1>2. PICK step \in {"running", "idle", "strip"} :
         /\ pc' = [pc EXCEPT ![h] = step]
         /\ outcome' = [outcome EXCEPT ![tok[h]] =
                           IF step = "running" THEN outcome[tok[h]]
                           ELSE IF step = "strip" THEN "success" ELSE "failure"]
  <2>1. CASE DispatchStart(h)
    BY <2>1 DEF DispatchStart, Await, TypeOK
  <2>2. CASE DispatchRefused(h)
    BY <2>2 DEF DispatchRefused, Return, Await
  <2>3. CASE WorkEnds(h)
    BY <2>3 DEF WorkEnds, Return, Await, Proceed, HasLooked, Continue
  <2> QED
    BY <2>1, <2>2, <2>3
<1>3. /\ h \in Working /\ status[tok[h]] = "completed" /\ outcome[tok[h]] = "none"
      /\ \A g \in Working : tok[g] = tok[h] => g = h
  BY <1>1 DEF Kept, WorkersOwn, Working
<1>4. /\ Working' \subseteq Working /\ Held' = Held
      /\ \A g \in Handlers \ {h} : pc'[g] = pc[g] /\ pc'[h] = step
      /\ h \in Working' => step \in {"running", "strip"}
      /\ pc'[h] = step
  BY <1>1, <1>2, <1>3 DEF Working, Held, TypeOK
<1>5. \A t \in Tokens \ {tok[h]} : outcome'[t] = outcome[t]
  BY <1>2 DEF TypeOK
<1>6. outcome'[tok[h]] = IF step = "running" THEN "none"
                         ELSE IF step = "strip" THEN "success" ELSE "failure"
  BY <1>1, <1>2, <1>3 DEF TypeOK
<1>7. WorkersOwn'
  <2>1. \A g \in Working' : tok[g] \in Tokens /\ g \in Handlers
    BY DEF Working, TypeOK
  <2> QED
    BY <1>1, <1>3, <1>4, <1>5, <1>6, <2>1 DEF Kept, WorkersOwn
<1>8. ASSUME NEW u \in Tokens PROVE Keeps(u)'
  <2>1. Overtime(u)' <=> Overtime(u)
    BY <1>1 DEF Overtime
  <2>2. CASE u = tok[h]
    BY <1>1, <1>3, <1>4, <1>6, <2>1, <2>2 DEF Kept, Keeps
  <2>3. CASE u # tok[h]
    <3>1. \A g \in Handlers : tok[g] = u /\ pc[g] = "strip" => pc'[g] = "strip"
      BY <1>4, <2>3
    <3> QED
      BY <1>1, <1>4, <1>5, <2>1, <2>3, <3>1 DEF Kept, Keeps
  <2> QED
    BY <2>2, <2>3
<1> QED
  BY <1>7, <1>8 DEF Kept

(* The payload of work that succeeded goes.                                *)
LEMMA StripKeeps ==
    ASSUME TypeOK, Kept, NEW h \in Handlers, StripPayload(h)
    PROVE  Kept'
<1>1. /\ UNCHANGED <<status, created, tok, now, crashes, outcome>>
      /\ pc[h] = "strip" /\ tok[h] \in Tokens /\ pc' = [pc EXCEPT ![h] = "idle"]
  BY DEF StripPayload, At, Return, Await, history, TypeOK
<1>2. /\ h \in Working /\ status[tok[h]] = "completed" /\ outcome[tok[h]] = "success"
  BY <1>1 DEF Kept, WorkersOwn, Working
<1>3. Held' = Held \ {tok[h]}
  <2>1. payload' = [payload EXCEPT ![tok[h]] = payload[tok[h]] /\ status[tok[h]] # "completed"]
    BY DEF StripPayload
  <2>2. payload' = [payload EXCEPT ![tok[h]] = FALSE]
    BY <1>2, <2>1, Zenon
  <2>3. payload \in [Tokens -> BOOLEAN]
    BY DEF TypeOK
  <2> QED
    BY <1>1, <2>2, <2>3 DEF Held
<1>4. /\ Working' = Working \ {h} /\ \A g \in Handlers \ {h} : pc'[g] = pc[g]
  BY <1>1 DEF Working, TypeOK
<1>5. WorkersOwn'
  BY <1>1, <1>4 DEF Kept, WorkersOwn, Working
<1>6. ASSUME NEW u \in Tokens PROVE Keeps(u)'
  <2>1. Overtime(u)' <=> Overtime(u)
    BY <1>1 DEF Overtime
  <2>2. CASE u = tok[h]
    BY <1>1, <1>2, <1>3, <2>2 DEF Keeps
  <2>3. CASE u # tok[h]
    <3>1. \A g \in Handlers : tok[g] = u /\ pc[g] = "strip" => pc'[g] = "strip"
      BY <1>4, <2>3
    <3> QED
      BY <1>1, <1>3, <2>1, <2>3, <3>1 DEF Kept, Keeps
  <2> QED
    BY <2>2, <2>3
<1> QED
  BY <1>5, <1>6 DEF Kept

LEMMA StepKept ==
    ASSUME TypeOK, TypeOK', Ownership, Kept, [Next]_vars
    PROVE  Kept'
<1>1. ASSUME NEW h \in Handlers, Acts(h) PROVE Kept'
  <2>1. CASE Create(h)
    BY <2>1, SweepKeeps, InsertKeeps DEF Create
  <2>2. CASE CompleteFlip(h) \/ DenyFlip(h)
    BY <2>2, FlipsKeep
  <2>3. CASE Execute(h)
    BY <2>3, WorkKeeps, StripKeeps DEF Execute
  <2>4. CASE ~Create(h) /\ ~Execute(h) /\ ~CompleteFlip(h) /\ ~DenyFlip(h)
    <3>1. /\ UNCHANGED <<status, created, payload, outcome>>
          /\ now' = now /\ crashes' = crashes
      BY <1>1, <2>4 DEF Acts, Approve, ApproveLookup, ApproveRefused, ApproveWrongPassword,
         ApproveChecked, Consume, ConsumeLookup, Complete, CompleteRecheck, Deny, DenyLookup,
         DenyRecheck, row, history
    <3>2. pc[h] \notin {"dispatch", "running", "strip"}
      BY <1>1, <2>4 DEF Acts, Approve, ApproveLookup, ApproveRefused, ApproveWrongPassword,
         ApproveChecked, Consume, ConsumeLookup, Complete, CompleteRecheck, Deny, DenyLookup,
         DenyRecheck, At
    <3>3. \E step \in Steps \ {"dispatch", "running", "strip"} : Proceed(h, step) \/ HasLooked(h, step) \/ Await(h, step)
      BY <1>1, <2>4 DEF Acts, Approve, ApproveLookup, ApproveRefused, ApproveWrongPassword,
         ApproveChecked, Consume, ConsumeLookup, Complete, CompleteRecheck, Deny, DenyLookup,
         DenyRecheck, Return, Steps
    <3>4. pc'[h] \notin {"dispatch", "running", "strip"}
      BY <3>3 DEF Proceed, HasLooked, Continue, Await, TypeOK
    <3>5. \A g \in Handlers \ {h} : pc'[g] = pc[g] /\ tok'[g] = tok[g]
      BY <1>1, Others
    <3>6. Working' = Working /\ h \notin Working
      BY <3>2, <3>4, <3>5 DEF Working
    <3>7. \A g \in Working : pc'[g] = pc[g] /\ tok'[g] = tok[g]
      BY <3>5, <3>6 DEF Working
    <3> QED
      BY <3>1, <3>6, <3>7, Elsewhere
  <2> QED
    BY <2>1, <2>2, <2>3, <2>4
<1>2. ASSUME NEW p \in Processes, Crash(p) PROVE Kept'
  <2>1. /\ crashes' # 0 /\ UNCHANGED <<status, created, payload, outcome, tok, now>>
        /\ \A h \in Handlers : pc'[h] \in {"idle", pc[h]}
    <3>1. crashes' = crashes + 1 /\ crashes \in Nat
      BY <1>2 DEF Crash, TypeOK
    <3> QED
      BY <1>2, <3>1 DEF Crash, row, history
  <2>2. /\ Held' = Held /\ Working' \subseteq Working
        /\ \A h \in Working' : pc'[h] = pc[h]
    BY <2>1 DEF Held, Working
  <2>3. WorkersOwn'
    BY <2>1, <2>2 DEF Kept, WorkersOwn
  <2>4. \A t \in Tokens : Keeps(t)'
    BY <2>1, <2>2 DEF Kept, Keeps, Overtime
  <2> QED
    BY <2>3, <2>4 DEF Kept
<1>3. CASE Tick
  <2>1. /\ UNCHANGED <<status, created, payload, outcome, tok, pc, crashes>>
        /\ now \in Nat /\ now' = now + 1
    BY <1>3 DEF Tick, row, handler, history, TypeOK
  <2>2. Held' = Held /\ Working' = Working
    BY <2>1 DEF Held, Working
  <2>3. \A t \in Tokens : Overtime(t) => Overtime(t)'
    BY <2>1, TimeAssumption DEF Overtime, TypeOK
  <2>4. WorkersOwn'
    BY <2>1, <2>2 DEF Kept, WorkersOwn
  <2>5. \A t \in Tokens : Keeps(t)'
    BY <2>1, <2>2, <2>3 DEF Kept, Keeps
  <2> QED
    BY <2>4, <2>5 DEF Kept
<1>4. CASE UNCHANGED vars
  BY <1>4, Elsewhere DEF vars, row, handler, history, Working
<1> QED
  BY <1>1, <1>2, <1>3, <1>4 DEF Next, Acts

(* Work that failed keeps its payload for the retention window, and work   *)
(* that succeeded loses it, whoever sweeps and whatever else is confirmed. *)
THEOREM PayloadKept == Spec => []PayloadFollowsOutcome
<1>1. TypeOK /\ TypeOK' /\ Ownership /\ Kept /\ [Next]_vars => Kept'
  BY StepKept
<1>2. TypeOK /\ Kept => PayloadFollowsOutcome
  <2> SUFFICES ASSUME TypeOK, Kept, NEW t \in Tokens
               PROVE  /\ outcome[t] = "failure" /\ now <= created[t] + Retention => t \in Held
                      /\ /\ outcome[t] = "success" /\ crashes = 0
                         /\ \A h \in Handlers : tok[h] = t => pc[h] # "strip"
                         => t \notin Held
    BY DEF PayloadFollowsOutcome, Held
  <2>1. now \in Nat /\ created[t] \in Nat /\ Retention \in Nat
    BY TimeAssumption DEF TypeOK
  <2> QED
    BY <2>1 DEF Kept, WorkersOwn, Keeps, Overtime
<1> QED
  BY InitKept, TypeCorrect, Owned, <1>1, <1>2, PTL DEF Spec
=============================================================================
