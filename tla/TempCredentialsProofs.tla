------------------------ MODULE TempCredentialsProofs ------------------------
(***************************************************************************)
(* Proofs about TempCredentials, for any number of accounts, servers and   *)
(* handlers, any limit and any lifetime.                                   *)
(***************************************************************************)
EXTENDS TempCredentials, FiniteSetTheorems, TLAPS

-----------------------------------------------------------------------------
(* The inductive invariant.                                                *)

\* Somebody other than its maker refers to u.
Mentioned(u) ==
    \/ u \in Recorded
    \/ \E s \in Servers : at[s].user = u \/ \E j \in todo[s] : j.user = u
    \/ \E o \in Operators : taken[o] = u \/ u \in drops[o]

\* An account in the making is its maker's alone.
Fresh ==
    \A m \in Making :
        /\ name[m] \in Users /\ ~Mentioned(name[m])
        /\ \A n \in Making : name[n] = name[m] => n = m

\* It is on the device as soon as, and no sooner than, its maker was told.
MadeIsThere ==
    \A m \in Making : name[m] \in accounts <=> step[m] = "made"

\* A removal that was confirmed removed the account.
GoneIsGone == \A s \in Servers : at[s].ok => at[s].user \notin accounts

\* What the loop works through, until a shutdown, is past its lifetime.
OnlyDue ==
    \A s \in Servers : phase[s] \in {"reconcile", "pass"} =>
        \A j \in todo[s] : j.user \notin Unexpired

\* An operator's account has no row any more.
RowFirst == \A o \in Operators : taken[o] \notin Recorded

\* The history of unapproved rows holds rows that count.
DirectCounts == direct \subseteq Unexpired

\* Each request in flight counted before it went off.
Room ==
    Cardinality(direct) + Cardinality(Flight) < MaxPerDevice + Cardinality(Askers)

IInv ==
    /\ TypeOK /\ Fresh /\ MadeIsThere /\ GoneIsGone /\ OnlyDue /\ RowFirst
    /\ DirectCounts /\ Room /\ NeverForgotten /\ UsableUntilExpiry

-----------------------------------------------------------------------------
(* About the parts of the invariant.                                       *)

(* Nothing new is mentioned and nothing new is made. *)
LEMMA FreshKept ==
    ASSUME Fresh, Making' \subseteq Making, \A m \in Making' : name'[m] = name[m],
           \A u \in Users : Mentioned(u)' => Mentioned(u)
    PROVE  Fresh'
  BY DEF Fresh

(* The sets that are counted are finite. *)
LEMMA Counted ==
    ASSUME TypeOK
    PROVE  /\ IsFiniteSet(direct) /\ IsFiniteSet(Flight) /\ IsFiniteSet(Askers)
           /\ Cardinality(direct) \in Nat /\ Cardinality(Flight) \in Nat
           /\ Cardinality(Askers) \in Nat
<1>1. direct \in SUBSET Users /\ Askers \in SUBSET Makers /\ Flight \in SUBSET Makers
  BY DEF TypeOK, Askers, Flight
<1> QED BY <1>1, CredentialsAssumption, FS_Subset, FS_CardinalityType

(* Fewer rows and fewer requests leave the room that there was. *)
LEMMA RoomKept ==
    ASSUME TypeOK, Room, direct' \subseteq direct, Flight' \subseteq Flight
    PROVE  Room'
<1>1. Cardinality(direct') <= Cardinality(direct) /\ Cardinality(direct') \in Nat
  BY Counted, FS_Subset, FS_CardinalityType
<1>2. Cardinality(Flight') <= Cardinality(Flight) /\ Cardinality(Flight') \in Nat
  BY Counted, FS_Subset, FS_CardinalityType
<1>3. Askers' = Askers
  BY DEF Askers
<1> QED BY <1>1, <1>2, <1>3, Counted, CredentialsAssumption DEF Room

-----------------------------------------------------------------------------
(* Every step keeps the inductive invariant: one lemma for each action.    *)
(* A request passes the limit and starts to make an account. *)
LEMMA AskStep == ASSUME IInv, NEW m \in Makers, Ask(m) PROVE IInv'
<1> USE CredentialsAssumption DEF IInv
<1>1. TypeOK'
  BY DEF Ask, TypeOK, Moves, Meet, Flight, Askers, loopVars, operatorVars, histories
<1>2. Fresh'
  BY DEF Ask, TypeOK, Fresh, Mentioned, Making, Recorded, Moves, Unused, loopVars, operatorVars
<1>3. MadeIsThere'
  BY DEF Ask, TypeOK, MadeIsThere, Making, Moves, Unused
<1>4. GoneIsGone'
  BY DEF Ask, GoneIsGone, loopVars
<1>5. OnlyDue'
  BY DEF Ask, OnlyDue, Unexpired, Active, loopVars
<1>6. RowFirst'
  BY DEF Ask, RowFirst, Recorded, operatorVars
<1>7. DirectCounts'
  BY DEF Ask, DirectCounts, Unexpired, Active, histories
<1>8. Room'
  <2>1. Cardinality(direct) <= Cardinality(Unexpired) /\ Cardinality(Unexpired) \in Nat
    <3>1. Unexpired \in SUBSET Users
      BY DEF Unexpired, Active
    <3> QED BY <3>1, FS_Subset, FS_CardinalityType DEF DirectCounts
  <2>2. Flight' \in SUBSET Askers /\ Askers' = Askers /\ direct' = direct
    BY DEF Ask, Flight, histories
  <2>3. Cardinality(Flight') <= Cardinality(Askers) /\ Cardinality(Flight') \in Nat
    BY <2>2, Counted, FS_Subset, FS_CardinalityType
  <2> QED BY <2>1, <2>2, <2>3, Counted DEF Ask, Room
<1>9. NeverForgotten'
  BY DEF Ask, NeverForgotten, Making, Recorded, Moves, operatorVars, histories
<1>10. UsableUntilExpiry'
  BY DEF Ask, UsableUntilExpiry, Unexpired, Active, histories
<1> QED BY <1>1, <1>2, <1>3, <1>4, <1>5, <1>6, <1>7, <1>8, <1>9, <1>10
(* An approval makes one without counting. *)
LEMMA ApprovedStep == ASSUME IInv, NEW m \in Makers, Approved(m) PROVE IInv'
<1> USE CredentialsAssumption DEF IInv
<1>1. TypeOK'
  BY DEF Approved, TypeOK, Moves, Meet, Flight, Askers, loopVars, operatorVars, histories
<1>2. Fresh'
  BY DEF Approved, TypeOK, Fresh, Mentioned, Making, Recorded, Moves, Unused, loopVars, operatorVars
<1>3. MadeIsThere'
  BY DEF Approved, TypeOK, MadeIsThere, Making, Moves, Unused
<1>4. GoneIsGone'
  BY DEF Approved, GoneIsGone, loopVars
<1>5. OnlyDue'
  BY DEF Approved, OnlyDue, Unexpired, Active, loopVars
<1>6. RowFirst'
  BY DEF Approved, RowFirst, Recorded, operatorVars
<1>7. DirectCounts'
  BY DEF Approved, DirectCounts, Unexpired, Active, histories
<1>8. Room'
  BY RoomKept DEF Approved, Flight, Askers, Moves, histories
<1>9. NeverForgotten'
  BY DEF Approved, NeverForgotten, Making, Recorded, Moves, operatorVars, histories
<1>10. UsableUntilExpiry'
  BY DEF Approved, UsableUntilExpiry, Unexpired, Active, histories
<1> QED BY <1>1, <1>2, <1>3, <1>4, <1>5, <1>6, <1>7, <1>8, <1>9, <1>10
(* The device has made the account. *)
LEMMA AccountMadeStep == ASSUME IInv, NEW m \in Makers, AccountMade(m) PROVE IInv'
<1> USE CredentialsAssumption DEF IInv
<1>1. TypeOK'
  <2>1. name[m] \in Users
    BY DEF AccountMade, Fresh, Making
  <2> QED BY <2>1 DEF AccountMade, TypeOK, Moves, Meet, Flight, Askers, loopVars, operatorVars, histories
<1>2. Fresh'
  BY DEF AccountMade, Fresh, Mentioned, Making, Recorded, Moves, loopVars, operatorVars
<1>3. MadeIsThere'
  BY DEF AccountMade, TypeOK, Fresh, MadeIsThere, Making, Moves
<1>4. GoneIsGone'
  BY DEF AccountMade, GoneIsGone, Fresh, Mentioned, Making, loopVars
<1>5. OnlyDue'
  BY DEF AccountMade, OnlyDue, Unexpired, Active, loopVars
<1>6. RowFirst'
  BY DEF AccountMade, RowFirst, Recorded, operatorVars
<1>7. DirectCounts'
  BY DEF AccountMade, DirectCounts, Unexpired, Active, histories
<1>8. Room'
  BY DEF AccountMade, TypeOK, Room, Flight, Askers, Moves, histories
<1>9. NeverForgotten'
  BY DEF AccountMade, NeverForgotten, Making, Recorded, Moves, operatorVars, histories
<1>10. UsableUntilExpiry'
  BY DEF AccountMade, UsableUntilExpiry, Unexpired, Active, histories
<1> QED BY <1>1, <1>2, <1>3, <1>4, <1>5, <1>6, <1>7, <1>8, <1>9, <1>10
(* The call that makes the account fails. *)
LEMMA CallFailsStep == ASSUME IInv, NEW m \in Makers, CallFails(m) PROVE IInv'
<1> USE CredentialsAssumption DEF IInv
<1>1. TypeOK'
  <2>1. name[m] \in Users
    BY DEF CallFails, Fresh, Making
  <2> QED BY <2>1 DEF CallFails, TypeOK, Moves, Meet, Flight, Askers, loopVars, operatorVars
<1>2. Fresh'
  BY DEF CallFails, TypeOK, Fresh, Mentioned, Making, Recorded, Moves, loopVars, operatorVars
<1>3. MadeIsThere'
  BY DEF CallFails, TypeOK, Fresh, MadeIsThere, Making, Moves
<1>4. GoneIsGone'
  BY DEF CallFails, GoneIsGone, Fresh, Mentioned, Making, loopVars
<1>5. OnlyDue'
  BY DEF CallFails, OnlyDue, Unexpired, Active, loopVars
<1>6. RowFirst'
  BY DEF CallFails, RowFirst, Recorded, operatorVars
<1>7. DirectCounts'
  BY DEF CallFails, DirectCounts, Unexpired, Active
<1>8. Room'
  BY RoomKept DEF CallFails, Flight, Moves
<1>9. NeverForgotten'
  BY DEF CallFails, NeverForgotten, MadeIsThere, Making, Recorded, Moves, operatorVars
<1>10. UsableUntilExpiry'
  BY DEF CallFails, UsableUntilExpiry, Unexpired, Active
<1> QED BY <1>1, <1>2, <1>3, <1>4, <1>5, <1>6, <1>7, <1>8, <1>9, <1>10
(* The account gets its row. *)
LEMMA RegisterStep == ASSUME IInv, NEW m \in Makers, Register(m) PROVE IInv'
<1> USE CredentialsAssumption DEF IInv
<1>1. TypeOK'
  <2>1. name[m] \in Users
    BY DEF Register, Fresh, Making
  <2>2. row' \in [Users -> RowType]
    <3>1. [state |-> "active", left |-> TTL, tries |-> 0] \in RowType
      BY DEF RowType
    <3> QED BY <2>1, <3>1 DEF Register, TypeOK
  <2> QED BY <2>1, <2>2 DEF Register, TypeOK, Moves, Meet, Flight, Askers, loopVars, operatorVars
<1>2. Fresh'
  BY DEF Register, TypeOK, Fresh, Mentioned, Making, Recorded, Moves, loopVars, operatorVars
<1>3. MadeIsThere'
  BY DEF Register, TypeOK, MadeIsThere, Making, Moves
<1>4. GoneIsGone'
  BY DEF Register, GoneIsGone, loopVars
<1>5. OnlyDue'
  BY DEF Register, OnlyDue, Fresh, Mentioned, Making, Unexpired, Active, loopVars
<1>6. RowFirst'
  BY DEF Register, RowFirst, Fresh, Mentioned, Making, Recorded, operatorVars
<1>7. DirectCounts'
  <2>1. name[m] \in Unexpired' /\ Unexpired \subseteq Unexpired'
    BY DEF Register, TypeOK, Fresh, Making, Unexpired, Active
  <2> QED BY <2>1 DEF Register, DirectCounts
<1>8. Room'
  <2>1. CASE Home[m] = Web
    BY <2>1, RoomKept DEF Register, Moves, Flight, Askers
  <2>2. CASE Home[m] # Web
    <3>1. /\ direct' = direct \cup {name[m]} /\ Flight' = Flight \ {m}
          /\ m \in Flight /\ Askers' = Askers
      BY <2>2 DEF Register, Moves, TypeOK, Flight, Askers
    <3>2. Cardinality(direct') <= Cardinality(direct) + 1 /\ Cardinality(direct') \in Nat
      <4>1. IsFiniteSet(direct) /\ Cardinality(direct) \in Nat
        BY Counted
      <4>2. \/ Cardinality(direct') = Cardinality(direct)
            \/ Cardinality(direct') = Cardinality(direct) + 1
        BY <3>1, <4>1, FS_AddElement, Zenon
      <4> QED BY <4>1, <4>2
    <3>3. Cardinality(Flight') = Cardinality(Flight) - 1
      BY <3>1, Counted, FS_RemoveElement
    <3> QED BY <3>1, <3>2, <3>3, Counted DEF Room
  <2> QED BY <2>1, <2>2
<1>9. NeverForgotten'
  BY DEF Register, TypeOK, NeverForgotten, Making, Recorded, Moves, operatorVars
<1>10. UsableUntilExpiry'
  BY DEF Register, UsableUntilExpiry, MadeIsThere, Making, Unexpired, Active
<1> QED BY <1>1, <1>2, <1>3, <1>4, <1>5, <1>6, <1>7, <1>8, <1>9, <1>10
(* The row cannot be written. *)
LEMMA RegisterFailsStep == ASSUME IInv, NEW m \in Makers, RegisterFails(m) PROVE IInv'
<1> USE CredentialsAssumption DEF IInv
<1>1. TypeOK'
  <2>1. name[m] \in Users
    BY DEF RegisterFails, Fresh, Making
  <2> QED BY <2>1 DEF RegisterFails, TypeOK, Moves, Meet, Flight, Askers, loopVars, operatorVars
<1>2. Fresh'
  BY DEF RegisterFails, TypeOK, Fresh, Mentioned, Making, Recorded, Moves, loopVars, operatorVars
<1>3. MadeIsThere'
  BY DEF RegisterFails, TypeOK, MadeIsThere, Making, Moves
<1>4. GoneIsGone'
  BY DEF RegisterFails, GoneIsGone, loopVars
<1>5. OnlyDue'
  BY DEF RegisterFails, OnlyDue, Unexpired, Active, loopVars
<1>6. RowFirst'
  BY DEF RegisterFails, RowFirst, Recorded, operatorVars
<1>7. DirectCounts'
  BY DEF RegisterFails, DirectCounts, Unexpired, Active
<1>8. Room'
  BY RoomKept DEF RegisterFails, Flight, Moves
<1>9. NeverForgotten'
  BY DEF RegisterFails, NeverForgotten, Making, Recorded, Moves, operatorVars
<1>10. UsableUntilExpiry'
  BY DEF RegisterFails, UsableUntilExpiry, Unexpired, Active
<1> QED BY <1>1, <1>2, <1>3, <1>4, <1>5, <1>6, <1>7, <1>8, <1>9, <1>10
(* An operator drops one account. *)
LEMMA DropOneStep == ASSUME IInv, NEW o \in Operators, DropOne(o) PROVE IInv'
<1> USE CredentialsAssumption DEF IInv
<1>1. TypeOK'
  <2>1. NoRow \in RowType
    BY DEF NoRow, RowType
  <2>2. PICK u \in Recorded : DeleteRow(u) /\ taken' = [taken EXCEPT ![o] = u]
    BY DEF DropOne
  <2>3. u \in Users
    BY DEF Recorded
  <2>4. row' \in [Users -> RowType] /\ taken' \in [Operators -> Users \cup {NoUser}]
    BY <2>1, <2>2, <2>3 DEF DeleteRow, TypeOK
  <2> QED BY <2>2, <2>4 DEF DropOne, DeleteRow, TypeOK, loopVars, makerVars
<1>2. Fresh'
  BY DEF DropOne, Fresh, Mentioned, Making, Recorded, DeleteRow, loopVars, makerVars
<1>3. MadeIsThere'
  BY DEF DropOne, MadeIsThere, Making, makerVars
<1>4. GoneIsGone'
  BY DEF DropOne, GoneIsGone, loopVars
<1>5. OnlyDue'
  BY DEF DropOne, OnlyDue, Unexpired, Active, NoRow, DeleteRow, loopVars
<1>6. RowFirst'
  BY DEF DropOne, TypeOK, RowFirst, Recorded, NoRow, DeleteRow
<1>7. DirectCounts'
  BY DEF DropOne, DirectCounts, Unexpired, Active, DeleteRow
<1>8. Room'
  BY RoomKept DEF DropOne, Flight, DeleteRow, makerVars
<1>9. NeverForgotten'
  BY DEF DropOne, TypeOK, NeverForgotten, Making, Recorded, Idle, DeleteRow, makerVars
<1>10. UsableUntilExpiry'
  BY DEF DropOne, TypeOK, UsableUntilExpiry, Unexpired, Active, NoRow, DeleteRow
<1> QED BY <1>1, <1>2, <1>3, <1>4, <1>5, <1>6, <1>7, <1>8, <1>9, <1>10
(* An operator drops what expired. *)
LEMMA DropExpiredStep == ASSUME IInv, NEW o \in Operators, DropExpired(o) PROVE IInv'
<1> USE CredentialsAssumption DEF IInv
<1>1. TypeOK'
  <2>1. Expired \subseteq Users
    BY DEF Expired, Active
  <2> QED BY <2>1 DEF DropExpired, TypeOK, loopVars, makerVars, histories
<1>2. Fresh'
  <2>1. \A u \in Users : Mentioned(u)' => Mentioned(u)
    BY DEF DropExpired, Mentioned, Recorded, Active, Expired, loopVars
  <2>2. Making' \subseteq Making /\ \A m \in Making' : name'[m] = name[m]
    BY DEF DropExpired, Making, makerVars
  <2> QED BY <2>1, <2>2, FreshKept
<1>3. MadeIsThere'
  BY DEF DropExpired, MadeIsThere, Making, makerVars
<1>4. GoneIsGone'
  BY DEF DropExpired, GoneIsGone, loopVars
<1>5. OnlyDue'
  BY DEF DropExpired, OnlyDue, Unexpired, Active, loopVars
<1>6. RowFirst'
  BY DEF DropExpired, RowFirst, Recorded
<1>7. DirectCounts'
  BY DEF DropExpired, DirectCounts, Unexpired, Active, histories
<1>8. Room'
  BY DEF DropExpired, Room, Flight, makerVars, histories
<1>9. NeverForgotten'
  BY DEF DropExpired, NeverForgotten, Making, Recorded, makerVars, histories
<1>10. UsableUntilExpiry'
  BY DEF DropExpired, UsableUntilExpiry, Unexpired, Active, histories
<1> QED BY <1>1, <1>2, <1>3, <1>4, <1>5, <1>6, <1>7, <1>8, <1>9, <1>10
(* The next row goes, and the device is asked. *)
LEMMA DropNextStep == ASSUME IInv, NEW o \in Operators, DropNext(o) PROVE IInv'
<1> USE CredentialsAssumption DEF IInv
<1>1. TypeOK'
  BY DEF DropNext, TypeOK, RowType, NoRow, DeleteRow, loopVars, makerVars
<1>2. Fresh'
  BY DEF DropNext, Fresh, Mentioned, Making, Recorded, DeleteRow, loopVars, makerVars
<1>3. MadeIsThere'
  BY DEF DropNext, MadeIsThere, Making, makerVars
<1>4. GoneIsGone'
  BY DEF DropNext, GoneIsGone, loopVars
<1>5. OnlyDue'
  BY DEF DropNext, OnlyDue, Unexpired, Active, NoRow, DeleteRow, loopVars
<1>6. RowFirst'
  BY DEF DropNext, TypeOK, RowFirst, Recorded, NoRow, DeleteRow
<1>7. DirectCounts'
  BY DEF DropNext, DirectCounts, Unexpired, Active, DeleteRow
<1>8. Room'
  BY RoomKept DEF DropNext, Flight, DeleteRow, makerVars
<1>9. NeverForgotten'
  BY DEF DropNext, TypeOK, NeverForgotten, Making, Recorded, DeleteRow, makerVars
<1>10. UsableUntilExpiry'
  BY DEF DropNext, TypeOK, UsableUntilExpiry, Unexpired, Active, NoRow, DeleteRow
<1> QED BY <1>1, <1>2, <1>3, <1>4, <1>5, <1>6, <1>7, <1>8, <1>9, <1>10
(* The operator is done. *)
LEMMA DropEndsStep == ASSUME IInv, NEW o \in Operators, DropEnds(o) PROVE IInv'
<1> USE CredentialsAssumption DEF IInv
<1>1. TypeOK'
  BY DEF DropEnds, TypeOK, DeviceRemoves, loopVars, makerVars
<1>2. Fresh'
  BY DEF DropEnds, Fresh, Mentioned, Making, Recorded, loopVars, makerVars
<1>3. MadeIsThere'
  BY DEF DropEnds, Fresh, Mentioned, MadeIsThere, Making, DeviceRemoves, makerVars
<1>4. GoneIsGone'
  BY DEF DropEnds, GoneIsGone, DeviceRemoves, loopVars
<1>5. OnlyDue'
  BY DEF DropEnds, OnlyDue, Unexpired, Active, loopVars
<1>6. RowFirst'
  BY DEF DropEnds, RowFirst, Recorded
<1>7. DirectCounts'
  BY DEF DropEnds, DirectCounts, Unexpired, Active
<1>8. Room'
  BY DEF DropEnds, Room, Flight, makerVars
<1>9. NeverForgotten'
  BY DEF DropEnds, NeverForgotten, Making, Recorded, DeviceRemoves, makerVars
<1>10. UsableUntilExpiry'
  <2>1. taken[o] \notin Unexpired
    BY DEF RowFirst, Recorded, Unexpired, Active
  <2> QED BY <2>1 DEF DropEnds, DeviceRemoves, UsableUntilExpiry, Unexpired, Active
<1> QED BY <1>1, <1>2, <1>3, <1>4, <1>5, <1>6, <1>7, <1>8, <1>9, <1>10
(* A server starts and reads the rows. *)
LEMMA StartStep == ASSUME IInv, NEW s \in Servers, Start(s) PROVE IInv'
<1> USE CredentialsAssumption DEF IInv
<1>1. TypeOK'
  <2>1. Attempts(Expired) \subseteq JobType
    <3> SUFFICES ASSUME NEW u \in Expired
                 PROVE  [user |-> u, spent |-> FALSE] \in JobType
      BY DEF Attempts
    <3>1. u \in Users /\ (FALSE) \in BOOLEAN
      BY DEF Expired, Active
    <3> QED BY <3>1 DEF JobType
  <2>2. NoAnswer \in AnswerType
    BY DEF AnswerType
  <2> QED BY <2>1, <2>2 DEF Start, Loop, TypeOK, makerVars, operatorVars, histories
<1>2. Fresh'
  <2>1. \A u \in Users : Mentioned(u)' => Mentioned(u)
    BY DEF Start, TypeOK, Mentioned, Recorded, Active, NoAnswer, Loop, Attempts, Expired, operatorVars
  <2>2. Making' \subseteq Making /\ \A m \in Making' : name'[m] = name[m]
    BY DEF Start, Making, makerVars
  <2> QED BY <2>1, <2>2, FreshKept
<1>3. MadeIsThere'
  BY DEF Start, MadeIsThere, Making, makerVars
<1>4. GoneIsGone'
  BY DEF Start, TypeOK, GoneIsGone, NoAnswer, Loop
<1>5. OnlyDue'
  BY DEF Start, TypeOK, OnlyDue, Unexpired, Active, Loop, Attempts, Expired
<1>6. RowFirst'
  BY DEF Start, RowFirst, Recorded, operatorVars
<1>7. DirectCounts'
  BY DEF Start, DirectCounts, Unexpired, Active, histories
<1>8. Room'
  BY DEF Start, Room, Flight, makerVars, histories
<1>9. NeverForgotten'
  BY DEF Start, NeverForgotten, Making, Recorded, makerVars, operatorVars, histories
<1>10. UsableUntilExpiry'
  BY DEF Start, UsableUntilExpiry, Unexpired, Active, histories
<1> QED BY <1>1, <1>2, <1>3, <1>4, <1>5, <1>6, <1>7, <1>8, <1>9, <1>10
(* The loop reads what expired. *)
LEMMA BeginPassStep == ASSUME IInv, NEW s \in Servers, BeginPass(s) PROVE IInv'
<1> USE CredentialsAssumption DEF IInv
<1>1. TypeOK'
  <2>1. Jobs(Expired) \subseteq JobType
    <3> SUFFICES ASSUME NEW u \in Expired
                 PROVE  [user |-> u, spent |-> row[u].tries >= MaxAttempts] \in JobType
      BY DEF Jobs
    <3>1. u \in Users /\ (row[u].tries >= MaxAttempts) \in BOOLEAN
      BY DEF Expired, Active
    <3> QED BY <3>1 DEF JobType
  <2>2. NoAnswer \in AnswerType
    BY DEF AnswerType
  <2> QED BY <2>1, <2>2 DEF BeginPass, Loop, TypeOK, makerVars, operatorVars, histories
<1>2. Fresh'
  <2>1. \A u \in Users : Mentioned(u)' => Mentioned(u)
    BY DEF BeginPass, Mentioned, Recorded, Active, NoAnswer, Loop, Jobs, Expired, operatorVars
  <2>2. Making' \subseteq Making /\ \A m \in Making' : name'[m] = name[m]
    BY DEF BeginPass, Making, makerVars
  <2> QED BY <2>1, <2>2, FreshKept
<1>3. MadeIsThere'
  BY DEF BeginPass, MadeIsThere, Making, makerVars
<1>4. GoneIsGone'
  BY DEF BeginPass, GoneIsGone, NoAnswer, Loop
<1>5. OnlyDue'
  BY DEF BeginPass, TypeOK, OnlyDue, Unexpired, Active, Loop, Jobs, Expired
<1>6. RowFirst'
  BY DEF BeginPass, RowFirst, Recorded, operatorVars
<1>7. DirectCounts'
  BY DEF BeginPass, DirectCounts, Unexpired, Active, histories
<1>8. Room'
  BY DEF BeginPass, Room, Flight, makerVars, histories
<1>9. NeverForgotten'
  BY DEF BeginPass, NeverForgotten, Making, Recorded, makerVars, operatorVars, histories
<1>10. UsableUntilExpiry'
  BY DEF BeginPass, UsableUntilExpiry, Unexpired, Active, histories
<1> QED BY <1>1, <1>2, <1>3, <1>4, <1>5, <1>6, <1>7, <1>8, <1>9, <1>10
(* A row that failed too often is given up. *)
LEMMA GiveUpStep == ASSUME IInv, NEW s \in Servers, GiveUp(s) PROVE IInv'
<1> USE CredentialsAssumption DEF IInv
<1>1. TypeOK'
  BY DEF GiveUp, TypeOK, RowType, JobType, AnswerType, Loop, makerVars, operatorVars, histories
<1>2. Fresh'
  BY DEF GiveUp, Fresh, Mentioned, Making, Recorded, Loop, makerVars, operatorVars
<1>3. MadeIsThere'
  BY DEF GiveUp, MadeIsThere, Making, makerVars
<1>4. GoneIsGone'
  BY DEF GiveUp, GoneIsGone, Loop
<1>5. OnlyDue'
  BY DEF GiveUp, OnlyDue, Unexpired, Active, Loop
<1>6. RowFirst'
  BY DEF GiveUp, RowFirst, Recorded, operatorVars
<1>7. DirectCounts'
  BY DEF GiveUp, DirectCounts, OnlyDue, Unexpired, Active, histories
<1>8. Room'
  BY DEF GiveUp, Room, Flight, makerVars, histories
<1>9. NeverForgotten'
  BY DEF GiveUp, NeverForgotten, Making, Recorded, makerVars, operatorVars, histories
<1>10. UsableUntilExpiry'
  BY DEF GiveUp, UsableUntilExpiry, Unexpired, Active, histories
<1> QED BY <1>1, <1>2, <1>3, <1>4, <1>5, <1>6, <1>7, <1>8, <1>9, <1>10
(* The device is asked to remove an account. *)
LEMMA RemoveStep == ASSUME IInv, NEW s \in Servers, Remove(s) PROVE IInv'
<1> USE CredentialsAssumption DEF IInv
<1>1. TypeOK'
  BY DEF Remove, TypeOK, JobType, AnswerType, Loop, DeviceRemoves, DeviceRefuses, makerVars, operatorVars
<1>2. Fresh'
  BY DEF Remove, Fresh, Mentioned, Making, Recorded, Loop, makerVars, operatorVars
<1>3. MadeIsThere'
  BY DEF Remove, Fresh, Mentioned, MadeIsThere, Making, DeviceRemoves, DeviceRefuses, makerVars
<1>4. GoneIsGone'
  BY DEF Remove, GoneIsGone, Loop, DeviceRemoves, DeviceRefuses
<1>5. OnlyDue'
  BY DEF Remove, OnlyDue, Unexpired, Active, Loop
<1>6. RowFirst'
  BY DEF Remove, RowFirst, Recorded, operatorVars
<1>7. DirectCounts'
  BY DEF Remove, DirectCounts, Unexpired, Active
<1>8. Room'
  BY DEF Remove, Room, Flight, makerVars
<1>9. NeverForgotten'
  BY DEF Remove, NeverForgotten, Making, Recorded, DeviceRemoves, DeviceRefuses, makerVars, operatorVars
<1>10. UsableUntilExpiry'
  BY DEF Remove, UsableUntilExpiry, OnlyDue, Unexpired, Active, DeviceRemoves, DeviceRefuses
<1> QED BY <1>1, <1>2, <1>3, <1>4, <1>5, <1>6, <1>7, <1>8, <1>9, <1>10
(* A removed account loses its row. *)
LEMMA SettleStep == ASSUME IInv, NEW s \in Servers, Settle(s) PROVE IInv'
<1> USE CredentialsAssumption DEF IInv
<1>1. TypeOK'
  BY DEF Settle, TypeOK, RowType, AnswerType, NoRow, Loop, DeleteRow, makerVars, operatorVars
<1>2. Fresh'
  <2>1. \A u \in Users : Mentioned(u)' => Mentioned(u)
    BY DEF Settle, Mentioned, Recorded, NoAnswer, Loop, DeleteRow, operatorVars
  <2>2. Making' \subseteq Making /\ \A m \in Making' : name'[m] = name[m]
    BY DEF Settle, Making, makerVars
  <2> QED BY <2>1, <2>2, FreshKept
<1>3. MadeIsThere'
  BY DEF Settle, MadeIsThere, Making, makerVars
<1>4. GoneIsGone'
  BY DEF Settle, GoneIsGone, NoAnswer, Loop
<1>5. OnlyDue'
  BY DEF Settle, OnlyDue, Unexpired, Active, NoRow, Loop, DeleteRow
<1>6. RowFirst'
  BY DEF Settle, RowFirst, Recorded, NoRow, DeleteRow, operatorVars
<1>7. DirectCounts'
  BY DEF Settle, DirectCounts, Unexpired, Active, DeleteRow
<1>8. Room'
  BY RoomKept DEF Settle, Flight, DeleteRow, makerVars
<1>9. NeverForgotten'
  BY DEF Settle, NeverForgotten, GoneIsGone, Making, Recorded, DeleteRow, makerVars, operatorVars
<1>10. UsableUntilExpiry'
  BY DEF Settle, TypeOK, UsableUntilExpiry, Unexpired, Active, NoRow, DeleteRow
<1> QED BY <1>1, <1>2, <1>3, <1>4, <1>5, <1>6, <1>7, <1>8, <1>9, <1>10
(* A failed removal is counted. *)
LEMMA FailureStep == ASSUME IInv, NEW s \in Servers, Failure(s) PROVE IInv'
<1> USE CredentialsAssumption DEF IInv
<1>1. TypeOK'
  BY DEF Failure, TypeOK, RowType, AnswerType, NoAnswer, Loop, makerVars, operatorVars, histories
<1>2. Fresh'
  <2>1. \A u \in Users : Mentioned(u)' => Mentioned(u)
    BY DEF Failure, Mentioned, Recorded, NoAnswer, Loop, operatorVars
  <2>2. Making' \subseteq Making /\ \A m \in Making' : name'[m] = name[m]
    BY DEF Failure, Making, makerVars
  <2> QED BY <2>1, <2>2, FreshKept
<1>3. MadeIsThere'
  BY DEF Failure, MadeIsThere, Making, makerVars
<1>4. GoneIsGone'
  BY DEF Failure, GoneIsGone, NoAnswer, Loop
<1>5. OnlyDue'
  BY DEF Failure, OnlyDue, Unexpired, Active, Loop
<1>6. RowFirst'
  BY DEF Failure, RowFirst, Recorded, operatorVars
<1>7. DirectCounts'
  BY DEF Failure, DirectCounts, Unexpired, Active, histories
<1>8. Room'
  BY DEF Failure, Room, Flight, makerVars, histories
<1>9. NeverForgotten'
  BY DEF Failure, NeverForgotten, Making, Recorded, makerVars, operatorVars, histories
<1>10. UsableUntilExpiry'
  BY DEF Failure, UsableUntilExpiry, Unexpired, Active, histories
<1> QED BY <1>1, <1>2, <1>3, <1>4, <1>5, <1>6, <1>7, <1>8, <1>9, <1>10
(* A pass of the loop ends. *)
LEMMA PassEndsStep == ASSUME IInv, NEW s \in Servers, PassEnds(s) PROVE IInv'
<1> USE CredentialsAssumption DEF IInv
<1>1. TypeOK'
  BY DEF PassEnds, TypeOK, Loop, makerVars, operatorVars, histories
<1>2. Fresh'
  BY DEF PassEnds, Fresh, Mentioned, Making, Recorded, Loop, makerVars, operatorVars
<1>3. MadeIsThere'
  BY DEF PassEnds, MadeIsThere, Making, makerVars
<1>4. GoneIsGone'
  BY DEF PassEnds, GoneIsGone, Loop
<1>5. OnlyDue'
  BY DEF PassEnds, OnlyDue, Unexpired, Active, Loop
<1>6. RowFirst'
  BY DEF PassEnds, RowFirst, Recorded, operatorVars
<1>7. DirectCounts'
  BY DEF PassEnds, DirectCounts, Unexpired, Active, histories
<1>8. Room'
  BY DEF PassEnds, Room, Flight, makerVars, histories
<1>9. NeverForgotten'
  BY DEF PassEnds, NeverForgotten, Making, Recorded, makerVars, operatorVars, histories
<1>10. UsableUntilExpiry'
  BY DEF PassEnds, UsableUntilExpiry, Unexpired, Active, histories
<1> QED BY <1>1, <1>2, <1>3, <1>4, <1>5, <1>6, <1>7, <1>8, <1>9, <1>10
(* A failing statement ends the loop. *)
LEMMA LoopFailsStep == ASSUME IInv, NEW s \in Servers, LoopFails(s) PROVE IInv'
<1> USE CredentialsAssumption DEF IInv
<1>1. TypeOK'
  BY DEF LoopFails, TypeOK, AnswerType, Loop, makerVars, operatorVars, histories
<1>2. Fresh'
  <2>1. \A u \in Users : Mentioned(u)' => Mentioned(u)
    BY DEF LoopFails, Mentioned, Recorded, NoAnswer, Loop, operatorVars
  <2>2. Making' \subseteq Making /\ \A m \in Making' : name'[m] = name[m]
    BY DEF LoopFails, Making, makerVars
  <2> QED BY <2>1, <2>2, FreshKept
<1>3. MadeIsThere'
  BY DEF LoopFails, MadeIsThere, Making, makerVars
<1>4. GoneIsGone'
  BY DEF LoopFails, GoneIsGone, NoAnswer, Loop
<1>5. OnlyDue'
  BY DEF LoopFails, OnlyDue, Unexpired, Active, Loop
<1>6. RowFirst'
  BY DEF LoopFails, RowFirst, Recorded, operatorVars
<1>7. DirectCounts'
  BY DEF LoopFails, DirectCounts, Unexpired, Active, histories
<1>8. Room'
  BY DEF LoopFails, Room, Flight, makerVars, histories
<1>9. NeverForgotten'
  BY DEF LoopFails, NeverForgotten, Making, Recorded, makerVars, operatorVars, histories
<1>10. UsableUntilExpiry'
  BY DEF LoopFails, UsableUntilExpiry, Unexpired, Active, histories
<1> QED BY <1>1, <1>2, <1>3, <1>4, <1>5, <1>6, <1>7, <1>8, <1>9, <1>10
(* A process dies. *)
LEMMA CrashStep == ASSUME IInv, NEW p \in Servers \cup {Web}, Crash(p) PROVE IInv'
<1> USE CredentialsAssumption DEF IInv
<1>1. TypeOK'
  <2>1. /\ phase' \in [Servers -> {"down", "reconcile", "sleep", "pass", "ended", "sweep"}]
        /\ todo' \in [Servers -> SUBSET JobType] /\ at' \in [Servers -> AnswerType]
    BY DEF Crash, Loop, loopVars, TypeOK, AnswerType
  <2>2. /\ step' \in [Makers -> {"idle", "calling", "made"}]
        /\ name' \in [Makers -> Users \cup {NoUser}] /\ met' \subseteq Makers
    BY DEF Crash, HandlersEnd, Meet, Flight, Askers, TypeOK
  <2>3. /\ drops' \in [Operators -> SUBSET Users]
        /\ taken' \in [Operators -> Users \cup {NoUser}]
    BY DEF Crash, HandlersEnd, TypeOK
  <2>4. lost' \subseteq Users
    BY DEF Crash, HandlersEnd, TypeOK, Fresh, Making
  <2> QED BY <2>1, <2>2, <2>3, <2>4 DEF Crash, TypeOK
<1>2. Fresh'
  <2>1. \A u \in Users : Mentioned(u)' => Mentioned(u)
    BY DEF Crash, TypeOK, Mentioned, Recorded, NoAnswer, HandlersEnd, Loop, loopVars
  <2>2. Making' \subseteq Making /\ \A m \in Making' : name'[m] = name[m]
    BY DEF Crash, Making, HandlersEnd
  <2> QED BY <2>1, <2>2, FreshKept
<1>3. MadeIsThere'
  BY DEF Crash, MadeIsThere, Making, HandlersEnd
<1>4. GoneIsGone'
  <2>1. \A s \in Servers : at'[s] = at[s] \/ at'[s] = NoAnswer
    BY DEF Crash, Loop, loopVars, TypeOK
  <2> QED BY <2>1 DEF Crash, GoneIsGone, NoAnswer
<1>5. OnlyDue'
  BY DEF Crash, TypeOK, OnlyDue, Unexpired, Active, Loop, loopVars
<1>6. RowFirst'
  BY DEF Crash, RowFirst, Recorded, HandlersEnd
<1>7. DirectCounts'
  BY DEF Crash, DirectCounts, Unexpired, Active
<1>8. Room'
  BY RoomKept DEF Crash, Flight, Askers, HandlersEnd
<1>9. NeverForgotten'
  <2> SUFFICES ASSUME NEW u \in accounts
               PROVE  \/ u \in Recorded \/ u \in lost'
                      \/ \E m \in Making' : u = name'[m]
                      \/ \E o \in Operators : u = taken'[o]
    BY DEF Crash, NeverForgotten, Recorded
  <2>1. CASE u \in Recorded \cup lost
    BY <2>1 DEF Crash, HandlersEnd
  <2>2. CASE \E m \in Making : u = name[m]
    <3>1. PICK m \in Making : u = name[m]
      BY <2>2
    <3>2. CASE Home[m] = p
      BY <3>1, <3>2 DEF Crash, HandlersEnd, MadeIsThere, Making
    <3>3. CASE Home[m] # p
      BY <3>1, <3>3 DEF Crash, HandlersEnd, Making
    <3> QED BY <3>2, <3>3
  <2>3. CASE \E o \in Operators : u = taken[o]
    <3>1. PICK o \in Operators : u = taken[o]
      BY <2>3
    <3>2. CASE Home[o] = p
      BY <3>1, <3>2 DEF Crash, HandlersEnd
    <3>3. CASE Home[o] # p
      BY <3>1, <3>3 DEF Crash, HandlersEnd, TypeOK
    <3> QED BY <3>2, <3>3
  <2> QED BY <2>1, <2>2, <2>3 DEF NeverForgotten
<1>10. UsableUntilExpiry'
  BY DEF Crash, UsableUntilExpiry, Unexpired, Active
<1> QED BY <1>1, <1>2, <1>3, <1>4, <1>5, <1>6, <1>7, <1>8, <1>9, <1>10
(* A server reads all rows as it stops. *)
LEMMA ShutdownStep == ASSUME IInv, NEW s \in Servers, Shutdown(s) PROVE IInv'
<1> USE CredentialsAssumption DEF IInv
<1>1. TypeOK'
  <2>1. Attempts(Active) \subseteq JobType
    <3> SUFFICES ASSUME NEW u \in Active
                 PROVE  [user |-> u, spent |-> FALSE] \in JobType
      BY DEF Attempts
    <3>1. u \in Users /\ (FALSE) \in BOOLEAN
      BY DEF Active
    <3> QED BY <3>1 DEF JobType
  <2>2. /\ step' \in [Makers -> {"idle", "calling", "made"}]
        /\ name' \in [Makers -> Users \cup {NoUser}] /\ met' \subseteq Makers
    BY DEF Shutdown, HandlersEnd, Meet, Flight, Askers, TypeOK
  <2>3. /\ drops' \in [Operators -> SUBSET Users]
        /\ taken' \in [Operators -> Users \cup {NoUser}]
    BY DEF Shutdown, HandlersEnd, TypeOK
  <2>4. lost' \subseteq Users
    BY DEF Shutdown, HandlersEnd, TypeOK, Fresh, Making
  <2>5. NoAnswer \in AnswerType
    BY DEF AnswerType
  <2> QED BY <2>1, <2>2, <2>3, <2>4, <2>5 DEF Shutdown, Loop, TypeOK
<1>2. Fresh'
  <2>1. \A u \in Users : Mentioned(u)' => Mentioned(u)
    BY DEF Shutdown, Mentioned, Recorded, Active, NoAnswer, HandlersEnd, Loop, Attempts
  <2>2. Making' \subseteq Making /\ \A m \in Making' : name'[m] = name[m]
    BY DEF Shutdown, Making, HandlersEnd
  <2> QED BY <2>1, <2>2, FreshKept
<1>3. MadeIsThere'
  BY DEF Shutdown, MadeIsThere, Making, HandlersEnd
<1>4. GoneIsGone'
  BY DEF Shutdown, GoneIsGone, NoAnswer, Loop
<1>5. OnlyDue'
  BY DEF Shutdown, TypeOK, OnlyDue, Unexpired, Active, Loop
<1>6. RowFirst'
  BY DEF Shutdown, RowFirst, Recorded, HandlersEnd
<1>7. DirectCounts'
  BY DEF Shutdown, DirectCounts, Unexpired, Active
<1>8. Room'
  BY RoomKept DEF Shutdown, Flight, Askers, HandlersEnd
<1>9. NeverForgotten'
  <2> SUFFICES ASSUME NEW u \in accounts
               PROVE  \/ u \in Recorded \/ u \in lost'
                      \/ \E m \in Making' : u = name'[m]
                      \/ \E o \in Operators : u = taken'[o]
    BY DEF Shutdown, NeverForgotten, Recorded
  <2>1. CASE u \in Recorded \cup lost
    BY <2>1 DEF Shutdown, HandlersEnd
  <2>2. CASE \E m \in Making : u = name[m]
    <3>1. PICK m \in Making : u = name[m]
      BY <2>2
    <3>2. CASE Home[m] = s
      BY <3>1, <3>2 DEF Shutdown, HandlersEnd, MadeIsThere, Making
    <3>3. CASE Home[m] # s
      BY <3>1, <3>3 DEF Shutdown, HandlersEnd, Making
    <3> QED BY <3>2, <3>3
  <2>3. CASE \E o \in Operators : u = taken[o]
    <3>1. PICK o \in Operators : u = taken[o]
      BY <2>3
    <3>2. CASE Home[o] = s
      BY <3>1, <3>2 DEF Shutdown, HandlersEnd
    <3>3. CASE Home[o] # s
      BY <3>1, <3>3 DEF Shutdown, HandlersEnd, TypeOK
    <3> QED BY <3>2, <3>3
  <2> QED BY <2>1, <2>2, <2>3 DEF NeverForgotten
<1>10. UsableUntilExpiry'
  BY DEF Shutdown, UsableUntilExpiry, Unexpired, Active
<1> QED BY <1>1, <1>2, <1>3, <1>4, <1>5, <1>6, <1>7, <1>8, <1>9, <1>10
(* It removes one account. *)
LEMMA SweepStep == ASSUME IInv, NEW s \in Servers, Sweep(s) PROVE IInv'
<1> USE CredentialsAssumption DEF IInv
<1>1. TypeOK'
  BY DEF Sweep, TypeOK, JobType, AnswerType, Loop, DeviceRemoves, DeviceRefuses, makerVars, operatorVars
<1>2. Fresh'
  <2>1. \A u \in Users : Mentioned(u)' => Mentioned(u)
    BY DEF Sweep, Mentioned, Recorded, NoAnswer, Loop, operatorVars
  <2>2. Making' \subseteq Making /\ \A m \in Making' : name'[m] = name[m]
    BY DEF Sweep, Making, makerVars
  <2> QED BY <2>1, <2>2, FreshKept
<1>3. MadeIsThere'
  BY DEF Sweep, Fresh, Mentioned, MadeIsThere, Making, DeviceRemoves, DeviceRefuses, makerVars
<1>4. GoneIsGone'
  BY DEF Sweep, GoneIsGone, NoAnswer, Loop, DeviceRemoves, DeviceRefuses
<1>5. OnlyDue'
  BY DEF Sweep, OnlyDue, Unexpired, Active, Loop
<1>6. RowFirst'
  BY DEF Sweep, RowFirst, Recorded, operatorVars
<1>7. DirectCounts'
  BY DEF Sweep, DirectCounts, Unexpired, Active
<1>8. Room'
  BY DEF Sweep, Room, Flight, makerVars
<1>9. NeverForgotten'
  BY DEF Sweep, NeverForgotten, Making, Recorded, DeviceRemoves, DeviceRefuses, makerVars, operatorVars
<1>10. UsableUntilExpiry'
  BY DEF Sweep, UsableUntilExpiry, Unexpired, Active, DeviceRemoves, DeviceRefuses
<1> QED BY <1>1, <1>2, <1>3, <1>4, <1>5, <1>6, <1>7, <1>8, <1>9, <1>10
(* It is gone. *)
LEMMA SweepEndsStep == ASSUME IInv, NEW s \in Servers, SweepEnds(s) PROVE IInv'
<1> USE CredentialsAssumption DEF IInv
<1>1. TypeOK'
  BY DEF SweepEnds, TypeOK, AnswerType, Loop, makerVars, operatorVars, histories
<1>2. Fresh'
  <2>1. \A u \in Users : Mentioned(u)' => Mentioned(u)
    BY DEF SweepEnds, Mentioned, Recorded, NoAnswer, Loop, operatorVars
  <2>2. Making' \subseteq Making /\ \A m \in Making' : name'[m] = name[m]
    BY DEF SweepEnds, Making, makerVars
  <2> QED BY <2>1, <2>2, FreshKept
<1>3. MadeIsThere'
  BY DEF SweepEnds, MadeIsThere, Making, makerVars
<1>4. GoneIsGone'
  BY DEF SweepEnds, GoneIsGone, NoAnswer, Loop
<1>5. OnlyDue'
  BY DEF SweepEnds, OnlyDue, Unexpired, Active, Loop
<1>6. RowFirst'
  BY DEF SweepEnds, RowFirst, Recorded, operatorVars
<1>7. DirectCounts'
  BY DEF SweepEnds, DirectCounts, Unexpired, Active, histories
<1>8. Room'
  BY DEF SweepEnds, Room, Flight, makerVars, histories
<1>9. NeverForgotten'
  BY DEF SweepEnds, NeverForgotten, Making, Recorded, makerVars, operatorVars, histories
<1>10. UsableUntilExpiry'
  BY DEF SweepEnds, UsableUntilExpiry, Unexpired, Active, histories
<1> QED BY <1>1, <1>2, <1>3, <1>4, <1>5, <1>6, <1>7, <1>8, <1>9, <1>10
(* Time passes. *)
LEMMA TickStep == ASSUME IInv, Tick PROVE IInv'
<1> USE CredentialsAssumption DEF IInv
<1>1. TypeOK'
  <2>1. ASSUME NEW u \in Users PROVE row'[u] \in RowType
    <3>1. CASE row[u].left = 0
      BY <3>1 DEF Tick, TypeOK
    <3>2. CASE row[u].left # 0
      <4>1. row'[u] = [row[u] EXCEPT !.left = @ - 1]
        BY <3>2 DEF Tick
      <4>2. row[u] \in RowType
        BY DEF TypeOK
      <4>3. row[u].left - 1 \in 0..TTL
        BY <3>2, <4>2 DEF RowType
      <4> QED BY <4>1, <4>2, <4>3 DEF RowType
    <3> QED BY <3>1, <3>2
  <2>2. row' \in [Users -> RowType]
    BY <2>1 DEF Tick
  <2> QED BY <2>2 DEF Tick, TypeOK, loopVars, makerVars, operatorVars
<1>2. Fresh'
  BY DEF Tick, Fresh, Mentioned, Making, Recorded, loopVars, makerVars, operatorVars
<1>3. MadeIsThere'
  BY DEF Tick, MadeIsThere, Making, makerVars
<1>4. GoneIsGone'
  BY DEF Tick, GoneIsGone, loopVars
<1>5. OnlyDue'
  <2>1. \A u \in Unexpired' : u \in Unexpired /\ row[u].left > 1
    BY DEF Tick, TypeOK, RowType, Unexpired, Active
  <2> QED BY <2>1 DEF Tick, OnlyDue, loopVars
<1>6. RowFirst'
  BY DEF Tick, RowFirst, Recorded, operatorVars
<1>7. DirectCounts'
  <2>1. \A u \in Unexpired : row[u].left > 1 => u \in Unexpired'
    BY DEF Tick, TypeOK, RowType, Unexpired, Active
  <2> QED BY <2>1 DEF Tick, DirectCounts
<1>8. Room'
  BY RoomKept DEF Tick, Flight, makerVars
<1>9. NeverForgotten'
  BY DEF Tick, NeverForgotten, Making, Recorded, makerVars, operatorVars
<1>10. UsableUntilExpiry'
  <2>1. \A u \in Unexpired' : u \in Unexpired /\ row[u].left > 1
    BY DEF Tick, TypeOK, RowType, Unexpired, Active
  <2> QED BY <2>1 DEF Tick, UsableUntilExpiry
<1> QED BY <1>1, <1>2, <1>3, <1>4, <1>5, <1>6, <1>7, <1>8, <1>9, <1>10

-----------------------------------------------------------------------------
(* The theorems.                                                           *)

(* Together: no step breaks the invariant. *)
LEMMA Inductive == IInv /\ [Next]_vars => IInv'
<1> SUFFICES ASSUME IInv, [Next]_vars PROVE IInv'
  OBVIOUS
<1>1. ASSUME NEW m \in Makers, MakerSteps(m) PROVE IInv'
  BY <1>1, AskStep, ApprovedStep, AccountMadeStep, CallFailsStep,
     RegisterStep, RegisterFailsStep DEF MakerSteps
<1>2. ASSUME NEW o \in Operators, OperatorSteps(o) PROVE IInv'
  BY <1>2, DropOneStep, DropExpiredStep, DropNextStep, DropEndsStep
     DEF OperatorSteps
<1>3. ASSUME NEW s \in Servers, LoopSteps(s) PROVE IInv'
  BY <1>3, BeginPassStep, GiveUpStep, RemoveStep, SettleStep, FailureStep,
     PassEndsStep DEF LoopSteps
<1>4. ASSUME NEW s \in Servers,
             Start(s) \/ LoopFails(s) \/ Shutdown(s) \/ Sweep(s) \/ SweepEnds(s)
      PROVE  IInv'
  BY <1>4, StartStep, LoopFailsStep, ShutdownStep, SweepStep, SweepEndsStep
<1>5. CASE UNCHANGED vars
  BY <1>5 DEF IInv, vars, loopVars, makerVars, operatorVars, histories, TypeOK,
     Fresh, Mentioned, Making, MadeIsThere, GoneIsGone, OnlyDue, RowFirst,
     DirectCounts, Unexpired, Active, Recorded, Room, Flight, Askers,
     NeverForgotten, UsableUntilExpiry
<1> QED BY <1>1, <1>2, <1>3, <1>4, <1>5, CrashStep, TickStep DEF Next

(* What holds before anything happened. *)
LEMMA Initially == Init => IInv
<1> SUFFICES ASSUME Init PROVE IInv
  OBVIOUS
<1> USE CredentialsAssumption DEF Init
<1>1. TypeOK
  BY DEF TypeOK, RowType, AnswerType, NoRow
<1>2. Fresh /\ MadeIsThere
  BY DEF Fresh, MadeIsThere, Making
<1>3. GoneIsGone /\ OnlyDue /\ DirectCounts
  BY DEF GoneIsGone, OnlyDue, DirectCounts
<1>4. RowFirst /\ UsableUntilExpiry /\ NeverForgotten
  BY DEF RowFirst, UsableUntilExpiry, NeverForgotten, Unexpired, Active,
     Recorded, NoRow
<1>5. Room
  <2>1. direct = {} /\ Flight = {}
    BY DEF Flight, Askers
  <2> QED BY <1>1, <2>1, Counted, FS_EmptySet DEF Room
<1> QED BY <1>1, <1>2, <1>3, <1>4, <1>5 DEF IInv

(* The invariant is one. *)
LEMMA Invariant == Spec => []IInv
  BY Initially, Inductive, PTL DEF Spec

(* Type correctness. *)
THEOREM TypeCorrect == Spec => []TypeOK
<1>1. IInv => TypeOK
  BY DEF IInv
<1> QED BY <1>1, Invariant, PTL

(* An account on the device has a row, a handler that still runs, or an
   accident behind it: the loops of _temp_credential_cleanup_loop never drop a
   row of an account that is there. *)
THEOREM NothingForgotten == Spec => []NeverForgotten
<1>1. IInv => NeverForgotten
  BY DEF IInv
<1> QED BY <1>1, Invariant, PTL

(* The account of an unexpired row is on the device, unless a server that was
   shut down swept it away. *)
THEOREM UsableToTheEnd == Spec => []UsableUntilExpiry
<1>1. IInv => UsableUntilExpiry
  BY DEF IInv
<1> QED BY <1>1, Invariant, PTL

-----------------------------------------------------------------------------
(* The limit.                                                              *)

\* A request under way that met no other is the only one, and has room.
Lone ==
    /\ alone \subseteq direct /\ met \subseteq Flight
    /\ Cardinality(alone) <= MaxPerDevice
    /\ \A m \in Flight \ met :
          Flight = {m} /\ Cardinality(alone) < MaxPerDevice

LEMMA AloneCounts ==
    ASSUME TypeOK
    PROVE  IsFiniteSet(alone) /\ Cardinality(alone) \in Nat
<1>1. alone \in SUBSET Users
  BY DEF TypeOK
<1> QED BY <1>1, CredentialsAssumption, FS_Subset, FS_CardinalityType

(* It stays so where requests end, and rows that count go. *)
LEMMA LoneKept ==
    ASSUME TypeOK, Lone, alone' \subseteq alone, alone' \subseteq direct',
           Flight' \subseteq Flight, Meet \/ (met' = met /\ Flight' = Flight)
    PROVE  Lone'
<1>1. Cardinality(alone') <= Cardinality(alone) /\ Cardinality(alone') \in Nat
  BY AloneCounts, FS_Subset, FS_CardinalityType
<1>2. met' \subseteq Flight'
  BY DEF Lone, Meet
<1>3. ASSUME NEW m \in Flight', m \notin met'
      PROVE  m \in Flight \ met /\ Flight' = {m}
  BY <1>3 DEF Lone, Meet
<1> QED BY <1>1, <1>2, <1>3, AloneCounts, CredentialsAssumption DEF Lone

(* A request goes off alone only if it found room, or it meets the others. *)
LEMMA LoneAsk == ASSUME IInv, Lone, NEW m \in Makers, Ask(m) PROVE Lone'
<1>1. /\ m \in Askers /\ m \notin Flight /\ Flight' = Flight \cup {m}
      /\ alone' = alone /\ direct' = direct /\ Meet
      /\ Cardinality(Unexpired) < MaxPerDevice
  BY DEF Ask, IInv, TypeOK, Moves, Flight, Askers, histories
<1>2. Cardinality(alone) <= Cardinality(Unexpired) /\ Cardinality(Unexpired) \in Nat
  <2>1. Unexpired \in SUBSET Users /\ alone \subseteq Unexpired
    BY DEF Unexpired, Active, IInv, DirectCounts, Lone
  <2> QED BY <2>1, CredentialsAssumption, FS_Subset, FS_CardinalityType
<1>3. Cardinality(alone) < MaxPerDevice
  BY <1>1, <1>2, AloneCounts, CredentialsAssumption DEF IInv
<1>4. \A k \in Flight' \ met' : Flight' = {k}
  BY <1>1 DEF Meet
<1> QED BY <1>1, <1>3, <1>4 DEF Lone, Meet

(* A row of a request that was alone is one more, and no other is under way. *)
LEMMA LoneRegister == ASSUME IInv, Lone, NEW m \in Makers, Register(m) PROVE Lone'
<1>1. /\ Flight' = Flight \ {m} /\ Meet
      /\ m \in Askers => m \in Flight
      /\ direct' = IF m \in Askers THEN direct \cup {name[m]} ELSE direct
      /\ alone' = IF m \in Askers \ met THEN alone \cup {name[m]} ELSE alone
  BY DEF Register, IInv, TypeOK, Moves, Flight, Askers
<1>2. CASE m \notin Askers \ met
  <2>1. alone' = alone /\ alone' \subseteq direct'
    BY <1>1, <1>2 DEF Lone
  <2> QED BY <1>1, <2>1, LoneKept DEF IInv
<1>3. CASE m \in Askers \ met
  <2>1. Flight = {m} /\ Cardinality(alone) < MaxPerDevice
    BY <1>1, <1>3 DEF Lone
  <2>2. Flight' = {} /\ met' = {}
    BY <1>1, <2>1 DEF Meet
  <2>3. IsFiniteSet(alone) /\ Cardinality(alone) \in Nat
    BY AloneCounts DEF IInv
  <2>4. alone' = alone \cup {name[m]} /\ alone' \subseteq direct'
    BY <1>1, <1>3 DEF Lone
  <2>5. \/ Cardinality(alone') = Cardinality(alone)
        \/ Cardinality(alone') = Cardinality(alone) + 1
    BY <2>3, <2>4, FS_AddElement, Zenon
  <2>6. Cardinality(alone') <= MaxPerDevice
    BY <2>1, <2>3, <2>5, CredentialsAssumption
  <2> QED BY <2>2, <2>4, <2>6 DEF Lone
<1> QED BY <1>2, <1>3

LEMMA LoneStep == ASSUME IInv, Lone, [Next]_vars PROVE Lone'
<1>0. TypeOK
  BY DEF IInv
<1>1. ASSUME NEW m \in Makers,
             Approved(m) \/ AccountMade(m) \/ CallFails(m) \/ RegisterFails(m)
      PROVE  Lone'
  <2>1. alone' = alone /\ direct' = direct /\ Meet
    BY <1>1 DEF Approved, AccountMade, CallFails, RegisterFails, Moves, histories
  <2>2. Flight' \subseteq Flight
    BY <1>0, <1>1 DEF Approved, AccountMade, CallFails, RegisterFails, Moves, Flight, Askers,
                      TypeOK
  <2> QED BY <1>0, <2>1, <2>2, LoneKept DEF Lone
<1>2. ASSUME NEW p \in Servers \cup {Web}, Crash(p) PROVE Lone'
  BY <1>0, <1>2, LoneKept DEF Crash, HandlersEnd, Flight, Askers, Lone
<1>3. ASSUME NEW s \in Servers, Shutdown(s) PROVE Lone'
  BY <1>0, <1>3, LoneKept DEF Shutdown, HandlersEnd, Flight, Askers, Lone
<1>4. ASSUME NEW o \in Operators, OperatorSteps(o) PROVE Lone'
  <2>1. CASE DropOne(o)
    BY <1>0, <2>1, LoneKept DEF DropOne, DeleteRow, makerVars, Flight, Lone
  <2>2. CASE DropExpired(o)
    BY <1>0, <2>2, LoneKept DEF DropExpired, histories, makerVars, Flight, Lone
  <2>3. CASE DropNext(o)
    BY <1>0, <2>3, LoneKept DEF DropNext, DeleteRow, makerVars, Flight, Lone
  <2>4. CASE DropEnds(o)
    BY <1>0, <2>4, LoneKept DEF DropEnds, makerVars, Flight, Lone
  <2> QED BY <1>4, <2>1, <2>2, <2>3, <2>4 DEF OperatorSteps
<1>5. ASSUME NEW s \in Servers,
             LoopSteps(s) \/ Start(s) \/ LoopFails(s) \/ Sweep(s) \/ SweepEnds(s)
      PROVE  Lone'
  <2>1. CASE Settle(s)
    BY <1>0, <2>1, LoneKept DEF Settle, DeleteRow, makerVars, Flight, Lone
  <2>2. CASE Remove(s) \/ Sweep(s)
    BY <1>0, <2>2, LoneKept DEF Remove, Sweep, makerVars, Flight, Lone
  <2>3. CASE \/ BeginPass(s) \/ GiveUp(s) \/ Failure(s) \/ PassEnds(s)
             \/ Start(s) \/ LoopFails(s) \/ SweepEnds(s)
    BY <1>0, <2>3, LoneKept DEF BeginPass, GiveUp, Failure, PassEnds, Start, LoopFails,
                                SweepEnds, histories, makerVars, Flight, Lone
  <2> QED BY <1>5, <2>1, <2>2, <2>3 DEF LoopSteps
<1>6. CASE Tick
  BY <1>0, <1>6, LoneKept DEF Tick, makerVars, Flight, Lone
<1>7. CASE UNCHANGED vars
  BY <1>0, <1>7, LoneKept DEF vars, makerVars, histories, Flight, Lone
<1> QED
  BY <1>1, <1>2, <1>3, <1>4, <1>5, <1>6, <1>7, LoneAsk, LoneRegister DEF Next, MakerSteps

(* The check of _MAX_PER_DEVICE, made before the awaits, gives way by the
   requests that are in flight together and by no more, and not at all to a
   request that meets no other. *)
THEOREM LimitGivesWayByFlight == Spec => []BoundedOvershoot
<1>1. IInv /\ Lone => BoundedOvershoot
  <2> SUFFICES ASSUME IInv, Lone PROVE BoundedOvershoot
    OBVIOUS
  <2>1. Cardinality(direct) < MaxPerDevice + Cardinality(Askers)
    BY Counted, CredentialsAssumption DEF IInv, Room
  <2> QED BY <2>1 DEF BoundedOvershoot, Lone
<1>2. Init => Lone
  <2> SUFFICES ASSUME Init PROVE Lone
    OBVIOUS
  <2>1. alone = {} /\ direct = {} /\ met = {} /\ Flight = {}
    BY DEF Init, Flight, Askers
  <2> QED BY <2>1, FS_EmptySet, CredentialsAssumption DEF Lone
<1>3. IInv /\ Lone /\ [Next]_vars => Lone'
  BY LoneStep
<1> QED BY <1>1, <1>2, <1>3, Invariant, PTL DEF Spec

=============================================================================
