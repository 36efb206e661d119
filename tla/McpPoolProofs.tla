---------------------------- MODULE McpPoolProofs ----------------------------
(***************************************************************************)
(* Proofs about McpPool, for any number of turns, principals and           *)
(* subprocesses.                                                           *)
(***************************************************************************)
EXTENDS McpPool, TLAPS

-----------------------------------------------------------------------------
(* The inductive invariant.                                                *)

\* Which places go with an owner of one's own and with an entry.
Holding ==
    \A t \in Turns :
        /\ mine[t] # None <=> pc[t] \in {"spawn", "register", "discard", "abort"}
        /\ entry[t] # None <=> pc[t] \in {"discard", "wait", "use", "evicting"}

\* An owner that a turn has not registered yet is known to that turn only;
\* an entry belongs to one principal; an entry that a turn evicts is closed
\* by that turn.
Apart ==
    /\ \A t, u \in Turns : mine[t] # None => /\ mine[t] = mine[u] => t = u
                                             /\ mine[t] # entry[u]
    /\ \A t \in Turns, k \in Keys : mine[t] # None => mine[t] # entries[k]
    /\ \A t \in Turns : mine[t] # None =>
          mine[t] \notin queue /\ mine[t] \notin abandoned /\ mine[t] # closing
    /\ \A k, l \in Keys : entries[k] # None /\ entries[k] = entries[l] => k = l
    /\ \A t \in Turns, k \in Keys :
          entry[t] # None /\ entries[k] = entry[t]
             => k = KeyOf[t] /\ pc[t] # "evicting"
    /\ \A t \in Turns :
          pc[t] = "evicting" => entry[t] \notin queue /\ entry[t] # closing

\* What the reaper has popped is in its hands alone.
Swept ==
    /\ closing = None => queue = {}
    /\ closing \notin queue /\ closing \notin abandoned
    /\ \A o \in queue : o \notin abandoned

\* What the table offers has been opened and is being closed by nobody.
Offered ==
    \A k \in Keys : entries[k] # None =>
        /\ entries[k] \notin asked /\ entries[k] \notin queue
        /\ entries[k] \notin abandoned /\ entries[k] # closing
        /\ life[entries[k]] # "opening"

\* Nobody asks an owner to close that its turn is about to register.
Unasked ==
    \A t \in Turns :
        /\ pc[t] \in {"spawn", "register"} => mine[t] \notin asked
        /\ pc[t] = "register" => life[mine[t]] # "opening"

IInv ==
    /\ TypeOK /\ Holding /\ Apart /\ Swept /\ Offered /\ Unasked
    /\ NoLeak /\ OneUser

-----------------------------------------------------------------------------
(* About the helpers of the actions.                                       *)

(* Every turn has a principal. *)
LEMMA KeyType == \A t \in Turns : KeyOf[t] \in Keys
  BY PoolAssumption

(* A turn that is given an entry uses it or waits for it; no other moves. *)
LEMMA GivenType ==
    ASSUME TypeOK, NEW t \in Turns, NEW o \in Owners, Given(t, o)
    PROVE  /\ pc' \in [Turns -> Places] /\ entry' \in [Turns -> Owners \cup {None}]
           /\ pc'[t] \in {"use", "wait"} /\ entry'[t] = o
           /\ \A u \in Turns : u # t => pc'[u] = pc[u] /\ entry'[u] = entry[u]
<1>1. CASE Free(o)
  BY <1>1 DEF TypeOK, Given, At, Places
<1>2. CASE ~Free(o)
  BY <1>2 DEF TypeOK, Given, At, Places
<1> QED BY <1>1, <1>2

(* OneUser survives when t is given the entry of o, if the table has o for
   the principal of t only, and any change of the table brings in o, which
   nobody else refers to. *)
LEMMA GivenKeepsOneUser ==
    ASSUME IInv, NEW t \in Turns, NEW o, Given(t, o), pc[t] # "use",
           \A k \in Keys : entries'[k] = o => k = KeyOf[t],
           \A k \in Keys : entries'[k] # entries[k] =>
              entries'[k] = o /\ \A u \in Turns : u # t => entry[u] # o
    PROVE  OneUser'
<1>1. entry'[t] = o /\ \A u \in Turns : u # t => entry'[u] = entry[u] /\ pc'[u] = pc[u]
  BY DEF IInv, TypeOK, Given, At
<1>2. pc'[t] = "use" => Free(o)
  BY DEF IInv, TypeOK, Given, At
<1>3. ASSUME NEW u \in Turns, NEW v \in Turns, pc'[u] = "use", pc'[v] = "use", u # v
      PROVE  entry'[u] # entry'[v]
  BY <1>1, <1>2, <1>3 DEF Free, IInv, OneUser
<1>4. ASSUME NEW u \in Turns, NEW v \in Turns, pc'[u] = "use", entries'[KeyOf[v]] = entry'[u]
      PROVE  KeyOf[v] = KeyOf[u]
  <2>1. CASE u = t
    BY <1>1, <1>4, <2>1, KeyType
  <2>2. CASE u # t
    BY <1>1, <1>4, <2>2, KeyType DEF IInv, OneUser
  <2> QED BY <2>1, <2>2
<1> QED BY <1>3, <1>4 DEF OneUser

-----------------------------------------------------------------------------
(* Every step keeps the inductive invariant: one lemma for each action.    *)

(* A subprocess whose handshake is through. *)
LEMMA OpensStep == ASSUME IInv, NEW o \in Owners, Opens(o) PROVE IInv'
<1>1. TypeOK'
  BY DEF IInv, TypeOK, Alive, Opens, turnVars, sweepVars
<1>2. Holding'
  BY DEF IInv, Holding, Opens, turnVars
<1>3. Apart'
  BY DEF IInv, Apart, Opens, turnVars, sweepVars
<1>4. Swept'
  BY DEF IInv, Swept, Opens, sweepVars
<1>5. Offered'
  BY DEF IInv, Offered, Opens, sweepVars
<1>6. Unasked'
  BY DEF IInv, Unasked, Opens, turnVars
<1>7. NoLeak'
  BY DEF IInv, NoLeak, Registered, Alive, Opens, turnVars, sweepVars
<1>8. OneUser'
  BY DEF IInv, OneUser, Opens, turnVars
<1> QED BY <1>1, <1>2, <1>3, <1>4, <1>5, <1>6, <1>7, <1>8 DEF IInv

(* A subprocess that ends takes its request to close with it. *)
LEMMA EndsStep == ASSUME IInv, NEW o \in Owners, Ends(o) PROVE IInv'
<1>1. TypeOK'
  BY DEF IInv, TypeOK, Alive, Ends, Over, turnVars, sweepVars
<1>2. Holding'
  BY DEF IInv, Holding, Ends, Over, turnVars
<1>3. Apart'
  BY DEF IInv, Apart, Ends, Over, turnVars, sweepVars
<1>4. Swept'
  BY DEF IInv, Swept, Ends, Over, sweepVars
<1>5. Offered'
  BY DEF IInv, TypeOK, Offered, Ends, Over, sweepVars
<1>6. Unasked'
  BY DEF IInv, TypeOK, Holding, Unasked, Ends, Over, turnVars
<1>7. NoLeak'
  BY DEF IInv, NoLeak, Registered, Alive, Ends, Over, turnVars, sweepVars
<1>8. OneUser'
  BY DEF IInv, OneUser, Ends, Over, turnVars
<1> QED BY <1>1, <1>2, <1>3, <1>4, <1>5, <1>6, <1>7, <1>8 DEF IInv

(* A turn that starts refers to nothing yet. *)
LEMMA BeginStep == ASSUME IInv, NEW t \in Turns, Begin(t) PROVE IInv'
<1>1. TypeOK'
  BY DEF IInv, TypeOK, Alive, Places, Begin, At, ownerVars, sweepVars
<1>2. Holding'
  BY DEF IInv, Holding, Begin, At
<1>3. Apart'
  BY DEF IInv, Apart, Begin, At, ownerVars, sweepVars
<1>4. Swept'
  BY DEF IInv, Swept, Begin, At, ownerVars, sweepVars
<1>5. Offered'
  BY DEF IInv, Offered, Begin, At, ownerVars, sweepVars
<1>6. Unasked'
  BY DEF IInv, Unasked, Begin, At, ownerVars
<1>7. NoLeak'
  BY DEF IInv, NoLeak, Registered, Alive, Begin, At, ownerVars, sweepVars
<1>8. OneUser'
  BY DEF IInv, OneUser, Begin, At
<1> QED BY <1>1, <1>2, <1>3, <1>4, <1>5, <1>6, <1>7, <1>8 DEF IInv

(* The entry found belongs to the turn's principal. *)
LEMMA LookupHitPart ==
    ASSUME IInv, NEW t \in Turns, LookupHit(t)
    PROVE  OneUser' /\ Apart'
<1>1. KeyOf[t] \in Keys /\ entries[KeyOf[t]] # None /\ entries[KeyOf[t]] \in Owners /\ UNCHANGED entries
  BY PoolAssumption DEF LookupHit, Usable, Alive
<1>2. Given(t, entries[KeyOf[t]]) /\ pc[t] = "lookup"
  BY DEF LookupHit
<1>3. OneUser'
  BY <1>1, <1>2, GivenKeepsOneUser DEF IInv, Apart
<1>4. Apart'
  <2>1. \A u \in Turns : /\ u # t => entry'[u] = entry[u] /\ pc'[u] = pc[u]
                         /\ entry'[t] = entries[KeyOf[t]] /\ pc'[t] \in {"use", "wait"}
    BY <1>1, <1>2, GivenType DEF IInv
  <2>2. UNCHANGED <<entries, mine, queue, closing, abandoned>>
    BY DEF LookupHit, sweepVars, ownerVars
  <2> QED BY <1>1, <2>1, <2>2 DEF IInv, Apart
<1> QED BY <1>3, <1>4

(* The fast path hands out what the table has for the turn's own principal. *)
LEMMA LookupHitStep == ASSUME IInv, NEW t \in Turns, LookupHit(t) PROVE IInv'
<1>1. TypeOK'
  BY DEF IInv, TypeOK, Alive, Places, LookupHit, Given, At, Usable,
     ownerVars, sweepVars
<1>2. Holding'
  BY PoolAssumption DEF IInv, TypeOK, Holding, Alive, LookupHit, Given, At,
     Usable
<1>3. Apart'
  BY LookupHitPart
<1>4. Swept'
  BY DEF IInv, Swept, LookupHit, Given, At, ownerVars, sweepVars
<1>5. Offered'
  BY DEF IInv, Offered, LookupHit, Given, At, ownerVars, sweepVars
<1>6. Unasked'
  BY DEF IInv, Unasked, LookupHit, Given, At, ownerVars
<1>7. NoLeak'
  BY DEF IInv, NoLeak, Registered, Alive, LookupHit, Given, At, ownerVars,
     sweepVars
<1>8. OneUser'
  BY LookupHitPart
<1> QED BY <1>1, <1>2, <1>3, <1>4, <1>5, <1>6, <1>7, <1>8 DEF IInv

(* The new owner is a name of the pool. *)
LEMMA LookupMissPart ==
    ASSUME IInv, NEW t \in Turns, LookupMiss(t)
    PROVE  TypeOK'
<1>1. PICK o \in Owners : /\ Unused(o)
                          /\ life' = [life EXCEPT ![o] = "opening"]
                          /\ mine' = [mine EXCEPT ![t] = o]
  BY DEF LookupMiss
<1>2. life' \in [Owners -> {"gone", "opening", "open"}] /\ mine' \in [Turns -> Owners \cup {None}]
  BY <1>1 DEF IInv, TypeOK
<1>3. asked' \subseteq Alive' /\ abandoned' \subseteq Alive'
  BY <1>1 DEF IInv, TypeOK, Alive, LookupMiss
<1>4. entries' \in [Keys -> Owners \cup {None}]
  BY KeyType DEF IInv, TypeOK, LookupMiss
<1>5. pc' \in [Turns -> Places] /\ \A u \in Turns : lock' = u <=> pc'[u] = "discard"
  BY DEF IInv, TypeOK, LookupMiss, At, Places
<1> QED BY <1>2, <1>3, <1>4, <1>5 DEF IInv, TypeOK, LookupMiss, sweepVars

(* A new owner has a name that nothing refers to. *)
LEMMA LookupMissStep == ASSUME IInv, NEW t \in Turns, LookupMiss(t) PROVE IInv'
<1>1. TypeOK'
  BY LookupMissPart
<1>2. Holding'
  BY DEF IInv, TypeOK, Holding, LookupMiss, At, Unused
<1>3. Apart'
  BY DEF IInv, TypeOK, Apart, Registered, LookupMiss, At, Unused, sweepVars
<1>4. Swept'
  BY DEF IInv, Swept, LookupMiss, At, sweepVars
<1>5. Offered'
  BY DEF IInv, Offered, Registered, LookupMiss, At, Unused, sweepVars
<1>6. Unasked'
  BY DEF IInv, TypeOK, Unasked, LookupMiss, At, Unused
<1>7. NoLeak'
  BY DEF IInv, TypeOK, NoLeak, Registered, Alive, LookupMiss, At, Usable,
     sweepVars
<1>8. OneUser'
  BY DEF IInv, Holding, OneUser, LookupMiss, At
<1> QED BY <1>1, <1>2, <1>3, <1>4, <1>5, <1>6, <1>7, <1>8 DEF IInv

(* A start that fails leaves nothing behind. *)
LEMMA SpawnFailsStep == ASSUME IInv, NEW t \in Turns, SpawnFails(t) PROVE IInv'
<1>1. TypeOK'
  BY DEF IInv, TypeOK, Alive, Places, SpawnFails, Over, TurnEnds, At,
     sweepVars
<1>2. Holding'
  BY DEF IInv, TypeOK, Holding, SpawnFails, Over, TurnEnds, At
<1>3. Apart'
  BY DEF IInv, Apart, SpawnFails, Over, TurnEnds, At, sweepVars
<1>4. Swept'
  BY DEF IInv, Swept, SpawnFails, Over, TurnEnds, At, sweepVars
<1>5. Offered'
  BY DEF IInv, TypeOK, Offered, SpawnFails, Over, TurnEnds, At, sweepVars
<1>6. Unasked'
  BY DEF IInv, TypeOK, Holding, Unasked, SpawnFails, Over, TurnEnds, At
<1>7. NoLeak'
  BY DEF IInv, NoLeak, Registered, Alive, SpawnFails, Over, TurnEnds, At,
     sweepVars
<1>8. OneUser'
  BY DEF IInv, OneUser, SpawnFails, Over, TurnEnds, At
<1> QED BY <1>1, <1>2, <1>3, <1>4, <1>5, <1>6, <1>7, <1>8 DEF IInv

(* A turn that waits for the table still has its owner for itself. *)
LEMMA SpawnedWaitsStep ==
    ASSUME IInv, NEW t \in Turns, SpawnedWaits(t)
    PROVE  IInv'
<1>1. TypeOK'
  BY DEF IInv, TypeOK, Alive, Places, SpawnedWaits, At, ownerVars, sweepVars
<1>2. Holding'
  BY DEF IInv, Holding, SpawnedWaits, At
<1>3. Apart'
  BY DEF IInv, Apart, SpawnedWaits, At, ownerVars, sweepVars
<1>4. Swept'
  BY DEF IInv, Swept, SpawnedWaits, At, ownerVars, sweepVars
<1>5. Offered'
  BY DEF IInv, Offered, SpawnedWaits, At, ownerVars, sweepVars
<1>6. Unasked'
  BY DEF IInv, Unasked, SpawnedWaits, At, ownerVars
<1>7. NoLeak'
  BY DEF IInv, NoLeak, Registered, Alive, SpawnedWaits, At, ownerVars,
     sweepVars
<1>8. OneUser'
  BY DEF IInv, OneUser, SpawnedWaits, At
<1> QED BY <1>1, <1>2, <1>3, <1>4, <1>5, <1>6, <1>7, <1>8 DEF IInv

(* The owner that is registered was the turn's alone, and the one it
   replaces has ended. *)
LEMMA RegisterPart ==
    ASSUME IInv, NEW t \in Turns, Register(t)
    PROVE  OneUser' /\ NoLeak' /\ TypeOK'
<1>1. /\ pc[t] \in {"spawn", "register"} /\ lock = None /\ ~Usable(KeyOf[t])
      /\ entries' = [entries EXCEPT ![KeyOf[t]] = mine[t]]
      /\ mine' = [mine EXCEPT ![t] = None]
      /\ Given(t, mine[t])
      /\ UNCHANGED <<ownerVars, lock, retried, sweepVars>>
  BY DEF Register, Spawned
<1>2. mine[t] # None /\ mine[t] \in Owners /\ KeyOf[t] \in Keys /\ t # None
  BY <1>1, PoolAssumption DEF IInv, TypeOK, Holding
<1>3. \A k \in Keys : entries'[k] = IF k = KeyOf[t] THEN mine[t] ELSE entries[k]
  BY <1>1, <1>2 DEF IInv, TypeOK
<1>4. OneUser'
  BY <1>1, <1>2, <1>3, GivenKeepsOneUser DEF IInv, Apart
<1>5. NoLeak'
  <2> SUFFICES ASSUME NEW o \in Alive', o \notin asked'
      PROVE  \/ o \in Registered'
             \/ \E u \in Turns : mine'[u] = o /\ pc'[u] \in {"spawn", "register"}
             \/ o \in queue' \cup abandoned'
    BY DEF NoLeak
  <2>1. o \in Alive /\ o \notin asked /\ o # None /\ o \in Owners
    BY <1>1, PoolAssumption DEF ownerVars, Alive
  <2>2. CASE o \in Registered
    <3>1. PICK k \in Keys : entries[k] = o
      BY <2>2 DEF Registered
    <3>2. k # KeyOf[t]
      BY <1>1, <2>1, <3>1 DEF Usable
    <3> QED BY <1>3, <2>1, <3>1, <3>2 DEF Registered
  <2>3. CASE o = mine[t]
    BY <1>2, <1>3, <2>1, <2>3 DEF Registered
  <2>4. ASSUME NEW u \in Turns, mine[u] = o, pc[u] \in {"spawn", "register"}, o # mine[t]
        PROVE  mine'[u] = o /\ pc'[u] \in {"spawn", "register"}
    BY <1>1, <1>2, <2>4, GivenType DEF IInv, TypeOK
  <2> QED BY <1>1, <2>1, <2>2, <2>3, <2>4 DEF IInv, NoLeak, sweepVars, ownerVars
<1>6. TypeOK'
  <2>1. asked' \subseteq Alive' /\ abandoned' \subseteq Alive'
    BY <1>1 DEF IInv, TypeOK, Alive, ownerVars
  <2>2. entries' \in [Keys -> Owners \cup {None}] /\ mine' \in [Turns -> Owners \cup {None}]
    BY <1>1, <1>2 DEF IInv, TypeOK
  <2>3. pc' \in [Turns -> Places] /\ entry' \in [Turns -> Owners \cup {None}]
    BY <1>1, <1>2, GivenType DEF IInv
  <2>4. \A u \in Turns : lock' = u <=> pc'[u] = "discard"
    BY <1>1, <1>2, GivenType DEF IInv, TypeOK
  <2> QED BY <1>1, <2>1, <2>2, <2>3, <2>4 DEF IInv, TypeOK, ownerVars, sweepVars
<1> QED BY <1>4, <1>5, <1>6

(* What is registered is asked to close by nobody, and what it replaces is
   dead. *)
LEMMA RegisterStep == ASSUME IInv, NEW t \in Turns, Register(t) PROVE IInv'
<1>1. TypeOK'
  BY RegisterPart
<1>2. Holding'
  BY DEF IInv, TypeOK, Holding, Register, Spawned, Given, At
<1>3. Apart'
  BY DEF IInv, TypeOK, Apart, Register, Given, At, ownerVars, sweepVars
<1>4. Swept'
  BY DEF IInv, Swept, Register, Given, At, ownerVars, sweepVars
<1>5. Offered'
  BY DEF IInv, Apart, Offered, Unasked, Register, Spawned, Given, At,
     ownerVars, sweepVars
<1>6. Unasked'
  BY DEF IInv, TypeOK, Unasked, Register, Given, At, ownerVars
<1>7. NoLeak'
  BY RegisterPart
<1>8. OneUser'
  BY RegisterPart
<1> QED BY <1>1, <1>2, <1>3, <1>4, <1>5, <1>6, <1>7, <1>8 DEF IInv

(* The entry a turn waits for while it discards is not any turn's own owner. *)
LEMMA DiscardPart == ASSUME IInv, NEW t \in Turns, Discard(t) PROVE Apart'
<1>1. KeyOf[t] \in Keys /\ entries[KeyOf[t]] # None
  BY PoolAssumption DEF Discard, Usable, Alive
<1>2. /\ entry' = [entry EXCEPT ![t] = entries[KeyOf[t]]]
      /\ pc' = [pc EXCEPT ![t] = "discard"]
      /\ UNCHANGED <<entries, mine, abandoned, queue, closing>>
  BY DEF Discard, At, sweepVars
<1>3. \A u \in Turns : /\ u # t => entry'[u] = entry[u] /\ pc'[u] = pc[u]
                       /\ entry'[t] = entries[KeyOf[t]] /\ pc'[t] = "discard"
  BY <1>2 DEF IInv, TypeOK
<1> QED BY <1>1, <1>2, <1>3 DEF IInv, Apart

(* The spare owner of a turn is asked to close while the table is held. *)
LEMMA DiscardStep == ASSUME IInv, NEW t \in Turns, Discard(t) PROVE IInv'
<1>1. TypeOK'
  BY PoolAssumption DEF IInv, TypeOK, Alive, Places, Discard, Spawned,
     Usable, AskToClose, At, sweepVars
<1>2. Holding'
  BY PoolAssumption DEF IInv, TypeOK, Holding, Alive, Discard, Spawned,
     Usable, AskToClose, At
<1>3. Apart'
  BY DiscardPart
<1>4. Swept'
  BY DEF IInv, Swept, Discard, AskToClose, At, sweepVars
<1>5. Offered'
  BY DEF IInv, Apart, Offered, Discard, AskToClose, At, sweepVars
<1>6. Unasked'
  BY DEF IInv, TypeOK, Holding, Apart, Unasked, Discard, AskToClose, At
<1>7. NoLeak'
  BY DEF IInv, NoLeak, Registered, Alive, Discard, AskToClose, At, sweepVars
<1>8. OneUser'
  BY DEF IInv, OneUser, Discard, Spawned, AskToClose, At
<1> QED BY <1>1, <1>2, <1>3, <1>4, <1>5, <1>6, <1>7, <1>8 DEF IInv

(* The entry found before the wait still belongs to nobody else. *)
LEMMA DiscardEndsPart ==
    ASSUME IInv, NEW t \in Turns, DiscardEnds(t)
    PROVE  OneUser'
<1>1. pc[t] = "discard" /\ Given(t, entry[t]) /\ UNCHANGED entries
  BY DEF DiscardEnds
<1>2. entry[t] # None
  BY <1>1 DEF IInv, Holding
<1> QED BY <1>1, <1>2, GivenKeepsOneUser DEF IInv, Apart

(* The turn gets the entry it saw in the table before the wait. *)
LEMMA DiscardEndsStep ==
    ASSUME IInv, NEW t \in Turns, DiscardEnds(t)
    PROVE  IInv'
<1>1. TypeOK'
  BY PoolAssumption DEF IInv, TypeOK, Alive, Places, DiscardEnds,
     CloseReturns, TimesOut, ownerVars, Over, Given, At, sweepVars
<1>2. Holding'
  BY DEF IInv, TypeOK, Holding, DiscardEnds, CloseReturns, TimesOut, ownerVars, Over, Given, At
<1>3. Apart'
  BY DEF IInv, Apart, DiscardEnds, CloseReturns, TimesOut, ownerVars, Over, Given, At, sweepVars
<1>4. Swept'
  BY DEF IInv, Swept, DiscardEnds, CloseReturns, TimesOut, ownerVars, Over, Given, At, sweepVars
<1>5. Offered'
  BY DEF IInv, TypeOK, Offered, DiscardEnds, CloseReturns, TimesOut, ownerVars, Over, Given, At,
     sweepVars
<1>6. Unasked'
  BY DEF IInv, TypeOK, Holding, Unasked, DiscardEnds, CloseReturns, TimesOut, ownerVars, Over,
     Given, At
<1>7. NoLeak'
  BY DEF IInv, NoLeak, Registered, Alive, DiscardEnds, CloseReturns, TimesOut, ownerVars, Over,
     Given, At, sweepVars
<1>8. OneUser'
  BY DiscardEndsPart
<1> QED BY <1>1, <1>2, <1>3, <1>4, <1>5, <1>6, <1>7, <1>8 DEF IInv

(* No two turns come to hold the lock of one entry. *)
LEMMA UsePart == ASSUME IInv, NEW t \in Turns, Use(t) PROVE OneUser'
<1>1. pc' = [pc EXCEPT ![t] = "use"] /\ Free(entry[t]) /\ UNCHANGED <<entries, entry>>
  BY DEF Use, At
<1>2. pc'[t] = "use" /\ \A u \in Turns : u # t => pc'[u] = pc[u]
  BY <1>1 DEF IInv, TypeOK
<1>3. ASSUME NEW u \in Turns, NEW v \in Turns, pc'[u] = "use", pc'[v] = "use", u # v
      PROVE  entry[u] # entry[v]
  BY <1>1, <1>2, <1>3 DEF Free, IInv, OneUser
<1>4. ASSUME NEW u \in Turns, NEW v \in Turns, pc'[u] = "use", entries[KeyOf[v]] = entry[u]
      PROVE  KeyOf[v] = KeyOf[u]
  BY <1>1, <1>2, <1>4, KeyType DEF IInv, Apart, Holding, Use
<1> QED BY <1>1, <1>3, <1>4 DEF OneUser

(* The lock of an entry goes to one turn. *)
LEMMA UseStep == ASSUME IInv, NEW t \in Turns, Use(t) PROVE IInv'
<1>1. TypeOK'
  BY DEF IInv, TypeOK, Alive, Places, Use, At, ownerVars, sweepVars
<1>2. Holding'
  BY DEF IInv, Holding, Use, At
<1>3. Apart'
  BY DEF IInv, Apart, Use, At, ownerVars, sweepVars
<1>4. Swept'
  BY DEF IInv, Swept, Use, At, ownerVars, sweepVars
<1>5. Offered'
  BY DEF IInv, Offered, Use, At, ownerVars, sweepVars
<1>6. Unasked'
  BY DEF IInv, Unasked, Use, At, ownerVars
<1>7. NoLeak'
  BY DEF IInv, NoLeak, Registered, Alive, Use, At, ownerVars, sweepVars
<1>8. OneUser'
  BY UsePart
<1> QED BY <1>1, <1>2, <1>3, <1>4, <1>5, <1>6, <1>7, <1>8 DEF IInv

(* A turn that ends lets go of its entry. *)
LEMMA EndUseStep == ASSUME IInv, NEW t \in Turns, EndUse(t) PROVE IInv'
<1>1. TypeOK'
  BY DEF IInv, TypeOK, Alive, Places, EndUse, TurnEnds, At, ownerVars,
     sweepVars
<1>2. Holding'
  BY DEF IInv, TypeOK, Holding, EndUse, TurnEnds, At
<1>3. Apart'
  BY DEF IInv, Apart, EndUse, TurnEnds, At, ownerVars, sweepVars
<1>4. Swept'
  BY DEF IInv, Swept, EndUse, TurnEnds, At, ownerVars, sweepVars
<1>5. Offered'
  BY DEF IInv, Offered, EndUse, TurnEnds, At, ownerVars, sweepVars
<1>6. Unasked'
  BY DEF IInv, Unasked, EndUse, TurnEnds, At, ownerVars
<1>7. NoLeak'
  BY DEF IInv, NoLeak, Registered, Alive, EndUse, TurnEnds, At, ownerVars,
     sweepVars
<1>8. OneUser'
  BY DEF IInv, TypeOK, OneUser, EndUse, TurnEnds, At
<1> QED BY <1>1, <1>2, <1>3, <1>4, <1>5, <1>6, <1>7, <1>8 DEF IInv

(* A turn over a dead session lets go of it. *)
LEMMA RetryStep == ASSUME IInv, NEW t \in Turns, Retry(t) PROVE IInv'
<1>1. TypeOK'
  BY DEF IInv, TypeOK, Alive, Places, Retry, At, ownerVars, sweepVars
<1>2. Holding'
  BY DEF IInv, TypeOK, Holding, Retry, At
<1>3. Apart'
  BY DEF IInv, Apart, Retry, At, ownerVars, sweepVars
<1>4. Swept'
  BY DEF IInv, Swept, Retry, At, ownerVars, sweepVars
<1>5. Offered'
  BY DEF IInv, Offered, Retry, At, ownerVars, sweepVars
<1>6. Unasked'
  BY DEF IInv, Unasked, Retry, At, ownerVars
<1>7. NoLeak'
  BY DEF IInv, NoLeak, Registered, Alive, Retry, At, ownerVars, sweepVars
<1>8. OneUser'
  BY DEF IInv, TypeOK, OneUser, Retry, At
<1> QED BY <1>1, <1>2, <1>3, <1>4, <1>5, <1>6, <1>7, <1>8 DEF IInv

(* What a turn pops from the table is closed by that turn alone. *)
LEMMA EvictStep == ASSUME IInv, NEW t \in Turns, Evict(t) PROVE IInv'
<1> DEFINE o == entries[KeyOf[t]]
<1>0. KeyOf[t] \in Keys /\ o \in Owners \cup {None} /\ t # None
  BY PoolAssumption DEF IInv, TypeOK
<1>a. /\ entries' = [entries EXCEPT ![KeyOf[t]] = None]
      /\ asked' = asked \cup ({o} \cap Alive)
      /\ entry' = [entry EXCEPT ![t] = o]
      /\ UNCHANGED <<life, abandoned, lock, mine, retried, sweepVars>>
      /\ pc[t] = "evict"
  BY DEF Evict, AskToClose
<1>b. /\ o = None => pc' = [pc EXCEPT ![t] = "lookup"]
      /\ o # None => pc' = [pc EXCEPT ![t] = "evicting"]
  BY DEF Evict, At
<1>c. pc' \in [Turns -> Places] /\ \A u \in Turns : u # t => pc'[u] = pc[u]
  BY <1>b DEF IInv, TypeOK, Places
<1>d. pc'[t] = IF o = None THEN "lookup" ELSE "evicting"
  BY <1>b DEF IInv, TypeOK
<1>h. Alive' = Alive
  BY <1>a DEF Alive
<1> HIDE DEF o
<1>1. TypeOK'
  <2>1. asked' \subseteq Alive' /\ abandoned' \subseteq Alive'
    BY <1>0, <1>a, <1>h DEF IInv, TypeOK
  <2>2. entries' \in [Keys -> Owners \cup {None}] /\ entry' \in [Turns -> Owners \cup {None}]
    BY <1>0, <1>a DEF IInv, TypeOK
  <2>3. \A u \in Turns : lock' = u <=> pc'[u] = "discard"
    BY <1>a, <1>c, <1>d DEF IInv, TypeOK
  <2> QED BY <1>a, <1>c, <2>1, <2>2, <2>3 DEF IInv, TypeOK, sweepVars
<1>3. Apart'
  <2>1. o # None => o \notin queue /\ o # closing /\ \A k \in Keys : k # KeyOf[t] => entries[k] # o
    BY <1>0 DEF IInv, Apart, Offered, o
  <2>2. \A u \in Turns : mine[u] # None => mine[u] # o
    BY <1>0 DEF IInv, Apart, o
  <2> QED BY <1>0, <1>a, <1>c, <1>d, <2>1, <2>2 DEF IInv, TypeOK, Apart, sweepVars
<1>5. Offered'
  BY <1>0, <1>a, <1>h DEF IInv, TypeOK, Offered, Apart, sweepVars, o
<1>6. Unasked'
  BY <1>0, <1>a, <1>c, <1>d DEF IInv, TypeOK, Unasked, Holding, Apart, sweepVars, o
<1>2. Holding'
  BY DEF IInv, TypeOK, Holding, Evict, AskToClose, At
<1>4. Swept'
  BY DEF IInv, Swept, Evict, AskToClose, At, sweepVars
<1>7. NoLeak'
  BY DEF IInv, NoLeak, Registered, Alive, Evict, AskToClose, At, sweepVars
<1>8. OneUser'
  BY DEF IInv, Holding, OneUser, Evict, AskToClose, At
<1> QED BY <1>1, <1>2, <1>3, <1>4, <1>5, <1>6, <1>7, <1>8 DEF IInv

(* The evicted owner has ended. *)
LEMMA EvictEndsStep == ASSUME IInv, NEW t \in Turns, EvictEnds(t) PROVE IInv'
<1>1. TypeOK'
  BY DEF IInv, TypeOK, Alive, Places, EvictEnds, CloseReturns, TimesOut, ownerVars, Over, At,
     sweepVars
<1>2. Holding'
  BY DEF IInv, TypeOK, Holding, EvictEnds, CloseReturns, TimesOut, ownerVars, Over, At
<1>3. Apart'
  BY DEF IInv, TypeOK, Apart, EvictEnds, CloseReturns, TimesOut, ownerVars, Over, At, sweepVars
<1>4. Swept'
  BY DEF IInv, Swept, EvictEnds, CloseReturns, TimesOut, ownerVars, Over, At, sweepVars
<1>5. Offered'
  BY DEF IInv, TypeOK, Offered, EvictEnds, CloseReturns, TimesOut, ownerVars, Over, At, sweepVars
<1>6. Unasked'
  BY DEF IInv, TypeOK, Holding, Unasked, EvictEnds, CloseReturns, TimesOut, ownerVars, Over, At
<1>7. NoLeak'
  BY DEF IInv, NoLeak, Registered, Alive, EvictEnds, CloseReturns, TimesOut, ownerVars, Over, At,
     sweepVars
<1>8. OneUser'
  BY DEF IInv, OneUser, EvictEnds, CloseReturns, TimesOut, ownerVars, Over, At
<1> QED BY <1>1, <1>2, <1>3, <1>4, <1>5, <1>6, <1>7, <1>8 DEF IInv

(* A turn that is cancelled in the handshake asks its owner to close. *)
LEMMA CancelSpawnStep ==
    ASSUME IInv, NEW t \in Turns, CancelSpawn(t)
    PROVE  IInv'
<1>1. TypeOK'
  BY DEF IInv, TypeOK, Alive, Places, CancelSpawn, AskToClose, At, sweepVars
<1>2. Holding'
  BY DEF IInv, Holding, CancelSpawn, AskToClose, At
<1>3. Apart'
  BY DEF IInv, Apart, CancelSpawn, AskToClose, At, sweepVars
<1>4. Swept'
  BY DEF IInv, Swept, CancelSpawn, AskToClose, At, sweepVars
<1>5. Offered'
  BY DEF IInv, Apart, Offered, CancelSpawn, AskToClose, At, sweepVars
<1>6. Unasked'
  BY DEF IInv, TypeOK, Holding, Apart, Unasked, CancelSpawn, AskToClose, At
<1>7. NoLeak'
  BY DEF IInv, NoLeak, Registered, Alive, CancelSpawn, AskToClose, At,
     sweepVars
<1>8. OneUser'
  BY DEF IInv, OneUser, CancelSpawn, AskToClose, At
<1> QED BY <1>1, <1>2, <1>3, <1>4, <1>5, <1>6, <1>7, <1>8 DEF IInv

(* That owner has ended. *)
LEMMA AbortEndsStep == ASSUME IInv, NEW t \in Turns, AbortEnds(t) PROVE IInv'
<1>1. TypeOK'
  BY DEF IInv, TypeOK, Alive, Places, AbortEnds, CloseReturns, TimesOut, ownerVars, Over,
     TurnEnds, At, sweepVars
<1>2. Holding'
  BY DEF IInv, TypeOK, Holding, AbortEnds, CloseReturns, TimesOut, ownerVars, Over, TurnEnds, At
<1>3. Apart'
  BY DEF IInv, Apart, AbortEnds, CloseReturns, TimesOut, ownerVars, Over, TurnEnds, At, sweepVars
<1>4. Swept'
  BY DEF IInv, Swept, AbortEnds, CloseReturns, TimesOut, ownerVars, Over, TurnEnds, At, sweepVars
<1>5. Offered'
  BY DEF IInv, TypeOK, Offered, AbortEnds, CloseReturns, TimesOut, ownerVars, Over, TurnEnds, At,
     sweepVars
<1>6. Unasked'
  BY DEF IInv, TypeOK, Holding, Unasked, AbortEnds, CloseReturns, TimesOut, ownerVars, Over,
     TurnEnds, At
<1>7. NoLeak'
  BY DEF IInv, NoLeak, Registered, Alive, AbortEnds, CloseReturns, TimesOut, ownerVars, Over,
     TurnEnds, At, sweepVars
<1>8. OneUser'
  BY DEF IInv, OneUser, AbortEnds, CloseReturns, TimesOut, ownerVars, Over, TurnEnds, At
<1> QED BY <1>1, <1>2, <1>3, <1>4, <1>5, <1>6, <1>7, <1>8 DEF IInv

(* A turn that is cancelled while it waits leaves its owner in abandoned. *)
LEMMA CancelWaitStep == ASSUME IInv, NEW t \in Turns, CancelWait(t) PROVE IInv'
<1>1. TypeOK'
  BY PoolAssumption DEF IInv, TypeOK, Alive, Places, CancelWait, TurnEnds,
     At, sweepVars
<1>2. Holding'
  BY DEF IInv, TypeOK, Holding, CancelWait, TurnEnds, At
<1>3. Apart'
  BY DEF IInv, TypeOK, Apart, CancelWait, TurnEnds, At, sweepVars
<1>4. Swept'
  BY PoolAssumption DEF IInv, Apart, Swept, Alive, CancelWait, TurnEnds, At,
     sweepVars
<1>5. Offered'
  BY DEF IInv, Apart, Offered, CancelWait, TurnEnds, At, sweepVars
<1>6. Unasked'
  BY DEF IInv, TypeOK, Unasked, CancelWait, TurnEnds, At
<1>7. NoLeak'
  BY DEF IInv, NoLeak, Registered, Alive, CancelWait, TurnEnds, At, sweepVars
<1>8. OneUser'
  BY DEF IInv, OneUser, CancelWait, TurnEnds, At
<1> QED BY <1>1, <1>2, <1>3, <1>4, <1>5, <1>6, <1>7, <1>8 DEF IInv

(* The reaper pops entries before it closes the first of them. *)
LEMMA ReapStep == ASSUME IInv, NEW S \in SUBSET Owners, Reap(S) PROVE IInv'
<1>1. TypeOK'
  BY DEF IInv, TypeOK, Alive, Reap, CloseOneOf, turnVars
<1>2. Holding'
  BY DEF IInv, Holding, Reap, CloseOneOf, turnVars
<1>3. Apart'
  BY DEF IInv, Apart, Registered, Reap, CloseOneOf, turnVars
<1>4. Swept'
  BY DEF IInv, Swept, Offered, Registered, Reap, CloseOneOf
<1>5. Offered'
  BY DEF IInv, Offered, Reap, CloseOneOf
<1>6. Unasked'
  BY DEF IInv, Apart, Unasked, Registered, Reap, CloseOneOf, turnVars
<1>7. NoLeak'
  BY DEF IInv, Swept, NoLeak, Registered, Alive, Reap, CloseOneOf, turnVars
<1>8. OneUser'
  BY PoolAssumption DEF IInv, Holding, OneUser, Reap, CloseOneOf, turnVars
<1> QED BY <1>1, <1>2, <1>3, <1>4, <1>5, <1>6, <1>7, <1>8 DEF IInv

(* The last of the popped owners has ended. *)
LEMMA CloseLastStep == ASSUME IInv, CloseLast PROVE IInv'
<1>1. TypeOK'
  BY DEF IInv, TypeOK, Alive, CloseLast, CloseReturns, TimesOut, ownerVars, Over, turnVars
<1>2. Holding'
  BY DEF IInv, Holding, CloseLast, CloseReturns, TimesOut, ownerVars, Over, turnVars
<1>3. Apart'
  BY DEF IInv, Holding, Apart, CloseLast, CloseReturns, TimesOut, ownerVars, Over, turnVars
<1>4. Swept'
  BY PoolAssumption DEF IInv, TypeOK, Swept, Alive, CloseLast, CloseReturns, TimesOut, ownerVars,
     Over
<1>5. Offered'
  BY DEF IInv, TypeOK, Offered, CloseLast, CloseReturns, TimesOut, ownerVars, Over
<1>6. Unasked'
  BY DEF IInv, TypeOK, Holding, Unasked, CloseLast, CloseReturns, TimesOut, ownerVars, Over,
     turnVars
<1>7. NoLeak'
  BY DEF IInv, NoLeak, Registered, Alive, CloseLast, CloseReturns, TimesOut, ownerVars, Over,
     turnVars
<1>8. OneUser'
  BY DEF IInv, OneUser, CloseLast, CloseReturns, TimesOut, ownerVars, Over, turnVars
<1> QED BY <1>1, <1>2, <1>3, <1>4, <1>5, <1>6, <1>7, <1>8 DEF IInv

(* One of them has ended, and the next is asked to close. *)
LEMMA CloseNextStep == ASSUME IInv, CloseNext PROVE IInv'
<1>1. TypeOK'
  BY DEF IInv, TypeOK, Swept, Alive, CloseNext, CloseOneOf, turnVars
<1>2. Holding'
  BY DEF IInv, Holding, CloseNext, CloseOneOf, turnVars
<1>3. Apart'
  BY DEF IInv, Apart, CloseNext, CloseOneOf, turnVars
<1>4. Swept'
  BY PoolAssumption DEF IInv, TypeOK, Swept, CloseNext, CloseOneOf
<1>a. /\ asked' \subseteq asked \cup queue
      /\ closing' \in queue /\ queue' \subseteq queue
      /\ UNCHANGED <<abandoned, entries, turnVars>>
  BY DEF CloseNext, CloseOneOf
<1>b. \A o \in Owners : life'[o] \in {life[o], "gone"}
  BY DEF CloseNext, IInv, TypeOK
<1>5. Offered'
  BY <1>a, <1>b DEF IInv, TypeOK, Offered
<1>6. Unasked'
  BY <1>a, <1>b DEF IInv, TypeOK, Holding, Apart, Unasked, turnVars
<1>7. NoLeak'
  BY DEF IInv, TypeOK, NoLeak, Registered, Alive, CloseNext, CloseOneOf,
     turnVars
<1>8. OneUser'
  BY DEF IInv, OneUser, CloseNext, CloseOneOf, turnVars
<1> QED BY <1>1, <1>2, <1>3, <1>4, <1>5, <1>6, <1>7, <1>8 DEF IInv

(* The end of the pool: no turn runs, the table is emptied first. *)
LEMMA StopStep == ASSUME IInv, Stop PROVE IInv'
<1>1. TypeOK'
  BY DEF IInv, TypeOK, Registered, Alive, Stop, CloseOneOf, turnVars
<1>2. Holding'
  BY DEF IInv, Holding, Stop, CloseOneOf, turnVars
<1>3. Apart'
  BY DEF IInv, Holding, Apart, Stop, CloseOneOf, turnVars
<1>4. Swept'
  BY PoolAssumption DEF IInv, TypeOK, Swept, Offered, NoLeak, Registered,
     Alive, Stop, CloseOneOf
<1>5. Offered'
  BY DEF IInv, Offered, Stop, CloseOneOf
<1>6. Unasked'
  BY DEF IInv, Unasked, Stop, CloseOneOf, turnVars
<1>7. NoLeak'
  BY DEF IInv, NoLeak, Alive, Stop, CloseOneOf
<1>8. OneUser'
  BY DEF IInv, OneUser, Stop, CloseOneOf, turnVars
<1> QED BY <1>1, <1>2, <1>3, <1>4, <1>5, <1>6, <1>7, <1>8 DEF IInv

(* Nothing depends on more than the variables. *)
LEMMA StutterStep == ASSUME IInv, UNCHANGED vars PROVE IInv'
<1> USE DEF vars, ownerVars, turnVars, sweepVars
<1>1. TypeOK'  BY DEF IInv, TypeOK, Alive
<1>2. Holding'  BY DEF IInv, Holding
<1>3. Apart'  BY DEF IInv, Apart
<1>4. Swept'  BY DEF IInv, Swept
<1>5. Offered'  BY DEF IInv, Offered
<1>6. Unasked'  BY DEF IInv, Unasked
<1>7. NoLeak'  BY DEF IInv, NoLeak, Alive, Registered
<1>8. OneUser'  BY DEF IInv, OneUser
<1> QED BY <1>1, <1>2, <1>3, <1>4, <1>5, <1>6, <1>7, <1>8 DEF IInv

(* The pool starts empty. *)
LEMMA InitInv == Init => IInv
<1> SUFFICES ASSUME Init PROVE IInv
  OBVIOUS
<1>1. TypeOK  BY PoolAssumption DEF Init, TypeOK, Alive, Places
<1>2. Holding  BY DEF Init, Holding
<1>3. Apart  BY DEF Init, Apart
<1>4. Swept  BY PoolAssumption DEF Init, Swept
<1>5. Offered  BY DEF Init, Offered
<1>6. Unasked  BY DEF Init, Unasked
<1>7. NoLeak  BY DEF Init, NoLeak, Alive
<1>8. OneUser  BY DEF Init, OneUser
<1> QED BY <1>1, <1>2, <1>3, <1>4, <1>5, <1>6, <1>7, <1>8 DEF IInv

-----------------------------------------------------------------------------
(* The theorems.                                                           *)

(* The inductive invariant holds in every state the pool can reach. *)
THEOREM Invariant == Spec => []IInv
<1>1. IInv /\ [Next]_vars => IInv'
  <2> SUFFICES ASSUME IInv, [Next]_vars PROVE IInv'
    OBVIOUS
  <2>1. ASSUME NEW o \in Owners, Opens(o) PROVE IInv'
    BY <2>1, OpensStep
  <2>2. ASSUME NEW o \in Owners, Ends(o) PROVE IInv'
    BY <2>2, EndsStep
  <2>3. ASSUME NEW t \in Turns, Begin(t) PROVE IInv'
    BY <2>3, BeginStep
  <2>4. ASSUME NEW t \in Turns, LookupHit(t) PROVE IInv'
    BY <2>4, LookupHitStep
  <2>5. ASSUME NEW t \in Turns, LookupMiss(t) PROVE IInv'
    BY <2>5, LookupMissStep
  <2>6. ASSUME NEW t \in Turns, SpawnFails(t) PROVE IInv'
    BY <2>6, SpawnFailsStep
  <2>7. ASSUME NEW t \in Turns, SpawnedWaits(t) PROVE IInv'
    BY <2>7, SpawnedWaitsStep
  <2>8. ASSUME NEW t \in Turns, Register(t) PROVE IInv'
    BY <2>8, RegisterStep
  <2>9. ASSUME NEW t \in Turns, Discard(t) PROVE IInv'
    BY <2>9, DiscardStep
  <2>10. ASSUME NEW t \in Turns, DiscardEnds(t) PROVE IInv'
    BY <2>10, DiscardEndsStep
  <2>11. ASSUME NEW t \in Turns, Use(t) PROVE IInv'
    BY <2>11, UseStep
  <2>12. ASSUME NEW t \in Turns, EndUse(t) PROVE IInv'
    BY <2>12, EndUseStep
  <2>13. ASSUME NEW t \in Turns, Retry(t) PROVE IInv'
    BY <2>13, RetryStep
  <2>14. ASSUME NEW t \in Turns, Evict(t) PROVE IInv'
    BY <2>14, EvictStep
  <2>15. ASSUME NEW t \in Turns, EvictEnds(t) PROVE IInv'
    BY <2>15, EvictEndsStep
  <2>16. ASSUME NEW t \in Turns, CancelSpawn(t) PROVE IInv'
    BY <2>16, CancelSpawnStep
  <2>17. ASSUME NEW t \in Turns, AbortEnds(t) PROVE IInv'
    BY <2>17, AbortEndsStep
  <2>18. ASSUME NEW t \in Turns, CancelWait(t) PROVE IInv'
    BY <2>18, CancelWaitStep
  <2>19. ASSUME NEW S \in SUBSET Owners, Reap(S) PROVE IInv'
    BY <2>19, ReapStep
  <2>20. CASE CloseLast
    BY <2>20, CloseLastStep
  <2>21. CASE CloseNext
    BY <2>21, CloseNextStep
  <2>22. CASE Stop
    BY <2>22, StopStep
  <2>23. CASE UNCHANGED vars
    BY <2>23, StutterStep
  <2> QED BY <2>1, <2>2, <2>3, <2>4, <2>5, <2>6, <2>7, <2>8, <2>9, <2>10, <2>11, <2>12,
           <2>13, <2>14, <2>15, <2>16, <2>17, <2>18, <2>19, <2>20, <2>21, <2>22, <2>23 DEF Next
<1> QED BY <1>1, InitInv, PTL DEF Spec

(* The types, and the lock of the table is held across an await by the turn
   that discards a spare subprocess and by no other (_get_or_create). *)
THEOREM TypeCorrect == Spec => []TypeOK
<1>1. IInv => TypeOK
  BY DEF IInv
<1> QED BY <1>1, Invariant, PTL

(* No subprocess runs unknown to everybody: one that nobody asked to close is
   in the table, with the turn that started it, about to be closed, or was
   left behind by a cancellation (_get_or_create, aclose). *)
THEOREM NothingLeaks == Spec => []NoLeak
<1>1. IInv => NoLeak
  BY DEF IInv
<1> QED BY <1>1, Invariant, PTL

(* Whoever closes an entry takes it out of the table first (evict,
   _evict_idle, _evict_all), so the table never offers one that is closing. *)
THEOREM OffersOpen == Spec => []TableIsOpen
<1>1. IInv => TableIsOpen
  BY DEF IInv, Offered, TableIsOpen, Registered
<1> QED BY <1>1, Invariant, PTL

(* Two turns never talk over one subprocess at once, and nobody talks over
   one that the table has for another principal (the lock of the entry, and
   the table's keys). *)
THEOREM SoleUser == Spec => []OneUser
<1>1. IInv => OneUser
  BY DEF IInv
<1> QED BY <1>1, Invariant, PTL

(* A turn that takes the session of another takes one that lives at that
   moment: acquire tests `usable` under the lock of the table. *)
THEOREM TakenAlive == Spec => NeverTakesDead
<1> DEFINE Taken(t) ==
      entry'[t] \notin {None, entry[t], mine[t]} /\ pc'[t] # "evicting"
         => life[entry'[t]] = "open"
<1>1. IInv /\ [Next]_vars => \A t \in Turns : Taken(t)
  <2> SUFFICES ASSUME IInv, [Next]_vars, NEW t \in Turns PROVE Taken(t)
    OBVIOUS
  <2>1. \A k \in Keys : Usable(k) => life[entries[k]] = "open"
    BY PoolAssumption DEF IInv, TypeOK, Offered, Usable, Alive
  <2>2. ASSUME NEW u \in Turns, LookupHit(u) PROVE Taken(t)
    BY <2>1, <2>2, KeyType DEF IInv, TypeOK, LookupHit, Given
  <2>3. ASSUME NEW u \in Turns, Discard(u) PROVE Taken(t)
    BY <2>1, <2>3, KeyType DEF IInv, TypeOK, Discard
  <2>4. ASSUME NEW u \in Turns, Register(u) \/ DiscardEnds(u) PROVE Taken(t)
    BY <2>4 DEF IInv, TypeOK, Register, DiscardEnds, Given
  <2>5. ASSUME NEW u \in Turns, Retry(u) \/ EvictEnds(u) PROVE Taken(t)
    BY <2>5 DEF IInv, TypeOK, Retry, EvictEnds
  <2>6. ASSUME NEW u \in Turns, Evict(u) PROVE Taken(t)
    BY <2>6 DEF IInv, TypeOK, Evict, At
  <2>7. ASSUME NEW u \in Turns,
               SpawnFails(u) \/ EndUse(u) \/ AbortEnds(u) \/ CancelWait(u)
        PROVE  Taken(t)
    BY <2>7 DEF IInv, TypeOK, SpawnFails, EndUse, AbortEnds, CancelWait, TurnEnds
  <2>8. ASSUME NEW u \in Turns,
               \/ Begin(u) \/ LookupMiss(u) \/ SpawnedWaits(u)
               \/ Use(u) \/ CancelSpawn(u)
        PROVE  Taken(t)
    BY <2>8 DEF Begin, LookupMiss, SpawnedWaits, Use, CancelSpawn
  <2>9. ASSUME NEW o \in Owners, Opens(o) \/ Ends(o) PROVE Taken(t)
    BY <2>9 DEF Opens, Ends, turnVars
  <2>10. ASSUME NEW S \in SUBSET Owners, Reap(S) PROVE Taken(t)
    BY <2>10 DEF Reap, turnVars
  <2>11. CASE CloseLast \/ CloseNext \/ Stop
    BY <2>11 DEF CloseLast, CloseNext, Stop, turnVars
  <2>12. CASE UNCHANGED vars
    BY <2>12 DEF vars, turnVars
  <2> HIDE DEF Taken
  <2> QED BY <2>2, <2>3, <2>4, <2>5, <2>6, <2>7, <2>8, <2>9, <2>10, <2>11, <2>12
         DEF Next
<1> QED BY <1>1, Invariant, PTL DEF Spec, NeverTakesDead

-----------------------------------------------------------------------------
(* Refinement: each step of the pool is a step of SharedSessions, or       *)
(* leaves what that speaks of alone.                                       *)

(* While a turn waits for its spare subprocess, the lock of the table      *)
(* keeps the entry it saw where it was.                                    *)
Kept == \A t \in Turns : pc[t] = "discard" => entries[KeyOf[t]] = entry[t]

SharedInv == IInv /\ Kept

(* The table changes under its lock only. *)
LEMMA TableStep ==
    ASSUME IInv, [Next]_vars
    PROVE  \/ entries' = entries
           \/ \A t \in Turns : pc[t] # "discard"
<1> SUFFICES ASSUME entries' # entries, NEW t \in Turns, pc[t] = "discard"
             PROVE  FALSE
  OBVIOUS
<1>1. lock = t /\ lock # None
  BY PoolAssumption DEF IInv, TypeOK
<1>2. ~ \E u \in Turns : LookupMiss(u) \/ Register(u) \/ Evict(u)
  BY <1>1 DEF LookupMiss, Register, Spawned, Evict
<1>3. ~ Stop /\ ~ \E S \in SUBSET Owners : Reap(S)
  BY <1>1 DEF Stop, Reap
<1>4. ASSUME NEW u \in Turns,
             \/ Begin(u) \/ LookupHit(u) \/ SpawnFails(u) \/ SpawnedWaits(u)
             \/ Discard(u) \/ DiscardEnds(u) \/ Use(u) \/ EndUse(u) \/ Retry(u)
             \/ EvictEnds(u) \/ CancelSpawn(u) \/ AbortEnds(u) \/ CancelWait(u)
      PROVE  entries' = entries
  BY <1>4 DEF Begin, LookupHit, SpawnFails, SpawnedWaits, Discard, DiscardEnds,
     Use, EndUse, Retry, EvictEnds, CancelSpawn, AbortEnds, CancelWait
<1>5. ASSUME \/ CloseLast \/ CloseNext \/ UNCHANGED vars
             \/ \E o \in Owners : Opens(o) \/ Ends(o)
      PROVE  entries' = entries
  BY <1>5 DEF CloseLast, CloseNext, vars, Opens, Ends
<1> QED
  BY <1>2, <1>3, <1>4, <1>5 DEF Next

(* A turn comes to "discard" by Discard alone, and keeps its entry there. *)
LEMMA DiscardingStep ==
    ASSUME IInv, [Next]_vars, NEW t \in Turns, pc'[t] = "discard"
    PROVE  \/ Discard(t)
           \/ pc[t] = "discard" /\ entry'[t] = entry[t]
<1> USE DEF IInv, TypeOK, At
<1>1. ASSUME NEW u \in Turns,
             \/ Begin(u) \/ SpawnedWaits(u) \/ Use(u) \/ CancelSpawn(u)
             \/ LookupMiss(u) \/ Retry(u) \/ Evict(u) \/ EvictEnds(u)
      PROVE  pc[t] = "discard" /\ entry'[t] = entry[t]
  BY <1>1 DEF Begin, SpawnedWaits, Use, CancelSpawn, LookupMiss, Retry, Evict,
     EvictEnds
<1>2. ASSUME NEW u \in Turns,
             SpawnFails(u) \/ EndUse(u) \/ AbortEnds(u) \/ CancelWait(u)
      PROVE  pc[t] = "discard" /\ entry'[t] = entry[t]
  BY <1>2 DEF SpawnFails, EndUse, AbortEnds, CancelWait, TurnEnds
<1>3. ASSUME NEW u \in Turns, LookupHit(u) \/ Register(u) \/ DiscardEnds(u)
      PROVE  pc[t] = "discard" /\ entry'[t] = entry[t]
  BY <1>3 DEF LookupHit, Register, DiscardEnds, Given
<1>4. ASSUME NEW u \in Turns, Discard(u)
      PROVE  \/ Discard(t)
             \/ pc[t] = "discard" /\ entry'[t] = entry[t]
  BY <1>4 DEF Discard
<1>5. ASSUME \/ CloseLast \/ CloseNext \/ Stop \/ UNCHANGED vars
             \/ \E o \in Owners : Opens(o) \/ Ends(o)
             \/ \E S \in SUBSET Owners : Reap(S)
      PROVE  pc[t] = "discard" /\ entry'[t] = entry[t]
  BY <1>5 DEF CloseLast, CloseNext, Stop, vars, Opens, Ends, Reap, turnVars
<1> HIDE DEF IInv, TypeOK, At
<1> QED
  BY <1>1, <1>2, <1>3, <1>4, <1>5 DEF Next

LEMMA KeptStep == ASSUME SharedInv, [Next]_vars PROVE Kept'
<1> SUFFICES ASSUME NEW t \in Turns, pc'[t] = "discard"
             PROVE  entries'[KeyOf[t]] = entry'[t]
  BY DEF Kept
<1>1. CASE Discard(t)
  BY <1>1 DEF Discard, SharedInv, IInv, TypeOK
<1>2. CASE pc[t] = "discard" /\ entry'[t] = entry[t]
  BY <1>2, TableStep DEF SharedInv, Kept
<1> QED
  BY <1>1, <1>2, DiscardingStep DEF SharedInv

-----------------------------------------------------------------------------
(* What SharedSessions sees of a step of one turn. *)

LEMMA StartedNow ==
    ASSUME NEW t \in Turns,
           \A u \in Turns \ {t} : pc'[u] = pc[u] /\ mine'[u] = mine[u]
    PROVE  /\ Started' = [Started EXCEPT ![t] = Started'[t]]
           /\ Started'[t] = Started[t] => Started' = Started
           /\ Started'[t] = IF pc'[t] \in {"spawn", "register"}
                              THEN mine'[t] ELSE None
           /\ Started[t] = IF pc[t] \in {"spawn", "register"}
                             THEN mine[t] ELSE None
  BY DEF Started

LEMMA HeldNow ==
    ASSUME NEW t \in Turns,
           \A u \in Turns \ {t} : pc'[u] = pc[u] /\ entry'[u] = entry[u]
    PROVE  /\ Held' = [Held EXCEPT ![t] = Held'[t]]
           /\ Held'[t] = Held[t] => Held' = Held
           /\ Held'[t] = IF pc'[t] \in {"wait", "use"} THEN entry'[t] ELSE None
           /\ Held[t] = IF pc[t] \in {"wait", "use"} THEN entry[t] ELSE None
  BY DEF Held

LEMMA TalkingNow ==
    ASSUME NEW t \in Turns, \A u \in Turns \ {t} : pc'[u] = pc[u]
    PROVE  /\ pc'[t] = "use" => Talking' = Talking \cup {t}
           /\ pc'[t] # "use" => Talking' = Talking \ {t}
           /\ (pc'[t] = "use" <=> pc[t] = "use") => Talking' = Talking
           /\ t \in Talking <=> pc[t] = "use"
  BY DEF Talking

LEMMA IdleIsFree ==
    ASSUME NEW o
    PROVE  Shared!Idle(o) <=> Free(o)
  BY DEF Shared!Idle, Free, Talking, Held

LEMMA GivenRefines ==
    ASSUME IInv, NEW t \in Turns, NEW o \in Owners, Given(t, o),
           pc[t] \notin {"wait", "use"}
    PROVE  /\ Shared!Give(t, o)
           /\ pc'[t] \in {"wait", "use"}
           /\ \A u \in Turns \ {t} : pc'[u] = pc[u]
<1>1. /\ pc'[t] = IF Free(o) THEN "use" ELSE "wait"
      /\ \A u \in Turns \ {t} : pc'[u] = pc[u] /\ entry'[u] = entry[u]
      /\ entry'[t] = o /\ o # None
  BY PoolAssumption DEF IInv, TypeOK, Given, At
<1>2. Held' = [Held EXCEPT ![t] = o] /\ Held[t] = None
  BY <1>1, HeldNow
<1>3. Talking' = IF Free(o) THEN Talking \cup {t} ELSE Talking
  BY <1>1, TalkingNow
<1>4. Shared!Idle(o) <=> Free(o)
  BY IdleIsFree
<1> HIDE DEF Held, Talking, Free
<1> QED
  BY <1>1, <1>2, <1>3, <1>4 DEF Shared!Give

LEMMA StillShared ==
    ASSUME UNCHANGED <<pc, mine, entry, entries>>
    PROVE  UNCHANGED Shared!vars
  BY DEF Shared!vars, Started, Held, Talking

(* Every step of one turn that moves nothing SharedSessions speaks of. *)
LEMMA StillTurn ==
    ASSUME IInv, NEW t \in Turns,
           \/ Begin(t) \/ SpawnedWaits(t) \/ EvictEnds(t) \/ AbortEnds(t)
    PROVE  UNCHANGED Shared!vars
<1>1. /\ \A u \in Turns \ {t} : /\ pc'[u] = pc[u] /\ mine'[u] = mine[u]
                                /\ entry'[u] = entry[u]
      /\ pc[t] \notin {"wait", "use"} /\ pc'[t] \notin {"wait", "use"}
      /\ pc[t] \in {"spawn", "register"} <=> pc'[t] \in {"spawn", "register"}
      /\ pc[t] \in {"spawn", "register"} => mine'[t] = mine[t]
      /\ entries' = entries
  BY DEF IInv, TypeOK, Begin, SpawnedWaits, EvictEnds, AbortEnds, TurnEnds, At
<1>2. Started' = Started
  BY <1>1, StartedNow
<1>3. Held' = Held
  BY <1>1, HeldNow
<1>4. Talking' = Talking
  BY <1>1, TalkingNow
<1> HIDE DEF Started, Held, Talking
<1> QED
  BY <1>1, <1>2, <1>3, <1>4 DEF Shared!vars

(* A turn drops what it started: the start failed, it was cancelled, or    *)
(* somebody else's entry is there. *)
LEMMA DropRefines ==
    ASSUME IInv, NEW t \in Turns,
           \/ SpawnFails(t) \/ CancelSpawn(t) \/ Discard(t)
           \/ CancelWait(t) /\ pc[t] # "wait"
    PROVE  Shared!Drop(t)
<1>1. /\ \A u \in Turns \ {t} : /\ pc'[u] = pc[u] /\ mine'[u] = mine[u]
                                /\ entry'[u] = entry[u]
      /\ pc[t] \notin {"wait", "use"} /\ pc'[t] \notin {"wait", "use"}
      /\ pc'[t] \notin {"spawn", "register"}
      /\ entries' = entries
  BY DEF IInv, TypeOK, SpawnFails, CancelSpawn, Discard, Spawned, CancelWait,
     TurnEnds, At
<1>2. Started' = [Started EXCEPT ![t] = None]
  BY <1>1, StartedNow
<1>3. Held' = Held
  BY <1>1, HeldNow
<1>4. Talking' = Talking
  BY <1>1, TalkingNow
<1> HIDE DEF Started, Held, Talking
<1> QED
  BY <1>1, <1>2, <1>3, <1>4 DEF Shared!Drop

(* A turn lets go of its session, or stops waiting for it. *)
LEMMA LeaveRefines ==
    ASSUME IInv, NEW t \in Turns,
           \/ EndUse(t) \/ Retry(t)
           \/ CancelWait(t) /\ pc[t] = "wait"
    PROVE  Shared!Leave(t)
<1>1. /\ \A u \in Turns \ {t} : /\ pc'[u] = pc[u] /\ mine'[u] = mine[u]
                                /\ entry'[u] = entry[u]
      /\ pc[t] \notin {"spawn", "register"}
      /\ pc'[t] \notin {"spawn", "register", "wait", "use"}
      /\ entries' = entries
  BY DEF IInv, TypeOK, EndUse, Retry, CancelWait, TurnEnds, At
<1>2. Started' = Started
  BY <1>1, StartedNow
<1>3. Held' = [Held EXCEPT ![t] = None]
  BY <1>1, HeldNow
<1>4. Talking' = Talking \ {t}
  BY <1>1, TalkingNow
<1> HIDE DEF Started, Held, Talking
<1> QED
  BY <1>1, <1>2, <1>3, <1>4 DEF Shared!Leave

(* The name of the new session is one that nothing refers to. *)
LEMMA StartRefines ==
    ASSUME IInv, NEW t \in Turns, LookupMiss(t)
    PROVE  \E o \in Owners : Shared!Start(t, o)
<1>1. PICK o \in Owners : Unused(o) /\ mine' = [mine EXCEPT ![t] = o]
  BY DEF LookupMiss
<1>2. /\ \A u \in Turns \ {t} : /\ pc'[u] = pc[u] /\ mine'[u] = mine[u]
                                /\ entry'[u] = entry[u]
      /\ pc[t] = "lookup" /\ pc'[t] = "spawn" /\ mine'[t] = o
      /\ entries' = [entries EXCEPT ![KeyOf[t]] = None]
  BY <1>1 DEF IInv, TypeOK, LookupMiss, At
<1>3. Started' = [Started EXCEPT ![t] = o] /\ Started[t] = None
  BY <1>2, StartedNow
<1>4. Held' = Held
  BY <1>2, HeldNow
<1>5. Talking' = Talking
  BY <1>2, TalkingNow
<1>6. o # None
  BY PoolAssumption
<1>7. \A u \in Turns : Started[u] # o /\ Held[u] # o
  BY <1>1, <1>6 DEF Started, Held, Unused
<1>8. \A k \in Keys : entries[k] # o
  BY <1>1, <1>6 DEF Unused, Registered
<1> HIDE DEF Started, Held, Talking
<1>9. Shared!Start(t, o)
  BY <1>2, <1>3, <1>4, <1>5, <1>7, <1>8 DEF Shared!Start
<1> QED
  BY <1>9

(* A turn offers what it started, and is given it. *)
LEMMA OfferRefines ==
    ASSUME IInv, NEW t \in Turns, Register(t)
    PROVE  Shared!Offer(t)
<1>1. /\ pc[t] \in {"spawn", "register"} /\ mine[t] \in Owners
      /\ entries' = [entries EXCEPT ![KeyOf[t]] = mine[t]]
      /\ \A u \in Turns \ {t} : mine'[u] = mine[u]
      /\ Given(t, mine[t])
  BY DEF IInv, TypeOK, Holding, Register, Spawned
<1>2. Shared!Give(t, mine[t]) /\ pc'[t] \in {"wait", "use"}
      /\ \A u \in Turns \ {t} : pc'[u] = pc[u]
  BY <1>1, GivenRefines
<1>3. Started' = [Started EXCEPT ![t] = None] /\ Started[t] = mine[t]
  BY <1>1, <1>2, StartedNow
<1> HIDE DEF Started
<1> QED
  BY <1>1, <1>2, <1>3 DEF Shared!Offer

(* A turn is given what the table has for its principal. *)
LEMMA JoinRefines ==
    ASSUME SharedInv, NEW t \in Turns, LookupHit(t) \/ DiscardEnds(t)
    PROVE  Shared!Join(t)
<1>1. /\ pc[t] \in {"lookup", "discard"} /\ entries' = entries
      /\ \A u \in Turns \ {t} : mine'[u] = mine[u]
  BY DEF SharedInv, IInv, TypeOK, LookupHit, DiscardEnds
<1>2. Given(t, entries[KeyOf[t]]) /\ entries[KeyOf[t]] \in Owners
  <2>1. CASE LookupHit(t)
    BY <2>1 DEF LookupHit, Usable, Alive
  <2>2. CASE DiscardEnds(t)
    BY <2>2 DEF DiscardEnds, SharedInv, Kept, IInv, TypeOK, Holding
  <2> QED
    BY <2>1, <2>2
<1>3. Shared!Give(t, entries[KeyOf[t]]) /\ pc'[t] \in {"wait", "use"}
      /\ \A u \in Turns \ {t} : pc'[u] = pc[u]
  BY <1>1, <1>2, GivenRefines DEF SharedInv
<1>4. Started' = Started
  BY <1>1, <1>3, StartedNow
<1> HIDE DEF Started
<1> QED
  BY <1>1, <1>3, <1>4 DEF Shared!Join

(* A turn that waited talks when nobody else does. *)
LEMMA TalkRefines ==
    ASSUME IInv, NEW t \in Turns, Use(t)
    PROVE  Shared!Talk(t)
<1>1. /\ \A u \in Turns \ {t} : pc'[u] = pc[u]
      /\ pc[t] = "wait" /\ pc'[t] = "use"
      /\ UNCHANGED <<entries, mine, entry>>
      /\ Free(entry[t]) /\ entry[t] # None
  BY DEF IInv, TypeOK, Holding, Use, At
<1>2. Started' = Started
  BY <1>1, StartedNow
<1>3. Held' = Held /\ Held[t] = entry[t]
  BY <1>1, HeldNow
<1>4. Talking' = Talking \cup {t} /\ t \notin Talking
  BY <1>1, TalkingNow
<1>5. Shared!Idle(entry[t])
  BY <1>1, IdleIsFree
<1> HIDE DEF Started, Held, Talking
<1> QED
  BY <1>1, <1>2, <1>3, <1>4, <1>5 DEF Shared!Talk

(* An eviction, the reaper and the end of the pool withdraw offers. *)
LEMMA WithdrawRefines ==
    ASSUME IInv, NEW K \in SUBSET Keys,
           entries' = [k \in Keys |-> IF k \in K THEN None ELSE entries[k]],
           UNCHANGED <<Started, Held, Talking>>
    PROVE  Shared!Next
<1> HIDE DEF Started, Held, Talking
<1>1. Shared!Withdraw(K)
  BY DEF Shared!Withdraw
<1> QED
  BY <1>1 DEF Shared!Next

LEMMA EvictRefines == ASSUME IInv, NEW t \in Turns, Evict(t) PROVE Shared!Next
<1>1. /\ \A u \in Turns \ {t} : /\ pc'[u] = pc[u] /\ mine'[u] = mine[u]
                                /\ entry'[u] = entry[u]
      /\ pc[t] = "evict" /\ pc'[t] \in {"lookup", "evicting"}
      /\ entries' = [entries EXCEPT ![KeyOf[t]] = None]
  BY DEF IInv, TypeOK, Evict, At
<1>2. Started' = Started
  BY <1>1, StartedNow
<1>3. Held' = Held
  BY <1>1, HeldNow
<1>4. Talking' = Talking
  BY <1>1, TalkingNow
<1>5. entries' = [k \in Keys |-> IF k \in {KeyOf[t]} THEN None ELSE entries[k]]
  BY <1>1 DEF IInv, TypeOK
<1>6. {KeyOf[t]} \in SUBSET Keys
  BY KeyType
<1> HIDE DEF Started, Held, Talking
<1> QED
  BY <1>2, <1>3, <1>4, <1>5, <1>6, WithdrawRefines

LEMMA ReapRefines ==
    ASSUME IInv, (\E S \in SUBSET Owners : Reap(S)) \/ Stop
    PROVE  Shared!Next
<1>1. UNCHANGED <<pc, mine, entry>>
  BY DEF Reap, Stop, turnVars
<1>2. UNCHANGED <<Started, Held, Talking>>
  BY <1>1 DEF Started, Held, Talking
<1>3. ASSUME NEW S \in SUBSET Owners, Reap(S) PROVE Shared!Next
  <2>1. entries' = [k \in Keys |-> IF k \in {j \in Keys : entries[j] \in S}
                                     THEN None ELSE entries[k]]
    BY <1>3 DEF Reap
  <2> QED
    BY <1>2, <2>1, WithdrawRefines
<1>4. CASE Stop
  <2>1. entries' = [k \in Keys |-> IF k \in Keys THEN None ELSE entries[k]]
    BY <1>4 DEF Stop
  <2> QED
    BY <1>2, <2>1, WithdrawRefines
<1> QED
  BY <1>3, <1>4

LEMMA SharedStep ==
    ASSUME SharedInv, [Next]_vars
    PROVE  [Shared!Next]_(Shared!vars)
<1> USE DEF SharedInv
<1>1. ASSUME NEW t \in Turns,
             \/ Begin(t) \/ LookupHit(t) \/ LookupMiss(t)
             \/ SpawnFails(t) \/ SpawnedWaits(t) \/ Register(t)
             \/ Discard(t) \/ DiscardEnds(t)
      PROVE  Shared!Next \/ UNCHANGED Shared!vars
  BY <1>1, StillTurn, JoinRefines, StartRefines, DropRefines, OfferRefines
  DEF Shared!Next
<1>2. ASSUME NEW t \in Turns,
             \/ Use(t) \/ EndUse(t) \/ Retry(t) \/ Evict(t) \/ EvictEnds(t)
             \/ CancelSpawn(t) \/ AbortEnds(t) \/ CancelWait(t)
      PROVE  Shared!Next \/ UNCHANGED Shared!vars
  BY <1>2, StillTurn, TalkRefines, LeaveRefines, EvictRefines, DropRefines
  DEF Shared!Next
<1>3. ASSUME \/ CloseLast \/ CloseNext \/ UNCHANGED vars
             \/ \E o \in Owners : Opens(o) \/ Ends(o)
      PROVE  UNCHANGED Shared!vars
  BY <1>3, StillShared DEF CloseLast, CloseNext, vars, Opens, Ends, turnVars
<1>4. ASSUME Stop \/ \E S \in SUBSET Owners : Reap(S)
      PROVE  Shared!Next
  BY <1>4, ReapRefines
<1> HIDE DEF SharedInv
<1> QED
  BY <1>1, <1>2, <1>3, <1>4 DEF Next

LEMMA SharedInit == Init => Shared!Init /\ Kept
<1> SUFFICES ASSUME Init PROVE Shared!Init /\ Kept
  OBVIOUS
<1>1. Started = [t \in Turns |-> None] /\ Held = [t \in Turns |-> None]
  BY DEF Init, Started, Held
<1>2. Talking = {}
  BY DEF Init, Talking
<1> HIDE DEF Started, Held, Talking
<1> QED
  BY <1>1, <1>2 DEF Init, Shared!Init, Kept

(* The pool implements SharedSessions, for any number of turns, principals *)
(* and subprocesses: in particular the session that a turn is given after  *)
(* it closed a spare one is still on offer (_get_or_create holds the lock  *)
(* of the table over that wait), and a session is used by one turn.        *)
THEOREM PoolImplements == Spec => KeepsSessions
<1>1. SharedInv /\ [Next]_vars => Kept'
  BY KeptStep
<1>2. SharedInv /\ [Next]_vars => [Shared!Next]_(Shared!vars)
  BY SharedStep
<1> QED
  BY <1>1, <1>2, SharedInit, Invariant, PTL
  DEF Spec, SharedInv, KeepsSessions, Shared!Spec
=============================================================================
