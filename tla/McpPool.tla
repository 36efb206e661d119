------------------------------- MODULE McpPool -------------------------------
(***************************************************************************)
(* The chatbot's pool of MCP subprocesses (admz/chatbot/mcp_pool.py) with  *)
(* the turns of stream_turn (admz/chatbot/client.py) that use it.  All of  *)
(* it runs on one event loop, so what stands between two awaits is one     *)
(* step.  The awaits are: a lock that is taken, the handshake of a new     *)
(* subprocess, the end of one that is closed, and the turn itself.         *)
(*                                                                         *)
(* An owner is the task that holds one subprocess (_SessionOwner) together *)
(* with the entry made of it; its name is used again once nothing refers   *)
(* to it.  There is no clock: nothing refreshes last_used during a use and *)
(* a turn may last as long as it likes, so that any entry may be past the  *)
(* idle timeout when the reaper looks.                                     *)
(***************************************************************************)
EXTENDS FiniteSets, Naturals

CONSTANTS
    Turns,          \* the tasks that run chat turns, each one turn at a time
    Keys,           \* the principals
    KeyOf,          \* KeyOf[t]: the principal of t
    Owners,         \* names for subprocesses and their tasks
    None,           \* no owner, no turn
    MaxAbandoned    \* bound on the owners left behind by cancelled turns

ASSUME PoolAssumption ==
    /\ KeyOf \in [Turns -> Keys]
    /\ None \notin Owners \cup Turns
    /\ MaxAbandoned \in Nat

VARIABLES
    life,       \* life[o]: "gone", "opening" (handshake) or "open"
    asked,      \* live owners whose _close_requested is set
    entries,    \* entries[k]: the owner of the entry in _entries, or None
    lock,       \* the turn that holds _entries_lock across an await, or None
    pc,         \* pc[t]: where turn t is
    mine,       \* mine[t]: the owner t started and has not yet registered
    entry,      \* entry[t]: the entry t was given, or evicted
    retried,    \* turns in their second attempt
    closing,    \* the owner whose end the reaper or stop() awaits, or None
    queue,      \* the popped owners it closes next
    phase,      \* "running", "stopping" or "stopped"
    abandoned   \* history: live owners whose turn or reaper was cancelled
                \* before it had seen to their end

ownerVars == <<life, asked, abandoned>>
turnVars == <<pc, mine, entry, retried>>
sweepVars == <<closing, queue, phase>>
vars == <<ownerVars, entries, lock, turnVars, sweepVars>>

Registered == {entries[k] : k \in Keys} \ {None}
Alive == {o \in Owners : life[o] # "gone"}

\* Nothing holds a reference to o any more.
Unused(o) ==
    /\ o \notin Alive \cup Registered \cup queue \cup {closing}
    /\ \A t \in Turns : o \notin {mine[t], entry[t]}

\* The lock of the entry of o is free.
Free(o) == \A t \in Turns : pc[t] = "use" => entry[t] # o

At(t, place) == pc' = [pc EXCEPT ![t] = place]

Init ==
    /\ life = [o \in Owners |-> "gone"]
    /\ asked = {} /\ abandoned = {}
    /\ entries = [k \in Keys |-> None]
    /\ lock = None
    /\ pc = [t \in Turns |-> "idle"]
    /\ mine = [t \in Turns |-> None]
    /\ entry = [t \in Turns |-> None]
    /\ retried = {}
    /\ closing = None /\ queue = {} /\ phase = "running"

----------------------------------------------------------------------------
(* The owner task.                                                         *)

\* The handshake is through and the session is ready.
Opens(o) ==
    /\ life[o] = "opening"
    /\ life' = [life EXCEPT ![o] = "open"]
    /\ UNCHANGED <<asked, abandoned, entries, lock, turnVars, sweepVars>>

Over(o) ==
    /\ life' = [p \in Owners |-> IF p = o THEN "gone" ELSE life[p]]
    /\ asked' = asked \ {o}
    /\ abandoned' = abandoned \ {o}

\* The task ends: it was asked to, or its subprocess died.
Ends(o) ==
    /\ life[o] = "open" \/ o \in asked
    /\ Over(o)
    /\ UNCHANGED <<entries, lock, turnVars, sweepVars>>

\* aclose: the request, which takes no time ...
AskToClose(o) == asked' = asked \cup ({o} \cap Alive)

\* ... and the wait for the end: the owner ends, or is cancelled after
\* _CLOSE_TIMEOUT_SECONDS and left to unwind by itself.
TimesOut(o) == o \in asked /\ UNCHANGED ownerVars
CloseReturns(o) == Over(o) \/ TimesOut(o)

----------------------------------------------------------------------------
(* A turn: acquire, the stream, and the retry over a dead session.         *)

Begin(t) ==
    /\ phase = "running"
    /\ pc[t] = "idle"
    /\ At(t, "lookup")
    /\ UNCHANGED <<ownerVars, entries, lock, mine, entry, retried, sweepVars>>

\* t was given the entry of o: it uses it now or waits for its turn.
Given_Unlocked(t, o) ==
    /\ entry' = [entry EXCEPT ![t] = o]
    /\ At(t, "use")
Given(t, o) ==
    /\ entry' = [entry EXCEPT ![t] = o]
    /\ At(t, IF Free(o) THEN "use" ELSE "wait")

Usable(k) == entries[k] \in Alive

\* The fast path of _get_or_create: the entry in the table is usable.
LookupHit(t) ==
    /\ pc[t] = "lookup"
    /\ lock = None
    /\ Usable(KeyOf[t])
    /\ Given(t, entries[KeyOf[t]])
    /\ UNCHANGED <<ownerVars, entries, lock, mine, retried, sweepVars>>

\* There is none, or a dead one, which is dropped: start a new owner.
LookupMiss(t) ==
    /\ pc[t] = "lookup"
    /\ lock = None
    /\ ~Usable(KeyOf[t])
    /\ \E o \in Owners : Unused(o)
    /\ LET o == CHOOSE p \in Owners : Unused(p) IN
          /\ life' = [life EXCEPT ![o] = "opening"]
          /\ mine' = [mine EXCEPT ![t] = o]
    /\ entries' = [entries EXCEPT ![KeyOf[t]] = None]
    /\ At(t, "spawn")
    /\ UNCHANGED <<asked, abandoned, lock, entry, retried, sweepVars>>

\* The turn is over, or goes on without tools and never comes back here.
TurnEnds(t) ==
    /\ At(t, "idle")
    /\ mine' = [mine EXCEPT ![t] = None]
    /\ entry' = [entry EXCEPT ![t] = None]
    /\ retried' = retried \ {t}

\* The subprocess cannot be started or fails its handshake.
SpawnFails(t) ==
    /\ pc[t] = "spawn"
    /\ life[mine[t]] = "opening"
    /\ Over(mine[t])
    /\ TurnEnds(t)
    /\ UNCHANGED <<entries, lock, sweepVars>>

\* The handshake is through, but the lock of the table is taken.
SpawnedWaits(t) ==
    /\ pc[t] = "spawn"
    /\ life[mine[t]] # "opening"
    /\ lock # None
    /\ At(t, "register")
    /\ UNCHANGED <<ownerVars, entries, lock, mine, entry, retried, sweepVars>>

\* The handshake is through and t holds the lock of the table.
Spawned(t) ==
    /\ \/ pc[t] = "spawn" /\ life[mine[t]] # "opening"
       \/ pc[t] = "register"
    /\ lock = None

\* Nobody else made a usable entry meanwhile: register ours.  It is not
\* asked whether ours still lives.
Register(t) ==
    /\ Spawned(t)
    /\ ~Usable(KeyOf[t])
    /\ entries' = [entries EXCEPT ![KeyOf[t]] = mine[t]]
    /\ Given(t, mine[t])
    /\ mine' = [mine EXCEPT ![t] = None]
    /\ UNCHANGED <<ownerVars, lock, retried, sweepVars>>

\* Somebody did: take theirs and close ours, holding the lock.
Discard_Forgets(t) ==
    /\ Spawned(t)
    /\ Usable(KeyOf[t])
    /\ Given(t, entries[KeyOf[t]])
    /\ mine' = [mine EXCEPT ![t] = None]
    /\ UNCHANGED <<ownerVars, entries, lock, retried, sweepVars>>
Discard(t) ==
    /\ Spawned(t)
    /\ Usable(KeyOf[t])
    /\ entry' = [entry EXCEPT ![t] = entries[KeyOf[t]]]
    /\ lock' = t
    /\ AskToClose(mine[t])
    /\ At(t, "discard")
    /\ UNCHANGED <<life, abandoned, entries, mine, retried, sweepVars>>

DiscardEnds(t) ==
    /\ pc[t] = "discard"
    /\ CloseReturns(mine[t])
    /\ lock' = None
    /\ Given(t, entry[t])
    /\ mine' = [mine EXCEPT ![t] = None]
    /\ UNCHANGED <<entries, retried, sweepVars>>

\* The lock of the entry becomes free.  The entry may have left the table,
\* or its session ended, while t waited; nothing looks again.
Use(t) ==
    /\ pc[t] = "wait"
    /\ Free(entry[t])
    /\ At(t, "use")
    /\ UNCHANGED <<ownerVars, entries, lock, mine, entry, retried, sweepVars>>

\* The stream ends, well or not, or the client is gone.
EndUse(t) ==
    /\ pc[t] = "use"
    /\ TurnEnds(t)
    /\ UNCHANGED <<ownerVars, entries, lock, sweepVars>>

\* The first attempt meets a dead session before anything was said, and
\* the error is one that the client recognises: evict and try again.
Retry(t) ==
    /\ pc[t] = "use"
    /\ t \notin retried
    /\ entry[t] \notin Alive \ asked
    /\ entry' = [entry EXCEPT ![t] = None]
    /\ retried' = retried \cup {t}
    /\ At(t, "evict")
    /\ UNCHANGED <<ownerVars, entries, lock, mine, sweepVars>>

\* evict drops what the key has now, which need not be what t saw dead.
Evict_LeavesEntry(t) ==
    /\ pc[t] = "evict"
    /\ lock = None
    /\ LET o == entries[KeyOf[t]] IN
          /\ AskToClose(o)
          /\ entry' = [entry EXCEPT ![t] = o]
          /\ At(t, IF o = None THEN "lookup" ELSE "evicting")
    /\ UNCHANGED <<life, abandoned, entries, lock, mine, retried, sweepVars>>
Evict(t) ==
    /\ pc[t] = "evict"
    /\ lock = None
    /\ LET o == entries[KeyOf[t]] IN
          /\ entries' = [entries EXCEPT ![KeyOf[t]] = None]
          /\ AskToClose(o)
          /\ entry' = [entry EXCEPT ![t] = o]
          /\ At(t, IF o = None THEN "lookup" ELSE "evicting")
    /\ UNCHANGED <<life, abandoned, lock, mine, retried, sweepVars>>

EvictEnds(t) ==
    /\ pc[t] = "evicting"
    /\ CloseReturns(entry[t])
    /\ entry' = [entry EXCEPT ![t] = None]
    /\ At(t, "lookup")
    /\ UNCHANGED <<entries, lock, mine, retried, sweepVars>>

----------------------------------------------------------------------------
(* Cancellation: the client disconnects.  (In "use" that is EndUse.)       *)

\* In the handshake: start asks the owner to close, and waits.
CancelSpawn(t) ==
    /\ pc[t] = "spawn"
    /\ AskToClose(mine[t])
    /\ At(t, "abort")
    /\ UNCHANGED <<life, abandoned, entries, lock, mine, entry, retried, sweepVars>>

AbortEnds(t) ==
    /\ pc[t] = "abort"
    /\ CloseReturns(mine[t])
    /\ TurnEnds(t)
    /\ UNCHANGED <<entries, lock, sweepVars>>

\* While it waits for a lock, or for the end of an owner that nobody will
\* cancel now.  "register" leaves an owner that nobody has asked to close.
CancelWait(t) ==
    /\ pc[t] \notin {"idle", "spawn", "use"}
    /\ LET left == {mine[t]} \cup (IF pc[t] = "evicting" THEN {entry[t]} ELSE {})
       IN  abandoned' = abandoned \cup (left \cap Alive)
    /\ Cardinality(abandoned') <= MaxAbandoned
    /\ lock' = IF pc[t] = "discard" THEN None ELSE lock
    /\ TurnEnds(t)
    /\ UNCHANGED <<life, asked, entries, sweepVars>>

----------------------------------------------------------------------------
(* The reaper and the end of the pool.                                     *)

\* Close the owners of S one after another; the others in asking were asked.
CloseOneOf(S, asking) ==
    \E o \in S :
        /\ closing' = o
        /\ queue' = S \ {o}
        /\ asked' = asking \cup ({o} \cap Alive)

\* _evict_idle pops the entries past the timeout, used by a turn or not.
Reap(S) ==
    /\ phase = "running"
    /\ closing = None
    /\ lock = None
    /\ S # {}
    /\ S \subseteq Registered
    /\ entries' = [k \in Keys |-> IF entries[k] \in S THEN None ELSE entries[k]]
    /\ CloseOneOf(S, asked)
    /\ UNCHANGED <<life, abandoned, lock, turnVars, phase>>

CloseLast ==
    /\ closing # None
    /\ queue = {}
    /\ CloseReturns(closing)
    /\ closing' = None
    /\ phase' = IF phase = "stopping" THEN "stopped" ELSE phase
    /\ UNCHANGED <<entries, queue, lock, turnVars>>

CloseNext ==
    /\ closing # None
    /\ queue # {}
    /\ \/ /\ life' = [life EXCEPT ![closing] = "gone"]
          /\ CloseOneOf(queue, asked \ {closing})
       \/ closing \in asked /\ UNCHANGED life /\ CloseOneOf(queue, asked)
    /\ UNCHANGED <<abandoned, entries, lock, turnVars, phase>>

\* The process shuts down, once the server has no request left.  The reaper
\* is cancelled wherever it is, and what it had popped stays with nobody.
Stop ==
    /\ phase = "running"
    /\ \A t \in Turns : pc[t] = "idle"
    /\ abandoned' = abandoned \cup (({closing} \cup queue) \cap Alive)
    /\ entries' = [k \in Keys |-> None]
    /\ IF Registered # {}
       THEN CloseOneOf(Registered, asked) /\ phase' = "stopping"
       ELSE closing' = None /\ queue' = {} /\ phase' = "stopped" /\ UNCHANGED asked
    /\ UNCHANGED <<life, lock, turnVars>>

----------------------------------------------------------------------------
Next ==
    \/ \E t \in Turns :
          \/ Begin(t) \/ LookupHit(t) \/ LookupMiss(t)
          \/ SpawnFails(t) \/ SpawnedWaits(t) \/ Register(t)
          \/ Discard(t) \/ DiscardEnds(t)
          \/ Use(t) \/ EndUse(t) \/ Retry(t) \/ Evict(t) \/ EvictEnds(t)
          \/ CancelSpawn(t) \/ AbortEnds(t) \/ CancelWait(t)
    \/ \E o \in Owners : Opens(o) \/ Ends(o)
    \/ \E S \in SUBSET Owners : Reap(S)
    \/ CloseLast \/ CloseNext \/ Stop

Spec == Init /\ [][Next]_vars

----------------------------------------------------------------------------
(* Properties.                                                             *)

Places == {"idle", "lookup", "spawn", "abort", "register", "discard",
           "wait", "use", "evict", "evicting"}

\* The types, and that the lock is held across an await by exactly the turn
\* that discards a duplicate.
TypeOK ==
    /\ life \in [Owners -> {"gone", "opening", "open"}]
    /\ asked \subseteq Alive /\ abandoned \subseteq Alive
    /\ entries \in [Keys -> Owners \cup {None}]
    /\ lock \in Turns \cup {None}
    /\ pc \in [Turns -> Places]
    /\ mine \in [Turns -> Owners \cup {None}]
    /\ entry \in [Turns -> Owners \cup {None}]
    /\ retried \subseteq Turns
    /\ closing \in Owners \cup {None}
    /\ queue \subseteq Owners
    /\ phase \in {"running", "stopping", "stopped"}
    /\ \A t \in Turns : lock = t <=> pc[t] = "discard"

\* No subprocess is leaked (_get_or_create, aclose): one that nobody asked
\* to close is in the table, still with the turn that started it, about to
\* be closed, or its turn or the reaper was cancelled at a bad moment.
NoLeak ==
    \A o \in Alive \ asked :
        \/ o \in Registered
        \/ \E t \in Turns : mine[t] = o /\ pc[t] \in {"spawn", "register"}
        \/ o \in queue \cup abandoned

\* What the table offers is not being closed, whoever closes it (evict,
\* _evict_idle and _evict_all pop first): a turn that finds an entry is
\* never given one whose end was already decided.
TableIsOpen == Registered \cap (asked \cup queue \cup abandoned) = {}

\* Two turns never talk over one session at once (the lock of the entry),
\* and nobody talks over a session that the table has for another principal.
OneUser ==
    \A t, u \in Turns :
        pc[t] = "use" =>
            /\ pc[u] = "use" /\ t # u => entry[t] # entry[u]
            /\ entries[KeyOf[u]] = entry[t] => KeyOf[u] = KeyOf[t]

\* A turn that takes the session of another turn takes one that lives at
\* that moment (`usable`, #302).  It may die before the turn uses it.
NeverTakesDead ==
    [][\A t \in Turns :
          entry'[t] \notin {None, entry[t], mine[t]} /\ pc'[t] # "evicting"
             => life[entry'[t]] = "open"]_vars

(* The pool keeps the promise of SharedSessions: a turn is given what the   *)
(* table has for its own principal at that moment, also after the wait for *)
(* a spare subprocess, and talks over it alone.                            *)
Started == [t \in Turns |->
               IF pc[t] \in {"spawn", "register"} THEN mine[t] ELSE None]
Held == [t \in Turns |-> IF pc[t] \in {"wait", "use"} THEN entry[t] ELSE None]
Talking == {t \in Turns : pc[t] = "use"}
Shared == INSTANCE SharedSessions
          WITH offer <- entries, started <- Started, held <- Held,
               talking <- Talking
KeepsSessions == Shared!Spec
=============================================================================
