--------------------------- MODULE SharedSessions ---------------------------
(***************************************************************************)
(* What the pool of subprocesses promises.  A turn starts a session and    *)
(* offers it to its principal, or drops it.  A turn is given what is       *)
(* offered to its own principal at that moment, or what it offered itself; *)
(* it keeps that until it lets go, also when the offer has ended by then,  *)
(* and talks over it when nobody else does.  An offer that was withdrawn   *)
(* or replaced is never made again: a name goes to a new session only when *)
(* no turn holds it.                                                       *)
(*                                                                         *)
(* McpPool implements this: the promise is kept although turns, evictions  *)
(* and the reaper meet at a table, whose lock they give up while they wait *)
(* for a subprocess to start or for another turn to finish.                *)
(***************************************************************************)
CONSTANTS Turns, Keys, KeyOf, Owners, None

VARIABLES
    offer,    \* offer[k]: the session offered to the turns of k, or None
    started,  \* started[t]: the session t has started and not yet offered
    held,     \* held[t]: the session t was given
    talking   \* the turns that talk over theirs

vars == <<offer, started, held, talking>>

Init ==
    /\ offer = [k \in Keys |-> None]
    /\ started = [t \in Turns |-> None]
    /\ held = [t \in Turns |-> None]
    /\ talking = {}

\* What is still offered to the principal, if anything, is replaced.
Start(t, o) ==
    /\ \A u \in Turns : started[u] # o /\ held[u] # o
    /\ \A k \in Keys : offer[k] # o
    /\ started[t] = None
    /\ started' = [started EXCEPT ![t] = o]
    /\ offer' = [offer EXCEPT ![KeyOf[t]] = None]
    /\ UNCHANGED <<held, talking>>

Drop(t) ==
    /\ started' = [started EXCEPT ![t] = None]
    /\ UNCHANGED <<offer, held, talking>>

Idle(o) == \A t \in talking : held[t] # o

\* t is given o; it talks at once, if nobody else does, or waits.
Give(t, o) ==
    /\ o # None /\ held[t] = None
    /\ held' = [held EXCEPT ![t] = o]
    /\ talking' = IF Idle(o) THEN talking \cup {t} ELSE talking

Offer(t) ==
    /\ offer' = [offer EXCEPT ![KeyOf[t]] = started[t]]
    /\ started' = [started EXCEPT ![t] = None]
    /\ Give(t, started[t])

Join(t) ==
    /\ Give(t, offer[KeyOf[t]])
    /\ UNCHANGED <<offer, started>>

Talk(t) ==
    /\ held[t] # None /\ t \notin talking /\ Idle(held[t])
    /\ talking' = talking \cup {t}
    /\ UNCHANGED <<offer, started, held>>

Leave(t) ==
    /\ held' = [held EXCEPT ![t] = None]
    /\ talking' = talking \ {t}
    /\ UNCHANGED <<offer, started>>

Withdraw(K) ==
    /\ offer' = [k \in Keys |-> IF k \in K THEN None ELSE offer[k]]
    /\ UNCHANGED <<started, held, talking>>

Next ==
    \/ \E t \in Turns :
          \/ Drop(t) \/ Offer(t) \/ Join(t) \/ Talk(t) \/ Leave(t)
          \/ \E o \in Owners : Start(t, o)
    \/ \E K \in SUBSET Keys : Withdraw(K)

Spec == Init /\ [][Next]_vars
=============================================================================
