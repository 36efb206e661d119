--------------------------- MODULE MCGatedPlans ---------------------------
(***************************************************************************)
(* Finite instances of GatedPlans.                                         *)
(***************************************************************************)
EXTENDS GatedPlans

CONSTANTS t1, t2, web, mcp, none, normal, serviceAffecting, novel

TwoTokens   == {t1, t2}

\* novel is a word of the catalog that the policy table does not know.
KnownRisks == {normal, serviceAffecting}
AllRisks   == KnownRisks \cup {novel}
Mapping(a, b) == [r \in AllRisks |-> CASE r = normal -> a
                                       [] r = serviceAffecting -> b
                                       [] r = novel -> 2]

\* The defaults, a fleet whose operator treats normal work with most care,
\* and one whose operator asks for a word in the chat only.
Default == Mapping(0, 2)
Strict  == Mapping(3, 2)
Relaxed == Mapping(1, 1)

AnyPolicy     == {Default, Strict, Relaxed}

\* A plan of ordinary steps, a restore plan, and a plan of both kinds.
Ordinary == [catalog |-> normal, declared |-> none]
Restore  == [catalog |-> normal, declared |-> serviceAffecting]
Careful  == [catalog |-> serviceAffecting, declared |-> normal]
Unrated  == [catalog |-> novel, declared |-> normal]
SomeRatings == {{Ordinary}, {Restore}, {Unrated}, {Ordinary, Careful}}
=============================================================================
