------------------------------ MODULE MCMcpPool ------------------------------
(***************************************************************************)
(* Two turns of one principal and one of another.                          *)
(***************************************************************************)
EXTENDS McpPool, TLC

CONSTANTS t1, t2, t3, alice, bob

MCKeyOf == [t \in Turns |-> IF t = t3 THEN bob ELSE alice]

Symmetry == Permutations({t1, t2})
=============================================================================
