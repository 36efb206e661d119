--------------------------- MODULE MCPlanEngine ---------------------------
(***************************************************************************)
(* Finite instances of PlanEngine: which plans a caller submits.           *)
(***************************************************************************)
EXTENDS PlanEngine

CONSTANTS d1, d2, k1, k2, g1, g2, NoParam

TwoDevices == {d1, d2}
TwoKeys    == {k1, k2}
TwoGroups  == {g1, g2}
KeyGroups  == [k \in TwoKeys |-> IF k = k1 THEN g1 ELSE g2]
SomeValues == 0..3

\* Each device has both parameters, except that d2 lacks the second one.
Factory == [d \in TwoDevices |->
               [k \in TwoKeys |-> IF d = d2 /\ k = k2 THEN NoParam ELSE 0]]

\* Step i of a plan writes the value i, so that writes can be told apart.
Write(d, upd, keys, i, deps) ==
    [device |-> d, update |-> upd, params |-> [k \in keys |-> i], deps |-> deps]

\* Every dependency graph over three steps, on one device or on two.
Graphs == { <<Write(a, TRUE, {k1}, 1, {}),
              Write(b, TRUE, {k1}, 2, D2),
              Write(c, TRUE, {k2}, 3, D3)>> :
            a \in {d1}, b \in TwoDevices, c \in TwoDevices,
            D2 \in SUBSET {1}, D3 \in SUBSET {1, 2} }

\* Three steps, the first on d1, that write one parameter, or both, by an
\* operation that is read back or by one that is not.
Shapes == {<<TRUE, {k1}>>, <<TRUE, {k1, k2}>>, <<FALSE, {k1}>>}
Overwrites == { <<Write(a, x[1], x[2], 1, {}),
                  Write(b, y[1], y[2], 2, {}),
                  Write(c, z[1], z[2], 3, {})>> :
                a \in {d1}, b \in TwoDevices, c \in TwoDevices,
                x \in Shapes, y \in Shapes, z \in Shapes }

Submitted == Graphs \cup Overwrites
=============================================================================
