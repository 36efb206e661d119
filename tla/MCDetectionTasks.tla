-------------------------- MODULE MCDetectionTasks --------------------------
(***************************************************************************)
(* Finite instances of DetectionTasks: a device has Cardinality(Ids) tasks *)
(* in its life.                                                            *)
(***************************************************************************)
EXTENDS DetectionTasks, TLC

Symmetry == Permutations(Ids) \cup Permutations(Procs)
=============================================================================
