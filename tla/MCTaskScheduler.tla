-------------------------- MODULE MCTaskScheduler --------------------------
(***************************************************************************)
(* Finite instances of TaskScheduler.  No bound on time or on restarts is  *)
(* needed: times are kept as countdowns.                                   *)
(***************************************************************************)
EXTENDS TaskScheduler

ShortAndLong == {1, 2}
AnySetting   == {0, 3}
=============================================================================
