---------------------------- MODULE MCAcsFirings ----------------------------
(***************************************************************************)
(* Two firings and two control requests, which take three clicks between   *)
(* them: enough for a third start to meet what two crossing ones left.     *)
(***************************************************************************)
EXTENDS AcsFirings

MCLoops == 1..3
MCHandlers == 1..2
=============================================================================
