---------------------------- MODULE MCDriftReview ----------------------------
(***************************************************************************)
(* A scheduled audit in the web process, a check asked for in a chat, and  *)
(* one operator; a device with two configurations.                         *)
(***************************************************************************)
EXTENDS DriftReview

CONSTANTS audit, hush, asked, web, mcp

\* hush is the audit of a schedule that does not notify.
AtWeb == [c \in {audit, hush} |-> web]
Alone == [c \in {audit} |-> web]
MCHome == [c \in {audit, asked} |-> IF c = audit THEN web ELSE mcp]
=============================================================================
