-------------------------- MODULE MCTempCredentials --------------------------
(***************************************************************************)
(* Two MCP servers and the web process: a request without an approval in   *)
(* each server, one with an approval, and one operator.                    *)
(***************************************************************************)
EXTENDS TempCredentials

CONSTANTS s1, s2, web, asks, asksToo, approved, op

MCHome == [h \in {asks, asksToo, approved, op} |->
              CASE h = asks -> s1 [] h \in {asksToo, op} -> s2 [] OTHER -> web]
=============================================================================
