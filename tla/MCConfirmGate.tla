--------------------------- MODULE MCConfirmGate ---------------------------
(***************************************************************************)
(* ConfirmGate for TLC: one web process and one MCP process.               *)
(***************************************************************************)
EXTENDS ConfirmGate

CONSTANTS web, mcp, w1, m1, t1, t2

MCTokens == {t1, t2}

MCProcesses == {web, mcp}

\* A request of the web process races with one of the MCP process.
MCHandlers == {w1, m1}
MCHome == [h \in MCHandlers |-> IF h = m1 THEN mcp ELSE web]

Session(level, kind, secret) == [level |-> level, kind |-> kind, secret |-> secret]

MCProfiles == {Session("llm_confirm", "operation", FALSE),
               Session("url_and_password", "operation", TRUE)}
=============================================================================
