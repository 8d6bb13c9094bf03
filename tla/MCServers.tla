------------------------------ MODULE MCServers ------------------------------
(***************************************************************************)
(* Values of the constants of Freshness and LanguageServer.  The MCP server *)
(* and the language server are two processes that keep one index current;   *)
(* neither reads the other's state, so a behaviour explores one of them.    *)
(***************************************************************************)
EXTENDS Freshness, LanguageServer, TLC

CONSTANTS c1, c2

VARIABLE which   \* the server this behaviour explores

ServersInit == Init /\ EditorInit /\ which \in {"mcp", "lsp"}

ServersNext ==
    /\ \/ which = "mcp" /\ Next /\ UNCHANGED editorVars
       \/ which = "lsp" /\ EditorNext /\ UNCHANGED vars
    /\ UNCHANGED which

\* The fairness of Freshness; a behaviour of the language server never enables
\* these actions.
ServersFair ==
    \A id \in IDs : WF_vars(which = "mcp" /\ Scheduled(id)) /\ WF_vars(which = "mcp" /\ WatchEnds(id))

ServersSpec == ServersInit /\ [][ServersNext]_<<vars, editorVars, which>> /\ ServersFair
=============================================================================
