------------------------------- MODULE McpLife -------------------------------
(***************************************************************************)
(* An MCP server between its configuration and a session: `ql mcp wrap`    *)
(* and `unwrap` rewrite the launch command, and the client then launches   *)
(* what the file says. A launch with one gateway layer is a session of     *)
(* McpGateway under that layer's options.                                  *)
(***************************************************************************)
EXTENDS McpConfig, McpGateway

CONSTANTS LaunchWithin  \* bound: a session opens after at most so many commands

vars == <<configVars, sessionVars>>

Launch(s) ==
    /\ config # Torn /\ last.n <= LaunchWithin /\ now = 0
    /\ LET layers == SelectSeq(config[s], LAMBDA l : l.kind = "gateway")
       IN  Len(layers) = 1 /\ Start(layers[1].options)

Init == ConfigInit /\ SessionInit

Next == \/ pc = "idle" /\ ConfigNext /\ UNCHANGED sessionVars
        \/ (\E s \in Servers : Launch(s)) /\ UNCHANGED configVars
        \/ SessionNext /\ UNCHANGED configVars

Spec == Init /\ [][Next]_vars
FairSpec == Spec /\ SessionFairness

\* The type invariant of the configuration and of the session.
TypeOK ==
    /\ config = Torn \/ DOMAIN config = Servers
    /\ last.n \in 0 .. MaxCommands /\ now \in 0 .. MaxSeconds
    /\ pc \in {"idle", "ask", "handshake", "serve", "deny", "forward", "wait",
               "done", "failed"}
    /\ relay \in {"none", "flush", "read", "write", "ended"}
    /\ known \in [Tools -> 0 .. Len(said)]
    /\ heard \in 0 .. Len(said) /\ taken \in 0 .. Len(sent)
    /\ clientOpen \in BOOLEAN /\ serverUp \in BOOLEAN
=============================================================================
