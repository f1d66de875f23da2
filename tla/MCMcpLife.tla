----------------------------- MODULE MCMcpLife -----------------------------
EXTENDS McpLife, TLC

CONSTANTS server, tool, other, path

Command == Layer("command", FALSE, {}, {})
Own(g, a, o, w) == [Layer("gateway", TRUE, g, a) EXCEPT !.options.open = o,
                                                        !.options.audit = w]
MCServers == {server}
MCEntries == {<<Command>>, <<Own({tool}, {tool}, FALSE, TRUE), Command>>,
              <<Layer("run", TRUE, {}, {}), Own({other}, {}, TRUE, FALSE), Command>>,
              <<Layer("remote", FALSE, {}, {})>>, <<Layer("run", TRUE, {}, {})>>}
MCWrapOptions ==
    {[gateway |-> g, gate |-> IF g THEN {tool} ELSE {}, allow |-> {}, named |-> n] :
       g \in BOOLEAN, n \in BOOLEAN}

MCTools == {tool, other}
Loose == [required |-> {}, types |-> path :> "", additional |-> TRUE]
Strict == [required |-> {path}, types |-> path :> "number", additional |-> FALSE]
Call(t, a) == [call |-> "call", tool |-> t, arguments |-> a, seen |-> 0]
Object(f) == [object |-> TRUE, of |-> f]
Text == [object |-> FALSE, of |-> <<>>]
MCRequests == {Call(tool, Object(path :> "integer")),
               Call(tool, Object(path :> "string")), Call(other, Text),
               [Call(tool, Text) EXCEPT !.call = "other"],
               [Call(tool, Text) EXCEPT !.call = "garbled"]}
MCReplies == {[kind |-> "reply", tools |-> tool :> Loose],
              [kind |-> "list", tools |-> tool :> Strict],
              [kind |-> "refusal", tools |-> <<>>],
              [kind |-> "talk", tools |-> <<>>], [kind |-> "garbled", tools |-> <<>>]}
=============================================================================
