----------------------------- MODULE McpGateway -----------------------------
(***************************************************************************)
(* One session of `ql mcp gateway` (crates/ql-cli/src/mcp_gateway.rs): a   *)
(* proxy between an MCP client (stdin, stdout) and the server it spawns.   *)
(* The main thread asks the server for its tools, then inspects and        *)
(* forwards the client's lines; the relay thread passes the server's lines *)
(* on and learns the tools they advertise. They share the policy and       *)
(* stdout, each behind its own lock, held for one step at most.            *)
(***************************************************************************)
EXTENDS Naturals, Sequences

CONSTANTS Tools,        \* tool names
          Requests,     \* the client's lines: [call, tool, arguments]
          Replies,      \* the server's lines: [kind, tools]
          MaxSends,     \* bound on the client's lines
          MaxSays,      \* bound on the server's lines
          MaxLines      \* lines scanned for the handshake's reply (code: 100)

ASSUME SessionAssumption ==
    /\ MaxLines \in Nat
    /\ \A r \in Requests :
         /\ r = [call |-> r.call, tool |-> r.tool, arguments |-> r.arguments,
                 seen |-> r.seen]
         /\ r.tool \in Tools

VARIABLES pc,           \* main: "idle", "ask", "handshake", "serve", "deny",
                        \* "forward", "wait", "done", "failed"
          relay,        \* relay thread: "none", "flush", "read", "write", "ended"
          options,      \* the command line: [gate, allow, open, audit]
          known,        \* policy.tools: the line that advertised each tool, or 0
          loaded,       \* policy.schemas_loaded
          buffer,       \* buffered_for_client
          said, heard,  \* the server's lines, and how many were read
          sent, taken,  \* the client's lines, and how many were read
          forwarded,    \* what reached the server's stdin: lines of the client
          shown,        \* what reached the client's stdout: [from, line]
          log,          \* the decisions, in order: [line, verdict, heard]
          file,         \* the audit files written: none, or one with the decisions
          clientOpen, serverUp

gateway == <<pc, relay, known, loaded, buffer, heard, taken, forwarded, shown,
             log, file>>
sessionVars == <<gateway, options, said, sent, clientOpen, serverUp>>

Line(k) == said[k]

(* The inspection *********************************************************)

JsonTypes == {"string", "number", "integer", "boolean", "object", "array", "null"}

\* A declared type the gateway does not know constrains nothing.
Fits(type, value) == \/ type \notin JsonTypes
                     \/ type = value
                     \/ type = "number" /\ value = "integer"

\* Absent arguments are an empty object. A property with no declared type is
\* present with type "".
WithinContract(schema, arguments) ==
    /\ arguments.object
    /\ schema.required \subseteq DOMAIN arguments.of
    /\ \A key \in DOMAIN arguments.of :
         IF key \in DOMAIN schema.types
         THEN Fits(schema.types[key], arguments.of[key])
         ELSE schema.additional

Gated(tool) == tool \in options.gate \ options.allow

\* The first failing check decides.
Verdict(request) ==
    LET asked == request.tool
    IN  IF Gated(asked) THEN "gated"
        ELSE IF known[asked] = 0
        THEN IF loaded /\ ~options.open THEN "unknown" ELSE "allow"
        ELSE IF WithinContract(Line(known[asked]).tools[asked], request.arguments)
             THEN "allow" ELSE "contract"

\* load_tools_from_list_result: each tool's latest schema replaces the one held,
\* and a tool no longer advertised stays. "reply" and "list" carry a result.
Advertises(k) == said[k].kind \in {"reply", "list"}
LearnFirst(k) ==
    IF Advertises(k)
    THEN /\ loaded' = TRUE
         /\ known' = [t \in Tools |-> IF t \in DOMAIN said[k].tools /\ known[t] = 0
                                      THEN k ELSE known[t]]
    ELSE UNCHANGED <<loaded, known>>
Learn(k) ==
    IF Advertises(k)
    THEN /\ loaded' = TRUE
         /\ known' = [t \in Tools |-> IF t \in DOMAIN said[k].tools
                                      THEN k ELSE known[t]]
    ELSE UNCHANGED <<loaded, known>>

(* The handshake **********************************************************)

SessionInit ==
    /\ pc = "idle" /\ relay = "none"
    /\ options = [gate |-> {}, allow |-> {}, open |-> FALSE, audit |-> FALSE]
    /\ known = [t \in Tools |-> 0] /\ loaded = FALSE
    /\ buffer = <<>> /\ said = <<>> /\ heard = 0
    /\ sent = <<>> /\ taken = 0 /\ forwarded = <<>> /\ shown = <<>>
    /\ log = <<>> /\ file = {}
    /\ clientOpen = FALSE /\ serverUp = FALSE

\* The server is spawned; the client that launched the gateway may write already.
Start(o) ==
    /\ pc = "idle"
    /\ pc' = "ask" /\ options' = o /\ clientOpen' = TRUE /\ serverUp' = TRUE
    /\ UNCHANGED <<relay, known, loaded, buffer, said, heard, sent, taken,
                   forwarded, shown, log, file>>

\* Writing to a server that is gone ends the gateway with the error.
Ask == /\ pc = "ask"
       /\ pc' = IF serverUp THEN "handshake" ELSE "failed"
       /\ UNCHANGED <<relay, known, loaded, buffer, heard, taken, forwarded, shown,
                      log, file>>

\* A line that is not UTF-8 cannot be read as text.
Garbled(k) == said[k].kind = "garbled"

\* Our reply, with a result or an error, ends the wait; any other line is kept
\* for the client and may teach tools too. After MaxLines of them it gives up.
HearUnkept ==
    /\ pc = "handshake" /\ heard < Len(said) /\ ~Garbled(heard + 1)
    /\ heard' = heard + 1
    /\ Learn(heard')
    /\ LET ours == said[heard'].kind \in {"reply", "refusal"}
       IN  /\ UNCHANGED buffer
           /\ IF ours \/ heard' > MaxLines
              THEN pc' = "serve" /\ relay' = "flush"
              ELSE UNCHANGED <<pc, relay>>
    /\ UNCHANGED <<taken, forwarded, shown, log, file>>
Hear ==
    /\ pc = "handshake" /\ heard < Len(said) /\ ~Garbled(heard + 1)
    /\ heard' = heard + 1
    /\ Learn(heard')
    /\ LET ours == said[heard'].kind \in {"reply", "refusal"}
       IN  /\ buffer' = IF ours THEN buffer ELSE Append(buffer, heard')
           /\ IF ours \/ Len(buffer') > MaxLines
              THEN pc' = "serve" /\ relay' = "flush"
              ELSE UNCHANGED <<pc, relay>>
    /\ UNCHANGED <<taken, forwarded, shown, log, file>>
\* read_line() fails, and the gateway with it.
HearGarbled ==
    /\ pc = "handshake" /\ heard < Len(said) /\ Garbled(heard + 1)
    /\ heard' = heard + 1
    /\ pc' = "failed"
    /\ UNCHANGED <<relay, known, loaded, buffer, taken, forwarded, shown, log, file>>
HearEndless ==
    /\ pc = "handshake" /\ heard = Len(said) /\ ~serverUp
    /\ UNCHANGED gateway
HearEnd ==
    /\ pc = "handshake" /\ heard = Len(said) /\ ~serverUp
    /\ pc' = "serve" /\ relay' = "flush"
    /\ UNCHANGED <<known, loaded, buffer, heard, taken, forwarded, shown, log, file>>

(* The relay thread *******************************************************)

Relays == pc \notin {"failed", "done"}
FromServer(k) == [from |-> "server", line |-> k]

\* The whole buffer goes out under one lock of stdout.
Flush == /\ relay = "flush" /\ Relays
         /\ shown' = shown \o [i \in DOMAIN buffer |-> FromServer(buffer[i])]
         /\ buffer' = <<>> /\ relay' = "read"
         /\ UNCHANGED <<pc, known, loaded, heard, taken, forwarded, log, file>>

\* Learn what the line advertises, under the policy's lock...
RelayTake == /\ relay = "read" /\ Relays /\ heard < Len(said) /\ ~Garbled(heard + 1)
             /\ heard' = heard + 1
             /\ Learn(heard')
             /\ relay' = "write"
             /\ UNCHANGED <<pc, buffer, taken, forwarded, shown, log, file>>

\* ...then pass it on, under stdout's.
RelayWrite == /\ relay = "write" /\ Relays
              /\ shown' = Append(shown, FromServer(heard))
              /\ relay' = "read"
              /\ UNCHANGED <<pc, known, loaded, buffer, heard, taken, forwarded, log,
                             file>>

\* lines() fails: the relay is over, and the session goes on without it.
RelayBreaks == /\ relay = "read" /\ Relays /\ heard < Len(said) /\ Garbled(heard + 1)
               /\ heard' = heard + 1
               /\ relay' = "ended"
               /\ UNCHANGED <<pc, known, loaded, buffer, taken, forwarded, shown, log,
                              file>>

RelayEnds == /\ relay = "read" /\ Relays /\ heard = Len(said) /\ ~serverUp
             /\ relay' = "ended"
             /\ UNCHANGED <<pc, known, loaded, buffer, heard, taken, forwarded, shown,
                            log, file>>

(* The client's lines *****************************************************)

\* parse_tools_call: only a well-formed tools/call is inspected.
IsToolsCall(line) == line.call = "call"

\* `heard` is history: what the gateway had read of the server by then.
AuditEvent(n, verdict) == [line |-> n, verdict |-> verdict, heard |-> heard]

\* The decision is logged before it is acted on. A line that is not text ends the
\* gateway.
Take == /\ pc = "serve" /\ taken < Len(sent)
        /\ taken' = taken + 1
        /\ LET line == sent[taken']
               verdict == IF IsToolsCall(line) THEN Verdict(line) ELSE "allow"
           IN  /\ pc' = CASE line.call = "garbled" -> "failed"
                          [] line.call # "garbled" /\ verdict = "allow" -> "forward"
                          [] OTHER -> "deny"
               /\ log' = IF IsToolsCall(line) THEN Append(log, AuditEvent(taken', verdict))
                                              ELSE log
        /\ UNCHANGED <<relay, known, loaded, buffer, heard, forwarded, shown, file>>

\* The client gets an error reply under the request's id; the server gets nothing.
Deny == /\ pc = "deny"
        /\ shown' = Append(shown, [from |-> "gateway", line |-> taken])
        /\ pc' = "serve"
        /\ UNCHANGED <<relay, known, loaded, buffer, heard, taken, forwarded, log,
                       file>>

Forward ==
    /\ pc = "forward"
    /\ IF serverUp THEN pc' = "serve" /\ forwarded' = Append(forwarded, taken)
                   ELSE pc' = "failed" /\ UNCHANGED forwarded
    /\ UNCHANGED <<relay, known, loaded, buffer, heard, taken, shown, log, file>>

\* End of the client's input: the server's stdin is closed and both are awaited.
InputEnds == /\ pc = "serve" /\ taken = Len(sent) /\ ~clientOpen
             /\ pc' = "wait"
             /\ UNCHANGED <<relay, known, loaded, buffer, heard, taken, forwarded,
                            shown, log, file>>

\* The audit file is written once, here, and only if it can be.
Finish == /\ pc = "wait" /\ ~serverUp /\ relay = "ended"
          /\ pc' = "done"
          /\ file' \in IF options.audit THEN {{log}, {}} ELSE {{}}
          /\ UNCHANGED <<relay, known, loaded, buffer, heard, taken, forwarded, shown,
                         log>>
Gateway == \/ Ask \/ Hear \/ HearGarbled \/ HearEnd
           \/ Flush \/ RelayTake \/ RelayBreaks \/ RelayWrite \/ RelayEnds
           \/ Take \/ Deny \/ Forward \/ InputEnds \/ Finish

(* The client and the server **********************************************)

\* `seen` is what the client may have read when it wrote the line.
ClientSends(r) ==
    /\ clientOpen /\ Len(sent) < MaxSends
    /\ sent' = Append(sent, [r EXCEPT !.seen = Len(shown)])
    /\ UNCHANGED <<gateway, options, said, clientOpen, serverUp>>
ClientCloses ==
    /\ clientOpen /\ clientOpen' = FALSE
    /\ UNCHANGED <<gateway, options, said, sent, serverUp>>
ServerSays(m) ==
    /\ serverUp /\ Len(said) < MaxSays
    /\ said' = Append(said, m)
    /\ UNCHANGED <<gateway, options, sent, clientOpen, serverUp>>
ServerExits ==
    /\ serverUp /\ serverUp' = FALSE
    /\ UNCHANGED <<gateway, options, said, sent, clientOpen>>

SessionNext == \/ Gateway /\ UNCHANGED <<options, said, sent, clientOpen, serverUp>>
               \/ \E r \in Requests : ClientSends(r)
               \/ \E m \in Replies : ServerSays(m)
               \/ ClientCloses \/ ServerExits

\* Both threads run on, except in a write to a peer that may not read: the pipe is
\* full then. A server that is gone fails the write at once.
SessionFairness ==
    /\ WF_sessionVars((Ask \/ Hear \/ HearGarbled \/ HearEnd \/ Take
                       \/ (Forward /\ ~serverUp) \/ InputEnds \/ Finish)
                      /\ UNCHANGED <<options, said, sent, clientOpen, serverUp>>)
    /\ WF_sessionVars((RelayTake \/ RelayBreaks \/ RelayEnds)
                      /\ UNCHANGED <<options, said, sent, clientOpen, serverUp>>)

(* Properties *************************************************************)

\* The server's lines the client could have read among the first n shown.
SeenFrom(n) == {shown[i].line : i \in {j \in 1 .. n : shown[j].from = "server"}}
\* The lines read by the gateway that advertise the tool.
Offers(tool, lines) == {k \in lines : Advertises(k) /\ tool \in DOMAIN said[k].tools}

\* A call is judged by an offer at least as recent as any its author had seen:
\* it is forwarded only if a list no older than the client's view of the tool
\* admits it, and, once the client has seen any list, only if some list has the
\* tool. The relay learns a list before the client can read it.
SeenIsEnforced ==
    \A i \in DOMAIN log :
      LET d == log[i]
          request == sent[d.line]
          seen == SeenFrom(request.seen)
          offers == Offers(request.tool, 1 .. d.heard)
      IN  d.verdict = "allow" =>
            /\ Offers(request.tool, seen) # {} =>
                 \E k \in offers :
                   /\ \A j \in Offers(request.tool, seen) : j <= k
                   /\ WithinContract(said[k].tools[request.tool], request.arguments)
            /\ ((\E k \in seen : Advertises(k)) /\ ~options.open) => offers # {}

\* The client's lines leave in order, each settled once: forwarded, or answered in
\* the server's place, never both; a call leaves with a logged verdict that says
\* which; and an audit file holds every decision of its session.
Settled ==
    LET answers == {j \in DOMAIN shown : shown[j].from = "gateway"}
        denied == {shown[j].line : j \in answers}
        passed == {forwarded[i] : i \in DOMAIN forwarded}
        inHand == IF pc \in {"deny", "forward", "failed"} THEN {taken} ELSE {}
    IN  /\ \A i, j \in DOMAIN forwarded : i < j => forwarded[i] < forwarded[j]
        /\ \A i, j \in answers : i < j => shown[i].line < shown[j].line
        /\ denied \cap passed = {}
        /\ (1 .. taken) \ inHand \subseteq denied \cup passed
        /\ denied \cup passed \subseteq 1 .. taken
        /\ \A n \in passed : IsToolsCall(sent[n]) =>
             \E i \in DOMAIN log : log[i].line = n /\ log[i].verdict = "allow"
        /\ \A decisions \in file :
             {decisions[i].line : i \in DOMAIN decisions}
               = {n \in 1 .. Len(sent) : IsToolsCall(sent[n])}

\* "Nothing the server said is lost" (mcp_gateway.rs:416), up to the first line that is
\* not text: the client gets the server's lines in their order and without a gap, but
\* for the handshake's reply and those not passed on yet; when the gateway ends well,
\* all of them, or all up to that line.
ServerHeard ==
    LET passedOn == {i \in DOMAIN shown : shown[i].from = "server"}
        reply == {k \in 1 .. heard : /\ said[k].kind \in {"reply", "refusal"}
                                     /\ \A j \in 1 .. k - 1 :
                                          said[j].kind \notin {"reply", "refusal"}
                                     /\ k <= MaxLines + 1}
        pending == {buffer[i] : i \in DOMAIN buffer}
                     \cup (IF relay = "write" THEN {heard} ELSE {})
        lost == {k \in 1 .. heard : Garbled(k)}
    IN  /\ \A i, j \in passedOn : i < j => shown[i].line < shown[j].line
        /\ {shown[i].line : i \in passedOn} = (1 .. heard) \ (reply \cup pending \cup lost)
        /\ lost \subseteq {heard}
        /\ pc = "done" => pending = {} /\ (heard = Len(said) \/ lost # {})

\* What passes through the gateway in either direction is settled once, in order.
Relayed == Settled /\ ServerHeard

\* A peer that reads lets what is written to it through.
ClientReads ==
    /\ WF_sessionVars(Deny /\ UNCHANGED <<options, said, sent, clientOpen, serverUp>>)
    /\ WF_sessionVars((Flush \/ RelayWrite)
                      /\ UNCHANGED <<options, said, sent, clientOpen, serverUp>>)
ServerReads ==
    WF_sessionVars(Forward /\ UNCHANGED <<options, said, sent, clientOpen, serverUp>>)

\* Once the handshake is over, every line of the client is settled or the gateway
\* has failed, if both peers read what they are sent; and a gateway whose client has
\* ended its input and whose server is gone ends, if what it still has for the client
\* is read.
Serves ==
    /\ ClientReads /\ ServerReads =>
         \A n \in 1 .. MaxSends :
           (Len(sent) >= n /\ pc \notin {"ask", "handshake"})
             ~> (pc = "failed" \/ (taken >= n /\ pc \notin {"deny", "forward"}))
    /\ ClientReads =>
         ((pc # "idle" /\ ~clientOpen /\ ~serverUp) ~> pc \in {"done", "failed"})
=============================================================================
