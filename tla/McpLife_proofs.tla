--------------------------- MODULE McpLife_proofs ---------------------------
(***************************************************************************)
(* Theorems about an MCP server's configuration and about one session of  *)
(* the gateway, for any servers, tools, requests and replies.              *)
(*                                                                         *)
(* ConfigInv says what the rewriting commands keep of what they read;      *)
(* LearnInv what the gateway knows of the tools it was offered, and that   *)
(* nothing the client has seen is ahead of that; SessionInv where each     *)
(* line in either direction is: ClientInv, DecisionInv for the client's,   *)
(* PhaseInv and RelayInv for the server's.                                 *)
(***************************************************************************)
EXTENDS McpLife, TLAPS

(* The configuration.                                                      *)

Written == UNION {{e[i] : i \in DOMAIN e} : e \in Entries}
AnyLayer == Written \cup {RunLayer(o) : o \in WrapOptions}
                    \cup {GatewayLayer(o) : o \in WrapOptions}

Configured == Seq(AnyLayer) \ {<<>>}

ConfigInv ==
  /\ now \in 0..MaxSeconds /\ last.n \in Nat
  /\ backups = [t \in 0..MaxSeconds |-> backups[t]]
  /\ TornIsSaved
  /\ config # Torn => config \in [Servers -> Configured]
  /\ last.mode = "wrap" =>
       /\ last.read \in [Servers -> Configured]
       /\ \/ config = Torn \/ config = last.read
          \/ \A s \in Servers : config[s] = WrapServer(last.read[s], last.options)

LEMMA EntriesConfigured == Entries \subseteq Configured
<1>. SUFFICES ASSUME NEW e \in Entries PROVE e \in Configured
  OBVIOUS
<1>1. {e[i] : i \in DOMAIN e} \subseteq AnyLayer
  <2>1. {e[i] : i \in DOMAIN e} \in {{d[i] : i \in DOMAIN d} : d \in Entries}
    BY Zenon
  <2>. QED
    BY <2>1, Zenon DEF AnyLayer, Written
<1>2. e \in Seq({e[i] : i \in DOMAIN e}) /\ e # <<>>
  BY ConfigAssumption
<1>. DEFINE S == {e[i] : i \in DOMAIN e}
<1>. HIDE DEF S
<1>3. S \subseteq AnyLayer /\ e \in Seq(S)
  BY <1>1, <1>2 DEF S
<1>4. e \in Seq(AnyLayer)
  BY <1>3
<1>. QED
  BY <1>2, <1>4 DEF Configured

LEMMA WrapConfigured ==
  ASSUME NEW e \in Configured, NEW o \in WrapOptions
  PROVE  WrapServer(e, o) \in Configured
<1>1. RunLayer(o) \in AnyLayer /\ GatewayLayer(o) \in AnyLayer
  <2>1. /\ RunLayer(o) \in {RunLayer(p) : p \in WrapOptions}
        /\ GatewayLayer(o) \in {GatewayLayer(p) : p \in WrapOptions}
    BY Zenon
  <2>. QED
    BY <2>1 DEF AnyLayer
<1>2. e \in Seq(AnyLayer) /\ e # <<>>
  BY DEF Configured
<1>3. <<RunLayer(o)>> \o <<GatewayLayer(o)>> \o e \in Seq(AnyLayer) \ {<<>>}
  <2>1. <<RunLayer(o)>> \in Seq(AnyLayer) /\ <<GatewayLayer(o)>> \in Seq(AnyLayer)
    BY <1>1
  <2>2. <<RunLayer(o)>> \o <<GatewayLayer(o)>> \in Seq(AnyLayer)
    BY <2>1
  <2>3. Len(<<RunLayer(o)>> \o <<GatewayLayer(o)>> \o e) = 2 + Len(e)
    BY <1>1, <1>2
  <2>. QED
    BY <1>2, <2>2, <2>3
<1>4. <<RunLayer(o)>> \o <<>> \o e \in Seq(AnyLayer) \ {<<>>}
  <2>1. <<RunLayer(o)>> \in Seq(AnyLayer) /\ <<>> \in Seq(AnyLayer)
    BY <1>1
  <2>2. <<RunLayer(o)>> \o <<>> \in Seq(AnyLayer)
    BY <2>1
  <2>3. Len(<<RunLayer(o)>> \o <<>> \o e) = 1 + Len(e)
    BY <1>1, <1>2
  <2>. QED
    BY <1>2, <2>2, <2>3
<1>. QED
  BY <1>3, <1>4 DEF WrapServer, Configured

LEMMA UnwrapConfigured ==
  ASSUME NEW e \in Configured
  PROVE  UnwrapServer(e) \in Configured
<1>1. e \in Seq(AnyLayer) /\ e # <<>>
  BY DEF Configured
<1>2. ASSUME Len(e) > 1
      PROVE  Tail(e) \in Seq(AnyLayer) /\ Tail(e) # <<>>
  <2>1. Tail(e) \in Seq(AnyLayer) /\ Len(Tail(e)) = Len(e) - 1 /\ Len(e) \in Nat
    BY <1>1, <1>2
  <2>2. Len(Tail(e)) # 0
    BY <1>2, <2>1
  <2>3. Len(<<>>) = 0
    OBVIOUS
  <2>. QED
    BY <2>1, <2>2, <2>3, Zenon
<1>. QED
  BY <1>2 DEF UnwrapServer, Configured

\* Unwrap takes away what a wrap without a gateway put before the entry.
LEMMA UnwrapUndoes ==
  ASSUME NEW e \in Configured, NEW o, o.named, ~o.gateway, ~IsWrapped(e)
  PROVE  UnwrapServer(WrapServer(e, o)) = e
<1>1. e \in Seq(AnyLayer) /\ e # <<>> /\ Len(e) \in Nat /\ Len(e) >= 1
  BY DEF Configured
<1>2. CASE Head(e).kind = "remote"
  BY <1>2 DEF WrapServer, UnwrapServer
<1>3. CASE Head(e).kind # "remote"
  <2>. DEFINE r == RunLayer(o)
              w == <<r>> \o <<>> \o e
  <2>1. WrapServer(e, o) = w
    BY <1>3 DEF WrapServer
  <2>2. r.kind = "run" /\ r.named = o.named
    BY DEF RunLayer, Layer
  <2>. HIDE DEF r
  <2>3. Len(w) = Len(e) + 1 /\ Head(w) = r /\ Tail(w) = e
    <3>. DEFINE S == AnyLayer \cup {r}
    <3>1. e \in Seq(S) /\ <<r>> \in Seq(S) /\ r \in S
      BY <1>1
    <3>. HIDE DEF S
    <3>2. <<r>> \o <<>> = <<r>>
      BY <3>1
    <3>3. w = <<r>> \o e
      BY <3>2
    <3>. HIDE DEF w
    <3>4. w \in Seq(S) /\ Len(w) = Len(e) + 1 /\ w[1] = r
      BY <3>1, <3>3
    <3>5. \A i \in 1..Len(e) : w[i + 1] = e[i]
      BY <3>1, <3>3
    <3>6. Head(w) = r /\ Tail(w) \in Seq(S) /\ Len(Tail(w)) = Len(e)
      BY <1>1, <3>4
    <3>7. \A i \in 1..Len(e) : Tail(w)[i] = e[i]
      BY <1>1, <3>4, <3>5
    <3>8. Tail(w) = e
      BY <3>1, <3>6, <3>7
    <3>. QED
      BY <3>4, <3>6, <3>8
  <2>4. IsWrapped(w) /\ Len(w) > 1
    <3>1. Head(w).kind = "run" /\ Head(w).named
      BY <2>2, <2>3, Zenon
    <3>2. Len(w) > 1
      BY <1>1, <2>3
    <3>. QED
      BY <3>1, <3>2, Zenon DEF IsWrapped
  <2>. HIDE DEF w
  <2>. QED
    BY <2>1, <2>3, <2>4 DEF UnwrapServer
<1>. QED
  BY <1>2, <1>3

LEMMA ConfigStarts == ConfigInit => ConfigInv
<1>. SUFFICES ASSUME ConfigInit PROVE ConfigInv
  OBVIOUS
<1>1. config \in [Servers -> Configured]
  BY EntriesConfigured DEF ConfigInit
<1>2. config # Torn
  BY <1>1, ConfigAssumption DEF Torn
<1>. QED
  BY <1>1, <1>2, ConfigAssumption DEF ConfigInit, ConfigInv, TornIsSaved

LEMMA RewriteStep ==
  ASSUME ConfigInv, NEW mode \in {"wrap", "unwrap"}, NEW o \in WrapOptions, Rewrite(mode, o)
  PROVE  ConfigInv' /\ UnwrapRestores
<1>1. /\ config # Torn /\ config \in [Servers -> Configured] /\ now' = now
      /\ last' = [n |-> last.n + 1, mode |-> mode, options |-> o, read |-> config]
  BY DEF Rewrite, ConfigInv
<1>2. last'.n = last.n + 1 /\ last'.mode = mode /\ last'.options = o /\ last'.read = config
  BY <1>1, Zenon
<1>3. \/ config' = config /\ backups' \in {backups, [backups EXCEPT ![now] = Torn],
                                           [backups EXCEPT ![now] = config]}
      \/ backups' = [backups EXCEPT ![now] = config] /\ config' \in {Torn, Rewritten(mode, o)}
  BY DEF Rewrite
<1>4. backups' = [t \in 0..MaxSeconds |-> backups'[t]]
  BY <1>3 DEF ConfigInv
<1>5. TornIsSaved'
  <2>. SUFFICES ASSUME config' = Torn PROVE \E t \in 0..now : backups'[t] = config
    BY <1>1, <1>2, Zenon DEF TornIsSaved
  <2>1. backups' = [backups EXCEPT ![now] = config]
    BY <1>1, <1>3
  <2>2. now \in 0..now /\ now \in 0..MaxSeconds
    BY ConfigAssumption DEF ConfigInv
  <2>3. backups'[now] = config
    BY <2>1, <2>2 DEF ConfigInv
  <2>. QED
    BY <2>2, <2>3
<1>6. config' # Torn => config' \in [Servers -> Configured]
  <2>1. ASSUME NEW s \in Servers
        PROVE  /\ config[s] \in Configured
               /\ (IF mode = "wrap" THEN WrapServer(config[s], o) ELSE UnwrapServer(config[s]))
                    \in Configured
    BY <1>1, WrapConfigured, UnwrapConfigured
  <2>2. Rewritten(mode, o) \in [Servers -> Configured]
    BY <2>1 DEF Rewritten
  <2>. QED
    BY <1>1, <1>3, <2>2
<1>7. last'.mode = "wrap" =>
        /\ last'.read \in [Servers -> Configured]
        /\ \/ config' = Torn \/ config' = last'.read
           \/ \A s \in Servers : config'[s] = WrapServer(last'.read[s], last'.options)
  <2>. SUFFICES ASSUME mode = "wrap", config' = Rewritten(mode, o)
                PROVE  \A s \in Servers : config'[s] = WrapServer(config[s], o)
    BY <1>1, <1>2, <1>3, Zenon
  <2>. QED
    BY DEF Rewritten
<1>8. last'.n \in Nat
  BY <1>2 DEF ConfigInv
<1>9. UnwrapRestores
  <2>. SUFFICES ASSUME NEW s \in Servers, last.mode = "wrap", mode = "unwrap",
                       last.options.named, ~last.options.gateway,
                       ~IsWrapped(last.read[s]), config' = Rewritten(mode, o)
                PROVE  config'[s] = last.read[s]
    BY <1>2, <1>3, Zenon DEF UnwrapRestores
  <2>1. config'[s] = UnwrapServer(config[s])
    BY DEF Rewritten
  <2>2. CASE config = last.read
    BY <2>1, <2>2 DEF UnwrapServer
  <2>3. CASE config[s] = WrapServer(last.read[s], last.options)
    <3>1. last.read[s] \in Configured
      BY DEF ConfigInv
    <3>. QED
      BY <2>1, <2>3, <3>1, UnwrapUndoes, Zenon
  <2>. QED
    BY <1>1, <2>2, <2>3 DEF ConfigInv
<1>. QED
  BY <1>1, <1>4, <1>5, <1>6, <1>7, <1>8, <1>9 DEF ConfigInv

LEMMA SecondStep ==
  ASSUME ConfigInv, NextSecond
  PROVE  ConfigInv'
<1>1. /\ now < MaxSeconds /\ now' = now + 1
      /\ config' = config /\ backups' = backups /\ last' = last
  BY DEF NextSecond
<1>2. now' \in 0..MaxSeconds /\ 0..now \subseteq 0..now'
  BY <1>1, ConfigAssumption DEF ConfigInv
<1>3. TornIsSaved'
  BY <1>1, <1>2 DEF ConfigInv, TornIsSaved
<1>. QED
  BY <1>1, <1>2, <1>3 DEF ConfigInv

\* A step that starts no command unwraps nothing.
LEMMA NoCommand ==
  ASSUME ConfigInv, last' = last
  PROVE  UnwrapRestores
<1>1. ~(last'.n > last.n)
  BY DEF ConfigInv
<1>. QED
  BY <1>1, Zenon DEF UnwrapRestores

LEMMA ConfigSame ==
  ASSUME ConfigInv, UNCHANGED configVars
  PROVE  ConfigInv'
BY DEF ConfigInv, configVars, TornIsSaved

LEMMA ConfigStep == ConfigInv /\ [Next]_vars => ConfigInv' /\ UnwrapRestores
<1>. SUFFICES ASSUME ConfigInv, [Next]_vars PROVE ConfigInv' /\ UnwrapRestores
  OBVIOUS
<1>1. CASE UNCHANGED configVars
  <2>1. last' = last
    BY <1>1 DEF configVars
  <2>. QED
    BY <1>1, <2>1, ConfigSame, NoCommand
<1>2. CASE NextSecond
  <2>1. last' = last
    BY <1>2 DEF NextSecond
  <2>. QED
    BY <1>2, <2>1, SecondStep, NoCommand
<1>3. ASSUME NEW mode \in {"wrap", "unwrap"}, NEW o \in WrapOptions, Rewrite(mode, o)
      PROVE  ConfigInv' /\ UnwrapRestores
  BY <1>3, RewriteStep
<1>4. UNCHANGED vars => UNCHANGED configVars
  BY DEF vars
<1>. QED
  BY <1>1, <1>2, <1>3, <1>4 DEF Next, ConfigNext

\* No command loses what the user had configured: an unwrap gives back the entry
\* that a wrap without a gateway found, and a rewrite that tears the file leaves
\* what it had read in a backup (mcp.rs:17, 182-199).
THEOREM KeepsConfig == Spec => ConfigKept
<1>1. Init => ConfigInv
  BY ConfigStarts DEF Init
<1>2. ConfigInv' => TornIsSaved'
  BY DEF ConfigInv
<1>3. ConfigInv /\ [Next]_vars => [UnwrapRestores /\ TornIsSaved']_configVars
  BY <1>2, ConfigStep
<1>4. ConfigInv /\ [Next]_vars => ConfigInv'
  BY ConfigStep
<1>. QED
  BY <1>1, <1>3, <1>4, PTL DEF Spec, ConfigKept

-----------------------------------------------------------------------------
(* The session: types.                                                     *)

Sent(r) == {[r EXCEPT !.seen = n] : n \in Nat}
Sendable == UNION {Sent(r) : r \in Requests}
Shown == [from : {"server", "gateway"}, line : Nat]
Decided == [line : Nat, verdict : {"gated", "unknown", "allow", "contract"}, heard : Nat]

SessionTypes ==
  /\ said \in Seq(Replies) /\ sent \in Seq(Sendable)
  /\ shown \in Seq(Shown) /\ buffer \in Seq(Nat)
  /\ forwarded \in Seq(Nat) /\ log \in Seq(Decided)
  /\ known \in [Tools -> Nat]
  /\ heard \in Nat /\ heard <= Len(said)
  /\ taken \in Nat /\ taken <= Len(sent)

outside == <<options, said, sent, clientOpen, serverUp>>

LEMMA Appended ==
  ASSUME NEW S, NEW s \in Seq(S), NEW x \in S
  PROVE  /\ Append(s, x) \in Seq(S) /\ Len(s) \in Nat
         /\ Len(Append(s, x)) = Len(s) + 1
         /\ DOMAIN s = 1..Len(s) /\ DOMAIN Append(s, x) = 1..(Len(s) + 1)
         /\ \A i \in 1..Len(s) : Append(s, x)[i] = s[i]
         /\ Append(s, x)[Len(s) + 1] = x
OBVIOUS

\* A request as it is sent: the tool is one, and `seen` is what was shown.
LEMMA SendFields ==
  ASSUME NEW r \in Requests, NEW n
  PROVE  /\ [r EXCEPT !.seen = n].seen = n
         /\ [r EXCEPT !.seen = n].tool \in Tools
<1>. DEFINE q == [call |-> r.call, tool |-> r.tool, arguments |-> r.arguments, seen |-> r.seen]
<1>1. r = q /\ r.tool \in Tools
  BY SessionAssumption
<1>2. [q EXCEPT !.seen = n].seen = n /\ [q EXCEPT !.seen = n].tool = r.tool
  OBVIOUS
<1>. HIDE DEF q
<1>. QED
  BY <1>1, <1>2

LEMMA SentIsSendable ==
  ASSUME NEW r \in Requests, Len(shown) \in Nat
  PROVE  [r EXCEPT !.seen = Len(shown)] \in Sendable
<1>1. [r EXCEPT !.seen = Len(shown)] \in Sent(r)
  BY DEF Sent
<1>2. Sent(r) \in {Sent(q) : q \in Requests}
  BY Zenon
<1>. QED
  BY <1>1, <1>2, Zenon DEF Sendable

LEMMA LinesFromServer ==
  ASSUME NEW b \in Seq(Nat)
  PROVE  LET lines == [i \in DOMAIN b |-> FromServer(b[i])]
         IN  /\ lines \in Seq(Shown) /\ Len(lines) = Len(b)
             /\ \A i \in 1..Len(b) : lines[i] = FromServer(b[i])
<1>1. \A k \in Nat : FromServer(k) \in Shown
  BY DEF FromServer, Shown
<1>2. DOMAIN b = 1..Len(b) /\ Len(b) \in Nat /\ \A i \in 1..Len(b) : b[i] \in Nat
  OBVIOUS
<1>. DEFINE lines == [i \in DOMAIN b |-> FromServer(b[i])]
<1>3. lines = [i \in 1..Len(b) |-> FromServer(b[i])]
  BY <1>2
<1>4. \A i \in 1..Len(b) : FromServer(b[i]) \in Shown
  BY <1>1, <1>2
<1>. QED
  BY <1>2, <1>3, <1>4

LEMMA VerdictType ==
  ASSUME NEW r
  PROVE  Verdict(r) \in {"gated", "unknown", "allow", "contract"}
BY DEF Verdict

LEMMA InitTypes == SessionInit => SessionTypes
BY DEF SessionInit, SessionTypes

LEMMA LearnTypes ==
  ASSUME SessionTypes, heard < Len(said), heard' = heard + 1, Learn(heard')
  PROVE  heard' \in Nat /\ heard' <= Len(said) /\ known' \in [Tools -> Nat]
<1>1. heard' \in Nat /\ heard' <= Len(said) /\ Len(said) \in Nat
  BY DEF SessionTypes
<1>. QED
  BY <1>1 DEF Learn, SessionTypes

LEMMA TakeTypes ==
  ASSUME SessionTypes, Take, UNCHANGED outside
  PROVE  SessionTypes'
<1>. DEFINE line == sent[taken']
            verdict == IF IsToolsCall(line) THEN Verdict(line) ELSE "allow"
<1>1. /\ taken < Len(sent) /\ taken' = taken + 1
      /\ log' \in {log, Append(log, AuditEvent(taken', verdict))}
      /\ UNCHANGED <<said, sent, shown, buffer, forwarded, known, heard>>
  BY DEF Take, outside
<1>2. verdict \in {"gated", "unknown", "allow", "contract"}
  BY VerdictType
<1>. HIDE DEF verdict
<1>3. taken' \in Nat /\ taken' <= Len(sent)
  BY <1>1 DEF SessionTypes
<1>4. AuditEvent(taken', verdict) \in Decided
  BY <1>2, <1>3 DEF AuditEvent, Decided, SessionTypes
<1>5. log' \in Seq(Decided)
  <2>1. CASE log' = log
    BY <2>1 DEF SessionTypes
  <2>2. CASE log' = Append(log, AuditEvent(taken', verdict))
    <3>. PICK e : e = AuditEvent(taken', verdict)
      OBVIOUS
    <3>1. e \in Decided /\ log' = Append(log, e) /\ log \in Seq(Decided)
      BY <2>2, <1>4, Zenon DEF SessionTypes
    <3>. QED
      BY <3>1, Appended, Zenon
  <2>. QED
    BY <1>1, <2>1, <2>2, Zenon
<1>. QED
  BY <1>1, <1>3, <1>5 DEF SessionTypes

LEMMA HearTypes ==
  ASSUME SessionTypes, Hear, UNCHANGED outside
  PROVE  SessionTypes'
<1>1. /\ heard < Len(said) /\ heard' = heard + 1 /\ Learn(heard')
      /\ buffer' \in {buffer, Append(buffer, heard')}
      /\ UNCHANGED <<said, sent, shown, forwarded, log, taken>>
  BY DEF Hear, outside
<1>2. heard' \in Nat /\ heard' <= Len(said) /\ known' \in [Tools -> Nat]
  BY <1>1, LearnTypes
<1>3. buffer' \in Seq(Nat)
  <2>1. CASE buffer' = buffer
    BY <2>1 DEF SessionTypes
  <2>2. CASE buffer' = Append(buffer, heard')
    BY <2>2, <1>2, Appended, Zenon DEF SessionTypes
  <2>. QED
    BY <1>1, <2>1, <2>2, Zenon
<1>. QED
  BY <1>1, <1>2, <1>3 DEF SessionTypes

LEMMA RelayTypes ==
  ASSUME SessionTypes, Flush \/ RelayTake \/ RelayWrite \/ Deny, UNCHANGED outside
  PROVE  SessionTypes'
<1>1. CASE Flush
  <2>. DEFINE lines == [i \in DOMAIN buffer |-> FromServer(buffer[i])]
  <2>1. /\ shown' = shown \o lines /\ buffer' = <<>>
        /\ UNCHANGED <<said, sent, forwarded, log, known, heard, taken>>
    BY <1>1 DEF Flush, outside
  <2>2. lines \in Seq(Shown)
    BY LinesFromServer, Zenon DEF SessionTypes
  <2>. HIDE DEF lines
  <2>3. shown' \in Seq(Shown) /\ buffer' \in Seq(Nat)
    BY <2>1, <2>2 DEF SessionTypes
  <2>. QED
    BY <2>1, <2>3 DEF SessionTypes
<1>2. CASE RelayTake
  <2>1. /\ heard < Len(said) /\ heard' = heard + 1 /\ Learn(heard')
        /\ UNCHANGED <<said, sent, shown, buffer, forwarded, log, taken>>
    BY <1>2 DEF RelayTake, outside
  <2>2. heard' \in Nat /\ heard' <= Len(said) /\ known' \in [Tools -> Nat]
    BY <2>1, LearnTypes
  <2>. QED
    BY <2>1, <2>2 DEF SessionTypes
<1>3. CASE RelayWrite
  <2>1. /\ shown' = Append(shown, FromServer(heard))
        /\ UNCHANGED <<said, sent, buffer, forwarded, log, known, heard, taken>>
    BY <1>3 DEF RelayWrite, outside
  <2>2. FromServer(heard) \in Shown
    BY DEF FromServer, Shown, SessionTypes
  <2>. QED
    BY <2>1, <2>2 DEF SessionTypes
<1>4. CASE Deny
  <2>1. /\ shown' = Append(shown, [from |-> "gateway", line |-> taken])
        /\ UNCHANGED <<said, sent, buffer, forwarded, log, known, heard, taken>>
    BY <1>4 DEF Deny, outside
  <2>2. [from |-> "gateway", line |-> taken] \in Shown
    BY DEF Shown, SessionTypes
  <2>. QED
    BY <2>1, <2>2 DEF SessionTypes
<1>. QED
  BY <1>1, <1>2, <1>3, <1>4

LEMMA ForwardTypes ==
  ASSUME SessionTypes, Forward, UNCHANGED outside
  PROVE  SessionTypes'
<1>1. /\ forwarded' \in {forwarded, Append(forwarded, taken)}
      /\ UNCHANGED <<said, sent, shown, buffer, log, known, heard, taken>>
  BY DEF Forward, outside
<1>2. forwarded' \in Seq(Nat)
  <2>1. CASE forwarded' = forwarded
    BY <2>1 DEF SessionTypes
  <2>2. CASE forwarded' = Append(forwarded, taken)
    BY <2>2, Appended, Zenon DEF SessionTypes
  <2>. QED
    BY <1>1, <2>1, <2>2, Zenon
<1>. QED
  BY <1>1, <1>2 DEF SessionTypes

LEMMA PartnerTypes ==
  ASSUME SessionTypes,
         \/ \E r \in Requests : ClientSends(r)
         \/ \E m \in Replies : ServerSays(m)
  PROVE  SessionTypes'
<1>1. ASSUME NEW r \in Requests, ClientSends(r)
      PROVE  SessionTypes'
  <2>1. /\ sent' = Append(sent, [r EXCEPT !.seen = Len(shown)])
        /\ UNCHANGED <<said, shown, buffer, forwarded, log, known, heard, taken>>
    BY <1>1 DEF ClientSends, gateway
  <2>2. Len(shown) \in Nat
    BY DEF SessionTypes
  <2>3. [r EXCEPT !.seen = Len(shown)] \in Sendable
    BY <2>2, SentIsSendable
  <2>4. sent' \in Seq(Sendable) /\ Len(sent) <= Len(sent') /\ Len(sent) \in Nat /\ Len(sent') \in Nat
    BY <2>1, <2>3, Appended DEF SessionTypes
  <2>. QED
    BY <2>1, <2>4 DEF SessionTypes
<1>2. ASSUME NEW m \in Replies, ServerSays(m)
      PROVE  SessionTypes'
  <2>1. /\ said' = Append(said, m)
        /\ UNCHANGED <<sent, shown, buffer, forwarded, log, known, heard, taken>>
    BY <1>2 DEF ServerSays, gateway
  <2>2. said' \in Seq(Replies) /\ Len(said) <= Len(said') /\ Len(said) \in Nat /\ Len(said') \in Nat
    BY <2>1, Appended DEF SessionTypes
  <2>. QED
    BY <2>1, <2>2 DEF SessionTypes
<1>. QED
  BY <1>1, <1>2

\* The steps that touch none of the typed variables.
QuietStep ==
  UNCHANGED <<said, sent, shown, buffer, forwarded, log, known, loaded, heard, taken>>

LEMMA QuietSteps ==
  ASSUME \/ (\E s \in Servers : Launch(s)) \/ ClientCloses \/ ServerExits
         \/ UNCHANGED sessionVars
         \/ (Ask \/ HearEnd \/ RelayEnds \/ InputEnds \/ Finish) /\ UNCHANGED outside
  PROVE  QuietStep
BY DEF Launch, Start, ClientCloses, ServerExits, sessionVars, gateway, Ask, HearEnd,
       RelayEnds, InputEnds, Finish, outside, QuietStep

\* A line that is not text is read, and nothing else comes of it.
Garbles == /\ heard' = heard + 1 /\ heard < Len(said) /\ said[heard'].kind = "garbled"
           /\ UNCHANGED <<said, sent, shown, buffer, forwarded, log, known, loaded, taken,
                          file, options, clientOpen, serverUp>>
           /\ \/ relay = "read" /\ relay' = "ended" /\ pc' = pc /\ pc # "done"
              \/ relay' = relay /\ pc = "handshake" /\ pc' = "failed"

LEMMA OnlyGarbles ==
  ASSUME HearGarbled \/ RelayBreaks, UNCHANGED outside
  PROVE  Garbles
BY DEF HearGarbled, RelayBreaks, Relays, Garbled, outside, Garbles

LEMMA SessionTypesStep ==
  ASSUME SessionTypes, [Next]_vars
  PROVE  SessionTypes'
<1>5. CASE Garbles
  BY <1>5 DEF Garbles, SessionTypes
<1>1. CASE QuietStep
  BY <1>1 DEF QuietStep, SessionTypes
<1>2. CASE Gateway /\ UNCHANGED outside
  BY <1>1, <1>2, <1>5, QuietSteps, TakeTypes, HearTypes, RelayTypes, ForwardTypes,
     OnlyGarbles DEF Gateway
<1>3. CASE (\E r \in Requests : ClientSends(r)) \/ (\E m \in Replies : ServerSays(m))
  BY <1>3, PartnerTypes
<1>4. UNCHANGED vars => UNCHANGED sessionVars
  BY DEF vars
<1>. QED
  BY <1>1, <1>2, <1>3, <1>4, QuietSteps DEF Next, SessionNext, outside

LEMMA SessionStarts == Init => SessionTypes
BY InitTypes DEF Init

-----------------------------------------------------------------------------
(* What a step leaves as it was: every line said, sent or shown, and every *)
(* decision, stays where it is.                                            *)

Kept(s, r) == /\ Len(s) \in Nat /\ Len(r) \in Nat /\ Len(s) <= Len(r)
              /\ \A i \in 1..Len(s) : r[i] = s[i]

LEMMA KeptSame == ASSUME NEW S, NEW s \in Seq(S) PROVE Kept(s, s)
BY DEF Kept

LEMMA KeptAppend ==
  ASSUME NEW S, NEW s \in Seq(S), NEW x \in S
  PROVE  Kept(s, Append(s, x))
BY Appended DEF Kept

LEMMA KeptJoin ==
  ASSUME NEW S, NEW s \in Seq(S), NEW t \in Seq(S)
  PROVE  Kept(s, s \o t)
BY DEF Kept

Grows == /\ Kept(said, said') /\ Kept(sent, sent') /\ Kept(shown, shown')
         /\ heard <= heard' /\ taken <= taken'

LEMMA StepGrows ==
  ASSUME SessionTypes, [Next]_vars
  PROVE  Grows
<1>. /\ said \in Seq(Replies) /\ sent \in Seq(Sendable) /\ shown \in Seq(Shown)
     /\ heard \in Nat /\ taken \in Nat
  BY DEF SessionTypes
<1>0. /\ Kept(said, said) /\ Kept(sent, sent) /\ Kept(shown, shown)
      /\ heard <= heard /\ taken <= taken
  <2>1. Kept(said, said) /\ Kept(sent, sent) /\ Kept(shown, shown)
    BY KeptSame, Zenon
  <2>. QED
    BY <2>1
<1>1. CASE UNCHANGED <<said, sent, shown>> /\ heard <= heard' /\ taken <= taken'
  BY <1>0, <1>1 DEF Grows
<1>2. CASE QuietStep
  BY <1>0, <1>2 DEF QuietStep, Grows
<1>3. CASE (Hear \/ RelayTake \/ Take \/ Forward) /\ UNCHANGED outside
  BY <1>1, <1>3 DEF Hear, RelayTake, Take, Forward, outside
<1>9. CASE (HearGarbled \/ RelayBreaks) /\ UNCHANGED outside
  BY <1>1, <1>9 DEF HearGarbled, RelayBreaks, outside
<1>4. CASE Flush /\ UNCHANGED outside
  <2>. PICK lines : lines = [i \in DOMAIN buffer |-> FromServer(buffer[i])]
    OBVIOUS
  <2>1. /\ shown' = shown \o lines /\ UNCHANGED <<said, sent, heard, taken>>
    BY <1>4 DEF Flush, outside
  <2>2. lines \in Seq(Shown)
    BY LinesFromServer, Zenon DEF SessionTypes
  <2>3. Kept(shown, shown \o lines)
    BY <2>2, KeptJoin, Zenon
  <2>. QED
    BY <1>0, <2>1, <2>3 DEF Grows
<1>5. CASE (RelayWrite \/ Deny) /\ UNCHANGED outside
  <2>1. /\ \/ shown' = Append(shown, FromServer(heard))
           \/ shown' = Append(shown, [from |-> "gateway", line |-> taken])
        /\ UNCHANGED <<said, sent, heard, taken>>
    BY <1>5 DEF RelayWrite, Deny, outside
  <2>2. FromServer(heard) \in Shown /\ [from |-> "gateway", line |-> taken] \in Shown
    BY DEF FromServer, Shown
  <2>3. Kept(shown, shown')
    BY <2>1, <2>2, KeptAppend, Zenon
  <2>. QED
    BY <1>0, <2>1, <2>3 DEF Grows
<1>6. ASSUME NEW r \in Requests, ClientSends(r)
      PROVE  Grows
  <2>2. Kept(sent, sent')
    <3>1. \A x \in Sendable : Kept(sent, Append(sent, x))
      BY KeptAppend, Zenon
    <3>2. [r EXCEPT !.seen = Len(shown)] \in Sendable
      <4>1. Len(shown) \in Nat
        OBVIOUS
      <4>. QED
        BY <4>1, SentIsSendable, Zenon
    <3>. QED
      BY <1>6, <3>1, <3>2 DEF ClientSends
  <2>. QED
    BY <1>0, <1>6, <2>2 DEF ClientSends, gateway, Grows
<1>7. ASSUME NEW m \in Replies, ServerSays(m)
      PROVE  Grows
  <2>1. Kept(said, Append(said, m))
    BY KeptAppend, Zenon
  <2>. QED
    BY <1>0, <1>7, <2>1 DEF ServerSays, gateway, Grows
<1>8. UNCHANGED vars => UNCHANGED sessionVars
  BY DEF vars
<1>. QED
  BY <1>2, <1>3, <1>4, <1>5, <1>6, <1>7, <1>8, <1>9, QuietSteps
     DEF Next, SessionNext, Gateway, outside

-----------------------------------------------------------------------------
(* What is seen is enforced.                                               *)

\* The operators of the property, over given sequences.
AdvertisesIn(sd, k) == sd[k].kind \in {"reply", "list"}
SeenIn(sh, n) == {sh[i].line : i \in {j \in 1..n : sh[j].from = "server"}}
OffersIn(sd, t, X) == {k \in X : AdvertisesIn(sd, k) /\ t \in DOMAIN sd[k].tools}
Judged(sd, q, seen, open, d) ==
  d.verdict = "allow" =>
    /\ OffersIn(sd, q.tool, seen) # {} =>
         \E k \in OffersIn(sd, q.tool, 1..d.heard) :
           /\ \A j \in OffersIn(sd, q.tool, seen) : j <= k
           /\ WithinContract(sd[k].tools[q.tool], q.arguments)
    /\ ((\E k \in seen : AdvertisesIn(sd, k)) /\ ~open) =>
         OffersIn(sd, q.tool, 1..d.heard) # {}

AllJudged == \A i \in DOMAIN log :
               Judged(said, sent[log[i].line], SeenIn(shown, sent[log[i].line].seen),
                      options.open, log[i])

LEMMA AllJudgedIsProperty == AllJudged => SeenIsEnforced
BY DEF AllJudged, Judged, SeenIn, OffersIn, AdvertisesIn, SeenIsEnforced, SeenFrom,
       Offers, Advertises

LEMMA SeenStays ==
  ASSUME NEW sh, NEW sh2, NEW n \in Nat, \A i \in 1..n : sh2[i] = sh[i]
  PROVE  SeenIn(sh2, n) = SeenIn(sh, n)
<1>1. {j \in 1..n : sh2[j].from = "server"} = {j \in 1..n : sh[j].from = "server"}
  OBVIOUS
<1>. DEFINE J == {j \in 1..n : sh[j].from = "server"}
<1>2. J \subseteq 1..n
  OBVIOUS
<1>3. SeenIn(sh2, n) = {sh2[i].line : i \in J} /\ SeenIn(sh, n) = {sh[i].line : i \in J}
  BY <1>1 DEF SeenIn
<1>. HIDE DEF J
<1>4. \A i \in J : sh2[i] = sh[i]
  BY <1>2
<1>. QED
  BY <1>3, <1>4

LEMMA JudgedStays ==
  ASSUME NEW sd, NEW sd2, NEW h \in Nat, \A k \in 1..h : sd2[k] = sd[k],
         NEW seen \in SUBSET (1..h), NEW d, d.heard \in 0..h, NEW q, NEW open,
         Judged(sd, q, seen, open, d)
  PROVE  Judged(sd2, q, seen, open, d)
<1>1. 1..d.heard \subseteq 1..h
  OBVIOUS
<1>2. \A X \in SUBSET (1..h) : \A t : OffersIn(sd2, t, X) = OffersIn(sd, t, X)
  BY DEF OffersIn, AdvertisesIn
<1>3. /\ OffersIn(sd2, q.tool, seen) = OffersIn(sd, q.tool, seen)
      /\ OffersIn(sd2, q.tool, 1..d.heard) = OffersIn(sd, q.tool, 1..d.heard)
  BY <1>1, <1>2
<1>4. \A k \in seen : AdvertisesIn(sd2, k) <=> AdvertisesIn(sd, k)
  BY DEF AdvertisesIn
<1>5. \A k \in OffersIn(sd, q.tool, 1..d.heard) : sd2[k] = sd[k]
  BY <1>1 DEF OffersIn
<1>. QED
  BY <1>3, <1>4, <1>5, Zenon DEF Judged

\* The gateway knows the newest offer of each tool it has read, and no line has
\* reached the client that it has not read.
ToolsInv ==
  /\ \A k \in 1..heard : AdvertisesIn(said, k) => loaded
  /\ \A t \in Tools : known[t] # 0 => known[t] \in OffersIn(said, t, 1..heard)
  /\ \A t \in Tools : \A k \in OffersIn(said, t, 1..heard) : k <= known[t]

SeenInv ==
  /\ \A i \in 1..Len(shown) : shown[i].from = "server" => shown[i].line \in 1..heard
  /\ \A i \in 1..Len(buffer) : buffer[i] \in 1..heard
  /\ relay = "write" => heard >= 1
  /\ \A n \in 1..Len(sent) : sent[n].seen \in 0..Len(shown) /\ sent[n].tool \in Tools

LogInv ==
  /\ pc = "idle" => log = <<>>
  /\ \A i \in 1..Len(log) : log[i].line \in 1..taken /\ log[i].heard \in 0..heard

LearnInv == SessionTypes /\ ToolsInv /\ SeenInv /\ LogInv /\ AllJudged

LEMMA LearnStarts == Init => LearnInv
<1>1. Init => /\ log = <<>> /\ shown = <<>> /\ buffer = <<>> /\ sent = <<>>
              /\ heard = 0 /\ relay = "none" /\ known = [t \in Tools |-> 0]
  BY DEF Init, SessionInit
<1>2. Init => ToolsInv
  BY <1>1 DEF ToolsInv, OffersIn
<1>3. Init => SeenInv /\ LogInv
  BY <1>1 DEF SeenInv, LogInv
<1>4. Init => AllJudged
  BY <1>1 DEF AllJudged
<1>. QED
  BY <1>2, <1>3, <1>4, SessionStarts DEF LearnInv

LEMMA ToolsLearned ==
  ASSUME SessionTypes, ToolsInv, heard < Len(said), heard' = heard + 1,
         Learn(heard'), said' = said
  PROVE  ToolsInv'
<1>. DEFINE k == heard + 1
<1>1. k \in Nat /\ 1..k = 1..heard \cup {k} /\ heard \in Nat
  BY DEF SessionTypes
<1>2. \A t : OffersIn(said, t, 1..k) = OffersIn(said, t, 1..heard)
             \cup {j \in {k} : AdvertisesIn(said, j) /\ t \in DOMAIN said[j].tools}
  BY <1>1 DEF OffersIn
<1>3. CASE AdvertisesIn(said, k)
  <2>1. loaded' = TRUE /\ known' = [t \in Tools |-> IF t \in DOMAIN said[k].tools
                                                    THEN k ELSE known[t]]
    BY <1>3 DEF Learn, Advertises, AdvertisesIn
  <2>2. \A t \in Tools : known'[t] # 0 => known'[t] \in OffersIn(said, t, 1..k)
    BY <1>2, <1>3, <2>1 DEF ToolsInv
  <2>3. \A t \in Tools : \A j \in OffersIn(said, t, 1..k) : j <= known'[t]
    <3>. SUFFICES ASSUME NEW t \in Tools, NEW j \in OffersIn(said, t, 1..k)
                  PROVE  j <= known'[t]
      OBVIOUS
    <3>1. CASE t \in DOMAIN said[k].tools
      <4>1. known'[t] = k
        BY <2>1, <3>1
      <4>2. j \in 1..k
        BY DEF OffersIn
      <4>. QED
        BY <4>1, <4>2, <1>1
    <3>2. CASE t \notin DOMAIN said[k].tools
      BY <1>2, <2>1, <3>2 DEF ToolsInv
    <3>. QED
      BY <3>1, <3>2
  <2>. QED
    BY <2>1, <2>2, <2>3 DEF ToolsInv
<1>4. CASE ~AdvertisesIn(said, k)
  <2>1. UNCHANGED <<loaded, known>>
    BY <1>4 DEF Learn, Advertises, AdvertisesIn
  <2>2. \A t : OffersIn(said, t, 1..k) = OffersIn(said, t, 1..heard)
    BY <1>2, <1>4
  <2>3. \A j \in 1..k : AdvertisesIn(said, j) => loaded
    BY <1>1, <1>4 DEF ToolsInv
  <2>. QED
    BY <2>1, <2>2, <2>3 DEF ToolsInv
<1>. QED
  BY <1>3, <1>4

LEMMA ToolsKept ==
  ASSUME SessionTypes, ToolsInv, Grows, UNCHANGED <<heard, loaded, known>>
  PROVE  ToolsInv'
<1>1. \A k \in 1..heard : said'[k] = said[k]
  BY DEF SessionTypes, Grows, Kept
<1>2. \A t : OffersIn(said', t, 1..heard) = OffersIn(said, t, 1..heard)
  BY <1>1 DEF OffersIn, AdvertisesIn
<1>3. \A k \in 1..heard : AdvertisesIn(said', k) <=> AdvertisesIn(said, k)
  BY <1>1 DEF AdvertisesIn
<1>. QED
  BY <1>2, <1>3 DEF ToolsInv

LEMMA ToolsStep ==
  ASSUME SessionTypes, ToolsInv, [Next]_vars
  PROVE  ToolsInv'
<1>1. Grows
  BY StepGrows
<1>2. CASE UNCHANGED <<heard, loaded, known>>
  BY <1>1, <1>2, ToolsKept
<1>3. CASE (Hear \/ RelayTake) /\ UNCHANGED outside
  BY <1>3, ToolsLearned DEF Hear, RelayTake, outside
<1>8. CASE (HearGarbled \/ RelayBreaks) /\ UNCHANGED outside
  <2>1. Garbles
    BY <1>8, OnlyGarbles
  <2>2. Learn(heard') /\ heard' = heard + 1 /\ heard < Len(said) /\ said' = said
    BY <2>1 DEF Garbles, Learn, Advertises
  <2>. QED
    BY <2>2, ToolsLearned
<1>4. CASE (Flush \/ RelayWrite \/ Take \/ Deny \/ Forward) /\ UNCHANGED outside
  BY <1>2, <1>4 DEF Flush, RelayWrite, Take, Deny, Forward
<1>5. CASE (\E r \in Requests : ClientSends(r)) \/ (\E m \in Replies : ServerSays(m))
  BY <1>2, <1>5 DEF ClientSends, ServerSays, gateway
<1>6. CASE QuietStep
  BY <1>2, <1>6 DEF QuietStep
<1>7. UNCHANGED vars => UNCHANGED sessionVars
  BY DEF vars
<1>. QED
  BY <1>3, <1>4, <1>5, <1>6, <1>7, <1>8, QuietSteps
     DEF Next, SessionNext, Gateway, outside

\* How the session's control moves in a step.
Control == /\ relay' = "write" => relay = "write" \/ RelayTake
           /\ pc' = "idle" => pc = "idle"
           /\ options' = options \/ pc = "idle"

LEMMA ControlMoves ==
  ASSUME [Next]_vars
  PROVE  Control
<1>1. CASE Gateway /\ UNCHANGED outside
  BY <1>1 DEF Control, Gateway, outside, Ask, Hear, HearGarbled, HearEnd, Flush,
              RelayTake, RelayBreaks, RelayWrite, RelayEnds, Take, Deny, Forward,
              InputEnds, Finish
<1>2. CASE UNCHANGED <<pc, relay, options>>
  BY <1>2 DEF Control
<1>3. CASE \E s \in Servers : Launch(s)
  BY <1>3 DEF Launch, Start, Control
<1>. QED
  BY <1>1, <1>2, <1>3 DEF Next, SessionNext, ClientSends, ServerSays, ClientCloses,
     ServerExits, sessionVars, gateway, outside, vars

LEMMA SeenByFlush ==
  ASSUME SessionTypes, SeenInv, Flush, UNCHANGED outside
  PROVE  SeenInv'
<1>. PICK lines : lines = [i \in DOMAIN buffer |-> FromServer(buffer[i])]
  OBVIOUS
<1>1. /\ shown' = shown \o lines /\ buffer' = <<>> /\ relay' = "read"
      /\ UNCHANGED <<sent, heard>>
  BY DEF Flush, outside
<1>2. /\ lines \in Seq(Shown) /\ Len(lines) = Len(buffer)
      /\ \A i \in 1..Len(buffer) : lines[i] = FromServer(buffer[i])
  BY LinesFromServer, Zenon DEF SessionTypes
<1>3. \A i \in 1..Len(lines) : lines[i].line \in 1..heard
  BY <1>2 DEF SeenInv, FromServer
<1>4. shown \in Seq(Shown)
  BY DEF SessionTypes
<1>5. \A i \in 1..Len(shown') : shown'[i].from = "server" => shown'[i].line \in 1..heard
  <2>1. /\ Len(shown') = Len(shown) + Len(lines) /\ Len(shown) \in Nat /\ Len(lines) \in Nat
        /\ \A i \in 1..Len(shown) : shown'[i] = shown[i]
        /\ \A i \in (Len(shown) + 1)..(Len(shown) + Len(lines)) :
             shown'[i] = lines[i - Len(shown)]
    BY <1>1, <1>2, <1>4
  <2>2. \A i \in 1..Len(shown) : shown[i].from = "server" => shown[i].line \in 1..heard
    BY DEF SeenInv
  <2>3. ASSUME NEW i \in 1..Len(shown'), i \notin 1..Len(shown)
        PROVE  shown'[i].line \in 1..heard
    <3>1. i - Len(shown) \in 1..Len(lines) /\ shown'[i] = lines[i - Len(shown)]
      BY <2>1, <2>3
    <3>. QED
      BY <1>3, <3>1
  <2>. QED
    BY <2>1, <2>2, <2>3
<1>6. Len(shown) <= Len(shown') /\ Len(shown) \in Nat /\ Len(shown') \in Nat
  BY <1>1, <1>2, <1>4
<1>. QED
  BY <1>1, <1>5, <1>6 DEF SeenInv

LEMMA SeenByWrite ==
  ASSUME SessionTypes, SeenInv, RelayWrite \/ Deny, UNCHANGED outside
  PROVE  SeenInv'
<1>1. /\ UNCHANGED <<sent, heard, buffer>> /\ relay' \in {relay, "read"}
      /\ \/ shown' = Append(shown, FromServer(heard)) /\ relay = "write"
         \/ shown' = Append(shown, [from |-> "gateway", line |-> taken])
  BY DEF RelayWrite, Deny, outside
<1>. PICK x \in Shown : /\ shown' = Append(shown, x)
                        /\ x.from = "server" => x.line = heard /\ relay = "write"
  <2>1. FromServer(heard) \in Shown /\ FromServer(heard).line = heard
    BY DEF FromServer, Shown, SessionTypes
  <2>2. /\ [from |-> "gateway", line |-> taken] \in Shown
        /\ [from |-> "gateway", line |-> taken].from # "server"
    BY DEF Shown, SessionTypes
  <2>. QED
    BY <1>1, <2>1, <2>2
<1>2. shown \in Seq(Shown) /\ heard \in Nat
  BY DEF SessionTypes
<1>3. /\ Len(shown') = Len(shown) + 1 /\ Len(shown) \in Nat
      /\ \A i \in 1..Len(shown) : shown'[i] = shown[i]
      /\ shown'[Len(shown) + 1] = x
  BY <1>2, Appended
<1>4. x.from = "server" => x.line \in 1..heard
  BY <1>2 DEF SeenInv
<1>5. \A i \in 1..Len(shown') : shown'[i].from = "server" => shown'[i].line \in 1..heard
  BY <1>3, <1>4 DEF SeenInv
<1>. QED
  BY <1>1, <1>3, <1>5 DEF SeenInv

LEMMA SeenByHear ==
  ASSUME SessionTypes, SeenInv, Hear \/ RelayTake, UNCHANGED outside
  PROVE  SeenInv'
<1>1. /\ UNCHANGED <<sent, shown>> /\ heard' = heard + 1
      /\ buffer' \in {buffer, Append(buffer, heard')}
  BY DEF Hear, RelayTake, outside
<1>2. heard \in Nat /\ heard' \in Nat /\ 1..heard \subseteq 1..heard' /\ heard' \in 1..heard'
  BY <1>1 DEF SessionTypes
<1>3. \A i \in 1..Len(buffer') : buffer'[i] \in 1..heard'
  <2>1. CASE buffer' = buffer
    BY <1>2, <2>1 DEF SeenInv
  <2>2. CASE buffer' = Append(buffer, heard')
    <3>1. buffer \in Seq(Nat)
      BY DEF SessionTypes
    <3>2. /\ Len(buffer') = Len(buffer) + 1 /\ Len(buffer) \in Nat
          /\ \A i \in 1..Len(buffer) : buffer'[i] = buffer[i]
          /\ buffer'[Len(buffer) + 1] = heard'
      BY <1>2, <2>2, <3>1, Appended
    <3>3. \A i \in 1..Len(buffer) : buffer[i] \in 1..heard'
      BY <1>2 DEF SeenInv
    <3>. QED
      BY <1>2, <3>2, <3>3
  <2>. QED
    BY <1>1, <2>1, <2>2, Zenon
<1>. QED
  BY <1>1, <1>2, <1>3 DEF SeenInv

LEMMA SeenStep ==
  ASSUME SessionTypes, SeenInv, [Next]_vars
  PROVE  SeenInv'
<1>0. relay' = "write" => relay = "write" \/ RelayTake
  BY ControlMoves DEF Control
<1>1. CASE UNCHANGED <<sent, shown, heard, buffer>> /\ ~RelayTake
  BY <1>0, <1>1 DEF SeenInv
<1>2. CASE (Hear \/ RelayTake) /\ UNCHANGED outside
  BY <1>2, SeenByHear
<1>10. CASE (HearGarbled \/ RelayBreaks) /\ UNCHANGED outside
  <2>1. Garbles
    BY <1>10, OnlyGarbles
  <2>2. heard \in Nat /\ heard' = heard + 1 /\ 1..heard \subseteq 1..heard'
    BY <2>1 DEF Garbles, SessionTypes
  <2>3. UNCHANGED <<shown, sent, buffer>> /\ (relay' = "write" => relay = "write")
    BY <2>1 DEF Garbles
  <2>. QED
    BY <2>2, <2>3 DEF SeenInv
<1>3. CASE Flush /\ UNCHANGED outside
  BY <1>3, SeenByFlush
<1>4. CASE (RelayWrite \/ Deny) /\ UNCHANGED outside
  BY <1>4, SeenByWrite
<1>5. CASE QuietStep
  <2>1. ~RelayTake
    BY <1>5 DEF QuietStep, RelayTake, SessionTypes
  <2>. QED
    BY <1>1, <1>5, <2>1 DEF QuietStep
<1>6. CASE (Take \/ Forward) /\ UNCHANGED outside
  <2>1. ~RelayTake
    BY <1>6 DEF RelayTake, Take, Forward, SessionTypes
  <2>. QED
    BY <1>1, <1>6, <2>1 DEF Take, Forward, outside
<1>7. ASSUME NEW m \in Replies, ServerSays(m)
      PROVE  SeenInv'
  <2>1. ~RelayTake
    BY <1>7 DEF RelayTake, ServerSays, gateway, SessionTypes
  <2>. QED
    BY <1>1, <1>7, <2>1 DEF ServerSays, gateway
<1>8. ASSUME NEW r \in Requests, ClientSends(r)
      PROVE  SeenInv'
  <2>1. UNCHANGED <<shown, heard, buffer, relay>>
    BY <1>8 DEF ClientSends, gateway
  <2>. PICK n : n = Len(shown)
    OBVIOUS
  <2>2. n \in Nat /\ sent \in Seq(Sendable)
    BY DEF SessionTypes
  <2>. PICK q \in Sendable : sent' = Append(sent, q) /\ q.seen = n /\ q.tool \in Tools
    <3>1. [r EXCEPT !.seen = Len(shown)] \in Sendable
      BY <2>2, SentIsSendable, Zenon
    <3>2. [r EXCEPT !.seen = n].seen = n /\ [r EXCEPT !.seen = n].tool \in Tools
      BY SendFields
    <3>. QED
      BY <1>8, <3>1, <3>2, Zenon DEF ClientSends
  <2>3. /\ Len(sent') = Len(sent) + 1 /\ Len(sent) \in Nat
        /\ \A i \in 1..Len(sent) : sent'[i] = sent[i]
        /\ sent'[Len(sent) + 1] = q
    BY <2>2, Appended
  <2>4. \A i \in 1..Len(sent') : sent'[i].seen \in 0..Len(shown) /\ sent'[i].tool \in Tools
    BY <2>2, <2>3 DEF SeenInv
  <2>. QED
    BY <2>1, <2>4 DEF SeenInv
<1>9. UNCHANGED vars => UNCHANGED sessionVars
  BY DEF vars
<1>. QED
  BY <1>2, <1>3, <1>4, <1>5, <1>6, <1>7, <1>8, <1>9, <1>10, QuietSteps
     DEF Next, SessionNext, Gateway, outside

\* What Take logs, and that no other step logs.
Logs(e) == /\ Take /\ log' = Append(log, e) /\ e \in Decided
           /\ e.line = taken' /\ e.heard = heard
           /\ e.verdict = Verdict(sent[taken'])

LEMMA TakeLogs ==
  ASSUME SessionTypes, Take, UNCHANGED outside
  PROVE  log' = log \/ \E e : Logs(e)
<1>. DEFINE line == sent[taken']
            verdict == IF IsToolsCall(line) THEN Verdict(line) ELSE "allow"
<1>1. taken' \in Nat
  BY DEF Take, SessionTypes
<1>2. CASE ~IsToolsCall(line)
  BY <1>2 DEF Take
<1>3. CASE IsToolsCall(line)
  <2>. PICK v : v = Verdict(line)
    OBVIOUS
  <2>. PICK e : e = [line |-> taken', verdict |-> v, heard |-> heard]
    OBVIOUS
  <2>1. log' = Append(log, e)
    BY <1>3 DEF Take, AuditEvent
  <2>2. v \in {"gated", "unknown", "allow", "contract"}
    BY VerdictType
  <2>3. e \in Decided
    BY <1>1, <2>2 DEF Decided, SessionTypes
  <2>4. e.line = taken' /\ e.verdict = v /\ e.heard = heard
    OBVIOUS
  <2>. QED
    BY <2>1, <2>3, <2>4 DEF Logs
<1>. QED
  BY <1>2, <1>3

LEMMA OnlyTakeLogs ==
  ASSUME [Next]_vars
  PROVE  log' = log \/ (Take /\ UNCHANGED outside)
BY DEF Next, SessionNext, Launch, Start, Gateway, outside, Ask, Hear, HearGarbled,
       HearEnd, Flush, RelayTake, RelayBreaks, RelayWrite, RelayEnds, Deny, Forward,
       InputEnds, Finish, ClientSends, ServerSays, ClientCloses, ServerExits, sessionVars,
       gateway, vars

LEMMA LogStep ==
  ASSUME SessionTypes, LogInv, [Next]_vars
  PROVE  LogInv'
<1>1. /\ heard \in Nat /\ heard' \in Nat /\ taken \in Nat /\ taken' \in Nat
      /\ heard <= heard' /\ taken <= taken' /\ log \in Seq(Decided)
  BY StepGrows, SessionTypesStep DEF SessionTypes, Grows
<1>2. pc' = "idle" => pc = "idle"
  BY ControlMoves DEF Control
<1>3. \A d \in Decided : /\ d.line \in 1..taken => d.line \in 1..taken'
                         /\ d.heard \in 0..heard => d.heard \in 0..heard'
  BY <1>1
<1>4. \A i \in 1..Len(log) : log[i] \in Decided
  BY <1>1
<1>5. CASE log' = log
  BY <1>2, <1>3, <1>4, <1>5 DEF LogInv
<1>6. ASSUME NEW e, Logs(e), UNCHANGED outside
      PROVE  LogInv'
  <2>1. /\ Len(log') = Len(log) + 1 /\ Len(log) \in Nat
        /\ \A i \in 1..Len(log) : log'[i] = log[i]
        /\ log'[Len(log) + 1] = e
    BY <1>1, <1>6, Appended DEF Logs
  <2>2. e.line = taken' /\ e.heard = heard /\ taken' = taken + 1 /\ pc' # "idle"
    BY <1>6 DEF Logs, Take
  <2>3. e.line \in 1..taken' /\ e.heard \in 0..heard'
    BY <1>1, <2>2
  <2>4. \A i \in 1..Len(log) : log[i].line \in 1..taken' /\ log[i].heard \in 0..heard'
    BY <1>3, <1>4 DEF LogInv
  <2>5. \A i \in 1..Len(log') : log'[i].line \in 1..taken' /\ log'[i].heard \in 0..heard'
    BY <2>1, <2>3, <2>4
  <2>. QED
    BY <2>2, <2>5 DEF LogInv
<1>. QED
  BY <1>5, <1>6, OnlyTakeLogs, TakeLogs

\* A call is allowed only under the newest offer read, or with none to hold it to.
LEMMA AllowedIsJudged ==
  ASSUME SessionTypes, ToolsInv, NEW q, q.tool \in Tools, NEW seen \in SUBSET (1..heard),
         NEW d, d.heard = heard, d.verdict = Verdict(q)
  PROVE  Judged(said, q, seen, options.open, d)
<1>. SUFFICES ASSUME Verdict(q) = "allow"
              PROVE  Judged(said, q, seen, options.open, d)
  BY DEF Judged
<1>. DEFINE t == q.tool
            offers == OffersIn(said, t, 1..heard)
<1>1. \/ known[t] = 0 /\ (~loaded \/ options.open)
      \/ known[t] # 0 /\ WithinContract(said[known[t]].tools[t], q.arguments)
  BY DEF Verdict, Line
<1>2. OffersIn(said, t, seen) \subseteq offers
  BY DEF OffersIn
<1>3. \A j \in offers : j <= known[t] /\ j \in 1..heard
  BY DEF ToolsInv, OffersIn
<1>4. known[t] # 0 => known[t] \in offers
  BY DEF ToolsInv
<1>5. heard \in Nat
  BY DEF SessionTypes
<1>6. ASSUME OffersIn(said, t, seen) # {}
      PROVE  \E k \in offers :
               /\ \A j \in OffersIn(said, t, seen) : j <= k
               /\ WithinContract(said[k].tools[t], q.arguments)
  <2>1. known[t] # 0
    BY <1>2, <1>3, <1>5, <1>6
  <2>. QED
    BY <1>1, <1>2, <1>3, <1>4, <2>1
<1>7. ASSUME \E k \in seen : AdvertisesIn(said, k), ~options.open
      PROVE  offers # {}
  <2>1. loaded
    BY <1>7 DEF ToolsInv
  <2>. QED
    BY <1>1, <1>4, <1>7, <2>1
<1>. QED
  BY <1>6, <1>7 DEF Judged

LEMMA SeenWithinHeard ==
  ASSUME SessionTypes, SeenInv, NEW n \in 0..Len(shown)
  PROVE  SeenIn(shown, n) \subseteq 1..heard
<1>1. Len(shown) \in Nat
  BY DEF SessionTypes
<1>. QED
  BY <1>1 DEF SeenIn, SeenInv

LEMMA JudgedStep ==
  ASSUME LearnInv, [Next]_vars
  PROVE  AllJudged'
<1>1. SessionTypes /\ SeenInv /\ LogInv /\ AllJudged /\ ToolsInv /\ Grows
  BY StepGrows DEF LearnInv
<1>2. /\ Len(log) \in Nat /\ heard \in Nat /\ taken \in Nat /\ Len(said) \in Nat
      /\ Len(shown) \in Nat /\ heard <= Len(said) /\ taken <= Len(sent)
      /\ log \in Seq(Decided) /\ DOMAIN log = 1..Len(log)
  BY <1>1 DEF SessionTypes
<1>3. ASSUME NEW i \in 1..Len(log)
      PROVE  Judged(said', sent'[log[i].line], SeenIn(shown', sent'[log[i].line].seen),
                    options'.open, log[i])
  <2>a. PICK d : d = log[i]
    OBVIOUS
  <2>1. d.line \in 1..taken /\ d.heard \in 0..heard
    BY <1>1, <2>a DEF LogInv
  <2>b. PICK q : q = sent[d.line]
    OBVIOUS
  <2>2. sent'[d.line] = q /\ d.line \in 1..Len(sent)
    BY <1>1, <1>2, <2>1, <2>b, SMTT(30) DEF Grows, Kept
  <2>3. q.seen \in 0..Len(shown)
    BY <1>1, <2>2, <2>b DEF SeenInv
  <2>c. PICK n : n = q.seen
    OBVIOUS
  <2>4. SeenIn(shown', n) = SeenIn(shown, n) /\ SeenIn(shown, n) \subseteq 1..heard
    <3>1. \A k \in 1..n : shown'[k] = shown[k]
      BY <1>1, <1>2, <2>3, <2>c, SMTT(30) DEF Grows, Kept
    <3>. QED
      BY <1>1, <2>3, <2>c, <3>1, SeenStays, SeenWithinHeard
  <2>d. PICK seen : seen = SeenIn(shown, n)
    OBVIOUS
  <2>e. PICK open : open = options.open
    OBVIOUS
  <2>5. options'.open = open
    <3>1. log # <<>>
      BY <1>2
    <3>. QED
      BY <1>1, <2>e, <3>1, ControlMoves DEF Control, LogInv
  <2>f. PICK sd : sd = said
    OBVIOUS
  <2>g. PICK sd2 : sd2 = said'
    OBVIOUS
  <2>6. Judged(sd, q, seen, open, d)
    BY <1>1, <1>2, <2>a, <2>b, <2>c, <2>d, <2>e, <2>f, Zenon DEF AllJudged
  <2>7. \A k \in 1..heard : sd2[k] = sd[k]
    BY <1>1, <1>2, <2>f, <2>g DEF Grows, Kept
  <2>8. Judged(sd2, q, seen, open, d)
    <3>h. PICK h : h = heard
      OBVIOUS
    <3>1. h \in Nat /\ seen \in SUBSET (1..h) /\ d.heard \in 0..h
          /\ \A k \in 1..h : sd2[k] = sd[k]
      BY <1>2, <2>1, <2>4, <2>7, <2>d, <3>h
    <3>. QED
      BY <2>6, <3>1, JudgedStays, Zenon
  <2>. QED
    BY <2>2, <2>4, <2>5, <2>8, <2>a, <2>c, <2>d, <2>g, Zenon
<1>4. CASE log' = log
  BY <1>2, <1>3, <1>4, Zenon DEF AllJudged
<1>5. ASSUME NEW e, Logs(e), UNCHANGED outside
      PROVE  AllJudged'
  <2>1. /\ Len(log') = Len(log) + 1 /\ DOMAIN log' = 1..(Len(log) + 1)
        /\ \A i \in 1..Len(log) : log'[i] = log[i]
        /\ log'[Len(log) + 1] = e
    BY <1>2, <1>5, Appended DEF Logs
  <2>. PICK n : n = taken'
    OBVIOUS
  <2>2. /\ n \in 1..Len(sent) /\ e.line = n /\ e.heard = heard
        /\ e.verdict = Verdict(sent[n])
        /\ UNCHANGED <<said, sent, shown, options>>
    BY <1>2, <1>5 DEF Logs, Take, outside
  <2>. PICK q : q = sent[n]
    OBVIOUS
  <2>3. q.seen \in 0..Len(shown) /\ q.tool \in Tools
    BY <1>1, <2>2 DEF SeenInv
  <2>. PICK seen : seen = SeenIn(shown, q.seen)
    OBVIOUS
  <2>4. seen \in SUBSET (1..heard)
    BY <1>1, <2>3, SeenWithinHeard
  <2>5. Judged(said, q, seen, options.open, e)
    BY <1>1, <2>2, <2>3, <2>4, AllowedIsJudged
  <2>6. Judged(said', sent'[e.line], SeenIn(shown', sent'[e.line].seen),
               options'.open, e)
    BY <2>2, <2>5, Zenon
  <2>7. \A i \in 1..(Len(log) + 1) : i \in 1..Len(log) \/ i = Len(log) + 1
    BY <1>2
  <2>. QED
    BY <1>3, <2>1, <2>6, <2>7, Zenon DEF AllJudged
<1>. QED
  BY <1>1, <1>4, <1>5, OnlyTakeLogs, TakeLogs

LEMMA LearnStep ==
  ASSUME LearnInv, [Next]_vars
  PROVE  LearnInv'
BY SessionTypesStep, ToolsStep, SeenStep, LogStep, JudgedStep DEF LearnInv

\* No call passes on less than what its author had been offered: the list that
\* admits it is no older than any the client had seen.
THEOREM EnforcesSeen == Spec => []SeenIsEnforced
<1>1. Init => LearnInv
  BY LearnStarts
<1>2. LearnInv /\ [Next]_vars => LearnInv'
  BY LearnStep
<1>3. LearnInv => SeenIsEnforced
  BY AllJudgedIsProperty DEF LearnInv
<1>. QED
  BY <1>1, <1>2, <1>3, PTL DEF Spec

-----------------------------------------------------------------------------
(* Where every line is: sequences of lines.                                *)

LinesIn(sh, from) == {sh[i].line : i \in {j \in 1..Len(sh) : sh[j].from = from}}
OrderedIn(sh, from) ==
  \A i, j \in 1..Len(sh) : (i < j /\ sh[i].from = from /\ sh[j].from = from) =>
                             sh[i].line < sh[j].line
Rising(s) == \A i, j \in 1..Len(s) : i < j => s[i] < s[j]
Values(s) == {s[i] : i \in 1..Len(s)}

\* A logged verdict lets the line pass.
LoggedAllow(n) == IsToolsCall(sent[n]) =>
                    \E i \in 1..Len(log) : log[i].line = n /\ log[i].verdict = "allow"
InHand == IF pc \in {"deny", "forward", "failed"} THEN {taken} ELSE {}
CallsTaken == {n \in 1..taken : IsToolsCall(sent[n])}
LoggedLines == {log[i].line : i \in 1..Len(log)}

\* Every line taken is in hand, forwarded or answered, and only one of the three.
ClientInv ==
  /\ Rising(forwarded) /\ OrderedIn(shown, "gateway")
  /\ LinesIn(shown, "gateway") \cap Values(forwarded) = {}
  /\ LinesIn(shown, "gateway") \cup Values(forwarded) = (1..taken) \ InHand
  /\ pc \in {"deny", "forward"} => taken >= 1
  /\ pc \in {"idle", "ask", "handshake"} => taken = 0

DecisionInv ==
  /\ \A n \in Values(forwarded) : LoggedAllow(n)
  /\ pc = "forward" => LoggedAllow(taken)
  /\ LoggedLines = CallsTaken
  /\ pc \in {"wait", "done"} => taken = Len(sent) /\ ~clientOpen
  /\ \A decisions \in file : pc = "done" /\ decisions = log

IsReply(sd, k) == sd[k].kind \in {"reply", "refusal"}
ReplyIn(sd, h) == {k \in 1..h : /\ IsReply(sd, k) /\ k <= MaxLines + 1
                                /\ \A j \in 1..k - 1 : ~IsReply(sd, j)}
Pending == Values(buffer) \cup (IF relay = "write" THEN {heard} ELSE {})
Over == heard = Len(said) /\ ~serverUp

LostIn(sd, h) == {k \in 1..h : sd[k].kind = "garbled"}

\* Every line of the server read is the reply, shown, kept, being written, or no text.
RelayInv ==
  /\ LinesIn(shown, "server")
       = (1..heard) \ (ReplyIn(said, heard) \cup Pending \cup LostIn(said, heard))
  /\ Pending \subseteq (1..heard) \ (ReplyIn(said, heard) \cup LostIn(said, heard))
  /\ relay \in {"none", "flush"} => LinesIn(shown, "server") = {}
  /\ relay \notin {"none", "flush"} => buffer = <<>>
  /\ Rising(buffer) /\ OrderedIn(shown, "server")

\* The wait for the reply is over for good once the relay runs, and no line is read
\* after one that is not text.
PhaseInv ==
  /\ relay = "none" /\ pc # "failed" =>
       /\ heard <= MaxLines /\ Len(buffer) = heard
       /\ \A k \in 1..heard : ~IsReply(said, k)
  /\ relay # "none" => \/ \E k \in 1..heard : IsReply(said, k)
                       \/ heard > MaxLines \/ Over
  /\ pc \in {"idle", "ask", "handshake"} => relay = "none"
  /\ relay = "ended" => Over \/ LostIn(said, heard) # {}
  /\ pc = "done" => relay = "ended"
  /\ LostIn(said, heard) \subseteq {heard}
  /\ LostIn(said, heard) # {} => relay = "ended" \/ (relay = "none" /\ pc = "failed")

LEMMA LinesAppend ==
  ASSUME NEW s \in Seq(Shown), NEW x \in Shown, NEW from
  PROVE  LinesIn(Append(s, x), from) =
           LinesIn(s, from) \cup (IF x.from = from THEN {x.line} ELSE {})
<1>1. /\ Len(Append(s, x)) = Len(s) + 1 /\ Len(s) \in Nat
      /\ \A i \in 1..Len(s) : Append(s, x)[i] = s[i]
      /\ Append(s, x)[Len(s) + 1] = x
  BY Appended
<1>r. PICK r : r = Append(s, x)
  OBVIOUS
<1>. DEFINE J(t) == {j \in 1..Len(t) : t[j].from = from}
<1>2. J(r) = J(s) \cup (IF x.from = from THEN {Len(s) + 1} ELSE {})
  BY <1>1, <1>r
<1>3. \A j \in J(s) : r[j] = s[j]
  BY <1>1, <1>r
<1>4. r[Len(s) + 1] = x
  BY <1>1, <1>r
<1>5. LinesIn(r, from) = {r[j].line : j \in J(r)} /\ LinesIn(s, from) = {s[j].line : j \in J(s)}
  BY DEF LinesIn
<1>. HIDE DEF J
<1>6. {r[j].line : j \in J(s)} = {s[j].line : j \in J(s)}
  BY <1>3
<1>7. ASSUME x.from = from PROVE LinesIn(r, from) = LinesIn(s, from) \cup {x.line}
  <2>1. {r[j].line : j \in J(r)} = {r[j].line : j \in J(s)} \cup {x.line}
    BY <1>2, <1>4, <1>7
  <2>. QED
    BY <1>5, <1>6, <1>7, <2>1, Zenon
<1>8. ASSUME x.from # from PROVE LinesIn(r, from) = LinesIn(s, from)
  <2>1. J(r) = J(s)
    BY <1>2, <1>8
  <2>. QED
    BY <1>5, <1>6, <1>8, <2>1, Zenon
<1>. QED
  BY <1>r, <1>7, <1>8

LEMMA OrderedAppend ==
  ASSUME NEW s \in Seq(Shown), NEW x \in Shown, NEW from, OrderedIn(s, from),
         x.from = from => \A n \in LinesIn(s, from) : n < x.line
  PROVE  OrderedIn(Append(s, x), from)
<1>1. /\ Len(Append(s, x)) = Len(s) + 1 /\ Len(s) \in Nat
      /\ \A i \in 1..Len(s) : Append(s, x)[i] = s[i]
      /\ Append(s, x)[Len(s) + 1] = x
  BY Appended
<1>2. \A i \in 1..Len(s) : s[i].from = from => s[i].line \in LinesIn(s, from)
  BY DEF LinesIn
<1>. PICK r : r = Append(s, x)
  OBVIOUS
<1>3. ASSUME NEW i \in 1..Len(r), NEW j \in 1..Len(r), i < j, r[i].from = from,
             r[j].from = from
      PROVE  r[i].line < r[j].line
  <2>1. i \in 1..Len(s) /\ r[i] = s[i]
    BY <1>1, <1>3
  <2>2. CASE j \in 1..Len(s)
    BY <1>1, <1>3, <2>1, <2>2 DEF OrderedIn
  <2>3. CASE j = Len(s) + 1
    BY <1>1, <1>2, <1>3, <2>1, <2>3
  <2>. QED
    BY <1>1, <2>2, <2>3
<1>. QED
  BY <1>3 DEF OrderedIn

LEMMA Joined ==
  ASSUME NEW S, NEW s \in Seq(S), NEW t \in Seq(S)
  PROVE  /\ Len(s \o t) = Len(s) + Len(t) /\ Len(s) \in Nat /\ Len(t) \in Nat
         /\ \A i \in 1..Len(s) : (s \o t)[i] = s[i]
         /\ \A i \in (Len(s) + 1)..(Len(s) + Len(t)) : (s \o t)[i] = t[i - Len(s)]
OBVIOUS

LEMMA LinesJoin ==
  ASSUME NEW s \in Seq(Shown), NEW b \in Seq(Nat), NEW from
  PROVE  LET t == [i \in DOMAIN b |-> FromServer(b[i])]
         IN  LinesIn(s \o t, from) =
               LinesIn(s, from) \cup (IF from = "server" THEN Values(b) ELSE {})
<1>t. PICK t : t = [i \in DOMAIN b |-> FromServer(b[i])]
  OBVIOUS
<1>1. /\ t \in Seq(Shown) /\ Len(t) = Len(b) /\ Len(b) \in Nat
      /\ \A i \in 1..Len(b) : t[i] = FromServer(b[i])
  BY <1>t, LinesFromServer
<1>r. PICK r : r = s \o t
  OBVIOUS
<1>2. /\ Len(r) = Len(s) + Len(b) /\ Len(s) \in Nat
      /\ \A i \in 1..Len(s) : r[i] = s[i]
      /\ \A i \in (Len(s) + 1)..(Len(s) + Len(b)) : r[i] = t[i - Len(s)]
  <2>. DEFINE c == s \o t
  <2>1. /\ Len(c) = Len(s) + Len(t) /\ Len(s) \in Nat
        /\ \A i \in 1..Len(s) : c[i] = s[i]
        /\ \A i \in (Len(s) + 1)..(Len(s) + Len(t)) : c[i] = t[i - Len(s)]
    BY <1>1, Joined, ZenonT(60)
  <2>. HIDE DEF c
  <2>2. r = c
    BY <1>r DEF c
  <2>. QED
    BY <1>1, <2>1, <2>2
<1>3. \A i \in 1..Len(b) : r[Len(s) + i].from = "server" /\ r[Len(s) + i].line = b[i]
  <2>. SUFFICES ASSUME NEW i \in 1..Len(b)
                PROVE  r[Len(s) + i].from = "server" /\ r[Len(s) + i].line = b[i]
    OBVIOUS
  <2>k. PICK k : k = Len(s) + i
    OBVIOUS
  <2>1. k \in (Len(s) + 1)..(Len(s) + Len(b)) /\ k - Len(s) = i
    BY <1>1, <1>2, <2>k
  <2>2. r[k] = FromServer(b[i])
    BY <1>1, <1>2, <2>1
  <2>. QED
    BY <2>2, <2>k DEF FromServer
<1>4. LinesIn(r, from) \subseteq LinesIn(s, from) \cup (IF from = "server" THEN Values(b) ELSE {})
  <2>. SUFFICES ASSUME NEW i \in 1..Len(r), r[i].from = from
                PROVE  \/ r[i].line \in LinesIn(s, from)
                       \/ from = "server" /\ r[i].line \in Values(b)
    BY DEF LinesIn
  <2>1. CASE i \in 1..Len(s)
    BY <1>2, <2>1 DEF LinesIn
  <2>2. CASE i \notin 1..Len(s)
    <3>. PICK k : k = i - Len(s)
      OBVIOUS
    <3>1. k \in 1..Len(b) /\ i = Len(s) + k
      BY <1>1, <1>2, <2>2
    <3>. QED
      BY <1>3, <3>1 DEF Values
  <2>. QED
    BY <2>1, <2>2
<1>5. LinesIn(s, from) \subseteq LinesIn(r, from)
  <2>. SUFFICES ASSUME NEW i \in 1..Len(s), s[i].from = from
                PROVE  s[i].line \in LinesIn(r, from)
    BY DEF LinesIn
  <2>1. i \in 1..Len(r) /\ r[i] = s[i]
    BY <1>1, <1>2
  <2>. QED
    BY <2>1 DEF LinesIn
<1>6. from = "server" => Values(b) \subseteq LinesIn(r, from)
  <2>. SUFFICES ASSUME from = "server", NEW i \in 1..Len(b)
                PROVE  b[i] \in LinesIn(r, from)
    BY DEF Values
  <2>. PICK k : k = Len(s) + i
    OBVIOUS
  <2>1. k \in 1..Len(r) /\ r[k].from = from /\ r[k].line = b[i]
    BY <1>1, <1>2, <1>3
  <2>. QED
    BY <2>1 DEF LinesIn
<1>7. LinesIn(r, from) = LinesIn(s, from) \cup (IF from = "server" THEN Values(b) ELSE {})
  BY <1>4, <1>5, <1>6
<1>. QED
  BY <1>7, <1>t, <1>r, Zenon

LEMMA OrderedJoin ==
  ASSUME NEW s \in Seq(Shown), NEW b \in Seq(Nat), NEW from, OrderedIn(s, from), Rising(b),
         from = "server" => LinesIn(s, from) = {}
  PROVE  OrderedIn(s \o [i \in DOMAIN b |-> FromServer(b[i])], from)
<1>t. PICK t : t = [i \in DOMAIN b |-> FromServer(b[i])]
  OBVIOUS
<1>1. /\ t \in Seq(Shown) /\ Len(t) = Len(b) /\ Len(b) \in Nat
      /\ \A i \in 1..Len(b) : t[i] = FromServer(b[i])
  BY <1>t, LinesFromServer
<1>r. PICK r : r = s \o t
  OBVIOUS
<1>2. /\ Len(r) = Len(s) + Len(b) /\ Len(s) \in Nat
      /\ \A i \in 1..Len(s) : r[i] = s[i]
      /\ \A i \in (Len(s) + 1)..(Len(s) + Len(b)) : r[i] = t[i - Len(s)]
  <2>. DEFINE c == s \o t
  <2>1. /\ Len(c) = Len(s) + Len(t) /\ Len(s) \in Nat
        /\ \A i \in 1..Len(s) : c[i] = s[i]
        /\ \A i \in (Len(s) + 1)..(Len(s) + Len(t)) : c[i] = t[i - Len(s)]
    BY <1>1, Joined, ZenonT(60)
  <2>. HIDE DEF c
  <2>2. r = c
    BY <1>r DEF c
  <2>. QED
    BY <1>1, <2>1, <2>2
<1>3. \A i \in (Len(s) + 1)..(Len(s) + Len(b)) : r[i].from = "server"
                                                /\ r[i].line = b[i - Len(s)]
  <2>. SUFFICES ASSUME NEW k \in (Len(s) + 1)..(Len(s) + Len(b))
                PROVE  r[k].from = "server" /\ r[k].line = b[k - Len(s)]
    OBVIOUS
  <2>i. PICK i : i = k - Len(s)
    OBVIOUS
  <2>1. i \in 1..Len(b)
    BY <1>1, <1>2, <2>i
  <2>2. r[k] = FromServer(b[i])
    BY <1>1, <1>2, <2>1, <2>i
  <2>. QED
    BY <2>2, <2>i DEF FromServer
<1>4. \A i \in 1..Len(s) : s[i].from = from => s[i].line \in LinesIn(s, from)
  BY DEF LinesIn
<1>5. ASSUME NEW i \in 1..Len(r), NEW j \in 1..Len(r), i < j, r[i].from = from,
             r[j].from = from
      PROVE  r[i].line < r[j].line
  <2>1. CASE j \in 1..Len(s)
    <3>1. i \in 1..Len(s) /\ r[i] = s[i] /\ r[j] = s[j]
      BY <1>2, <1>5, <2>1
    <3>. QED
      BY <1>5, <2>1, <3>1 DEF OrderedIn
  <2>2. CASE j \notin 1..Len(s)
    <3>1. from = "server"
      BY <1>1, <1>2, <1>3, <1>5, <2>2
    <3>2. i \notin 1..Len(s)
      BY <1>2, <1>4, <1>5, <3>1
    <3>3. /\ i - Len(s) \in 1..Len(b) /\ j - Len(s) \in 1..Len(b) /\ i - Len(s) < j - Len(s)
          /\ r[i].line = b[i - Len(s)] /\ r[j].line = b[j - Len(s)]
      BY <1>1, <1>2, <1>3, <1>5, <2>2, <3>2
    <3>. QED
      BY <3>3 DEF Rising
  <2>. QED
    BY <2>1, <2>2
<1>. QED
  BY <1>5, <1>r, <1>t DEF OrderedIn

LEMMA RisingAppend ==
  ASSUME NEW s \in Seq(Nat), NEW n \in Nat, Rising(s), \A m \in Values(s) : m < n
  PROVE  Rising(Append(s, n)) /\ Values(Append(s, n)) = Values(s) \cup {n}
<1>1. /\ Len(Append(s, n)) = Len(s) + 1 /\ Len(s) \in Nat
      /\ \A i \in 1..Len(s) : Append(s, n)[i] = s[i]
      /\ Append(s, n)[Len(s) + 1] = n
  BY Appended
<1>2. \A i \in 1..Len(s) : s[i] < n
  BY DEF Values
<1>3. Rising(Append(s, n))
  BY <1>1, <1>2 DEF Rising
<1>. PICK r : r = Append(s, n)
  OBVIOUS
<1>4. 1..Len(r) = 1..Len(s) \cup {Len(s) + 1}
  BY <1>1
<1>5. Values(r) = Values(s) \cup {n}
  BY <1>1, <1>4 DEF Values
<1>. QED
  BY <1>3, <1>5

-----------------------------------------------------------------------------
(* The client's lines.                                                     *)


\* The steps that change neither what the client's lines became nor whose turn
\* it is, as far as ClientInv tells.
LEMMA ClientKept ==
  ASSUME ClientInv, UNCHANGED <<forwarded, taken>>, InHand' = InHand \/ taken = 0,
         LinesIn(shown, "gateway")' = LinesIn(shown, "gateway"),
         OrderedIn(shown, "gateway")', SessionTypes,
         pc' \in {"deny", "forward"} => pc' = pc,
         pc' \in {"idle", "ask", "handshake"} => taken = 0
  PROVE  ClientInv'
<1>1. taken \in Nat
  BY DEF SessionTypes
<1>2. (1..taken) \ InHand' = (1..taken) \ InHand
  <2>1. CASE taken = 0
    BY <2>1
  <2>. QED
    BY <2>1
<1>. QED
  BY <1>1, <1>2 DEF ClientInv

LEMMA ClientByControl ==
  ASSUME ClientInv, SessionTypes, UNCHANGED <<forwarded, taken, shown>>,
         \/ pc' = pc
         \/ pc \in {"idle", "ask", "handshake"}
            /\ pc' \in {"ask", "handshake", "serve", "failed"}
         \/ pc \in {"serve", "wait"} /\ pc' \in {"wait", "done"}
  PROVE  ClientInv'
<1>1. LinesIn(shown, "gateway")' = LinesIn(shown, "gateway")
  BY DEF LinesIn
<1>2. OrderedIn(shown, "gateway")'
  BY DEF ClientInv, OrderedIn
<1>3. InHand' = InHand \/ taken = 0
  BY DEF InHand, ClientInv
<1>4. pc' \in {"idle", "ask", "handshake"} => taken = 0
  BY DEF ClientInv
<1>. QED
  BY <1>1, <1>2, <1>3, <1>4, ClientKept

LEMMA ClientByRelay ==
  ASSUME ClientInv, SessionTypes, Rising(buffer), Flush \/ RelayWrite, UNCHANGED outside
  PROVE  ClientInv'
<1>1. /\ UNCHANGED <<forwarded, taken, pc>> /\ InHand' = InHand
      /\ shown \in Seq(Shown) /\ buffer \in Seq(Nat) /\ heard \in Nat
  BY DEF Flush, RelayWrite, InHand, SessionTypes
<1>2. OrderedIn(shown, "gateway")
  BY DEF ClientInv
<1>t. PICK t : t = [i \in DOMAIN buffer |-> FromServer(buffer[i])]
  OBVIOUS
<1>3. CASE shown' = shown \o t
  <2>1. LinesIn(shown \o t, "gateway") = LinesIn(shown, "gateway")
    <3>1. LinesIn(shown \o t, "gateway") = LinesIn(shown, "gateway") \cup
            (IF "gateway" = "server" THEN Values(buffer) ELSE {})
      BY <1>1, <1>t, LinesJoin, ZenonT(60)
    <3>. QED
      BY <3>1
  <2>2. OrderedIn(shown \o t, "gateway")
    BY <1>1, <1>2, <1>t, OrderedJoin
  <2>3. LinesIn(shown, "gateway")' = LinesIn(shown, "gateway") /\ OrderedIn(shown, "gateway")'
    BY <1>3, <2>1, <2>2 DEF LinesIn, OrderedIn
  <2>. QED
    BY <1>1, <2>3, ClientKept DEF ClientInv
<1>4. CASE shown' = Append(shown, FromServer(heard))
  <2>x. PICK x : x = FromServer(heard)
    OBVIOUS
  <2>1. x \in Shown /\ x.from = "server"
    BY <1>1, <2>x DEF FromServer, Shown
  <2>2. LinesIn(Append(shown, x), "gateway") = LinesIn(shown, "gateway")
    <3>1. LinesIn(Append(shown, x), "gateway") = LinesIn(shown, "gateway") \cup
            (IF x.from = "gateway" THEN {x.line} ELSE {})
      BY <1>1, <2>1, LinesAppend, ZenonT(60)
    <3>. QED
      BY <2>1, <3>1
  <2>3. OrderedIn(Append(shown, x), "gateway")
    BY <1>1, <1>2, <2>1, OrderedAppend
  <2>4. LinesIn(shown, "gateway")' = LinesIn(shown, "gateway") /\ OrderedIn(shown, "gateway")'
    BY <1>4, <2>x, <2>2, <2>3 DEF LinesIn, OrderedIn
  <2>. QED
    BY <1>1, <2>4, ClientKept DEF ClientInv
<1>. QED
  BY <1>3, <1>4, <1>t DEF Flush, RelayWrite

LEMMA ClientByDeny ==
  ASSUME ClientInv, SessionTypes, Deny
  PROVE  ClientInv'
<1>1. /\ pc = "deny" /\ pc' = "serve" /\ UNCHANGED <<taken, forwarded>>
      /\ shown' = Append(shown, [from |-> "gateway", line |-> taken])
      /\ shown \in Seq(Shown) /\ taken \in Nat
  BY DEF Deny, SessionTypes
<1>x. PICK x : x = [from |-> "gateway", line |-> taken]
  OBVIOUS
<1>2. x \in Shown /\ x.from = "gateway" /\ x.line = taken
  BY <1>1, <1>x DEF Shown
<1>3. InHand = {taken} /\ InHand' = {} /\ taken \in 1..taken
  BY <1>1 DEF InHand, ClientInv
<1>4. \A n \in LinesIn(shown, "gateway") : n < taken
  BY <1>1, <1>3 DEF ClientInv
<1>5. LinesIn(Append(shown, x), "gateway") = LinesIn(shown, "gateway") \cup {taken}
  BY <1>1, <1>2, LinesAppend
<1>6. OrderedIn(Append(shown, x), "gateway")
  BY <1>1, <1>2, <1>4, OrderedAppend DEF ClientInv
<1>7. /\ LinesIn(shown, "gateway")' = LinesIn(shown, "gateway") \cup {taken}
      /\ OrderedIn(shown, "gateway")'
  BY <1>1, <1>x, <1>5, <1>6 DEF LinesIn, OrderedIn
<1>8. LinesIn(shown, "gateway")' \cap Values(forwarded) = {}
  BY <1>3, <1>7 DEF ClientInv
<1>9. LinesIn(shown, "gateway")' \cup Values(forwarded) = (1..taken) \ InHand'
  BY <1>3, <1>7 DEF ClientInv
<1>. QED
  BY <1>1, <1>7, <1>8, <1>9 DEF ClientInv

LEMMA ClientByForward ==
  ASSUME ClientInv, SessionTypes, Forward
  PROVE  ClientInv'
<1>1. /\ pc = "forward" /\ UNCHANGED <<taken, shown>>
      /\ forwarded \in Seq(Nat) /\ taken \in Nat
      /\ \/ pc' = "failed" /\ forwarded' = forwarded
         \/ pc' = "serve" /\ forwarded' = Append(forwarded, taken)
  BY DEF Forward, SessionTypes
<1>2. /\ LinesIn(shown, "gateway")' = LinesIn(shown, "gateway")
      /\ OrderedIn(shown, "gateway")'
  BY <1>1 DEF LinesIn, OrderedIn, ClientInv
<1>3. InHand = {taken} /\ taken \in 1..taken
  BY <1>1 DEF InHand, ClientInv
<1>4. CASE pc' = "failed" /\ forwarded' = forwarded
  <2>1. InHand' = InHand
    BY <1>1, <1>3, <1>4 DEF InHand
  <2>. QED
    BY <1>1, <1>2, <1>4, <2>1, ClientKept
<1>5. CASE pc' = "serve" /\ forwarded' = Append(forwarded, taken)
  <2>1. InHand' = {}
    BY <1>5 DEF InHand
  <2>2. \A n \in Values(forwarded) : n < taken
    BY <1>1, <1>3 DEF ClientInv
  <2>3. Rising(forwarded') /\ Values(forwarded') = Values(forwarded) \cup {taken}
    BY <1>1, <1>5, <2>2, RisingAppend DEF ClientInv
  <2>4. LinesIn(shown, "gateway") \cap Values(forwarded') = {}
    BY <1>3, <2>3 DEF ClientInv
  <2>5. LinesIn(shown, "gateway") \cup Values(forwarded') = (1..taken) \ InHand'
    BY <1>3, <2>1, <2>3 DEF ClientInv
  <2>. QED
    BY <1>1, <1>2, <1>5, <2>3, <2>4, <2>5 DEF ClientInv
<1>. QED
  BY <1>1, <1>4, <1>5

LEMMA ClientByTake ==
  ASSUME ClientInv, SessionTypes, Take
  PROVE  ClientInv'
<1>1. /\ pc = "serve" /\ pc' \in {"deny", "forward", "failed"}
      /\ taken' = taken + 1 /\ taken \in Nat /\ UNCHANGED <<shown, forwarded>>
  BY DEF Take, SessionTypes
<1>2. InHand = {} /\ InHand' = {taken'}
  BY <1>1 DEF InHand
<1>3. (1..taken') \ InHand' = (1..taken) \ InHand /\ taken' >= 1
  BY <1>1, <1>2
<1>4. /\ LinesIn(shown, "gateway")' = LinesIn(shown, "gateway")
      /\ OrderedIn(shown, "gateway")'
  BY <1>1 DEF LinesIn, OrderedIn, ClientInv
<1>. QED
  BY <1>1, <1>3, <1>4 DEF ClientInv

\* Whose turn it is, and when a step leaves the client's lines where they are.
LEMMA QuietTurn ==
  ASSUME \/ (\E s \in Servers : Launch(s)) \/ ClientCloses \/ ServerExits
         \/ UNCHANGED sessionVars \/ (\E r \in Requests : ClientSends(r))
         \/ (\E m \in Replies : ServerSays(m))
         \/ (Ask \/ Hear \/ HearGarbled \/ HearEnd \/ RelayTake \/ RelayBreaks \/ RelayEnds
             \/ InputEnds \/ Finish) /\ UNCHANGED outside
  PROVE  /\ UNCHANGED <<forwarded, taken, shown>>
         /\ \/ pc' = pc
            \/ pc \in {"idle", "ask", "handshake"}
               /\ pc' \in {"ask", "handshake", "serve", "failed"}
            \/ pc \in {"serve", "wait"} /\ pc' \in {"wait", "done"}
BY DEF Launch, Start, ClientCloses, ServerExits, sessionVars, gateway, Ask, Hear,
       HearGarbled, HearEnd, RelayTake, RelayBreaks, RelayEnds, InputEnds, Finish,
       ClientSends, ServerSays

LEMMA ClientStep ==
  ASSUME ClientInv, SessionTypes, Rising(buffer), [Next]_vars
  PROVE  ClientInv'
<1>1. UNCHANGED vars => UNCHANGED sessionVars
  BY DEF vars
<1>. QED
  BY <1>1, QuietTurn, ClientByControl, ClientByRelay, ClientByDeny, ClientByForward,
     ClientByTake DEF Next, SessionNext, Gateway, outside

\* What a step other than Take does to the decisions and to what hangs on them.
Undecided ==
  /\ UNCHANGED <<taken, log>>
  /\ pc' = "forward" => pc = "forward"
  /\ forwarded' = forwarded \/ (pc = "forward" /\ forwarded' = Append(forwarded, taken))
  /\ pc' \in {"wait", "done"} =>
       /\ sent' = sent \/ clientOpen
       /\ clientOpen' = clientOpen \/ ~clientOpen'
       /\ pc \in {"wait", "done"} \/ (taken = Len(sent) /\ ~clientOpen)
  /\ \/ file' = file /\ (pc = "done" => pc' = "done")
     \/ pc' = "done" /\ \A decisions \in file' : decisions = log

LEMMA OthersUndecided ==
  ASSUME [Next]_vars, ~(Take /\ UNCHANGED outside)
  PROVE  Undecided
<1>1. CASE Gateway /\ UNCHANGED outside
  BY <1>1 DEF Gateway, outside, Ask, Hear, HearGarbled, HearEnd, Flush, RelayTake,
              RelayBreaks, RelayWrite, RelayEnds, Deny, Forward, InputEnds, Finish, Undecided
<1>2. CASE \E s \in Servers : Launch(s)
  BY <1>2 DEF Launch, Start, Undecided
<1>3. CASE UNCHANGED sessionVars
  BY <1>3 DEF sessionVars, gateway, Undecided
<1>4. CASE (\E r \in Requests : ClientSends(r)) \/ (\E m \in Replies : ServerSays(m))
  BY <1>4 DEF ClientSends, ServerSays, gateway, Undecided
<1>5. CASE ClientCloses \/ ServerExits
  BY <1>5 DEF ClientCloses, ServerExits, gateway, Undecided
<1>6. UNCHANGED vars => UNCHANGED sessionVars
  BY DEF vars
<1>. QED
  BY <1>1, <1>2, <1>3, <1>4, <1>5, <1>6 DEF Next, SessionNext, outside

LEMMA AllowKept ==
  ASSUME NEW n \in 1..taken, SessionTypes, Grows, Kept(log, log'), LoggedAllow(n)
  PROVE  LoggedAllow(n)'
<1>1. sent'[n] = sent[n]
  BY DEF SessionTypes, Grows, Kept
<1>2. \A i \in 1..Len(log) : i \in 1..Len(log') /\ log'[i] = log[i]
  BY DEF Kept
<1>. QED
  BY <1>1, <1>2 DEF LoggedAllow, IsToolsCall

LEMMA CallsKept ==
  ASSUME SessionTypes, Grows
  PROVE  {n \in 1..taken : IsToolsCall(sent'[n])} = CallsTaken
<1>1. \A n \in 1..taken : sent'[n] = sent[n]
  BY DEF SessionTypes, Grows, Kept
<1>. QED
  BY <1>1 DEF CallsTaken, IsToolsCall

LEMMA DecisionByOthers ==
  ASSUME SessionTypes, ClientInv, DecisionInv, Grows, Undecided
  PROVE  DecisionInv'
<1>1. log \in Seq(Decided) /\ forwarded \in Seq(Nat) /\ taken \in Nat
  BY DEF SessionTypes
<1>2. Kept(log, log')
  BY <1>1, KeptSame DEF Undecided
<1>3. Values(forwarded) \subseteq 1..taken /\ (pc = "forward" => taken \in 1..taken)
  BY <1>1 DEF ClientInv
<1>4. pc' = "forward" => LoggedAllow(taken)'
  BY <1>2, <1>3, AllowKept DEF Undecided, DecisionInv, LoggedAllow
<1>5. \A n \in Values(forwarded') : n \in Values(forwarded) \/ (pc = "forward" /\ n = taken)
  <2>1. CASE forwarded' = forwarded
    BY <2>1
  <2>2. CASE pc = "forward" /\ forwarded' = Append(forwarded, taken)
    BY <1>1, <2>2, Appended DEF Values
  <2>. QED
    BY <2>1, <2>2 DEF Undecided
<1>6. \A n \in Values(forwarded') : LoggedAllow(n)'
  BY <1>2, <1>3, <1>5, AllowKept DEF DecisionInv
<1>7. LoggedLines' = CallsTaken'
  <2>1. CallsTaken' = {n \in 1..taken : IsToolsCall(sent'[n])}
    BY DEF Undecided, CallsTaken, IsToolsCall
  <2>2. LoggedLines' = LoggedLines
    BY DEF Undecided, LoggedLines
  <2>. QED
    BY <2>1, <2>2, CallsKept DEF DecisionInv
<1>8. pc' \in {"wait", "done"} => taken' = Len(sent') /\ ~clientOpen'
  BY DEF Undecided, DecisionInv
<1>9. \A decisions \in file' : pc' = "done" /\ decisions = log'
  BY DEF Undecided, DecisionInv
<1>. QED
  BY <1>4, <1>6, <1>7, <1>8, <1>9 DEF DecisionInv, Values

LEMMA CallLogs ==
  ASSUME SessionTypes, Take, IsToolsCall(sent[taken'])
  PROVE  \E e : /\ log' = Append(log, e) /\ e \in Decided /\ e.line = taken'
                /\ pc' = "forward" => e.verdict = "allow"
<1>v. PICK v : v = Verdict(sent[taken'])
  OBVIOUS
<1>1. v \in {"gated", "unknown", "allow", "contract"} /\ taken' \in Nat
  BY <1>v, VerdictType DEF Take, SessionTypes
<1>e. PICK e : e = [line |-> taken', verdict |-> v, heard |-> heard]
  OBVIOUS
<1>2. log' = Append(log, e) /\ (pc' = "forward" => v = "allow")
  BY <1>v, <1>e DEF Take, AuditEvent
<1>3. e \in Decided /\ e.line = taken' /\ e.verdict = v
  BY <1>1, <1>e DEF Decided, SessionTypes
<1>. QED
  BY <1>2, <1>3

LEMMA DecisionByTake ==
  ASSUME SessionTypes, ClientInv, DecisionInv, Take, UNCHANGED outside, Grows
  PROVE  DecisionInv'
<1>1. /\ pc = "serve" /\ pc' \notin {"wait", "done"} /\ taken' = taken + 1
      /\ UNCHANGED <<forwarded, file, sent>>
      /\ log \in Seq(Decided) /\ taken \in Nat
  BY DEF Take, outside, SessionTypes
<1>n. PICK n : n = taken'
  OBVIOUS
<1>2. n = taken + 1 /\ 1..taken' = 1..taken \cup {n}
  BY <1>1, <1>n
<1>3. file = {}
  BY <1>1 DEF DecisionInv
<1>4. Values(forwarded) \subseteq 1..taken
  BY DEF ClientInv
<1>5. CASE ~IsToolsCall(sent[n])
  <2>1. log' = log
    BY <1>5, <1>n DEF Take
  <2>2. \A m \in Values(forwarded') : LoggedAllow(m)'
    <3>1. Kept(log, log')
      BY <1>1, <2>1, KeptSame
    <3>. QED
      BY <1>1, <1>4, <3>1, AllowKept DEF DecisionInv
  <2>3. LoggedAllow(n)'
    BY <1>1, <1>5 DEF LoggedAllow, IsToolsCall
  <2>4. CallsTaken' = CallsTaken
    BY <1>1, <1>2, <1>5 DEF CallsTaken, IsToolsCall
  <2>5. LoggedLines' = CallsTaken'
    BY <2>1, <2>4 DEF LoggedLines, DecisionInv
  <2>6. pc' = "forward" => LoggedAllow(taken)'
    BY <1>n, <2>3 DEF LoggedAllow
  <2>. QED
    BY <1>1, <1>3, <2>2, <2>5, <2>6 DEF DecisionInv, Values
<1>6. CASE IsToolsCall(sent[n])
  <2>1. IsToolsCall(sent[taken'])
    BY <1>6, <1>n, Zenon
  <2>e. PICK e : /\ log' = Append(log, e) /\ e \in Decided /\ e.line = taken'
                 /\ pc' = "forward" => e.verdict = "allow"
    BY <2>1, CallLogs
  <2>2. /\ Len(log') = Len(log) + 1 /\ Len(log) \in Nat
        /\ \A i \in 1..Len(log) : log'[i] = log[i]
        /\ log'[Len(log) + 1] = e
    BY <1>1, <2>e, Appended
  <2>3. \A m \in Values(forwarded') : LoggedAllow(m)'
    <3>1. Kept(log, log')
      BY <2>2 DEF Kept
    <3>. QED
      BY <1>1, <1>4, <3>1, AllowKept DEF DecisionInv
  <2>4. pc' = "forward" => LoggedAllow(n)'
    BY <1>n, <2>2, <2>e DEF LoggedAllow
  <2>5. CallsTaken' = CallsTaken \cup {n}
    BY <1>1, <1>2, <1>6 DEF CallsTaken, IsToolsCall
  <2>6. LoggedLines' = LoggedLines \cup {n}
    <3>1. 1..Len(log') = 1..Len(log) \cup {Len(log) + 1}
      BY <2>2
    <3>2. log'[Len(log) + 1].line = n
      BY <1>n, <2>2, <2>e
    <3>. QED
      BY <2>2, <3>1, <3>2 DEF LoggedLines
  <2>7. pc' = "forward" => LoggedAllow(taken)'
    BY <1>n, <2>4 DEF LoggedAllow
  <2>. QED
    BY <1>1, <1>3, <2>3, <2>5, <2>6, <2>7 DEF DecisionInv, Values
<1>. QED
  BY <1>5, <1>6

LEMMA DecisionStep ==
  ASSUME SessionTypes, ClientInv, DecisionInv, [Next]_vars
  PROVE  DecisionInv'
BY StepGrows, OthersUndecided, DecisionByOthers, DecisionByTake

-----------------------------------------------------------------------------
(* The server's lines.                                                     *)

LEMMA ReplyStays ==
  ASSUME NEW sd, NEW sd2, NEW h \in Nat, \A k \in 1..h : sd2[k] = sd[k]
  PROVE  /\ ReplyIn(sd2, h) = ReplyIn(sd, h)
         /\ \A k \in 1..h : IsReply(sd2, k) <=> IsReply(sd, k)
<1>1. \A k \in 1..h : IsReply(sd2, k) <=> IsReply(sd, k)
  BY DEF IsReply
<1>2. \A k \in 1..h : 1..k - 1 \subseteq 1..h
  OBVIOUS
<1>3. \A k \in 1..h : (\A j \in 1..k - 1 : ~IsReply(sd2, j))
                        <=> (\A j \in 1..k - 1 : ~IsReply(sd, j))
  BY <1>1, <1>2
<1>. QED
  BY <1>1, <1>3 DEF ReplyIn

LEMMA ReplyAwaited ==
  ASSUME NEW sd, NEW h \in Nat, \A k \in 1..h : ~IsReply(sd, k)
  PROVE  /\ ReplyIn(sd, h) = {}
         /\ ReplyIn(sd, h + 1) \subseteq {h + 1}
         /\ ~IsReply(sd, h + 1) => ReplyIn(sd, h + 1) = {}
         /\ h <= MaxLines /\ IsReply(sd, h + 1) => ReplyIn(sd, h + 1) = {h + 1}
<1>1. 1..(h + 1) = 1..h \cup {h + 1} /\ 1..(h + 1) - 1 = 1..h /\ h + 1 \in Nat
  OBVIOUS
<1>2. MaxLines \in Nat
  BY SessionAssumption
<1>. QED
  BY <1>1, <1>2 DEF ReplyIn

LEMMA ReplyOver ==
  ASSUME NEW sd, NEW h \in Nat, (\E k \in 1..h : IsReply(sd, k)) \/ h > MaxLines
  PROVE  ReplyIn(sd, h + 1) = ReplyIn(sd, h)
<1>1. 1..(h + 1) = 1..h \cup {h + 1} /\ 1..(h + 1) - 1 = 1..h /\ h + 1 \in Nat
  OBVIOUS
<1>2. MaxLines \in Nat
  BY SessionAssumption
<1>3. h + 1 \notin ReplyIn(sd, h + 1)
  <2>1. CASE h > MaxLines
    BY <1>2, <2>1 DEF ReplyIn
  <2>2. CASE \E k \in 1..h : IsReply(sd, k)
    BY <1>1, <2>2 DEF ReplyIn
  <2>. QED
    BY <2>1, <2>2
<1>. QED
  BY <1>1, <1>3 DEF ReplyIn

LEMMA LostStays ==
  ASSUME NEW sd, NEW sd2, NEW h \in Nat, \A k \in 1..h : sd2[k] = sd[k]
  PROVE  LostIn(sd2, h) = LostIn(sd, h)
BY DEF LostIn

LEMMA LostNext ==
  ASSUME NEW sd, NEW h \in Nat
  PROVE  LostIn(sd, h + 1)
           = LostIn(sd, h) \cup (IF sd[h + 1].kind = "garbled" THEN {h + 1} ELSE {})
<1>1. 1..(h + 1) = 1..h \cup {h + 1}
  OBVIOUS
<1>. QED
  BY <1>1 DEF LostIn

\* What a step does to the relay when it neither reads nor writes a line.
Silent == /\ UNCHANGED <<relay, heard, buffer>>
          /\ pc' \in {"idle", "ask", "handshake"} => pc \in {"idle", "ask", "handshake"}
          /\ pc' = "done" => pc = "done" \/ relay = "ended"
          /\ pc = "failed" => pc' = "failed"
          /\ Over => Over' \/ pc = "idle"

LEMMA OthersSilent ==
  ASSUME [Next]_vars, SessionTypes,
         ~((Hear \/ HearGarbled \/ HearEnd \/ Flush \/ RelayTake \/ RelayBreaks
            \/ RelayWrite \/ RelayEnds) /\ UNCHANGED outside)
  PROVE  Silent
<1>1. CASE (Ask \/ Take \/ Deny \/ Forward \/ InputEnds \/ Finish) /\ UNCHANGED outside
  BY <1>1 DEF outside, Ask, Take, Deny, Forward, InputEnds, Finish, Silent, Over
<1>2. CASE \E s \in Servers : Launch(s)
  BY <1>2 DEF Launch, Start, Silent
<1>3. CASE UNCHANGED sessionVars
  BY <1>3 DEF sessionVars, gateway, Silent, Over
<1>4. CASE (\E r \in Requests : ClientSends(r)) \/ (\E m \in Replies : ServerSays(m))
  <2>1. UNCHANGED <<pc, relay, heard, buffer, serverUp>> /\ (said' = said \/ serverUp)
    BY <1>4 DEF ClientSends, ServerSays, gateway
  <2>. QED
    BY <2>1 DEF Silent, Over
<1>5. CASE ClientCloses \/ ServerExits
  BY <1>5 DEF ClientCloses, ServerExits, gateway, Silent, Over
<1>6. UNCHANGED vars => UNCHANGED sessionVars
  BY DEF vars
<1>. QED
  BY <1>1, <1>2, <1>3, <1>4, <1>5, <1>6 DEF Next, SessionNext, Gateway, outside

LEMMA PhaseBySilence ==
  ASSUME SessionTypes, PhaseInv, Grows, Silent
  PROVE  PhaseInv'
<1>1. \A k \in 1..heard : said'[k] = said[k]
  BY DEF SessionTypes, Grows, Kept
<1>2. \A k \in 1..heard : IsReply(said', k) <=> IsReply(said, k)
  BY <1>1 DEF IsReply
<1>3. relay # "none" => (Over => Over')
  BY DEF Silent, PhaseInv
<1>a. PICK sd2 : sd2 = said'
  OBVIOUS
<1>4. LostIn(sd2, heard) = LostIn(said, heard)
  BY <1>1, <1>a, LostStays DEF SessionTypes
<1>5. LostIn(said, heard)' = LostIn(said, heard)
  BY <1>4, <1>a DEF Silent, LostIn
<1>. QED
  BY <1>2, <1>3, <1>5 DEF Silent, PhaseInv

LEMMA PhaseByGarbles ==
  ASSUME SessionTypes, PhaseInv, Garbles
  PROVE  PhaseInv'
<1>1. /\ heard \in Nat /\ heard' = heard + 1 /\ said' = said /\ ~Over
      /\ said[heard + 1].kind = "garbled" /\ 1..heard \subseteq 1..heard'
      /\ MaxLines \in Nat
  BY SessionAssumption DEF Garbles, SessionTypes, Over
<1>2. LostIn(said, heard) = {}
  BY DEF Garbles, PhaseInv
<1>3. LostIn(said, heard + 1) = {heard + 1}
  BY <1>1, <1>2, LostNext
<1>4. LostIn(said, heard)' = {heard'}
  BY <1>1, <1>3 DEF LostIn
<1>5. CASE relay = "read" /\ relay' = "ended" /\ pc' = pc /\ pc # "done"
  BY <1>1, <1>4, <1>5 DEF PhaseInv
<1>6. CASE relay' = relay /\ pc = "handshake" /\ pc' = "failed"
  BY <1>1, <1>4, <1>6 DEF PhaseInv
<1>. QED
  BY <1>5, <1>6 DEF Garbles

LEMMA HearLosesNone ==
  ASSUME SessionTypes, PhaseInv, Hear \/ RelayTake, UNCHANGED outside
  PROVE  LostIn(said, heard) = {} /\ LostIn(said, heard)' = {}
<1>1. /\ heard \in Nat /\ heard' = heard + 1 /\ said' = said
      /\ said[heard + 1].kind # "garbled" /\ LostIn(said, heard) = {}
  BY DEF Hear, RelayTake, Garbled, outside, PhaseInv, SessionTypes
<1>2. LostIn(said, heard + 1) = {}
  BY <1>1, LostNext
<1>. QED
  BY <1>1, <1>2 DEF LostIn

LEMMA PhaseByHear ==
  ASSUME SessionTypes, PhaseInv, Hear, UNCHANGED outside
  PROVE  PhaseInv'
<1>1. /\ pc = "handshake" /\ relay = "none" /\ heard \in Nat /\ heard' = heard + 1
      /\ said' = said /\ heard <= MaxLines /\ Len(buffer) = heard /\ buffer \in Seq(Nat)
      /\ \A k \in 1..heard : ~IsReply(said, k)
  BY DEF Hear, outside, PhaseInv, SessionTypes
<1>2. MaxLines \in Nat /\ heard' \in Nat /\ 1..heard' = 1..heard \cup {heard'}
      /\ heard' \in 1..heard'
  BY <1>1, SessionAssumption
<1>0. LostIn(said, heard)' = {}
  BY <1>1, HearLosesNone DEF PhaseInv
<1>3. CASE IsReply(said, heard')
  <2>1. relay' = "flush" /\ pc' = "serve"
    BY <1>3 DEF Hear, IsReply
  <2>. QED
    BY <1>0, <1>1, <1>2, <1>3, <2>1 DEF PhaseInv
<1>4. CASE ~IsReply(said, heard')
  <2>1. buffer' = Append(buffer, heard')
    BY <1>4 DEF Hear, IsReply
  <2>2. Len(buffer') = heard'
    BY <1>1, <1>2, <2>1, Appended
  <2>3. CASE Len(buffer') > MaxLines
    <3>1. relay' = "flush" /\ pc' = "serve"
      BY <2>3 DEF Hear
    <3>. QED
      BY <1>0, <2>2, <2>3, <3>1 DEF PhaseInv
  <2>4. CASE ~(Len(buffer') > MaxLines)
    <3>1. relay' = relay /\ pc' = pc
      BY <1>4, <2>4 DEF Hear, IsReply
    <3>2. heard' <= MaxLines /\ \A k \in 1..heard' : ~IsReply(said', k)
      BY <1>1, <1>2, <1>4, <2>2, <2>4
    <3>. QED
      BY <1>0, <1>1, <2>2, <3>1, <3>2 DEF PhaseInv
  <2>. QED
    BY <2>3, <2>4
<1>. QED
  BY <1>3, <1>4

LEMMA PhaseByRelay ==
  ASSUME SessionTypes, PhaseInv, UNCHANGED outside,
         HearEnd \/ Flush \/ RelayTake \/ RelayWrite \/ RelayEnds
  PROVE  PhaseInv'
<1>1. heard \in Nat /\ Over' = (heard' = Len(said) /\ ~serverUp) /\ said' = said
  BY DEF SessionTypes, Over, outside
<1>0. heard' = heard => LostIn(said, heard)' = LostIn(said, heard)
  BY <1>1 DEF LostIn
<1>2. CASE HearEnd
  BY <1>0, <1>1, <1>2 DEF HearEnd, PhaseInv, Over, outside
<1>3. CASE Flush \/ RelayWrite
  <2>1. /\ relay \in {"flush", "write"} /\ relay' = "read" /\ pc' = pc /\ heard' = heard
        /\ pc # "done" /\ (Over' <=> Over)
    BY <1>1, <1>3 DEF Flush, RelayWrite, Relays, Over
  <2>. QED
    BY <1>0, <1>1, <2>1 DEF PhaseInv
<1>4. CASE RelayTake
  <2>1. /\ relay = "read" /\ relay' = "write" /\ pc' = pc /\ heard' = heard + 1
        /\ pc # "done" /\ ~Over
    BY <1>1, <1>4 DEF RelayTake, Relays, Over
  <2>2. 1..heard \subseteq 1..heard' /\ MaxLines \in Nat
    BY <1>1, <2>1, SessionAssumption
  <2>3. LostIn(said, heard)' = {}
    BY <1>4, HearLosesNone
  <2>. QED
    BY <1>1, <2>1, <2>2, <2>3 DEF PhaseInv
<1>5. CASE RelayEnds
  <2>1. /\ relay = "read" /\ relay' = "ended" /\ pc' = pc /\ pc # "done" /\ Over'
        /\ heard' = heard
    BY <1>1, <1>5 DEF RelayEnds, Relays
  <2>. QED
    BY <1>0, <1>1, <2>1 DEF PhaseInv
<1>. QED
  BY <1>2, <1>3, <1>4, <1>5

LEMMA PhaseStep ==
  ASSUME SessionTypes, PhaseInv, [Next]_vars
  PROVE  PhaseInv'
BY StepGrows, OthersSilent, PhaseBySilence, PhaseByHear, PhaseByRelay, OnlyGarbles,
   PhaseByGarbles

LEMMA RelaySame ==
  ASSUME SessionTypes, RelayInv, Grows, UNCHANGED <<heard, buffer>>, Pending' = Pending,
         LinesIn(shown, "server")' = LinesIn(shown, "server"),
         OrderedIn(shown, "server")',
         relay' \in {"none", "flush"} <=> relay \in {"none", "flush"}
  PROVE  RelayInv'
<1>1. heard \in Nat /\ \A k \in 1..heard : said'[k] = said[k]
  BY DEF SessionTypes, Grows, Kept
<1>a. PICK sd2 : sd2 = said'
  OBVIOUS
<1>2. ReplyIn(sd2, heard) = ReplyIn(said, heard)
  BY <1>1, <1>a, ReplyStays
<1>3. ReplyIn(said, heard)' = ReplyIn(said, heard)
  BY <1>2, <1>a DEF ReplyIn, IsReply
<1>4. LostIn(said, heard)' = LostIn(said, heard)
  BY <1>1, <1>a, LostStays DEF LostIn
<1>. QED
  BY <1>3, <1>4 DEF RelayInv, Rising

LEMMA RelayByGarbles ==
  ASSUME SessionTypes, RelayInv, PhaseInv, Garbles
  PROVE  RelayInv'
<1>1. /\ heard \in Nat /\ heard' = heard + 1 /\ UNCHANGED <<said, shown, buffer>>
      /\ said[heard + 1].kind = "garbled" /\ (relay' = "write" <=> relay = "write")
      /\ relay # "write"
      /\ relay' \in {"none", "flush"} <=> relay \in {"none", "flush"}
  BY DEF Garbles, SessionTypes, PhaseInv
<1>n. PICK n : n = heard + 1
  OBVIOUS
<1>2. heard' = n /\ n \in Nat /\ 1..n = 1..heard \cup {n} /\ n \notin 1..heard
  BY <1>1, <1>n
<1>3. LostIn(said, heard)' = LostIn(said, heard) \cup {n}
  <2>1. LostIn(said, n) = LostIn(said, heard) \cup {n}
    BY <1>1, <1>n, LostNext
  <2>. QED
    BY <1>1, <1>2, <2>1 DEF LostIn
<1>4. ReplyIn(said, n) = ReplyIn(said, heard)
  <2>1. ~IsReply(said, n)
    BY <1>1, <1>n DEF IsReply
  <2>. QED
    BY <1>2, <2>1 DEF ReplyIn
<1>5. ReplyIn(said, heard)' = ReplyIn(said, n)
  BY <1>1, <1>2 DEF ReplyIn, IsReply
<1>6. Pending' = Pending /\ Pending = Values(buffer)
  BY <1>1 DEF Pending, Values
<1>7. LinesIn(shown, "server")' = LinesIn(shown, "server") /\ OrderedIn(shown, "server")'
  BY <1>1 DEF RelayInv, LinesIn, OrderedIn
<1>8. Pending \subseteq 1..heard /\ ReplyIn(said, heard) \subseteq 1..heard
      /\ LostIn(said, heard) \subseteq 1..heard
  BY DEF RelayInv, ReplyIn, LostIn
<1>. QED
  BY <1>1, <1>2, <1>3, <1>4, <1>5, <1>6, <1>7, <1>8 DEF RelayInv, Rising

LEMMA RelayBySilence ==
  ASSUME SessionTypes, RelayInv, Grows, UNCHANGED <<heard, buffer, shown>>,
         \/ relay' = relay
         \/ relay = "none" /\ relay' = "flush"
         \/ relay = "read" /\ relay' = "ended"
  PROVE  RelayInv'
<1>1. Pending' = Pending
  BY DEF Pending, Values
<1>2. LinesIn(shown, "server")' = LinesIn(shown, "server") /\ OrderedIn(shown, "server")'
  BY DEF RelayInv, LinesIn, OrderedIn
<1>. QED
  BY <1>1, <1>2, RelaySame

LEMMA RelayByDeny ==
  ASSUME SessionTypes, RelayInv, Grows, Deny
  PROVE  RelayInv'
<1>1. /\ UNCHANGED <<heard, buffer, relay>> /\ shown \in Seq(Shown) /\ taken \in Nat
      /\ shown' = Append(shown, [from |-> "gateway", line |-> taken])
  BY DEF Deny, SessionTypes
<1>x. PICK x : x = [from |-> "gateway", line |-> taken]
  OBVIOUS
<1>2. x \in Shown /\ x.from = "gateway"
  BY <1>1, <1>x DEF Shown
<1>3. LinesIn(Append(shown, x), "server") = LinesIn(shown, "server")
  <2>1. LinesIn(Append(shown, x), "server") =
          LinesIn(shown, "server") \cup (IF x.from = "server" THEN {x.line} ELSE {})
    BY <1>1, <1>2, LinesAppend, ZenonT(60)
  <2>. QED
    BY <1>2, <2>1
<1>4. OrderedIn(Append(shown, x), "server")
  BY <1>1, <1>2, OrderedAppend DEF RelayInv
<1>5. LinesIn(shown, "server")' = LinesIn(shown, "server") /\ OrderedIn(shown, "server")'
  BY <1>1, <1>x, <1>3, <1>4 DEF LinesIn, OrderedIn
<1>6. Pending' = Pending
  BY <1>1 DEF Pending, Values
<1>. QED
  BY <1>1, <1>5, <1>6, RelaySame

LEMMA RelayByHear ==
  ASSUME SessionTypes, RelayInv, PhaseInv, Hear, UNCHANGED outside
  PROVE  RelayInv'
<1>1. /\ relay = "none" /\ heard \in Nat /\ heard' = heard + 1 /\ shown' = shown
      /\ said' = said /\ relay' \in {"none", "flush"} /\ heard <= MaxLines
      /\ buffer \in Seq(Nat) /\ \A k \in 1..heard : ~IsReply(said, k)
  BY DEF Hear, outside, PhaseInv, SessionTypes
<1>n. PICK n : n = heard + 1
  OBVIOUS
<1>2. heard' = n /\ n \in Nat /\ 1..n = 1..heard \cup {n} /\ n \notin 1..heard
  BY <1>1, <1>n
<1>3. /\ ReplyIn(said, heard) = {}
      /\ ~IsReply(said, n) => ReplyIn(said, n) = {}
      /\ IsReply(said, n) => ReplyIn(said, n) = {n}
  BY <1>1, <1>n, ReplyAwaited
<1>4. Pending = Values(buffer) /\ Pending' = Values(buffer')
  BY <1>1 DEF Pending, Values
<1>5. /\ LinesIn(shown, "server")' = {} /\ LinesIn(shown, "server") = {}
      /\ OrderedIn(shown, "server")'
  BY <1>1 DEF RelayInv, LinesIn, OrderedIn
<1>0. LostIn(said, heard) = {} /\ LostIn(said, heard)' = {}
  BY HearLosesNone
<1>6. Values(buffer) = 1..heard
  BY <1>0, <1>3, <1>4, <1>5 DEF RelayInv
<1>7. ReplyIn(said, heard)' = ReplyIn(said, n)
  BY <1>1, <1>2 DEF ReplyIn, IsReply
<1>8. CASE IsReply(said, n)
  <2>1. buffer' = buffer
    BY <1>2, <1>8 DEF Hear, IsReply
  <2>2. Pending' = 1..heard /\ ReplyIn(said, heard)' = {n}
    BY <1>3, <1>4, <1>6, <1>7, <1>8, <2>1
  <2>3. Rising(buffer')
    BY <2>1 DEF RelayInv
  <2>. QED
    BY <1>0, <1>1, <1>2, <1>5, <2>2, <2>3 DEF RelayInv, Rising
<1>9. CASE ~IsReply(said, n)
  <2>1. buffer' = Append(buffer, n)
    BY <1>2, <1>9 DEF Hear, IsReply
  <2>2. \A m \in Values(buffer) : m < n
    BY <1>1, <1>n, <1>6
  <2>3. Rising(Append(buffer, n)) /\ Values(Append(buffer, n)) = Values(buffer) \cup {n}
    BY <1>1, <1>2, <2>2, RisingAppend DEF RelayInv
  <2>4. Pending' = 1..n /\ ReplyIn(said, heard)' = {} /\ Rising(buffer')
    BY <1>2, <1>3, <1>4, <1>6, <1>7, <1>9, <2>1, <2>3
  <2>. QED
    BY <1>0, <1>1, <1>2, <1>5, <2>4 DEF RelayInv, Rising
<1>. QED
  BY <1>8, <1>9

LEMMA RelayByFlush ==
  ASSUME SessionTypes, RelayInv, Flush, UNCHANGED outside
  PROVE  RelayInv'
<1>1. /\ relay = "flush" /\ relay' = "read" /\ buffer' = <<>>
      /\ UNCHANGED <<heard, said>> /\ shown \in Seq(Shown) /\ buffer \in Seq(Nat)
  BY DEF Flush, outside, SessionTypes
<1>t. PICK t : t = [i \in DOMAIN buffer |-> FromServer(buffer[i])]
  OBVIOUS
<1>2. shown' = shown \o t
  BY <1>t DEF Flush
<1>3. LinesIn(shown, "server") = {} /\ Pending = Values(buffer) /\ Pending' = {}
  BY <1>1 DEF RelayInv, Pending, Values
<1>4. LinesIn(shown \o t, "server") = Values(buffer)
  <2>1. LinesIn(shown \o t, "server") = LinesIn(shown, "server") \cup
          (IF "server" = "server" THEN Values(buffer) ELSE {})
    BY <1>1, <1>t, LinesJoin, ZenonT(60)
  <2>. QED
    BY <1>3, <2>1
<1>5. OrderedIn(shown \o t, "server")
  BY <1>1, <1>3, <1>t, OrderedJoin DEF RelayInv
<1>6. LinesIn(shown, "server")' = Values(buffer) /\ OrderedIn(shown, "server")'
  BY <1>2, <1>4, <1>5 DEF LinesIn, OrderedIn
<1>7. ReplyIn(said, heard)' = ReplyIn(said, heard)
  BY <1>1 DEF ReplyIn, IsReply
<1>9. LostIn(said, heard)' = LostIn(said, heard)
  BY <1>1 DEF LostIn
<1>8. Values(buffer) = (1..heard) \ (ReplyIn(said, heard) \cup LostIn(said, heard))
  BY <1>3 DEF RelayInv
<1>. QED
  BY <1>1, <1>3, <1>6, <1>7, <1>8, <1>9 DEF RelayInv, Rising

LEMMA RelayByTake ==
  ASSUME SessionTypes, RelayInv, PhaseInv, RelayTake, UNCHANGED outside
  PROVE  RelayInv'
<1>1. /\ relay = "read" /\ relay' = "write" /\ buffer = <<>> /\ UNCHANGED <<said, shown, buffer>>
      /\ heard \in Nat /\ heard' = heard + 1 /\ ~Over
  BY DEF RelayTake, outside, RelayInv, Over, SessionTypes
<1>n. PICK n : n = heard + 1
  OBVIOUS
<1>2. heard' = n /\ 1..n = 1..heard \cup {n} /\ n \notin 1..heard
  BY <1>1, <1>n
<1>3. ReplyIn(said, n) = ReplyIn(said, heard)
  BY <1>1, <1>n, ReplyOver DEF PhaseInv
<1>4. ReplyIn(said, heard)' = ReplyIn(said, n)
  BY <1>1, <1>2 DEF ReplyIn, IsReply
<1>5. Pending = {} /\ Pending' = {n}
  BY <1>1, <1>2 DEF Pending, Values
<1>6. LinesIn(shown, "server")' = LinesIn(shown, "server") /\ OrderedIn(shown, "server")'
  BY <1>1 DEF RelayInv, LinesIn, OrderedIn
<1>7. ReplyIn(said, heard) \subseteq 1..heard
  BY DEF ReplyIn
<1>0. LostIn(said, heard) = {} /\ LostIn(said, heard)' = {}
  BY HearLosesNone
<1>. QED
  BY <1>0, <1>1, <1>2, <1>3, <1>4, <1>5, <1>6, <1>7 DEF RelayInv, Rising

LEMMA RelayByWrite ==
  ASSUME SessionTypes, RelayInv, RelayWrite, UNCHANGED outside
  PROVE  RelayInv'
<1>1. /\ relay = "write" /\ relay' = "read" /\ buffer = <<>> /\ UNCHANGED <<said, buffer, heard>>
      /\ heard \in Nat /\ shown \in Seq(Shown)
      /\ shown' = Append(shown, FromServer(heard))
  BY DEF RelayWrite, outside, RelayInv, SessionTypes
<1>x. PICK x : x = FromServer(heard)
  OBVIOUS
<1>2. x \in Shown /\ x.from = "server" /\ x.line = heard
  BY <1>1, <1>x DEF FromServer, Shown
<1>3. Pending = {heard} /\ Pending' = {}
  BY <1>1 DEF Pending, Values
<1>4. heard \in (1..heard) \ (ReplyIn(said, heard) \cup LostIn(said, heard))
  BY <1>3 DEF RelayInv
<1>5. \A n \in LinesIn(shown, "server") : n < heard
  BY <1>1, <1>3 DEF RelayInv
<1>6. LinesIn(Append(shown, x), "server") = LinesIn(shown, "server") \cup {heard}
  <2>1. LinesIn(Append(shown, x), "server") =
          LinesIn(shown, "server") \cup (IF x.from = "server" THEN {x.line} ELSE {})
    BY <1>1, <1>2, LinesAppend, ZenonT(60)
  <2>. QED
    BY <1>2, <2>1
<1>7. OrderedIn(Append(shown, x), "server")
  BY <1>1, <1>2, <1>5, OrderedAppend DEF RelayInv
<1>8. /\ LinesIn(shown, "server")' = LinesIn(shown, "server") \cup {heard}
      /\ OrderedIn(shown, "server")'
  BY <1>1, <1>x, <1>6, <1>7 DEF LinesIn, OrderedIn
<1>9. ReplyIn(said, heard)' = ReplyIn(said, heard) /\ LostIn(said, heard)' = LostIn(said, heard)
  BY <1>1 DEF ReplyIn, IsReply, LostIn
<1>. QED
  BY <1>1, <1>3, <1>4, <1>8, <1>9 DEF RelayInv, Rising

LEMMA RelayStep ==
  ASSUME SessionTypes, RelayInv, PhaseInv, [Next]_vars
  PROVE  RelayInv'
<1>1. Grows
  BY StepGrows
<1>2. CASE (Hear \/ Flush \/ RelayTake \/ RelayWrite \/ Deny) /\ UNCHANGED outside
  BY <1>1, <1>2, RelayByHear, RelayByFlush, RelayByTake, RelayByWrite, RelayByDeny
<1>7. CASE (HearGarbled \/ RelayBreaks) /\ UNCHANGED outside
  BY <1>7, OnlyGarbles, RelayByGarbles
<1>3. CASE (HearEnd \/ RelayEnds) /\ UNCHANGED outside
  <2>1. /\ UNCHANGED <<heard, buffer, shown>>
        /\ \/ relay = "none" /\ relay' = "flush"
           \/ relay = "read" /\ relay' = "ended"
    BY <1>3 DEF HearEnd, RelayEnds, PhaseInv
  <2>. QED
    BY <1>1, <2>1, RelayBySilence
<1>4. CASE (Ask \/ Take \/ Forward \/ InputEnds \/ Finish) /\ UNCHANGED outside
  <2>1. UNCHANGED <<heard, buffer, shown, relay>>
    BY <1>4 DEF Ask, Take, Forward, InputEnds, Finish
  <2>. QED
    BY <1>1, <2>1, RelayBySilence
<1>5. ASSUME \/ (\E s \in Servers : Launch(s)) \/ ClientCloses \/ ServerExits
             \/ UNCHANGED sessionVars \/ (\E r \in Requests : ClientSends(r))
             \/ (\E m \in Replies : ServerSays(m))
      PROVE  RelayInv'
  <2>1. UNCHANGED <<heard, buffer, shown, relay>>
    BY <1>5 DEF Launch, Start, ClientCloses, ServerExits, sessionVars, gateway,
                ClientSends, ServerSays
  <2>. QED
    BY <1>1, <2>1, RelayBySilence
<1>6. UNCHANGED vars => UNCHANGED sessionVars
  BY DEF vars
<1>. QED
  BY <1>2, <1>3, <1>4, <1>5, <1>6, <1>7 DEF Next, SessionNext, Gateway, outside

-----------------------------------------------------------------------------
(* Both directions.                                                        *)

SessionInv == SessionTypes /\ ClientInv /\ DecisionInv /\ PhaseInv /\ RelayInv

LEMMA SessionInvStarts == Init => SessionInv
<1>. SUFFICES ASSUME Init PROVE SessionInv
  OBVIOUS
<1>1. /\ pc = "idle" /\ relay = "none" /\ heard = 0 /\ taken = 0 /\ buffer = <<>>
      /\ shown = <<>> /\ forwarded = <<>> /\ log = <<>> /\ file = {}
  BY DEF Init, SessionInit
<1>2. /\ Values(forwarded) = {} /\ Values(buffer) = {} /\ LoggedLines = {}
      /\ LinesIn(shown, "gateway") = {} /\ LinesIn(shown, "server") = {}
      /\ CallsTaken = {} /\ InHand = {} /\ Pending = {} /\ ReplyIn(said, heard) = {}
      /\ LostIn(said, heard) = {}
  BY <1>1 DEF Values, LoggedLines, LinesIn, CallsTaken, InHand, Pending, ReplyIn, LostIn
<1>3. /\ Rising(forwarded) /\ Rising(buffer) /\ OrderedIn(shown, "gateway")
      /\ OrderedIn(shown, "server")
  BY <1>1 DEF Rising, OrderedIn
<1>4. ClientInv /\ DecisionInv /\ RelayInv
  BY <1>1, <1>2, <1>3 DEF ClientInv, DecisionInv, RelayInv
<1>5. PhaseInv
  BY <1>1, <1>2, SessionAssumption DEF PhaseInv
<1>. QED
  BY <1>4, <1>5, SessionStarts DEF SessionInv

LEMMA SessionInvStep ==
  ASSUME SessionInv, [Next]_vars
  PROVE  SessionInv'
<1>1. Rising(buffer)
  BY DEF SessionInv, RelayInv
<1>. QED
  BY <1>1, SessionTypesStep, ClientStep, DecisionStep, PhaseStep, RelayStep DEF SessionInv

LEMMA SessionSettled == SessionInv => Settled
<1>. SUFFICES ASSUME SessionInv PROVE Settled
  OBVIOUS
<1>1. /\ DOMAIN shown = 1..Len(shown) /\ DOMAIN forwarded = 1..Len(forwarded)
      /\ DOMAIN log = 1..Len(log)
  BY DEF SessionInv, SessionTypes
<1>. DEFINE answers == {j \in DOMAIN shown : shown[j].from = "gateway"}
            denied == {shown[j].line : j \in answers}
            passed == {forwarded[i] : i \in DOMAIN forwarded}
<1>2. denied = LinesIn(shown, "gateway") /\ passed = Values(forwarded)
  BY <1>1 DEF LinesIn, Values
<1>3. \A i, j \in DOMAIN forwarded : i < j => forwarded[i] < forwarded[j]
  BY <1>1 DEF SessionInv, ClientInv, Rising
<1>4. \A i, j \in answers : i < j => shown[i].line < shown[j].line
  BY <1>1 DEF SessionInv, ClientInv, OrderedIn
<1>5. /\ denied \cap passed = {} /\ denied \cup passed = (1..taken) \ InHand
  BY <1>2 DEF SessionInv, ClientInv
<1>6. \A n \in passed : IsToolsCall(sent[n]) =>
        \E i \in DOMAIN log : log[i].line = n /\ log[i].verdict = "allow"
  BY <1>1, <1>2 DEF SessionInv, DecisionInv, LoggedAllow
<1>7. \A decisions \in file : {decisions[i].line : i \in DOMAIN decisions}
                                = {n \in 1..Len(sent) : IsToolsCall(sent[n])}
  <2>. SUFFICES ASSUME NEW decisions \in file
                PROVE  {decisions[i].line : i \in DOMAIN decisions}
                         = {n \in 1..Len(sent) : IsToolsCall(sent[n])}
    OBVIOUS
  <2>1. decisions = log /\ taken = Len(sent) /\ LoggedLines = CallsTaken
    BY DEF SessionInv, DecisionInv
  <2>2. {decisions[i].line : i \in DOMAIN decisions} = LoggedLines
    BY <1>1, <2>1 DEF LoggedLines
  <2>. QED
    BY <2>1, <2>2 DEF CallsTaken
<1>. HIDE DEF answers, denied, passed
<1>8. denied \cup passed \subseteq 1..taken /\ (1..taken) \ InHand \subseteq denied \cup passed
  BY <1>5
<1>. QED
  BY <1>3, <1>4, <1>5, <1>6, <1>7, <1>8 DEF Settled, answers, denied, passed, InHand

LEMMA SessionHeard == SessionInv => ServerHeard
<1>. SUFFICES ASSUME SessionInv PROVE ServerHeard
  OBVIOUS
<1>1. DOMAIN shown = 1..Len(shown) /\ DOMAIN buffer = 1..Len(buffer)
  BY DEF SessionInv, SessionTypes
<1>. DEFINE passedOn == {i \in DOMAIN shown : shown[i].from = "server"}
            reply == {k \in 1..heard : /\ said[k].kind \in {"reply", "refusal"}
                                       /\ \A j \in 1..k - 1 :
                                            said[j].kind \notin {"reply", "refusal"}
                                       /\ k <= MaxLines + 1}
            pending == {buffer[i] : i \in DOMAIN buffer}
                         \cup (IF relay = "write" THEN {heard} ELSE {})
            lost == {k \in 1..heard : Garbled(k)}
<1>8. lost = LostIn(said, heard) /\ lost \subseteq {heard}
  BY DEF LostIn, Garbled, SessionInv, PhaseInv
<1>2. reply = ReplyIn(said, heard)
  BY DEF ReplyIn, IsReply
<1>3. pending = Pending
  BY <1>1 DEF Pending, Values
<1>4. {shown[i].line : i \in passedOn} = LinesIn(shown, "server")
  BY <1>1 DEF LinesIn
<1>5. \A i, j \in passedOn : i < j => shown[i].line < shown[j].line
  BY <1>1 DEF SessionInv, RelayInv, OrderedIn
<1>6. {shown[i].line : i \in passedOn} = (1..heard) \ (reply \cup pending \cup lost)
  BY <1>2, <1>3, <1>4, <1>8 DEF SessionInv, RelayInv
<1>7. pc = "done" => pending = {} /\ (heard = Len(said) \/ lost # {})
  <2>. SUFFICES ASSUME pc = "done"
                PROVE  Pending = {} /\ (heard = Len(said) \/ LostIn(said, heard) # {})
    BY <1>3, <1>8
  <2>1. /\ relay = "ended" /\ buffer = <<>>
        /\ heard = Len(said) \/ LostIn(said, heard) # {}
    BY DEF SessionInv, PhaseInv, RelayInv, Over
  <2>. QED
    BY <2>1 DEF Pending, Values
<1>. QED
  BY <1>5, <1>6, <1>7, <1>8, Zenon DEF ServerHeard

\* What passes through the gateway in either direction is settled once and in its
\* order, whatever the interleaving of its two threads.
THEOREM RelaysAll == Spec => []Relayed
<1>1. Init => SessionInv
  BY SessionInvStarts
<1>2. SessionInv /\ [Next]_vars => SessionInv'
  BY SessionInvStep
<1>3. SessionInv => Relayed
  BY SessionSettled, SessionHeard DEF Relayed
<1>. QED
  BY <1>1, <1>2, <1>3, PTL DEF Spec

-----------------------------------------------------------------------------
(* Types.                                                                  *)

ControlTypes ==
  /\ last.n \in 0..MaxCommands
  /\ pc \in {"idle", "ask", "handshake", "serve", "deny", "forward", "wait",
             "done", "failed"}
  /\ relay \in {"none", "flush", "read", "write", "ended"}
  /\ clientOpen \in BOOLEAN /\ serverUp \in BOOLEAN

LEMMA ControlTypesStart == Init => ControlTypes
<1>1. Init => last.n = 0
  BY DEF Init, ConfigInit
<1>2. 0 \in 0..MaxCommands
  BY ConfigAssumption
<1>. QED
  BY <1>1, <1>2 DEF Init, SessionInit, ControlTypes

LEMMA ControlTypesStep ==
  ASSUME ControlTypes, [Next]_vars
  PROVE  ControlTypes'
<1>1. CASE Gateway /\ UNCHANGED outside /\ UNCHANGED configVars
  BY <1>1 DEF Gateway, outside, configVars, Ask, Hear, HearGarbled, HearEnd, Flush,
              RelayTake, RelayBreaks, RelayWrite, RelayEnds, Take, Deny, Forward, InputEnds,
              Finish, ControlTypes
<1>2. CASE UNCHANGED <<pc, relay, clientOpen, serverUp, configVars>>
  BY <1>2 DEF configVars, ControlTypes
<1>3. CASE (\E s \in Servers : Launch(s)) /\ UNCHANGED configVars
  BY <1>3 DEF Launch, Start, configVars, ControlTypes
<1>4. CASE (ClientCloses \/ ServerExits) /\ UNCHANGED configVars
  BY <1>4 DEF ClientCloses, ServerExits, gateway, configVars, ControlTypes
<1>5. CASE ConfigNext /\ UNCHANGED sessionVars
  <2>1. last'.n \in 0..MaxCommands
    <3>1. CASE NextSecond
      BY <3>1 DEF NextSecond, ControlTypes
    <3>2. ASSUME NEW mode \in {"wrap", "unwrap"}, NEW o \in WrapOptions, Rewrite(mode, o)
          PROVE  last'.n \in 0..MaxCommands
      <4>1. last.n < MaxCommands /\ last'.n = last.n + 1
        BY <3>2 DEF Rewrite
      <4>. QED
        BY <4>1, ConfigAssumption DEF ControlTypes
    <3>. QED
      BY <1>5, <3>1, <3>2 DEF ConfigNext
  <2>. QED
    BY <1>5, <2>1 DEF sessionVars, gateway, ControlTypes
<1>6. UNCHANGED vars => UNCHANGED <<sessionVars, configVars>>
  BY DEF vars
<1>. QED
  BY <1>1, <1>2, <1>3, <1>4, <1>5, <1>6
     DEF Next, SessionNext, ClientSends, ServerSays, sessionVars, gateway, outside

\* The variables hold what the code's types and indices allow.
THEOREM McpTypes == Spec => []TypeOK
<1>1. Init => ConfigInv /\ LearnInv /\ ControlTypes
  BY ConfigStarts, LearnStarts, ControlTypesStart DEF Init
<1>2. ConfigInv /\ LearnInv /\ ControlTypes /\ [Next]_vars
        => (ConfigInv /\ LearnInv /\ ControlTypes)'
  BY ConfigStep, LearnStep, ControlTypesStep
<1>3. ConfigInv /\ LearnInv /\ ControlTypes => TypeOK
  <2>. SUFFICES ASSUME ConfigInv, LearnInv, ControlTypes PROVE TypeOK
    OBVIOUS
  <2>1. config = Torn \/ DOMAIN config = Servers
    BY DEF ConfigInv
  <2>2. /\ now \in 0..MaxSeconds
        /\ heard \in 0..Len(said) /\ taken \in 0..Len(sent) /\ Len(said) \in Nat
    BY DEF ConfigInv, LearnInv, SessionTypes
  <2>3. known \in [Tools -> 0..Len(said)]
    <3>1. \A t \in Tools : known[t] \in 0..Len(said)
      BY <2>2 DEF LearnInv, ToolsInv, OffersIn
    <3>2. known \in [Tools -> Nat]
      BY DEF LearnInv, SessionTypes
    <3>. QED
      BY <3>1, <3>2
  <2>. QED
    BY <2>1, <2>2, <2>3 DEF ControlTypes, TypeOK
<1>. QED
  BY <1>1, <1>2, <1>3, PTL DEF Spec
=============================================================================
