----------------------------- MODULE McpConfig -----------------------------
(***************************************************************************)
(* `ql mcp wrap` and `ql mcp unwrap` (crates/ql-cli/src/mcp.rs): a client  *)
(* configuration names a launch command per server, and the two commands   *)
(* rewrite it in place, after saving what they read to a backup named by   *)
(* the second.                                                             *)
(*                                                                         *)
(* A launch command is a sequence of layers, each up to its own `--`: "run"*)
(* is `ql run ... --`, "gateway" is `ql mcp gateway ... --`, "command" the *)
(* server itself, and "remote" a url entry, which launches nothing.        *)
(***************************************************************************)
EXTENDS Naturals, Sequences

CONSTANTS Servers,      \* the entries under `mcpServers`
          Entries,      \* the entries a user may have written
          WrapOptions,  \* [gateway, gate, allow, named]: what a wrap is asked
          MaxSeconds,   \* bound on the clock that names the backups
          MaxCommands   \* bound on the rewriting commands

ASSUME ConfigAssumption ==
    /\ Servers # {} /\ MaxSeconds \in Nat /\ MaxCommands \in Nat
    /\ \A e \in Entries : e \in Seq({e[i] : i \in DOMAIN e}) /\ e # <<>>

Torn == <<>>            \* a file whose write failed half way: not JSON

VARIABLES config,       \* the configuration file: [Servers -> layers], or Torn
          backups,      \* `.bak.<secs>`: what was saved in each second
          now,          \* the current second
          last          \* the latest command: its mode, its options, what it read

configVars == <<config, backups, now, last>>

Layer(kind, named, gate, allow) ==
    [kind |-> kind, named |-> named,
     options |-> [gate |-> gate, allow |-> allow, open |-> FALSE, audit |-> FALSE]]

\* `named`: the ql path ends in "ql", the only way is_wrapped knows it. wrap hands
\* the gateway its gates, and neither --open nor --audit, which a user may write.
RunLayer(o) == Layer("run", o.named, {}, {})
GatewayLayer(o) == Layer("gateway", o.named, o.gate, o.allow)

IsWrapped(entry) == Head(entry).kind = "run" /\ Head(entry).named

WrapServer(entry, o) ==
    IF Head(entry).kind = "remote" \/ IsWrapped(entry)
    THEN entry
    ELSE <<RunLayer(o)>> \o (IF o.gateway THEN <<GatewayLayer(o)>> ELSE <<>>)
                         \o entry

\* Everything up to the first `--` goes, whatever wrap had put after it; an
\* entry with no `--`, or nothing after it, is left alone.
UnwrapToLast(entry) ==
    IF IsWrapped(entry) /\ Len(entry) > 1 THEN <<entry[Len(entry)]>> ELSE entry
UnwrapServer(entry) ==
    IF IsWrapped(entry) /\ Len(entry) > 1 THEN Tail(entry) ELSE entry

Rewritten(mode, o) ==
    [s \in Servers |-> IF mode = "wrap" THEN WrapServer(config[s], o)
                                        ELSE UnwrapServer(config[s])]

ConfigInit == /\ config \in [Servers -> Entries]
              /\ backups = [t \in 0 .. MaxSeconds |-> Torn]
              /\ now = 0
              /\ last = [n |-> 0, mode |-> "none"]

\* The backup first: if it cannot be written the command gives up and leaves the
\* file alone. A write that fails, or a command that dies in it, tears the file.
Rewrite(mode, o) ==
    /\ last.n < MaxCommands
    /\ config # Torn
    /\ last' = [n |-> last.n + 1, mode |-> mode, options |-> o, read |-> config]
    /\ \/ /\ backups' \in {backups, [backups EXCEPT ![now] = Torn]}
          /\ UNCHANGED config
       \/ /\ backups' = [backups EXCEPT ![now] = config]
          /\ config' \in {config, Torn, Rewritten(mode, o)}
    /\ UNCHANGED now

NextSecond == /\ now < MaxSeconds
              /\ now' = now + 1
              /\ UNCHANGED <<config, backups, last>>

ConfigNext == \/ \E mode \in {"wrap", "unwrap"}, o \in WrapOptions : Rewrite(mode, o)
              \/ NextSecond

(* Properties *************************************************************)

\* What `ql mcp unwrap` promises ("reverses the rewrite", mcp.rs:17), where the
\* code keeps it: after a wrap without --gateway and under a ql path ending in
\* "ql", unwrap gives back the entry the wrap found, layers of the user's own
\* included. With --gateway the gateway layer stays behind.
UnwrapRestores ==
    \A s \in Servers :
       (/\ last.mode = "wrap" /\ last'.mode = "unwrap" /\ last'.n > last.n
        /\ last.options.named /\ ~last.options.gateway
        /\ ~IsWrapped(last.read[s])
        /\ config' \notin {config, Torn})
       => config'[s] = last.read[s]

\* A rewrite that tears the configuration leaves what it had read in a backup,
\* also when an earlier run saved its own in the same second.
TornIsSaved == config = Torn => \E t \in 0 .. now : backups[t] = last.read

\* No command loses what the user had configured.
ConfigKept == [][UnwrapRestores /\ TornIsSaved']_configVars
=============================================================================
