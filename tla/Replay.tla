------------------------------- MODULE Replay -------------------------------
(***************************************************************************)
(* A recorded run and its replay. `ql run --verdicts` writes one line per  *)
(* decision as it is made (crates/ql-cli/src/verdicts.rs); `ql replay`     *)
(* (replay.rs) later asks what another policy would have decided, from     *)
(* those lines alone, and must say so when it cannot know.                 *)
(***************************************************************************)
EXTENDS Naturals, Sequences, FiniteSets

CONSTANTS Policies,         \* [allow, defaultDeny, private, enforce, digests]
          Hosts, Programs,
          MaxOps            \* bound on the operations of the recorded run

VARIABLES recording,        \* "idle", "open", "ending", "over"
          policy, brokered, \* what the run was recorded under
          header,           \* the axes the stream's first line declares, or {None}
          lines,            \* the decisions of the stream: [axis, allowed, target, rule]
          execLines,        \* exec decisions, kept to be written when the run is over
          let,              \* what the workload was let do: [axis, target, addr]
          lost,             \* a write to the stream failed
          verdict           \* the replay's: [egress, exec, policy], at most one

replayVars == <<recording, policy, brokered, header, lines, execLines, let, lost, verdict>>

Addresses == {"public", "private", "none"}

(* Recording **************************************************************)

HostAllowed(p, host) == p.defaultDeny => host \in p.allow

\* BrokerPolicy::evaluate.
Evaluate(p, host, addr) ==
    CASE ~HostAllowed(p, host)          -> "host not in allow-list"
      [] OTHER ->
         IF ~p.private THEN "allowed"
         ELSE CASE addr = "none"    -> "host did not resolve"
                [] addr = "private" -> "private address"
                [] OTHER            -> "allowed"

\* A line that cannot be written is dropped in silence.
Write(line) == \/ lines' = Append(lines, line) /\ UNCHANGED lost
               \/ UNCHANGED lines /\ lost' = TRUE

Live == (IF brokered THEN {"egress"} ELSE {}) \cup (IF policy.enforce THEN {"exec"} ELSE {})
Record == /\ recording = "idle"
          /\ recording' = "open"
          /\ \/ header' = Live /\ UNCHANGED lost
             \/ header' = {"missing"} /\ lost' = TRUE
          /\ UNCHANGED <<policy, brokered, lines, execLines, let, verdict>>

Ops == Cardinality(let) + Len(lines) + Len(execLines)

\* The broker decides on the addresses the host has now; only the name is recorded.
Dial(host, addr) ==
    /\ recording = "open" /\ brokered /\ Ops < MaxOps
    /\ LET rule == Evaluate(policy, host, addr)
           op == [axis |-> "egress", target |-> host, addr |-> addr]
       IN  /\ Write([axis |-> "egress", allowed |-> rule = "allowed", target |-> host,
                     rule |-> rule])
           /\ let' = IF rule = "allowed" THEN let \cup {op} ELSE let
    /\ UNCHANGED <<recording, policy, brokered, header, execLines, verdict>>

\* The exec wall, when there is one, keeps its decision for the end of the run.
Launch(program) ==
    /\ recording = "open" /\ Ops < MaxOps
    /\ LET allowed == policy.enforce => program \in policy.digests
           op == [axis |-> "exec", target |-> program, addr |-> "none"]
       IN  /\ let' = IF allowed THEN let \cup {op} ELSE let
           /\ execLines' = IF policy.enforce
                           THEN Append(execLines, [axis |-> "exec", allowed |-> allowed,
                                                   target |-> program, rule |-> "digest"])
                           ELSE execLines
    /\ UNCHANGED <<recording, policy, brokered, header, lines, lost, verdict>>

\* The workload has ended.
Drain == /\ recording \in {"open", "ending"} /\ execLines # <<>>
         /\ recording' = "ending"
         /\ Write(Head(execLines)) /\ execLines' = Tail(execLines)
         /\ UNCHANGED <<policy, brokered, header, let, verdict>>
Over == /\ recording \in {"open", "ending"} /\ execLines = <<>> /\ recording' = "over"
        /\ UNCHANGED <<policy, brokered, header, lines, execLines, let, lost, verdict>>

(* Replay *****************************************************************)

On(axis) == {lines[i] : i \in {i \in DOMAIN lines : lines[i].axis = axis}}

\* egress_verdict: the addresses are known only as far as a rule betrays them.
EgressVerdict(p, line) ==
    CASE ~HostAllowed(p, line.target) -> "deny"
      [] OTHER ->
         IF ~p.private THEN "allow"
         ELSE IF line.rule = "private address" THEN "deny"
         ELSE IF line.allowed THEN "allow"
         ELSE "unknown"
ExecVerdict(p, line) == IF p.enforce => line.target \in p.digests THEN "allow" ELSE "deny"

Regressed(axis, Verdict(_)) == \E l \in On(axis) : l.allowed /\ Verdict(l) = "deny"
Undetermined(axis, Verdict(_)) == \E l \in On(axis) : Verdict(l) = "unknown"

ReplayEgress(p) ==
    LET Verdict(l) == EgressVerdict(p, l)
    IN  CASE On("egress") = {}               -> IF header # {"missing"} /\ "egress" \in header
                                                THEN "pass" ELSE "unknown"
          [] Regressed("egress", Verdict)    -> "fail"
          [] OTHER -> IF Undetermined("egress", Verdict) THEN "unknown" ELSE "pass"
\* No exec event is never a pass: a live wall has seen at least the command.
ReplayExecSilent(p) ==
    LET Verdict(l) == ExecVerdict(p, l)
    IN  IF Regressed("exec", Verdict) THEN "fail" ELSE "pass"
ReplayExec(p) ==
    LET Verdict(l) == ExecVerdict(p, l)
    IN  CASE On("exec") = {} -> "unknown"
          [] OTHER -> IF Regressed("exec", Verdict) THEN "fail" ELSE "pass"

\* A stream with neither a header nor a decision is refused.
Propose(p) ==
    /\ recording = "over" /\ verdict = {}
    /\ lines # <<>> \/ header # {"missing"}
    /\ verdict' = {[egress |-> ReplayEgress(p), exec |-> ReplayExec(p), policy |-> p]}
    /\ UNCHANGED <<recording, policy, brokered, header, lines, execLines, let, lost>>

ReplayInit == /\ policy \in Policies /\ brokered \in BOOLEAN
              /\ recording = "idle" /\ header = {} /\ lines = <<>> /\ execLines = <<>>
              /\ let = {} /\ lost = FALSE /\ verdict = {}
ReplayNext == \/ Record \/ Drain \/ Over
              \/ \E h \in Hosts, a \in Addresses : Dial(h, a)
              \/ \E f \in Programs : Launch(f)
              \/ \E p \in Policies : Propose(p)

(* The promise ************************************************************)

Denies(p, op) == IF op.axis = "exec" THEN p.enforce /\ op.target \notin p.digests
                 ELSE Evaluate(p, op.target, op.addr) # "allowed"
Doing(axis) == {op \in let : op.axis = axis}

\* A replay that passes an axis is right: nothing the recorded workload was let do
\* would have been denied by the proposed policy, the operations the stream does not
\* show (an axis with no wall, a private address behind a recorded name) included;
\* one that fails an axis can name such an operation. It speaks of a whole stream
\* only, and of private addresses only if the recording policy blocked them too.
ReplayHonest ==
    \A v \in verdict :
       ~lost /\ (v.policy.private => policy.private) =>
          \A axis \in {"egress", "exec"} :
             /\ v[axis] = "pass" => \A op \in Doing(axis) : ~Denies(v.policy, op)
             /\ v[axis] = "fail" => \E op \in Doing(axis) : Denies(v.policy, op)
=============================================================================
