------------------------------ MODULE RunLife ------------------------------
(***************************************************************************)
(* One `ql run` (ql-cli, run.rs): the gates a profile passes, what is      *)
(* written down about it before the agent starts, the cell (of which only  *)
(* the promise, CellRun, is used), and what the walls decided while the    *)
(* agent ran, told to three readers: the audit log, the verdicts stream    *)
(* and the end-of-run summary.  Broker threads decide while the main       *)
(* thread waits in Cell::run and goes on after it; exec decisions stay in  *)
(* memory until the cell has answered.  ql may die at any point.           *)
(***************************************************************************)
EXTENDS Profiles, CellRun, Naturals, FiniteSetsExt

CONSTANTS
  Options,     \* the command lines
  Documents,   \* the profiles on disk
  Chains,      \* the leaf capabilities of verified delegation chains
  Phases,      \* the phases a profile may define
  Workspace,   \* the path of --workspace
  Conns,       \* egress requests of the agent, one broker thread each
  Execs,       \* exec decisions
  Targets,     \* hosts and digests, as the summary names them
  MaxNamed,    \* MAX_NAMED_TARGETS
  None

ASSUME RunAssumption ==
  /\ Options \subseteq [brokered : BOOLEAN, audit : BOOLEAN, stream : BOOLEAN, json : BOOLEAN]
  /\ Documents \subseteq Profile /\ Chains \subseteq Capability /\ Phases \subseteq Phase
  /\ Workspace \in Paths
  /\ MaxNamed \in Nat /\ IsFiniteSet(Targets)
  /\ Conns \cap Execs = {}
  /\ None \notin Profile \cup Capability

VARIABLES
  pc,        \* where the main thread of ql is
  opt,       \* what the command line asks for
  granted,   \* history: the profile as authored, with the workspace
  prof,      \* the profile in force
  cap,       \* the capability the cell is bound to
  recorded,  \* the profile the policy record commits to
  issued,    \* the capability of the issued subtask token
  tier,      \* the exec wall selected
  listed,    \* the registry has this run
  veth,      \* the broker link exists
  verdict,   \* verdict[e]: what was decided about event e
  target,    \* target[e]: what event e is about
  stage,     \* stage[c]: how far the broker thread of c has told it
  memory,    \* exec decisions not drained yet
  told,      \* told[e][r]: how often reader r was told of event e
  denied,    \* the summary's denial counter
  named,     \* named[t]: the summary's count for a named target
  overflow,  \* the summary's count for the others
  report     \* what the result document says of the command

policyVars == <<granted, prof, cap, recorded, issued, tier>>
eventVars == <<verdict, target, stage, memory, told, denied, named, overflow>>
vars == <<pc, opt, policyVars, cellVars, listed, veth, eventVars, report>>

Events == Conns \cup Execs
Readers == {"audit", "stream", "summary"}

Before == {"load", "signature", "prune", "pins", "workspace", "bind", "register", "record",
           "issue", "tier", "phase", "verdicts", "listen"}
After == {"drain", "append", "unlink", "result", "render"}
Ended == {"over", "crashed"}

Init ==
  /\ pc = "load" /\ opt \in Options
  /\ granted = None /\ prof = None /\ cap = None /\ recorded = None /\ issued = None
  /\ tier = "none" /\ CellInit
  /\ listed = FALSE /\ veth = FALSE
  /\ verdict = [e \in Events |-> "none"]
  /\ target = [e \in Events |-> None]
  /\ stage = [c \in Conns |-> "idle"]
  /\ memory = {} /\ told = [e \in Events |-> [r \in Readers |-> 0]]
  /\ denied = 0 /\ named = [t \in Targets |-> 0] /\ overflow = 0
  /\ report = "none"

-----------------------------------------------------------------------------
(* Before the cell.  A gate that refuses ends the run, most of them after  *)
(* taking the registration back.                                           *)

At(p, q) == pc = p /\ pc' = q
Quiet == UNCHANGED <<opt, cellVars, veth, eventVars, report>>
SamePolicy == UNCHANGED <<granted, cap, recorded, issued, tier>>

Refuses ==
  /\ pc \in {"load", "signature", "pins", "bind", "tier", "phase", "verdicts"}
  /\ pc' = "over"
  /\ listed' = (pc = "verdicts")
  /\ UNCHANGED policyVars /\ Quiet

Load ==
  /\ At("load", "signature")
  /\ \E p \in Documents : Valid(p) /\ granted' = p /\ prof' = p
  /\ UNCHANGED <<cap, recorded, issued, tier, listed>> /\ Quiet

\* No signature where none is required, or one that verifies, by a trusted
\* signer, for the expected commit and image.
CheckSignature == At("signature", "prune") /\ UNCHANGED <<policyVars, listed>> /\ Quiet

PruneProvider ==
  /\ At("prune", "pins")
  /\ \/ UNCHANGED prof
     \/ \E keep \in Domains : prof' = PrunedTo(prof, keep)
  /\ UNCHANGED listed /\ SamePolicy /\ Quiet

VerifyPins == At("pins", "workspace") /\ UNCHANGED <<policyVars, listed>> /\ Quiet

AddWorkspace ==
  /\ At("workspace", "bind")
  /\ \/ UNCHANGED <<prof, granted>>
     \/ prof' = WithWorkspace(prof, Workspace) /\ granted' = WithWorkspace(granted, Workspace)
  /\ UNCHANGED <<cap, recorded, issued, tier, listed>> /\ Quiet

BindToken ==
  /\ At("bind", "register")
  /\ \/ UNCHANGED <<prof, cap>>
     \/ \E c \in Chains : prof' = Bound(prof, c) /\ cap' = c
  /\ UNCHANGED <<granted, recorded, issued, tier, listed>> /\ Quiet

Register == At("register", "record") /\ listed' = TRUE /\ UNCHANGED policyVars /\ Quiet

\* A log that cannot be written is reported and the run goes on.
RecordPolicy ==
  /\ At("record", "issue")
  /\ \/ opt.audit /\ recorded' = prof
     \/ UNCHANGED recorded
  /\ UNCHANGED <<granted, prof, cap, issued, tier, listed>> /\ Quiet

IssueToken ==
  /\ At("issue", "tier")
  /\ \/ issued' = SubtaskCapability(prof)
     \/ UNCHANGED issued
  /\ UNCHANGED <<granted, prof, cap, recorded, tier, listed>> /\ Quiet

SelectTier ==
  /\ At("tier", "phase")
  /\ \E lsm, notify \in BOOLEAN : tier' \in Tiers(prof, lsm, notify)
  /\ Qualifies(prof, tier')
  /\ UNCHANGED <<granted, prof, cap, recorded, issued, listed>> /\ Quiet

EnterPhase ==
  /\ At("phase", "verdicts")
  /\ \/ UNCHANGED prof
     \/ \E ph \in Phases : prof' = Narrow(ph, prof)
  /\ UNCHANGED listed /\ SamePolicy /\ Quiet

OpenStream ==
  /\ At("verdicts", IF opt.brokered THEN "listen" ELSE "cell")
  /\ UNCHANGED <<policyVars, listed>> /\ Quiet

\* A broker that cannot listen ends the run where a cell that answered would.
Listen ==
  /\ pc = "listen" /\ pc' \in {"cell", "render"}
  /\ UNCHANGED <<policyVars, listed>> /\ Quiet

Prepare ==
  \/ Refuses \/ Load \/ CheckSignature \/ PruneProvider \/ VerifyPins \/ AddWorkspace
  \/ BindToken \/ Register \/ RecordPolicy \/ IssueToken \/ SelectTier \/ EnterPhase
  \/ OpenStream \/ Listen

-----------------------------------------------------------------------------
(* The cell.  The agent starts after the hook that makes the broker link;  *)
(* an error may come before or after it.                                   *)

StartAgent ==
  /\ pc = "cell" /\ Starts
  /\ veth' = opt.brokered
  /\ UNCHANGED <<pc, opt, policyVars, listed, eventVars, report>>

AgentDies ==
  /\ Dies
  /\ UNCHANGED <<pc, opt, policyVars, listed, veth, eventVars, report>>

CellAnswers ==
  /\ At("cell", "drain") /\ Answers
  /\ veth' \in {veth, veth \/ opt.brokered}
  /\ UNCHANGED <<opt, policyVars, listed, eventVars, report>>

\* Cell::build fails: no drain and no teardown, but a result document.
BuildFails ==
  /\ At("cell", "render") /\ agent = "none"
  /\ report' = IF opt.json THEN "failed" ELSE "none"
  /\ UNCHANGED <<opt, policyVars, cellVars, listed, veth, eventVars>>

-----------------------------------------------------------------------------
(* Decisions.                                                              *)

Here == UNCHANGED <<opt, policyVars, listed, veth, report>>

Tell(e, r) == told' = [told EXCEPT ![e][r] = @ + 1]

\* Mutant: with the names at their cap a denial is not counted at all.
NameOnly(e) ==
  LET t == target[e] IN
    IF named[t] > 0 \/ Cardinality({u \in Targets : named[u] > 0}) < MaxNamed
    THEN named' = [named EXCEPT ![t] = @ + 1] /\ UNCHANGED overflow
    ELSE UNCHANGED <<named, overflow>>

\* note_denied_target: a target that is named is counted by name, a new one
\* is named while there is room, and any other denial is counted apart.
Name(e) ==
  LET t == target[e] IN
    IF named[t] > 0 \/ Cardinality({u \in Targets : named[u] > 0}) < MaxNamed
    THEN named' = [named EXCEPT ![t] = @ + 1] /\ UNCHANGED overflow
    ELSE overflow' = overflow + 1 /\ UNCHANGED named

Connect(c) ==
  /\ agent = "alive" /\ opt.brokered /\ pc \notin Ended
  /\ stage[c] = "idle"
  /\ stage' = [stage EXCEPT ![c] = "decide"]
  /\ \E t \in Targets : target' = [target EXCEPT ![c] = t]
  /\ UNCHANGED <<pc, cellVars, verdict, memory, told, denied, named, overflow>> /\ Here

Broker(c, from, to) ==
  /\ pc \notin Ended
  /\ stage[c] = from
  /\ stage' = [stage EXCEPT ![c] = to]
  /\ UNCHANGED <<pc, cellVars, target, memory>> /\ Here

\* The decision, and its audit record; a sink that fails is reported only.
Decide(c) ==
  /\ Broker(c, "decide", "count")
  /\ \E v \in {"allow", "deny"} : verdict' = [verdict EXCEPT ![c] = v]
  /\ \/ opt.audit /\ Tell(c, "audit")
     \/ UNCHANGED told
  /\ UNCHANGED <<denied, named, overflow>>

Count(c) ==
  /\ Broker(c, "count", IF verdict[c] = "deny" THEN "name" ELSE "stream")
  /\ denied' = denied + (IF verdict[c] = "deny" THEN 1 ELSE 0)
  /\ Tell(c, "summary")
  /\ UNCHANGED <<verdict, named, overflow>>

NameTarget(c) ==
  /\ Broker(c, "name", "stream")
  /\ Name(c)
  /\ UNCHANGED <<verdict, told, denied>>

Stream(c) ==
  /\ Broker(c, "stream", "done")
  /\ IF opt.stream THEN Tell(c, "stream") ELSE UNCHANGED told
  /\ UNCHANGED <<verdict, denied, named, overflow>>

\* The exec wall decides, in ql's supervision of the cell or in the kernel.
ExecDecided(x) ==
  /\ agent = "alive" /\ tier # "none" /\ pc \notin Ended
  /\ verdict[x] = "none"
  /\ \E v \in {"allow", "deny"} : verdict' = [verdict EXCEPT ![x] = v]
  /\ \E t \in Targets : target' = [target EXCEPT ![x] = t]
  /\ memory' = memory \cup {x}
  /\ UNCHANGED <<pc, cellVars, stage, told, denied, named, overflow>> /\ Here

BrokerStep == \E c \in Conns : Decide(c) \/ Count(c) \/ NameTarget(c) \/ Stream(c)

-----------------------------------------------------------------------------
(* After the cell.                                                         *)

Streamed(e) == [told EXCEPT ![e]["summary"] = @ + 1,
                            ![e]["stream"] = @ + (IF opt.stream THEN 1 ELSE 0)]

\* Each exec decision to the summary and the stream.
Drain ==
  /\ pc = "drain"
  /\ \E x \in memory :
       /\ told[x]["summary"] = 0
       /\ told' = Streamed(x)
       /\ IF verdict[x] = "deny"
          THEN denied' = denied + 1 /\ Name(x)
          ELSE UNCHANGED <<denied, named, overflow>>
  /\ UNCHANGED <<pc, cellVars, verdict, target, stage, memory>> /\ Here

\* Mutant: ql waits for the broker threads, one of which may not be there.
DrainedByAll ==
  /\ At("drain", "append")
  /\ \A c \in Conns : stage[c] = "done"
  /\ UNCHANGED <<cellVars, eventVars>> /\ Here

Drained ==
  /\ At("drain", "append")
  /\ \A x \in memory : told[x]["summary"] > 0
  /\ UNCHANGED <<cellVars, eventVars>> /\ Here

\* The records, in one rewrite of the log; a log that cannot be read, parsed or
\* written is reported only.
AppendExecs ==
  /\ At("append", "unlink")
  /\ memory' = {}
  /\ \/ /\ opt.audit
        /\ told' = [e \in Events |-> [r \in Readers |->
                     told[e][r] + (IF e \in memory /\ r = "audit" THEN 1 ELSE 0)]]
     \/ UNCHANGED told
  /\ UNCHANGED <<cellVars, verdict, target, stage, denied, named, overflow>> /\ Here

\* Mutant: the link is only torn down after a command that ran.
UnlinkAfterRun ==
  /\ At("unlink", "result")
  /\ veth' = (veth /\ answer = "error")
  /\ UNCHANGED <<opt, policyVars, cellVars, listed, eventVars, report>>

Unlink ==
  /\ At("unlink", "result")
  /\ veth' = FALSE
  /\ UNCHANGED <<opt, policyVars, cellVars, listed, eventVars, report>>

\* An exit code, whosever it is, is reported as the command's.
WriteResult ==
  /\ At("result", "render")
  /\ report' = IF ~opt.json THEN "none" ELSE IF answer = "error" THEN "failed" ELSE "ran"
  /\ UNCHANGED <<opt, policyVars, cellVars, listed, veth, eventVars>>

\* The summary is rendered; then the registration is taken back.
Deregister ==
  /\ At("render", "over")
  /\ listed' = FALSE
  /\ UNCHANGED <<opt, policyVars, cellVars, veth, eventVars, report>>

Conclude == Drain \/ Drained \/ AppendExecs \/ Unlink \/ WriteResult \/ Deregister

\* ql is killed: what it keeps in memory is gone.
Crash ==
  /\ pc \notin Ended /\ pc' = "crashed"
  /\ memory' = {}
  /\ UNCHANGED <<cellVars, verdict, target, stage, told, denied, named, overflow>> /\ Here

-----------------------------------------------------------------------------
QlStep == Prepare \/ CellAnswers \/ BuildFails \/ Conclude

Next ==
  \/ QlStep \/ StartAgent \/ AgentDies \/ BrokerStep \/ Crash
  \/ \E c \in Conns : Connect(c)
  \/ \E x \in Execs : ExecDecided(x)

Spec == Init /\ [][Next]_vars

\* ql's main thread and its broker threads are scheduled.  Nothing makes the
\* agent end or ql die.
FairSpec == Spec /\ WF_vars(QlStep) /\ WF_vars(BrokerStep)

-----------------------------------------------------------------------------
(* Properties.                                                             *)

\* The variables hold what the code's types and guards allow.
TypeOK ==
  /\ pc \in Before \cup {"cell"} \cup After \cup Ended
  /\ opt \in Options
  /\ {granted, prof, recorded} \subseteq Profile \cup {None}
  /\ {cap, issued} \subseteq Capability \cup {None}
  /\ tier \in {"none", "lsm", "notify"}
  /\ agent \in {"none", "alive", "dead"}
  /\ answer \in {"none", "error", "refused", "killed", "agent"}
  /\ listed \in BOOLEAN /\ veth \in BOOLEAN
  /\ verdict \in [Events -> {"none", "allow", "deny"}]
  /\ target \in [Events -> Targets \cup {None}]
  /\ stage \in [Conns -> {"idle", "decide", "count", "name", "stream", "done"}]
  /\ memory \subseteq Execs
  /\ told \in [Events -> [Readers -> Nat]]
  /\ denied \in Nat /\ named \in [Targets -> Nat] /\ overflow \in Nat
  /\ report \in {"none", "failed", "ran"}

\* Whatever is pruned, bound and narrowed between the signature gate and the
\* cell, an agent that starts reaches no more than the authored profile and the
\* operator's workspace grant (run.rs:186-189, 382-384). One that is bound to a
\* delegation chain gets no grant outside the capability of its leaf either,
\* even though the workspace was added before and a phase may follow, if its
\* profile is default-deny (run.rs:244-251).
CellWithinGrants ==
  agent # "none" =>
    /\ AtMost(prof, granted)
    /\ cap # None /\ ~granted.open =>
         Reach(prof) \subseteq cap.net /\ Covers(prof.rw) \subseteq Covers(cap.rw)

\* What was written down before the start, the policy record and the subtask's
\* token, covers what the agent gets: no mutation after them widens the profile
\* (run.rs:289-290, 320-321).
RecordCoversCell ==
  agent # "none" =>
    /\ recorded # None => AtMost(prof, recorded)
    /\ issued # None => prof.net \subseteq issued.net /\ prof.rw \subseteq issued.rw

\* An agent starts only under the exec wall its profile demands: enforcement is
\* never downgraded, and a guarantee the host cannot give refuses the run unless
\* the profile accepts a substitute (run.rs:336-375, exec_tier.rs:14-17).
DemandMet ==
  agent # "none" =>
    /\ granted.enforce => tier # "none"
    /\ granted.need = "content or refuse" => tier # "none"

\* What an agent starts with: no more than was granted, recorded and delegated, and
\* the wall that was demanded.
AgentBounded == CellWithinGrants /\ RecordCoversCell /\ DemandMet

\* Every reader is told of a decision at most once; when ql ends by itself after
\* an agent that ran, the summary has every exec decision, the stream too if it
\* was asked for, and nothing is left in memory (run.rs:963-975, 1112-1124).
ToldOnce ==
  /\ \A e \in Events, r \in Readers : told[e][r] <= 1
  /\ pc = "over" =>
       /\ memory = {}
       /\ \A x \in Execs : verdict[x] # "none" =>
            told[x]["summary"] = 1 /\ told[x]["stream"] = (IF opt.stream THEN 1 ELSE 0)

\* The summary's numbers agree: with no broker thread between its counter and
\* its names, the denials are those of the named targets plus the rest, and no
\* more targets are named than the cap allows (summary.rs:73-110).
SummaryAddsUp ==
  /\ Cardinality({t \in Targets : named[t] > 0}) <= MaxNamed
  /\ (\A c \in Conns : stage[c] # "name") =>
       denied = overflow + MapThenSumSet(LAMBDA t : named[t], Targets)

\* A run that ends by itself leaves no broker link behind, and a registration
\* only if it never had a cell (run.rs:909-910). A result document that was asked
\* for is there unless the run ended before any cell existed, and one that says
\* the command did not run is right (MACHINE-INTERFACE.md:37-39).
EndsClean ==
  /\ pc = "over" => /\ ~veth
                    /\ listed => agent = "none" /\ answer = "none"
                    /\ opt.json /\ report = "none" => agent = "none" /\ answer = "none"
  /\ report = "failed" => agent = "none"

\* What a run leaves behind: every decision told once, and nothing of its own.
RunConcluded == ToldOnce /\ EndsClean

\* Once the agent is dead or cannot start any more, ql ends, whatever its
\* broker threads do.
Concludes == <>[](pc = "cell" /\ agent = "alive") \/ <>(pc \in Ended)

=============================================================================
