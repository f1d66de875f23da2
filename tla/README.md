# Specifications of quantmlayer

quantmlayer runs an AI agent in a *cell*: a process tree behind kernel walls
(namespaces, mounts, seccomp, cgroup, network), with an egress broker for the network
it may reach, a supervisor or a BPF program for what it may execute, delegation
tokens for the authority it holds, a hash-chained audit log of what it did, and a
kill switch. Around the cell stand the tools that make its policy (tracing, replay,
lockfile compiling, signing) and a gateway that inspects what an MCP client asks of a
server. This directory holds TLA+ specifications of the parts where several actors
interact or a long sequence of commands matters, TLC configurations that check them
on small instances, and proofs, checked by TLAPS, of what holds for every instance.

Source paths below are relative to `src/crates/`.

## 1. The system

### Components and their state

| component | source | state | operations | hard because |
|---|---|---|---|---|
| egress broker | `ql-broker/src/proxy.rs`, `policy.rs` | per connection: request, captured time, decision, answer, resolved addresses | read, authorize, resolve, vet, report, connect, tunnel | a thread per connection; the clock is read once and used later; a lookup and a report lie between decision and connection |
| anti-replay store | `ql-broker/src/nonce.rs` | highest nonce for each leaf token | prune, test and record, behind a mutex | threads enter with clock values in another order than they read them; pruning forgets |
| audit log and its writers | `ql-audit/src/lib.rs`; `ql-broker/src/policy.rs`, `ql-cli/src/{run,policy,audit,kill}.rs` | one file, and a copy of it in each writer's memory | append, verify, read all, extend, truncate, write all; rotate | the mutex orders the threads of one process only; a write may be cut short |
| evidence bundles | `ql-cli/src/audit.rs` | two files of a directory | choose a window, write records, write manifest; verify | the log goes on; exports overwrite one another |
| cell launch | `ql-enforce/src/cell.rs` | two processes, four pipe ends, the seccomp listener, walls raised | two handshakes, the walls, the exec | either process may fail or die at any step; an abort is an end of file |
| exec wall, Tier 2 | `ql-enforce/src/exec_supervisor.rs`, `cell.rs` | notifications, the supervisor's place, exec records | receive, hash, answer, read the committed argv, kill | tasks fork, exec and die meanwhile; pids are recycled |
| exec wall, Tier 1 | `ql-lsm`, `ql-enforce/src/lib.rs`, `scripts/lsm-enforce/enforce.bpf.c` | BPF maps and rings | screen, match argv, report, drain | maps and rings are bounded and keyed by pid; the programs see the whole host |
| connection owners | `ql-lsm`, `ql-cli/src/run.rs` | a map from (namespace, port) to pid | note, look up | the note comes after the connection; ports are reused and entries stay |
| walls | `ql-enforce/src/enforcers/*`, `cgroups.rs`, `veth.rs` | cgroup membership, link, mounts, filter | apply, degrade or refuse | some degrade in silence; the host changes the file system meanwhile |
| tokens and capabilities | `ql-token/src/*`, `ql-cli/src/token*.rs` | signed tokens, credentials handed out | issue, delegate, verify a chain and an action | a holder may sign what the tools would not; any link may expire |
| kill switch and registry | `ql-cli/src/kill.rs`, `registry.rs`, `run.rs` | handle files by cell id | register, deregister, `ql ps` prunes, `ql kill` walks `/proc` and signals | the process tree changes under the walk; pids are recycled |
| run life cycle | `ql-cli/src/run.rs`, `exec_tier.rs`, `token_bind.rs`, `token_issue.rs`, `prune.rs`, `verdicts.rs`, `summary.rs`, `result.rs` | the profile in force, what was recorded of it, decisions and who was told | gates, narrowing, tier, broker threads, cell, drain, teardown | the profile changes after it was recorded; broker threads outlive the cell; ql may die |
| MCP gateway and configuration | `ql-cli/src/mcp_gateway.rs`, `mcp.rs` | tool schemas, held-back lines, audit file; a client configuration and its backups | handshake, inspect, relay; wrap, unwrap | two threads between two peers; a file rewritten in place |
| learning | `ql-learn/src/*`, `ql-cli/src/learn.rs` | the observation | pair stops, decode calls, hash, synthesize | stops of many tasks interleave; entry and exit look alike |
| observation, process tree | `ql-learn/src/observe.rs`, `ql-cli/src/{observe,audit,proctree}.rs` | audit records | evaluate, write, attribute | one pid runs many programs; many programs are only tried |
| replay | `ql-cli/src/replay.rs`, `verdicts.rs` | the recorded stream | record, replay under another policy | lines get lost; an axis may have had no wall |
| policy compiler, signing, gates | `ql-compile`, `ql-cli/src/{compile,profile,agent,run}.rs` | lockfiles, profile files, signatures | walk, ask git, apply, sign, approve, check | separate commands over files that others edit |
| risk scoring, reports, setup, benchmarks | `ql-risk`, `ql-bench`, parts of `ql-cli` | none | print | sequential; see section 6 |

### How they interact

A profile is exported, learned, or compiled from lockfiles, then signed. `ql run`
checks signature, approval and lockfile pins, prunes, adds the workspace and binds a
token chain; writes its handle, the policy record and a subtask token; chooses an
exec tier, narrows to a phase, starts the broker's accept loop and launches the cell.
`Cell::run` forks; parent and child exchange bytes over pipes while the walls go up
around the child. While the agent runs, the supervisor (or the BPF programs) serve
its execs and the broker's threads its connections; decisions go to the audit sink,
the verdict stream and the summary. Exec decisions stay in memory and are drained
when the cell has ended. From other shells `ql ps` and `ql kill` work on the handles,
and `ql kill`, `ql audit append`, `rotate` and `export` on the same audit file. The
broker verifies the tokens that the delegation tools make. An agent's MCP client
launches each server through the gateway, if `ql mcp wrap` said so.

### What has to hold

* **Broker.** Requests are decided, reported and answered once, and consistently;
  tunnels lead to vetted addresses; nothing is resolved for a refused request; no
  signed action is used twice.
* **Audit.** Nobody's record is lost or reordered; what verifies is one history, in
  the log and in a bundle; rotation keeps what it removes.
* **Launch and walls.** The agent runs behind all walls or not at all; neither side
  waits for ever; what is denied stays hidden; the walls spare everybody else.
* **Exec walls.** Only approved programs run; each exec has one record; a forbidden
  argument vector is killed and nothing else is.
* **Run.** An agent gets no more than was approved, recorded and delegated; every
  decision is told once; nothing is left behind.
* **Tokens.** Authority only narrows down a chain; what the tools hand out works.
* **Kill switch.** A running cell can be found; revoking it takes its processes down
  and no others.
* **MCP.** A call is judged by what its author was shown; every line is settled once;
  no command loses a configuration.
* **Policies.** What a run did is allowed again and no more; attribution names the
  right program; replay never claims what it cannot know; a run starts only as its
  signer saw it.

The hazards that endanger these are listed in `PROJECT.json`, each at its line with
the properties that would catch it.

## 2. The modules

| module | models | run by | proofs |
|---|---|---|---|
| `EgressGate` | abstract: what the broker promises | | |
| `BrokerEgress` | broker threads, policy, anti-replay store | `MCBrokerEgress` | `BrokerEgress_proofs` |
| `AuditChain`, `AuditFile` | the hash chain; one audit file and all its writers | through `AuditExport` | |
| `AuditExport` | evidence bundles of that file | `MCAuditFile` | `AuditFile_proofs` |
| `CellRun` | abstract: what `Cell::run` promises its caller | | |
| `CellLaunch` | `Cell::run` and its child | `MCCellLaunch` | `CellLaunch_proofs` |
| `ExecWall` | the Tier 2 supervisor and the tasks it serves | `MCExecWall` | `ExecWall_proofs` |
| `TokenChain` | issuing, delegating and verifying tokens | `MCTokenChain` | `TokenChain_proofs` |
| `KillSwitch` | handles, `ql ps`, `ql kill`, a process table | `MCKillSwitch` | `KillSwitch_proofs` |
| `Profiles`, `RunLife` | the narrowings of a profile; `ql run` from its options to its end, over `CellRun` | `MCRunLife` | `RunLife_proofs` |
| `McpConfig`, `McpGateway`, `McpLife` | wrap and unwrap; a session; both, one launching the other | `MCMcpLife` | `McpLife_proofs` |
| `Tracing`, `Learned`, `ProcTree` | the tracer; the profile made of a trace; the process tree of its records | through `LearnLife` | `ExecWall_proofs` |
| `Replay` | recording a run and replaying it | through `LearnLife` | `ExecWall_proofs` |
| `Approval` | compiling, signing, and the gates of a run | through `LearnLife` | `ExecWall_proofs` |
| `LearnLife` | the three ways to a policy | `MCLearnLife` | `ExecWall_proofs` |
| `ArgvRules`, `ExecLsm` | argv rules in the kernel; the Tier 1 wall | through `CellWalls` | `CellLaunch_proofs` |
| `ConnOwners`, `MountWall` | who opened a connection; the mount wall | through `CellWalls` | `CellLaunch_proofs` |
| `CellWalls` | all walls around one cell, in their order | `MCCellWalls` | `CellLaunch_proofs` |

`ExecWall_proofs` and `CellLaunch_proofs` are long because each is about two systems:
the launch and the walls around the cell, the exec wall and the ways to its policy.

Definitions whose comment begins with `Mutant:` are not part of the models. Each is
the plausible bug that shows one property to be sensitive to the code: with it in
place of the definition it precedes, TLC finds the property violated.

### BrokerEgress

`handle_connection` (`proxy.rs:64-166`) is one thread per element of `Conns`, at a
step `pc[c]`: read the request and capture the clock (`ReadConnect`, `ReadOther`),
the canary, allow-list and token tests of `evaluate` (`TripCanary`, `CheckAllowList`,
`CheckToken`), the anti-replay store under its mutex (`CheckNonce`: prune, test and
record are one critical section), the lookup (`Resolve`, `ResolveFails`), the
addresses (`EvaluateAnswer`), the two reports of `report_final` (`ReportAudit`,
`ReportHook`), the connection and the relay. `Tick` is the wall clock. A chain is
known by its leaf: `Trusted` says whether it verifies and `ChainNotAfter` when it
stops; `TokenChain` checks how verification gets there. `EgressGate` states the
promise without any of this: one final verdict per connection, and bytes only after
an allow. `ImplementsGate` is the refinement, with the verdict read off what the hook
saw.

### AuditFile and AuditExport

A writer reads the file, extends the chain in memory, opens (and truncates) the file
and writes it: four steps, between which any other writer may run. Sinks hold the
mutex throughout; tools, the kill switch and rotation do not. They differ in what
they do with a log that does not parse: the sink and the kill switch start over
(`policy.rs:113`, `kill.rs:160`), the tools give up. A write may fail half way or
land over another writer's. Hashes are taken to be collision-free: a hash is the
tuple of what it hashes. Each writer appends one event. An export selects any
contiguous window of a log that verifies, and writes records and manifest in two
truncating writes; `Accepts` is the shipped `verify.py`. `Casts` says who takes part
together.

### CellLaunch and CellRun

Parent and child as two program counters; a descriptor is open while some process
holds it, which is how an abort or a death becomes an end of file at the other side.
`NumWalls` enforcers each apply, are skipped as unsupported before the user namespace
(`cell.rs:311-315`), or fail. `Hook`, `Sudo` and `Supervised` select the handshakes.
`CellRun` is all that a caller may rely on: the agent starts at most once, and
`run()` answers once, when none is alive or will start. `ImplementsCell` is that
refinement, and `RunLife` uses `CellRun` alone.

### ExecWall

Tasks have a pid and a generation, so that two users of a pid can be told apart.
`Execve` queues a notification; the supervisor takes it through `Receive`, `Hash`,
`Check` (is it still valid), `Respond`, `CaptureSees` or `CaptureGivesUp` (the
committed argv is read until it differs from the old one or time is up), `Report` and
`Kill`. Tasks commit, fork and die in between. `Change` is the time of check and time
of use that the code admits (`exec_supervisor.rs:21-24`, `:466-472`): after the look,
another thread of the task writes a path or a vector, or the file's owner rewrites
the file, and the kernel reads all three anew (`Commit`). `swapped` remembers whose
file changed. A change before the look is no more than another request, and one
during the capture of the committed vector is not modelled: the process would have to
rewrite its own argument area.

### TokenChain

Tokens are numbered in the order they were signed, and the number stands for the
hash. `IssueRoot` and `Delegate` are the tools; `Write` is a key holder who signs any
body by hand. `ql token delegate --from` reads a credential whoever made it, so
`Delegate` takes any chain that verifies under the root named with it. A verifier
presents any chain of existing tokens and walks it link by link, as `verify_chain`
and `verify_action` do. Paths are sequences of names and grants may be deep (`/**`);
`PathWithin` is the containment of `capability.rs:77-105`.

### KillSwitch

The kernel is a table of pids: processes fork, end (their children go to init) and
leave their pid to be given out again. `ql run` registers, is refused (with or
without removing its handle, `run.rs:474`), launches, finishes, leaves, or dies.
Several runs may have one cell id (`QL_CELL_ID`, `run.rs:268-271`), and each writes
and removes the handle under it. `ql ps` reads a handle (`PsRead`), tests its pid
(`PsTest`) and removes whatever is under that id by then (`PsPrune`). `ql kill` reads
the handle, tests the pid, reads `/proc` one pid per step in ascending order, picks
everything below the root by the links it read, sends SIGTERM, and sends SIGKILL pid
by pid. Simplifications: no zombies, one `ql ps` per id and one `ql kill` at a time;
the revocation record is left to `AuditFile`.

### Profiles and RunLife

A profile is two axes, `net` (compared exactly, as the exec list is) and `rw` (path
grants that contain one another), with `open` the negation of default-deny. `pc` is
the main thread: each gate and mutation of `cmd` (`run.rs:119-534`) is an action in
its order, `Refuses` its early returns. `cap`, `recorded`, `issued` and `granted`
keep what was bound, written down and authored, against which `prof` is compared once
an agent starts. An event is one egress request or one exec decision; `told` counts,
per reader, how often it was told. Broker threads decide, count, name and stream in
separate steps, also after the cell has ended; exec decisions wait in `memory` for
`Drain` and `AppendExecs`. `Crash` is ql dying at any point. What the gates compute
is `Approval`'s and `TokenChain`'s; here they pass or refuse.

### McpConfig, McpGateway and McpLife

A launch command is a sequence of layers, each ending in its own `--`; a rewrite
saves what it read to a backup named by the second, then writes in place, and either
may fail half way. A session has the main thread (handshake, then one line of the
client at a time: `Take`, then `Deny` or `Forward`) and the relay thread (`Flush`,
`RelayTake`, `RelayWrite`), a client that writes and a server that talks, changes its
tools and exits at any point. A line that is not UTF-8 fails the handshake
(`HearGarbled`) or ends the relay (`RelayBreaks`). Lines are numbers into `said` and
`sent`. A schema is its required and declared properties; JSON text is abstracted to
tool, argument types and the kind of a line. `Launch` starts the session that the
file asks for.

### Tracing, Learned and ProcTree

Tasks of several processes and threads stop at each entry and exit of a call; the
tracer tells the two apart by counting (`atEntry`), which an exec from a thread other
than the leader upsets. `Stop` decodes an entry or, on a failed exec's exit, marks
the process's latest record. An exec has the path that the kernel runs and what the
tracer reads of it, which may be nothing: it is then not recorded, and its failure
marks what was recorded before. `ran`, `places` and `used` keep what really happened.
`Synthesize` is the profile made of it, `ExecFindings` and `FileFindings` what
`--observe` reports under a profile, `StrictPasses` the verdict of `--strict`. The
kernel is external: its rules on threads and scripts are in `Execs`. An event carries
the number it was observed under, which is what the tree orders by. `Written` is the
audit file of an observation, execs before connects, and the tree works on those
records: `Owner` is the exec a connect is credited to, `Under` the record another is
drawn below.

### Replay and Approval

`Replay` records a run under one policy, with any line lost and exec lines kept until
the end, and lets any other policy be proposed; `let` keeps what the workload was
allowed, with the addresses the stream does not show. `Approval` gives `ql compile`,
`ql profile sign` and `ql run` their own steps over shared files: walk and hash each
lockfile, ask git about each, read and write the profile; read, sign and write it;
check it and then each pin. Anybody may edit a lockfile or a profile between two
steps. `presented` keeps what a signer had before it.

### ArgvRules, ExecLsm, ConnOwners, MountWall and CellWalls

`Scan` is the kernel's byte loop as a fold over the captured vector, with the token
and copy limits as constants. `ExecLsm` has the BPF programs `enforce_exec`
(`EnforceExec`, once per script and once for its interpreter) and `capture_argv`
(`Commit`), with the `inflight` map that evicts and the rings that drop; processes of
the cell and of the host come, exec, fail, fork and go, and pids are given out again.
`ConnOwners` notes an owner when `connect()` returns and looks it up by port; entries
are never taken out. The kernel keeps pairs of addresses apart and no ports: live
connections of a namespace share a port when at most one of them leads to the broker,
and then one entry. `MountWall` expands a pattern, then covers one target per step,
while the host makes, removes and mounts, and makes directories that can be searched
and not listed (*sealed*). `CellWalls` puts them in the order of a launch (backend
and cgroup, hook with link and exec wall or tracker, mounts, filter, agent) and takes
them down again (drain, detach, teardown).

## 3. What TLC checks

| run | instance | properties that hold |
|---|---|---|
| `BrokerGated` | 3 token-gated threads, 2 leaves (one expires, one is under an ancestor that does), 2 nonces, clock 0..2 | `NoReplayWhileLive`, `NoSpuriousReplay`, `AuthorizedFirst` |
| `BrokerStatic` | 2 threads, every host and request form, canary, private addresses | `ImplementsGate`, `Answered` |
| `AuditMixed` | casts of 2 sinks, a tool, the kill switch and rotation; of 2 sinks, the kill switch and 2 exports; of a tool, rotation and 2 exports; a failing disk | `SinkLossless`, `MixtureDetected`, `ArchiveBeforeContinue`, `BundleStands` |
| `LaunchFull` | 2 walls, all handshakes, deaths anywhere | `FailClosed`, `SetupOnFrozenChild`, `NoHang`, `ImplementsCell` |
| `ExecScreen` | 2 pids used up to twice, 2 execs, an approved and a rogue binary, an argv rule | `OnlyApproved`, `OneRecordPerExec`, `KillsOffender`, `AllServed` |
| `TokenChains` | 3 keys, 3 tokens, chains of up to 3, clock 0..2 | `ChainDecides`, `BundleUsable` |
| `KillRevokes` | 3 pids, 2 runs with one id, an outside process | `ListedWhileRunning`, `TreeSwept`, `NoStraySignal` |
| `RunLife` | a full and a plain command line, 3 profiles, a chain, 2 phases, a broker thread, an exec decision, 2 targets and room to name one | `AgentBounded`, `SummaryAddsUp`, `RunConcluded`, `Concludes` |
| `McpLife` | 5 configurations, 3 commands; 2 client lines, 2 server lines, a handshake that gives up after 2 lines | `SeenIsEnforced`, `Relayed`, `ConfigKept`, `Serves` |
| `LearnLife` | 3 tasks and 4 calls; 3 operations under any of 21 policies, replayed under any; 2 lockfiles, 2 profiles, 1 edit, 3 commands | `SameRunAgain`, `TreeTold`, `ReplayHonest`, `StartsAsApproved`, `RegistriesPinned` |
| `CellWalls` | 2 pids, 3 execs, 3 processes, 2 connections and ports, 4 paths, one wall at a time on 3 kinds of host | `SparesTheRest`, `KillsTheDenied`, `NamesOpener`, `HiddenStays`, `ExecsAccounted` |

`LearnRerunDoc` shows `WholeChainPinned` violated (section 5).

A property that conjoins several says one thing of one party: `AuthorizedFirst` is
`LookupAuthorized` and `TunnelVetted`; `Relayed` is `Settled` and `ServerHeard`;
`ConfigKept` is `UnwrapRestores` and `TornIsSaved`; `ExecsAccounted` is
`ApprovedOnly` and `EveryExecTold`; `SameRunAgain` is `PinnedAgain`, `TouchedStays`
and `StrictAgain`; `TreeTold` is `EgressOwner` and `LineageTold`; `AgentBounded` is
`CellWithinGrants`, `RecordCoversCell` and `DemandMet`; `RunConcluded` is `ToldOnce`
and `EndsClean`; `ChainDecides` is `AdmittedIsDelegated` and `LoopDecides`. The type
invariants of the modules with proofs are theorems and are not checked again.

**Where a property stops.** Several hold only under a premise, and the premise is a
finding about the code (section 5): `NoReplayWhileLive` speaks of leaves that have
not expired; `OnlyApproved`, and the digests of `OneRecordPerExec` and
`KillsOffender`, of execs whose file was not swapped behind the look, and
`KillsOffender` of a pid that was not given out again; `BundleUsable` of chains
without a hand-signed token that outlives the one above it; `ListedWhileRunning` of a
run that had its id to itself since it registered; `TreeSwept` and `NoStraySignal` of
a tree that did not split, and of pids not given up, under the scan; `SinkLossless`
of one broker alone with the file; `PinnedAgain`, `TouchedStays` and `EgressOwner` of
a *plain* trace, which executes no script, no relative path and nothing from a
threaded process, and in which the tracer reads the path of every exec as the kernel
does, but for those that fail in a process without an exec of its own so far;
`LineageTold` of a parent that asked for no exec since the fork; `ReplayHonest` of a
stream that lost no line; `ServerHeard` of the lines up to the first that is not
text; `RegistriesPinned` of a profile that was neither edited by hand nor compiled
from a compiled one; the delegation part of `CellWithinGrants` of default-deny
profiles; `KillsTheDenied` of execs by the leader thread, with room in the ring and
an entry that was not evicted; `NamesOpener`, where it says more than that nobody is
named who never used the port, of cells with a network namespace of their own, asked
in time, and of an entry that nobody in the cell has overwritten by connecting
elsewhere from the same port; `HiddenStays` of what no wildcard has to find in a
directory that cannot be listed; `ExecsAccounted` of a ring that was not full.

**Why the bounds are enough.** A replay needs two threads with one nonce, and a third
to prune in between with a stale clock value; the clock needs a value before, at and
after an expiry. A lost update needs two writers; rotation, its continuation and one
more writer are three; a spoiled bundle needs two exports and a writer who made
histories differ. Two walls have a first and a last. A recycled pid needs one pid
used twice, and a second task to fork from. A chain of three has a root, a middle and
a leaf, and the middle is where a child may outlive its parent. A tree of root, child
and grandchild needs three pids. A handle is removed under the wrong run by two runs
with one id, or by a command at work on an older handle of it. One broker thread and
one exec decision race for the summary, and two targets with room for one reach its
cap; the theorems of section 4 cover any number. A client's call against a list it
has seen, and one it has not, need two lines each way; a handshake that gives up
needs more lines than `MaxLines`. Crediting a connect wrongly needs a parent, a child
and an exec of the parent after the fork; marking the wrong exec needs two processes
inside an exec at once, or an exec that is not recorded; a threaded exec needs a
thread. A compile can disagree with git, a signature or a run through one edit
between two of their steps. A pid-keyed entry left behind needs an exec that failed
and the same pid used by somebody else, with `MaxInflight` 1 so that the map evicts;
the argv copy of 6 and keys of 2 put tokens and vectors at both sides of each limit.
Overwriting an owner needs two connections and one port; a second port is where the
answer must not come from. A path is made once more than it stood, which is enough to
tell what is new at it. Only the clocks and the numbers of tokens, links, execs,
calls, operations, lines, edits, commands, makings and uses of a pid are cut by a
guard (`MaxTime`, `MaxTokens`, `MaxChain`, `MaxExecs`, `MaxGen`, `MaxCalls`,
`MaxOps`, `MaxSends`, `MaxSays`, `MaxEdits`, `MaxCommands`, `MaxSeconds`,
`LaunchWithin`, `MaxMade`, `MaxBorn`) and the number of processes outside all cells
(`MaxOutside`). `MaxLines`, `MaxNamed`, `EventRoom`, `ArgvRoom`, `MaxInflight`,
`MaxOwners`, `TokenMax` and `ArgvMax` are limits of the code itself, made small so
that they are reached. `LaunchWithin` 0 means that a session starts from a
configuration as a user has it; what wrap makes of one is another such configuration.
In `CellWalls` further processes appear only while some BPF program is attached, and
connections only for a brokered cell: nothing else looks at them. `LearnLife` runs
its three workflows side by side without mixing them, with symmetry of the profile
files, which no definition orders; `BrokerGated` uses symmetry of the threads and
`KillRevokes` of the runs. None of the three has a liveness property.

**Deadlock** is not checked: every one of these systems stops when its connections,
appends, processes or bounds are used up. That nobody is stuck before is stated by
the liveness properties instead.

**Fairness.** `BrokerEgress`: weak fairness of each thread's `Handle(c)`. Once a
CONNECT is read the thread waits only for the resolver, the mutex, the disk and the
upstream connection, which has a timeout (`proxy.rs:156`), and each may fail in the
model. Reading the request is not assumed: `Answered` starts once it was read.
`CellLaunch`: weak fairness of the steps of each process, not of the environment:
nobody has to die, and the agent need not end, for `NoHang`. `ExecWall`: weak
fairness of the supervisor, whose poll and capture loops have timeouts, and of the
kernel's commit of an answered exec. `RunLife`: weak fairness of ql's main thread and
of its broker threads; nothing makes the agent end, so `Concludes` allows it to live
for ever. `McpGateway`: weak fairness of both threads, except in a write to a peer
that is there: one that does not read fills the pipe and holds the thread for ever
(`mcp_gateway.rs:497`, `:523`, `:531`). `Serves` says what it asks of the peers:
`ServerReads` and `ClientReads` for settling the client's lines, once the handshake
is over; `ClientReads` alone for ending, once the client has ended its input and the
server is gone. All other modules state safety only.

## 4. What is proved

All theorems hold for every value of the constants, under the named `ASSUME` of each
module (which TLC evaluates for the instances above). No step is left unproved. The
assumptions say what shape the constants have. Those that say more: `RunAssumption`
takes the hosts and programs of a run to be finitely many; `PathAssumption` the paths
of a host too, each with the directories above it; `ArgvAssumption` that an argument
holds no zero byte; `TracingAssumption` that what runs for the agent's command is
found at an absolute path; `LsmAssumption` that an interpreter is no script; and
`WallsAssumption`, through `Patterns`, that no profile denies the root itself (`/**`
alone).

| theorem | statement | rests on |
|---|---|---|
| `BrokerEgress_proofs!TypeCorrect`, `VerdictOnce` | `TypeOK`, `OneVerdict` | `ThreadsInv`: what a thread's step implies for its decision, answer and two reports |
| `BrokerEgress_proofs!ReplayRefused`, `RefusalJustified` | `NoReplayWhileLive`, `NoSpuriousReplay` | `StoreInv` |
| `BrokerEgress_proofs!LooksUpAuthorized` | `AuthorizedFirst` | `ClearsInv`: what a thread past the gate has been checked against |
| `AuditFile_proofs!SinksLoseNothing` | `SinkLossless` | `SinkInv` |
| `AuditFile_proofs!DetectsMixture`, `ArchivesFirst` | `MixtureDetected`, `ArchiveBeforeContinue` | `FileInv` |
| `AuditFile_proofs!BundlesStand` | `BundleStands` | `FileInv`, `ExportInv` |
| `BrokerEgress_proofs!Refinement` | `ImplementsGate` | `ThreadsInv`, step by step |
| `CellLaunch_proofs!FailsClosed`, `SetupIsSynchronized`, `ErrorsAreRefusals`, `LaunchTypes` | `FailClosed`, `SetupOnFrozenChild`, `ErrorMeansNeverRan`, `TypeOK` | `LaunchInv`, `PipeInv`, `ReturnInv` |
| `CellLaunch_proofs!LaunchImplementsCell` | `ImplementsCell` | the same, and what each step does to the cell |
| `ExecWall_proofs!OnlyApprovedRuns`, `WallTypes` | `OnlyApproved`, `TypeOK` | `WallInv` |
| `ExecWall_proofs!RecordsEveryExec`, `KillsAreDeserved` | `OneRecordPerExec`, `KillsOffender` | `Numbering`, `Accounted`, `OnTarget` |
| `TokenChain_proofs!Delegated`, `ChainIsExact`, `CredentialsHold`, `TokenTypes` | `AdmittedIsDelegated`, `ChainDecides`, `BundleUsable`, `TypeOK` | `ChainInv` |
| `KillSwitch_proofs!KillSwitchTypes`, `StaysListed`, `SweepsTheTree`, `NoStrays` | `TypeOK`, `ListedWhileRunning`, `TreeSwept`, `NoStraySignal` | `KillTypes`, `Followed`, `Sweeping`, `Aimed` |
| `RunLife_proofs!RunWithinGrants`, `RunRecordCovers`, `RunDemandMet`, `RunBounded` | `CellWithinGrants`, `RecordCoversCell`, `DemandMet`, `AgentBounded` | `PolicyInv` |
| `RunLife_proofs!RunAddsUp` | `SummaryAddsUp` | `SumInv` |
| `RunLife_proofs!RunToldOnce`, `RunEndsClean`, `RunLeaves`, `RunTypes` | `ToldOnce`, `EndsClean`, `RunConcluded`, `TypeOK` | `MainInv` and the invariant on who was told |
| `McpLife_proofs!EnforcesSeen` | `SeenIsEnforced` | `LearnInv` |
| `McpLife_proofs!RelaysAll` | `Relayed` | `SessionInv` |
| `McpLife_proofs!KeepsConfig`, `McpTypes` | `ConfigKept`, `TypeOK` | `ConfigInv`; for the types `LearnInv` too |
| `ExecWall_proofs!TraceInductive`, `SameRunPasses` | `SameRunAgain` | `TraceInv` |
| `ExecWall_proofs!TreeIsTold` | `TreeTold` | `TraceInv`, its part `TreeInv` |
| `ExecWall_proofs!ReplaysAreHonest` | `ReplayHonest` | `StreamInv` |
| `ExecWall_proofs!ApprovalInductive`, `RunsStartApproved`, `DomainsHaveRoots` | `StartsAsApproved`, `RegistriesPinned` | `ApprovalInv` |
| `CellLaunch_proofs!WallsInductive`, `OthersSpared`, `OpenersNamed` | `SparesTheRest`, `NamesOpener` | `WallsInv` |
| `CellLaunch_proofs!CellExecsAccounted` | `ExecsAccounted` | `WallsInv` |
| `CellLaunch_proofs!ScanKills`, `KernelIsExact`, `DeniedKilled` | `KillsTheDenied` | `WallsInv`; the byte loop as runs of states |
| `CellLaunch_proofs!StoodHidden` | `HiddenStays` | `MountInv` |

The arguments:

* **No replay.** A thread may prune with a clock value that is long out of date, and
  may record a nonce after others that read the clock later. `StoreInv` says that no
  captured value is ahead of the clock (so what a stale value prunes had expired),
  that the store covers every admission whose leaf is live, and that every entry has
  an admission behind it. The first part makes the other two inductive.
* **Fail closed.** `LaunchInv` says what each process has done by the time it reaches
  a step, and what a byte in a pipe says about its sender. `PipeInv` follows who
  holds which end, so that an end of file is known to mean a process that aborted or
  died; `ReturnInv` ties the parent's result to the child's end. These are also what
  maps each step of a launch to a step of `CellRun`.
* **Only approved binaries.** `Screened` ties the answer in preparation to the
  notification it was computed for, and each answer given to an approved image, or to
  one in `swapped`: a pid that was recycled between look and answer has a new
  notification id, which `Check` and the kernel reject.
* **One record, deserved kills.** `Numbering` orders the notification ids among the
  queue, the one in service and the records, so that no record's id comes back;
  `Accounted` says that what ran is recorded or is the one in service; `OnTarget`
  that what the capture judged is the image now running under the pid, unless the pid
  was given up since.
* **No mixture.** A line is `Sound` if some writer put it last in a text, after the
  record whose hash it carries, and, if it continues from an archive, that archive is
  written and sealed. Texts are made of sound lines, and what any number of failed or
  concurrent writes leave of them are sound lines and torn ones, so `FileInv` is
  inductive without following who overwrote whom; the hash then gives the line
  before. For a bundle, `ExportInv` adds that a window is linked and that nothing but
  the exporter whose turn it is has written since it opened the records.
* **Lossless sinks.** `Holding` is the mutex; under it `Chained` says at which step
  of the one thread inside the complete log is on disk, in memory only, or both.
* **Delegation.** `Walked` is the verifier's loop as an induction: after n links
  every action the n-th capability permits is permitted by all before it, because
  containment of capabilities implies containment of permissions (`SubsetPermits`).
  `Sound` says the same of the credentials the tools made, whose expiry is bounded by
  their ancestors' where no hand-signed token is in the way.
* **Staying listed.** `Followed` says that a run that is up has its own process under
  its pid, that a handle was written by a run with that id which still has the pid or
  is over, and, of a run in force that is in `alone`, that no other with its id is in
  force, that the handle is its own, and that what `ql ps` and `ql kill` have read
  under the id is that handle, and `ql ps` found its process there.
* **Sweeping the tree.** `Sweeping` keeps, during the scan, that the processes that
  stood when it began hang together below the root by their real parents, and that
  the links read so far are their real links. So what is reached by the links that
  were read includes every member that is left, and the signals use them up.
* **Aim.** `Aimed` keeps that a link joins two processes of one cell as long as
  neither pid was given up. By leastness of what is reached, all targets belong to
  the run when no pid was given up.
* **Bounded agent.** Each mutation of a profile is `Narrower` than what it was
  applied to, or adds the workspace to the profile and the grant alike; `PolicyInv`
  says for each step of `pc` which of `granted`, `cap`, `recorded` and `issued`
  already bound the profile in force. Binding is the hard case: the meet of path
  grants is within both, by transitivity of containment (`PathIn` is assumed a
  preorder), and the later phase keeps it so.
* **Told once.** An event's counters follow from the place of its thread, or from
  `memory` and the place of the main thread: a decision in memory has been told to
  nobody or, once drained, to summary and stream, and the append that tells the audit
  log empties the memory in the same step.
* **Enforcing what was seen.** `LearnInv` keeps that the line held for a tool is the
  newest offer of it among those read, that an offer read means that schemas are
  loaded, and that nothing shown to the client is ahead of what was read. A decision
  then stands when it is made; it stays, because every sequence it looks at only
  grows.
* **Relaying.** For the client, the lines taken are those in hand and the disjoint
  union of the forwarded and the answered (`ClientInv`), so the next one is above
  them all; `DecisionInv` ties each to its logged verdict. For the server, the lines
  read are the reply, those shown, those held back and the one being written
  (`RelayInv`); `PhaseInv` says why no later line can be taken for the reply: there
  was one, or the `MaxLines` ran out, or the server is gone with all it said read. A
  line that is not text is the last one read.
* **Configuration.** A torn file has what the last command read in the backup it
  wrote first; and what a wrap made of each entry, if it is still there, is one layer
  before the entry it read, which is what unwrap takes off.
* **Denials add up.** `SumInv`: the denials counted are those of the named targets,
  the overflow, and one for each thread between its count and its name. The sum is a
  fold in an order `CHOOSE` fixes; that one more of a target is one more of the sum
  goes by induction on the number of targets.
* **The same run again.** `ParityInv`: in a plain run the tracer's entry and exit are
  the kernel's. `SeenInv`: what the agent got at was recorded on the way in.
  `RanInv`: the exec records that stand are of what ran, except those *on trial*,
  whose call has not returned. In a plain run a process inside an exec has one task,
  so a failure marks its own record and no other; the failure of an exec whose path
  was not read finds no record (`UnreadInv`).
* **The tree.** `TreeInv`: a record says when and from whom its process was forked; a
  process runs the binary of its latest exec off trial or, having none, what it was
  born as; what it was born as is what the records say its parent ran at the fork.
  Forks and connects happen outside an exec, so no record up to them is on trial, and
  no later step takes back a record that is off trial (`SaidStays`). Hence what the
  tree reads at the end is what was so then. That it reads it goes by induction over
  the file, execs before connects (`Holds`, `Upto`, `LatestIs`).
* **Replay.** `StreamInv`: a line says allowed only of what was let, and whatever was
  let has its line unless one was lost; exec lines wait in memory until the end.
* **Starting as approved.** `VouchedInv`: whoever signed a profile had its domains
  and pins before him together, through the files, the signer, the compiler and the
  runner, each of which may hold a profile that has changed on disk since.
  `CheckedInv`: a pin already compared holds, but for a lockfile edited after.
  `RootedInv`: a profile that nobody edited by hand has no domain but the bundled
  ones and those of its pins.
* **Sparing the rest.** `EarlyInv` says who is in the cell before the agent runs, and
  in which cgroup; `ScreenInv` that the wall is attached where the cell is, from
  before the agent until the records are read. `StashInv` ties a digest kept under a
  pid to an execve under way in the cell, or to one that was allowed and did not
  happen; `OwnerInv` has a noted connection behind every entry, and ties the entry
  under the key of a live one to its opener or to one that has since used that key.
* **Accounting in the ring.** `ApprovedInv`: behind the wall what runs or is about to
  is approved; `ToldInv`: each exec that passed or committed has a record, or the
  ring is full.
* **Killing the denied.** `EntryInv`: a digest that was not evicted is that of the
  execve under way, so `ScanDecides`: the kernel kills what its scan says. That the
  scan says what `evaluate_argv` says is a fact about two folds over bytes: a run of
  the copy is the arguments with their terminators, a run of the matcher holds at
  each terminator the argument that ends there. Where rules fit their keys, and
  arguments the limits, the two agree.
* **Staying hidden.** `MountInv`: what stood when a pattern was expanded, below
  directories its wildcards could list, is covered or about to be, by a target at or
  above it. The directories above what stands cannot go, and what goes and comes back
  was not there to be hidden.

Induction over numbers, which these arguments need for folds, sums and files, is had
from the library's `WFMin` (a set of naturals that holds 0 and the successor of each
member is all of them): it takes a set and no operator.

**Only model-checked:** the liveness properties (`Answered`, `NoHang`, `AllServed`,
`Concludes`, `Serves`), which need fairness and `ENABLED` and are out of the prover's
reach. Every safety property of the passing runs has a theorem.

## 5. Where documents and code disagree

One disagreement has a run. `LearnRerunDoc`: `ql-learn/src/lib.rs:49-51` says that a
binary is recorded with its hash so that the synthesizer "pins the WHOLE exec chain";
`lib.rs:57` and `observation.rs:290-301` never pin the interpreter of a script.
`WholeChainPinned` states the former and TLC finds it violated by a run that executes
one script.

The others met while modelling are below. Where a property needs a premise because of
one, the premise is listed in section 3.

**Broker and audit log.** `nonce.rs:18-19` calls a replay impossible, but a thread
that prunes at `:87` with a stale clock, or presents a leaf after its expiry, is
stopped by the expiry test at best. `ql-broker/src/policy.rs:180-181` says that a
capability replaces the allow-list; `:397` still consults the list, after the nonce
was spent. `ql-cli/src/policy.rs:192-194` says that a damaged log is never silently
started over; `ql-broker/src/policy.rs:113` and `kill.rs:160` start it over. Two
processes that append to one log lose each other's records, against
`src/README.md:306`.

**Evidence bundles.** When the manifest of a re-export cannot be written, the old one
stays beside the new records, and `verify.py` compares only its `head_hash`, so its
`record_count` and `first_seq` may be wrong. A window is chosen by its first and last
match, so records out of range are inside it when a clock went back. A truncated
`verify.py` exits with 0. Without a manifest, records cut short at the end of a line
are accepted.

**Launch, exec wall, run.** `cell.rs:98-99` says that all enforcers are applied;
`:311-315` skips unsupported ones. `cell.rs:503-504` expects ESRCH for a stale pid,
where `:505` may meet a recycled one. An exec that leaves the argument vector as it
was is not seen to have happened and escapes the argv rules
(`exec_supervisor.rs:540-546`, `cell.rs:487-488`). What an execve names may be
swapped between the hash and the kernel's own look, as `exec_supervisor.rs:21-24` and
`:466-472` say; the record then shows the digest that was hashed, and the argv rules
of that digest are applied. `default_action: deny` of a seccomp list can not name
execve, so such a cell never starts its agent. `seccomp.rs` returns Unsupported "so
the cell can continue (loudly)", which is fatal after the fork. The policy record and
the subtask token are written for the profile before `--phase` narrows it
(`token_issue.rs:6-8`; `run.rs:287`, `:320` against `:385-414`).
`token_bind.rs:16-20` bounds the cell by the capability, which a profile with
`default_deny: false` ignores. Once its table of names is full `summary.rs:43` counts
occurrences and not targets. `MACHINE-INTERFACE.md:55` takes the exit code 126 for a
refused child; the result reports it as having run.

**Tokens.** `token_delegate.rs:147-150` clamps the expiry of a child to 0, "no
expiry", below a parent without one; when that parent is a hand-signed token below an
ancestor that expires, the tool hands out a leaf that looks good for ever and lapses
with the ancestor ("A child must not outlive its parent", `:148`).

**Kill switch.** `kill.rs:4-6` promises to take down every process the agent spawned;
a process forked after the scan of `/proc` went past its pid survives (`:114`).
`registry.rs:6-7` says that a handle is removed on exit; the return at `run.rs:474`
and the death of ql leave it. Two runs with one `QL_CELL_ID` share a handle: the
later overwrites it and whichever ends first removes it, so that a live run is no
longer found. `kill.rs:68` ("Prune dead handles", `:63`) removes by the id it read
earlier, where a run that has just registered under that id may be the one removed.

**Exec wall in the kernel, and the other walls.** The map of argv rules is matched on
31 bytes, where `policy.rs` promises equality of elements; rules of several tokens
are skipped because "the userspace/Tier-2 path covers the full policy", but a Tier 1
run has no supervisor. An exec by a thread other than the leader misses its
`inflight` entry; a full argv ring or an evicted entry loses the match. A failed exec
leaves a digest under a pid that another program may get. `conn_owners` is never
emptied, against the comment in `enforce.bpf.c`; a lookup before the note, or after
the port was used again, names nobody or somebody else; a process of the cell that
connects over its loopback from the port of a live broker connection overwrites its
entry (`enforce.bpf.c:447-470` has the namespace and the port for a key); and with
`--broker` and `default_deny: false` the cell shares the host's namespace and is
never named rightly. Draining detaches the wall while survivors of the cell may live.
`apply_v2` returns `Ok(true)` "if at least one limit was enforced" also when none
was; a cgroup controller that is missing leaves its limit out in silence; leaf
directories stay. A leaf that was not joined makes the exec wall attach to ql's own
session (which is reported). The 16-bit tag of `veth.rs` may collide, "so concurrent
cells don't" notwithstanding. `mount.rs:65-69` passes over a directory that a
wildcard cannot list, so that `/home/*/.ssh/**` hides nothing under a `/home` of mode
0711 and the agent opens the files by name, against `:140-143` ("A failure to hide
ANY existing denied path is fail-closed"). A denied path that is a symbolic link to a
directory refuses the run, and what the host creates or replaces under a denied name
after the mounts is visible.

**MCP.** `mcp.rs:17` says that unwrap restores the original; it does not after `wrap
--gateway`, nor for a `--ql` path that does not end in `ql`. `mcp.rs:188` says that
an earlier backup is never overwritten; it is within one second. In `mcp_gateway.rs`
withdrawn tools stay allowed; lines that are no JSON object pass uninspected; "cannot
hang the gateway forever" (`:428-429`) is false of a silent server; "guarantees
schemas are loaded" (`:409-412`) is false after an error reply, a close or `MaxLines`
other lines. "Nothing the server said is lost" (`:416`) ends at the first line that
is not UTF-8: in the handshake the gateway fails with what it held back (`:435`),
later the relay stops while the session goes on (`:484`). The audit file is written
at a clean end only, and over what another process appended; `wrap` names no audit
file for the gateway.

**Learning and observation.** A relative execve path is left out of `allow_exec`
while `exec_fully_covered` stays true. When the entry command is a script only its
interpreter is recorded, and the next run denies the script. The loop may end before
the first stop of a child just forked (`at_entry.is_empty()`). An exec by a thread
other than the leader puts entry and exit out of step; `mark_last_exec_failed` pairs
the threads of one process wrongly. Where the path of an exec cannot be read, or is
empty because a descriptor names the file, a success is not pinned and a failure
un-records the program that runs (`observation.rs:310-313`: "Rare enough to accept"),
the entry binary included, which `:298-299` calls "never marked failed". A relative
open of `.ssh/x` is not recognised as a secret (`/.ssh/`), so what the run touched is
denied the next time. `ql observe` reports the misses of a PATH search as denials and
`--strict` fails on them; it writes its audit file over an earlier one. `proctree.rs`
credits what a forked child does to the parent's later program, leaves a grandchild
by two forks unattributed although the comment says nearest ancestor, and orders
execs in enforce mode by milliseconds, which two execs of one pid may share.

**Compiling and replay.** A lockfile that git ignores is recorded as clean, though
`LockfileVcs::Clean` says tracked and committed; one changed between hashing and
asking git is recorded clean with uncommitted bytes. Compiling onto a compiled
profile keeps the registries of the earlier lockfiles and replaces the pins.
`approved_for` is tested only on a signed profile and when the operator names a
model; a lockfile added later is not noticed. `diff.rs` ignores `default_deny`,
capabilities, notify and resources; `export.rs:9` leaves out `wall_clock_secs` and
exec digests. A recording made with `block_private_ranges: false` is replayed as
allowed under a policy that blocks them, and dropped lines of a stream can make a
covered replay pass wrongly.

## 6. What is not modelled

* **Reports and setup**: `ql-risk` and everything that only prints (`doctor`, `ci`,
  OTLP, the HTML tree, `ql audit` listings, the texts of `diff`, `export`,
  `validate`). They read finished files and keep no state.
* **Benchmarks**: `ql-bench` starts other sandboxes and times them.
* **Limits of the host**: descriptors and threads of the broker, whose accept loop
  backs off (`proxy.rs:36-62`); the relay of bytes after the connection; full disks
  other than a write cut short.
* **Cryptography**: a signature verifies exactly when the named key made it, and
  hashes do not collide. Serialization is a bijection, except where a file is cut or
  overwritten.
* **Profile syntax** (`ql-profile`): parsing, validation messages and `diff`. What a
  profile permits is modelled in each module that consults one.
* **The kernel** is modelled as far as the code relies on it (pids, wait, pipes,
  seccomp notification, ptrace stops, LSM hooks, BPF maps) and marked external in
  `PROJECT.json`. Processes are gone once they ended: there are no zombies. A process
  of the cell stays in its cgroup: one that could write to another's `cgroup.procs`
  would leave the Tier 1 wall.
* **In learning**: descriptors, protocols, the outcomes of connect, and the widening
  of paths to directories. **In observation**: domain names.
* **Other writers**: `ql gateway` and `ql observe` write their own audit file over;
  this is in `McpGateway` and above, and they take no part in `AuditFile`. A profile
  that is read while another command rewrites it.

## 7. What is left

* Abstract specifications of the walls and of learning, with the refinements, as
  `CellRun` and `EgressGate` are for the launch and the broker.
* A gateway session started from a configuration that `wrap` made (`LaunchWithin`
  above 0), and a gateway among the writers of `AuditFile`.
