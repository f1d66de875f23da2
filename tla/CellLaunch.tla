----------------------------- MODULE CellLaunch -----------------------------
(***************************************************************************)
(* Launching a cell (ql-enforce, cell.rs, Cell::run and run_child): the   *)
(* parent forks, the child raises the walls and execs the agent.  Two     *)
(* handshakes order the privileged work of the two processes:             *)
(*   - SyncPipes: "namespaces are up" from the child, "setup done" back;  *)
(*   - ExecChannel: the seccomp listener from the child, "supervising"    *)
(*     back.                                                               *)
(* An abort is the close of a write end, seen as end of file by a reader  *)
(* once no process holds that end any more.  Either process may die at    *)
(* any point.                                                              *)
(***************************************************************************)
EXTENDS Naturals

CONSTANTS
  NumWalls,    \* the enforcers of the cell, applied in order
  Hook,        \* whether a parent hook is registered (veth, BPF attach)
  Sudo,        \* whether the parent must write the child's id maps
  Supervised   \* whether the Tier-2 exec wall is on

ASSUME LaunchAssumption ==
  NumWalls \in Nat /\ Hook \in BOOLEAN /\ Sudo \in BOOLEAN /\ Supervised \in BOOLEAN

Synced == Hook \/ Sudo

VARIABLES
  parent,   \* where the parent is
  child,    \* where the child is
  open,     \* open[e]: the processes that hold a copy of descriptor e
  sent,     \* what has been written: "ready", "go", "listener", "supervising"
  pre,      \* pre-userns walls passed: applied, or unsupported by the host
  inner,    \* in-namespace walls applied
  done,     \* the privileged steps that have completed
  status,   \* how the child ended
  result,   \* what run() returned
  ran       \* history: the agent's command has been executed

vars == <<parent, child, open, sent, pre, inner, done, status, result, ran>>

Procs == {"parent", "child"}
Ends == {"ready_w", "go_w", "parent_sock", "child_sock"}

ParentSteps == {"close", "waitready", "maps", "hook", "go", "abort", "closesock", "recv",
                "supgo", "supervise", "wait", "returned", "dead"}
ChildSteps == {"start", "pre", "drop", "unshare", "ready", "waitgo", "install",
               "send", "waitsup", "walls", "exec", "agent", "exited"}

-----------------------------------------------------------------------------
(* Descriptors.                                                            *)

Closed(p, ends) == [e \in Ends |-> IF e \in ends THEN open[e] \ {p} ELSE open[e]]

\* A read returns the byte if it was sent, and end of file if it never will be.
Gets(m) == m \in sent
Eof(m, e) == m \notin sent /\ open[e] = {}

AfterSync == IF Supervised THEN "closesock" ELSE "wait"
AfterUnshare == IF Synced THEN "ready" ELSE IF Supervised THEN "install" ELSE "walls"
AfterGo == IF Supervised THEN "install" ELSE "walls"

Init ==
  /\ parent = IF Synced THEN "close" ELSE AfterSync
  /\ child = "start"
  /\ open = [e \in Ends |-> IF e \in {"ready_w", "go_w"}
                            THEN IF Synced THEN Procs ELSE {}
                            ELSE IF Supervised THEN Procs ELSE {}]
  /\ sent = {}
  /\ pre = 0 /\ inner = 0
  /\ done = {}
  /\ status = "none" /\ result = "none"
  /\ ran = FALSE

-----------------------------------------------------------------------------
(* The child.                                                              *)

\* The child ends, by itself or not; its descriptors close.
Exit(how) ==
  /\ child' = "exited"
  /\ status' = how
  /\ open' = Closed("child", Ends)

ChildSame == UNCHANGED <<parent, result>>
CageSame == UNCHANGED <<pre, inner, done, ran>>

\* Mutant: the child keeps its copy of go_w.
StartKeepsGo ==
  /\ child = "start"
  /\ child' = "pre"
  /\ UNCHANGED <<open, sent, status>> /\ ChildSame /\ CageSame

Start ==
  /\ child = "start"
  /\ open' = IF Synced THEN Closed("child", {"go_w"}) ELSE open
  /\ child' = "pre"
  /\ UNCHANGED <<sent, status>> /\ ChildSame /\ CageSame

\* Applied, or not supported by the host, reported and skipped.
PreWall ==
  /\ child = "pre"
  /\ pre < NumWalls
  /\ pre' = pre + 1
  /\ UNCHANGED <<child, open, sent, status, inner, done, ran>> /\ ChildSame

PreDone ==
  /\ child = "pre"
  /\ pre = NumWalls
  /\ child' = IF Sudo THEN "drop" ELSE "unshare"
  /\ UNCHANGED <<open, sent, status>> /\ ChildSame /\ CageSame

DropPrivilege ==
  /\ child = "drop"
  /\ done' = done \cup {"dropped"}
  /\ child' = "unshare"
  /\ UNCHANGED <<open, sent, status, pre, inner, ran>> /\ ChildSame

Unshare ==
  /\ child = "unshare"
  /\ done' = done \cup {"namespaces"}
  /\ child' = AfterUnshare
  /\ UNCHANGED <<open, sent, status, pre, inner, ran>> /\ ChildSame

\* Mutant: the child goes on without waiting for the parent's setup.
SignalReadyAndGo ==
  /\ child = "ready"
  /\ sent' = sent \cup {"ready"}
  /\ open' = Closed("child", {"ready_w"})
  /\ child' = AfterGo
  /\ UNCHANGED status /\ ChildSame /\ CageSame

SignalReady ==
  /\ child = "ready"
  /\ sent' = sent \cup {"ready"}
  /\ open' = Closed("child", {"ready_w"})
  /\ child' = "waitgo"
  /\ UNCHANGED status /\ ChildSame /\ CageSame

WaitGo ==
  /\ child = "waitgo"
  /\ Gets("go")
  /\ child' = AfterGo
  /\ UNCHANGED <<open, sent, status>> /\ ChildSame /\ CageSame

\* The notify filter is installed; the child drops its copy of parent_sock.
Install ==
  /\ child = "install"
  /\ done' = done \cup {"filter"}
  /\ open' = Closed("child", {"parent_sock"})
  /\ child' = "send"
  /\ UNCHANGED <<sent, status, pre, inner, ran>> /\ ChildSame

SendListener ==
  /\ child = "send"
  /\ open["parent_sock"] # {}
  /\ sent' = sent \cup {"listener"}
  /\ child' = "waitsup"
  /\ UNCHANGED <<open, status>> /\ ChildSame /\ CageSame

WaitSupervisor ==
  /\ child = "waitsup"
  /\ Gets("supervising")
  /\ child' = "walls"
  /\ UNCHANGED <<open, sent, status>> /\ ChildSame /\ CageSame

InnerWall ==
  /\ child = "walls"
  /\ inner < NumWalls
  /\ inner' = inner + 1
  /\ UNCHANGED <<child, open, sent, status, pre, done, ran>> /\ ChildSame

\* Mutant: an in-namespace wall the host does not support is skipped, as a
\* pre-userns wall is.
InnerDoneEarly ==
  /\ child = "walls"
  /\ inner <= NumWalls
  /\ child' = "exec"
  /\ UNCHANGED <<open, sent, status>> /\ ChildSame /\ CageSame

InnerDone ==
  /\ child = "walls"
  /\ inner = NumWalls
  /\ child' = "exec"
  /\ UNCHANGED <<open, sent, status>> /\ ChildSame /\ CageSame

\* execvp: under supervision the supervisor must be there to let it through.
Exec ==
  /\ child = "exec"
  /\ Supervised => parent = "supervise"
  /\ child' = "agent"
  /\ ran' = TRUE
  /\ open' = Closed("child", Ends)
  /\ UNCHANGED <<sent, status, pre, inner, done>> /\ ChildSame

\* A wall, a system call or the exec fails, or the parent's byte will never
\* come: the child refuses to run the agent.
MayRefuse ==
  \/ child \in {"pre", "drop", "unshare", "install", "send", "walls"}
  \/ child = "waitgo" /\ Eof("go", "go_w")
  \/ child = "waitsup" /\ Eof("supervising", "parent_sock")
  \/ child = "exec" /\ (Supervised => parent \in {"supervise", "dead"})

Refuse ==
  /\ MayRefuse
  /\ Exit("refused")
  /\ UNCHANGED sent /\ ChildSame /\ CageSame

AgentEnds ==
  /\ child = "agent"
  /\ Exit("agent")
  /\ UNCHANGED sent /\ ChildSame /\ CageSame

ChildKilled ==
  /\ child # "exited"
  /\ Exit("killed")
  /\ UNCHANGED sent /\ ChildSame /\ CageSame

ChildStep ==
  \/ Start \/ PreWall \/ PreDone \/ DropPrivilege \/ Unshare \/ SignalReady
  \/ WaitGo \/ Install \/ SendListener \/ WaitSupervisor \/ InnerWall
  \/ InnerDone \/ Exec \/ Refuse

-----------------------------------------------------------------------------
(* The parent.                                                             *)

ParentSame == UNCHANGED <<child, status, pre, inner, ran>>

CloseChildEnds ==
  /\ parent = "close"
  /\ open' = Closed("parent", {"ready_w"})
  /\ parent' = "waitready"
  /\ UNCHANGED <<sent, done, result>> /\ ParentSame

WaitReady ==
  /\ parent = "waitready"
  /\ Gets("ready")
  /\ parent' = IF Sudo THEN "maps" ELSE "hook"
  /\ UNCHANGED <<open, sent, done, result>> /\ ParentSame

\* The child exited first: run() returns at once, with the child unreaped.
NeverReady ==
  /\ parent = "waitready"
  /\ Eof("ready", "ready_w")
  /\ parent' = "returned"
  /\ result' = "error"
  /\ UNCHANGED <<open, sent, done>> /\ ParentSame

WriteMaps ==
  /\ parent = "maps"
  /\ done' = done \cup {"maps"}
  /\ parent' = IF Hook THEN "hook" ELSE "go"
  /\ UNCHANGED <<open, sent, result>> /\ ParentSame

RunHook ==
  /\ parent = "hook"
  /\ done' = done \cup {"hook"}
  /\ parent' = "go"
  /\ UNCHANGED <<open, sent, result>> /\ ParentSame

SignalGo ==
  /\ parent = "go"
  /\ sent' = sent \cup {"go"}
  /\ open' = Closed("parent", {"go_w"})
  /\ parent' = AfterSync
  /\ UNCHANGED <<done, result>> /\ ParentSame

SetupFails ==
  /\ parent \in {"maps", "hook"}
  /\ open' = Closed("parent", {"go_w"})
  /\ parent' = "abort"
  /\ UNCHANGED <<sent, done, result>> /\ ParentSame

CloseChildSock ==
  /\ parent = "closesock"
  /\ open' = Closed("parent", {"child_sock"})
  /\ parent' = "recv"
  /\ UNCHANGED <<sent, done, result>> /\ ParentSame

ReceiveListener ==
  /\ parent = "recv"
  /\ Gets("listener")
  /\ parent' = "supgo"
  /\ UNCHANGED <<open, sent, done, result>> /\ ParentSame

NoListener ==
  /\ parent = "recv"
  /\ Eof("listener", "child_sock")
  /\ open' = Closed("parent", {"parent_sock"})
  /\ parent' = "abort"
  /\ UNCHANGED <<sent, done, result>> /\ ParentSame

SignalSupervising ==
  /\ parent = "supgo"
  /\ sent' = sent \cup {"supervising"}
  /\ open' = Closed("parent", {"parent_sock"})
  /\ parent' = "supervise"
  /\ UNCHANGED <<done, result>> /\ ParentSame

\* Mutant: the listener's hang-up ends the supervision with an error.
ReapOnHangup ==
  /\ child = "exited" \/ parent = "supervise"
  /\ \/ parent \in {"abort", "supervise"} /\ result' = "error"
     \/ parent = "wait" /\ result' = status
  /\ done' = done \cup {"reaped"}
  /\ parent' = "returned"
  /\ UNCHANGED <<open, sent>> /\ ParentSame

\* waitpid returns: after an abort with an error, otherwise with the status.
Reap ==
  /\ child = "exited"
  /\ \/ parent = "abort" /\ result' = "error"
     \/ parent \in {"wait", "supervise"} /\ result' = status
  /\ done' = done \cup {"reaped"}
  /\ parent' = "returned"
  /\ UNCHANGED <<open, sent>> /\ ParentSame

ParentDies ==
  /\ parent \notin {"returned", "dead"}
  /\ parent' = "dead"
  /\ open' = Closed("parent", Ends)
  /\ UNCHANGED <<sent, done, result>> /\ ParentSame

ParentStep ==
  \/ CloseChildEnds \/ WaitReady \/ NeverReady \/ WriteMaps \/ RunHook \/ SignalGo
  \/ SetupFails \/ CloseChildSock \/ ReceiveListener \/ NoListener
  \/ SignalSupervising \/ Reap

-----------------------------------------------------------------------------
Next == ChildStep \/ AgentEnds \/ ChildKilled \/ ParentStep \/ ParentDies

Spec == Init /\ [][Next]_vars

\* Both processes are scheduled, and a read returns once it has a byte or end
\* of file.  Nothing makes the agent end, or a process die.
FairSpec == Spec /\ WF_vars(ChildStep) /\ WF_vars(ParentStep)

-----------------------------------------------------------------------------
(* Properties.                                                             *)

\* The variables hold what the code's types and guards allow.
TypeOK ==
  /\ parent \in ParentSteps /\ child \in ChildSteps
  /\ open \in [Ends -> SUBSET Procs]
  /\ sent \subseteq {"ready", "go", "listener", "supervising"}
  /\ pre \in 0..NumWalls /\ inner \in 0..NumWalls
  /\ done \subseteq {"dropped", "namespaces", "filter", "maps", "hook", "reaped"}
  /\ status \in {"none", "refused", "killed", "agent"}
  /\ result \in {"none", "error", "refused", "killed", "agent"}
  /\ ran \in BOOLEAN

Caged ==
  /\ pre = NumWalls /\ inner = NumWalls
  /\ "namespaces" \in done
  /\ Sudo => {"dropped", "maps"} \subseteq done
  /\ Hook => "hook" \in done
  /\ Supervised => "filter" \in done /\ "supervising" \in sent

\* The agent's command is executed only when every wall was applied in its
\* phase, the privilege drop and the parent's setup are complete and the exec
\* supervisor has confirmed, whichever process failed or died in between
\* (cell.rs:98-99, 266-287).
FailClosed == ran => Caged

\* While the parent sets up, a live child is blocked in the handshake with its
\* namespaces in place: neither process runs ahead (cell.rs:171-195, 346-354).
SetupOnFrozenChild ==
  parent \in {"maps", "hook"} =>
    /\ "namespaces" \in done
    /\ child \in {"waitgo", "exited"}

\* run() returns an error only for an agent that never ran and never will; and
\* it leaves no child behind but one that died before its namespaces were up.
ErrorMeansNeverRan ==
  parent = "returned" =>
    /\ result = "error" => ~ran /\ child = "exited"
    /\ "reaped" \in done \/ "ready" \notin sent

Promise == INSTANCE CellRun WITH
  agent <- IF ~ran THEN "none" ELSE IF child = "agent" THEN "alive" ELSE "dead",
  answer <- result

\* The two processes and their handshakes implement what ql relies on: one start
\* at most, one answer, and no answer while an agent lives or may still start
\* (cell.rs:95-99).
ImplementsCell == Promise!CellSpec

\* Neither handshake hangs: the parent returns, or dies, or the agent runs,
\* whatever fails and whoever dies; and a child whose parent died does not wait
\* for it for ever.
NoHang ==
  /\ <>(parent \in {"returned", "dead"} \/ ran)
  /\ <>(child \in {"agent", "exited"})
=============================================================================
