------------------------- MODULE CellLaunch_proofs -------------------------
(***************************************************************************)
(* A cell fails closed, for any number of walls and any combination of    *)
(* handshakes.  LaunchInv follows the two processes through the launch:   *)
(* what each of them has done by the time it reaches a step, and what the *)
(* bytes in the pipes say about the other.                                 *)
(*                                                                         *)
(* And the walls of a cell hold, for any set of processes, files, rules,   *)
(* connections and paths and any size of the kernel's maps and rings.      *)
(* WallsInv follows the exec wall from the hook that attaches it to the    *)
(* reading of its records, and the owners of connections; MountInv the     *)
(* mounts, from the expansion of a denied pattern to their covers.  Lemmas *)
(* about folds, by induction over the naturals, tell what the kernel's     *)
(* scan of a command line and the expansion of a pattern come to.          *)
(***************************************************************************)
EXTENDS CellLaunch, CellWalls, FiniteSetTheorems, WellFoundedInduction, TLAPS

\* Steps of the child by what lies behind it.
BeforeUnshare == {"start", "pre", "drop", "unshare"}
AfterWaitGo == {"install", "send", "waitsup", "walls", "exec", "agent"}

SetupDone == (Sudo => "maps" \in done) /\ (Hook => "hook" \in done)

\* What the child has done by the step it is at.
ChildInv ==
  /\ child \in ChildSteps
  /\ child \notin {"start", "pre", "exited"} => pre = NumWalls
  /\ child \notin {"start", "pre", "drop", "exited"} /\ Sudo => "dropped" \in done
  /\ child \notin BeforeUnshare \cup {"exited"} => "namespaces" \in done
  /\ child \in AfterWaitGo /\ Synced => "go" \in sent
  /\ child \in {"send", "waitsup", "walls", "exec", "agent"} /\ Supervised => "filter" \in done
  /\ child \in {"walls", "exec", "agent"} /\ Supervised => "supervising" \in sent
  /\ child \in {"exec", "agent"} => inner = NumWalls
  /\ ran => child \in {"agent", "exited"} /\ Caged

\* What the parent has done, and what its bytes and the child's stand for.
ParentInv ==
  /\ parent = "hook" /\ Sudo => "maps" \in done
  /\ parent = "go" => SetupDone
  /\ parent \in {"close", "waitready", "maps", "hook", "go"} => Synced /\ "go" \notin sent
  /\ "go" \in sent => SetupDone /\ "ready" \in sent
  /\ "ready" \in sent => "namespaces" \in done /\ child \notin BeforeUnshare \cup {"ready"}
  /\ parent \in {"maps", "hook", "go"} => "ready" \in sent
  /\ ran /\ Synced => "go" \in sent

LaunchInv == ChildInv /\ ParentInv

LEMMA LaunchInit == Init => LaunchInv
BY DEF Init, LaunchInv, ChildInv, ParentInv, BeforeUnshare, AfterWaitGo, AfterSync, Synced,
       ChildSteps

LEMMA ChildStepInv == LaunchInv /\ ChildStep => LaunchInv'
<1>. SUFFICES ASSUME LaunchInv, ChildStep PROVE LaunchInv'
  OBVIOUS
<1>. USE DEF LaunchInv, ChildInv, ParentInv, BeforeUnshare, AfterWaitGo, SetupDone,
             Caged, ChildSteps, ChildSame, CageSame, AfterUnshare, AfterGo, Synced, Gets
<1>1. CASE Start
  BY <1>1 DEF Start
<1>2. CASE PreWall
  BY <1>2 DEF PreWall
<1>3. CASE PreDone
  BY <1>3 DEF PreDone
<1>4. CASE DropPrivilege
  BY <1>4 DEF DropPrivilege
<1>5. CASE Unshare
  BY <1>5 DEF Unshare
<1>6. CASE SignalReady
  BY <1>6 DEF SignalReady
<1>7. CASE WaitGo
  BY <1>7 DEF WaitGo
<1>8. CASE Install
  BY <1>8 DEF Install
<1>9. CASE SendListener
  BY <1>9 DEF SendListener
<1>10. CASE WaitSupervisor
  BY <1>10 DEF WaitSupervisor
<1>11. CASE InnerWall
  BY <1>11 DEF InnerWall
<1>12. CASE InnerDone
  BY <1>12 DEF InnerDone
<1>13. CASE Exec
  BY <1>13 DEF Exec
<1>14. CASE Refuse
  BY <1>14 DEF Refuse, Exit
<1>. QED
  BY <1>1, <1>2, <1>3, <1>4, <1>5, <1>6, <1>7, <1>8, <1>9, <1>10, <1>11,
     <1>12, <1>13, <1>14 DEF ChildStep

LEMMA ParentStepInv == LaunchInv /\ (ParentStep \/ ParentDies) => LaunchInv'
<1>. SUFFICES ASSUME LaunchInv, ParentStep \/ ParentDies PROVE LaunchInv'
  OBVIOUS
<1>. USE DEF LaunchInv, ChildInv, ParentInv, BeforeUnshare, AfterWaitGo, SetupDone,
             Caged, ParentSame, AfterSync, Synced, Gets
<1>1. CASE CloseChildEnds
  BY <1>1 DEF CloseChildEnds
<1>2. CASE WaitReady
  BY <1>2 DEF WaitReady
<1>3. CASE NeverReady
  BY <1>3 DEF NeverReady
<1>4. CASE WriteMaps
  BY <1>4 DEF WriteMaps
<1>5. CASE RunHook
  BY <1>5 DEF RunHook
<1>6. CASE SignalGo
  BY <1>6 DEF SignalGo
<1>7. CASE SetupFails
  BY <1>7 DEF SetupFails
<1>8. CASE CloseChildSock
  BY <1>8 DEF CloseChildSock
<1>9. CASE ReceiveListener
  BY <1>9 DEF ReceiveListener
<1>10. CASE NoListener
  BY <1>10 DEF NoListener
<1>11. CASE SignalSupervising
  BY <1>11 DEF SignalSupervising
<1>12. CASE Reap
  BY <1>12 DEF Reap
<1>13. CASE ParentDies
  BY <1>13 DEF ParentDies
<1>. QED
  BY <1>1, <1>2, <1>3, <1>4, <1>5, <1>6, <1>7, <1>8, <1>9, <1>10, <1>11,
     <1>12, <1>13 DEF ParentStep

LEMMA LaunchStep == LaunchInv /\ [Next]_vars => LaunchInv'
<1>. SUFFICES ASSUME LaunchInv, [Next]_vars PROVE LaunchInv'
  OBVIOUS
<1>1. CASE AgentEnds \/ ChildKilled
  BY <1>1 DEF AgentEnds, ChildKilled, Exit, ChildSame, CageSame, LaunchInv, ChildInv,
              ParentInv, BeforeUnshare, AfterWaitGo, SetupDone, Caged, ChildSteps
<1>2. CASE UNCHANGED vars
  BY <1>2 DEF vars, LaunchInv, ChildInv, ParentInv, SetupDone, Caged
<1>. QED
  BY <1>1, <1>2, ChildStepInv, ParentStepInv DEF Next

LEMMA LaunchAlways == Spec => []LaunchInv
BY LaunchInit, LaunchStep, PTL DEF Spec

\* The agent's command is executed only inside the complete cage, whichever
\* process fails or dies at whichever point (cell.rs, Cell::run and run_child).
THEOREM FailsClosed == Spec => []FailClosed
<1>1. LaunchInv => FailClosed
  BY DEF LaunchInv, ChildInv, FailClosed
<1>. QED
  BY <1>1, LaunchAlways, PTL

\* The parent's privileged setup acts on a child that is blocked in the
\* handshake with its namespaces in place, or dead (cell.rs, SyncPipes).
THEOREM SetupIsSynchronized == Spec => []SetupOnFrozenChild
<1>1. LaunchInv => SetupOnFrozenChild
  BY DEF LaunchInv, ChildInv, ParentInv, SetupOnFrozenChild, BeforeUnshare, AfterWaitGo, ChildSteps
<1>. QED
  BY <1>1, LaunchAlways, PTL

-----------------------------------------------------------------------------
(* Type correctness.                                                       *)

LEMMA TypeInit == Init => TypeOK
<1>. SUFFICES ASSUME Init PROVE TypeOK
  OBVIOUS
<1>1. open \in [Ends -> SUBSET Procs]
  BY DEF Init, Ends, Procs
<1>2. pre \in 0..NumWalls /\ inner \in 0..NumWalls
  BY LaunchAssumption DEF Init
<1>3. parent \in ParentSteps /\ child \in ChildSteps
  BY DEF Init, ParentSteps, ChildSteps, AfterSync
<1>4. sent = {} /\ done = {} /\ ran \in BOOLEAN
  BY DEF Init
<1>5. status = "none" /\ result = "none"
  BY DEF Init
<1>. QED
  BY <1>1, <1>2, <1>3, <1>4, <1>5 DEF TypeOK

LEMMA ChildTypes == TypeOK /\ (ChildStep \/ AgentEnds \/ ChildKilled) => TypeOK'
<1>. SUFFICES ASSUME TypeOK, ChildStep \/ AgentEnds \/ ChildKilled PROVE TypeOK'
  OBVIOUS
<1>. USE LaunchAssumption DEF TypeOK, ChildSteps, ChildSame, CageSame, AfterUnshare, AfterGo, Closed
<1>1. CASE Start \/ PreDone \/ Unshare
  BY <1>1 DEF Start, PreDone, Unshare
<1>2. CASE PreWall
  <2>1. pre' \in 0..NumWalls
    BY ONLY TypeOK, <1>2, LaunchAssumption DEF TypeOK, PreWall
  <2>2. UNCHANGED <<parent, child, open, sent, inner, done, status, result, ran>>
    BY <1>2 DEF PreWall
  <2>. QED
    BY <2>1, <2>2
<1>3. CASE DropPrivilege \/ Install
  BY <1>3 DEF DropPrivilege, Install
<1>4. CASE SignalReady \/ SendListener
  BY <1>4 DEF SignalReady, SendListener
<1>5. CASE WaitGo \/ WaitSupervisor \/ InnerDone
  BY <1>5 DEF WaitGo, WaitSupervisor, InnerDone
<1>6. CASE InnerWall
  BY <1>6 DEF InnerWall
<1>7. CASE Exec
  BY <1>7 DEF Exec
<1>8. CASE Refuse \/ AgentEnds \/ ChildKilled
  BY <1>8 DEF Refuse, AgentEnds, ChildKilled, Exit
<1>. QED
  BY <1>1, <1>2, <1>3, <1>4, <1>5, <1>6, <1>7, <1>8 DEF ChildStep

LEMMA ParentTypes == TypeOK /\ (ParentStep \/ ParentDies) => TypeOK'
<1>. SUFFICES ASSUME TypeOK, ParentStep \/ ParentDies PROVE TypeOK'
  OBVIOUS
<1>. USE DEF TypeOK, ParentSteps, ParentSame, AfterSync, Closed
<1>1. CASE CloseChildEnds \/ WaitReady \/ NeverReady
  BY <1>1 DEF CloseChildEnds, WaitReady, NeverReady
<1>2. CASE WriteMaps \/ RunHook
  BY <1>2 DEF WriteMaps, RunHook
<1>3. CASE SignalGo \/ SignalSupervising
  BY <1>3 DEF SignalGo, SignalSupervising
<1>4. CASE SetupFails \/ CloseChildSock \/ ReceiveListener \/ NoListener
  BY <1>4 DEF SetupFails, CloseChildSock, ReceiveListener, NoListener
<1>5. CASE Reap
  BY <1>5 DEF Reap
<1>6. CASE ParentDies
  BY <1>6 DEF ParentDies
<1>. QED
  BY <1>1, <1>2, <1>3, <1>4, <1>5, <1>6 DEF ParentStep

\* The launch keeps its types, and passes no wall twice (cell.rs:308-323,
\* 379-388).
THEOREM LaunchTypes == Spec => []TypeOK
<1>1. TypeOK /\ UNCHANGED vars => TypeOK'
  BY DEF TypeOK, vars
<1>2. TypeOK /\ [Next]_vars => TypeOK'
  BY <1>1, ChildTypes, ParentTypes DEF Next
<1>. QED
  BY <1>2, TypeInit, PTL DEF Spec

-----------------------------------------------------------------------------
(* What run() returns.                                                     *)

\* A live child keeps the write ends its reader waits on until it has written.
PipeInv ==
  /\ open \in [Ends -> SUBSET Procs]
  /\ Synced /\ child \in BeforeUnshare \cup {"ready"} => "child" \in open["ready_w"]
  /\ Supervised /\ child \notin {"agent", "exited"} => "child" \in open["child_sock"]
  /\ child \in {"waitsup", "walls", "exec", "agent"} /\ Supervised => "listener" \in sent
  /\ ran /\ Supervised => "listener" \in sent
  /\ child = "waitgo" => "ready" \in sent
  /\ parent \in {"closesock", "recv", "supgo", "supervise"} => Supervised

\* How the parent comes to return.
ReturnInv ==
  /\ parent = "abort" => ~ran /\ (child = "exited" \/ (Synced /\ "go" \notin sent))
  /\ parent = "returned" => child = "exited" /\ ("reaped" \in done \/ "ready" \notin sent)
  /\ result = "error" => parent = "returned" /\ ~ran
  /\ status # "error"

RunInv == LaunchInv /\ PipeInv /\ ReturnInv

LEMMA RunInit == Init => RunInv
BY LaunchInit DEF Init, RunInv, PipeInv, ReturnInv, BeforeUnshare, AfterSync, Synced, Ends, Procs

LEMMA RunChildStep == RunInv /\ (ChildStep \/ AgentEnds \/ ChildKilled) => PipeInv' /\ ReturnInv'
<1>. SUFFICES ASSUME RunInv, ChildStep \/ AgentEnds \/ ChildKilled
              PROVE  PipeInv' /\ ReturnInv'
  OBVIOUS
<1>. USE DEF RunInv, LaunchInv, ChildInv, ParentInv, PipeInv, ReturnInv, BeforeUnshare,
             AfterWaitGo, ChildSame, CageSame, AfterUnshare, AfterGo, Synced, Gets,
             Closed, Ends, Procs
<1>1. CASE Start
  BY <1>1 DEF Start
<1>2. CASE PreWall \/ PreDone \/ DropPrivilege
  BY <1>2 DEF PreWall, PreDone, DropPrivilege
<1>3. CASE Unshare
  BY <1>3 DEF Unshare
<1>4. CASE SignalReady
  BY <1>4 DEF SignalReady
<1>5. CASE WaitGo
  BY <1>5 DEF WaitGo
<1>6. CASE Install
  BY <1>6 DEF Install
<1>7. CASE SendListener
  BY <1>7 DEF SendListener
<1>8. CASE WaitSupervisor
  BY <1>8 DEF WaitSupervisor
<1>9. CASE InnerWall \/ InnerDone
  BY <1>9 DEF InnerWall, InnerDone
<1>10. CASE Exec
  BY <1>10 DEF Exec
<1>11. CASE Refuse
  BY <1>11 DEF Refuse, Exit
<1>12. CASE AgentEnds \/ ChildKilled
  BY <1>12 DEF AgentEnds, ChildKilled, Exit
<1>. QED
  BY <1>1, <1>2, <1>3, <1>4, <1>5, <1>6, <1>7, <1>8, <1>9, <1>10, <1>11, <1>12 DEF ChildStep

LEMMA RunParentStep == RunInv /\ (ParentStep \/ ParentDies) => PipeInv' /\ ReturnInv'
<1>. SUFFICES ASSUME RunInv, ParentStep \/ ParentDies
              PROVE  PipeInv' /\ ReturnInv'
  OBVIOUS
<1>. USE DEF RunInv, LaunchInv, ChildInv, ParentInv, PipeInv, ReturnInv, BeforeUnshare,
             AfterWaitGo, ParentSame, AfterSync, Synced, Gets, Eof, Closed, Ends, Procs
<1>1. CASE CloseChildEnds
  BY <1>1 DEF CloseChildEnds
<1>2. CASE WaitReady \/ WriteMaps \/ RunHook
  BY <1>2 DEF WaitReady, WriteMaps, RunHook
<1>3. CASE NeverReady
  <2>1. Synced /\ "ready" \notin sent /\ open["ready_w"] = {}
    BY <1>3 DEF NeverReady
  <2>2. child \notin BeforeUnshare \cup {"ready", "waitgo"}
    BY <2>1
  <2>3. child \notin AfterWaitGo
    BY <2>1
  <2>4. child = "exited"
    BY <2>2, <2>3 DEF ChildSteps
  <2>5. ~ran
    BY <2>1
  <2>. QED
    BY <1>3, <2>1, <2>4, <2>5 DEF NeverReady
<1>4. CASE SignalGo
  BY <1>4 DEF SignalGo
<1>5. CASE SetupFails
  BY <1>5 DEF SetupFails
<1>6. CASE CloseChildSock
  BY <1>6 DEF CloseChildSock
<1>11. CASE ReceiveListener
  BY <1>11 DEF ReceiveListener
<1>7. CASE NoListener
  <2>1. child = "exited" /\ ~ran
    BY <1>7 DEF NoListener, ChildSteps
  <2>. QED
    BY <1>7, <2>1 DEF NoListener
<1>8. CASE SignalSupervising
  BY <1>8 DEF SignalSupervising
<1>9. CASE Reap
  BY <1>9 DEF Reap
<1>10. CASE ParentDies
  BY <1>10 DEF ParentDies
<1>. QED
  BY <1>1, <1>2, <1>3, <1>4, <1>5, <1>6, <1>7, <1>8, <1>9, <1>10, <1>11 DEF ParentStep

LEMMA RunAlways == Spec => []RunInv
<1>1. RunInv /\ [Next]_vars => RunInv'
  <2>. SUFFICES ASSUME RunInv, [Next]_vars PROVE RunInv'
    OBVIOUS
  <2>1. LaunchInv'
    BY LaunchStep DEF RunInv
  <2>2. CASE UNCHANGED vars
    BY <2>1, <2>2 DEF vars, RunInv, PipeInv, ReturnInv
  <2>. QED
    BY <2>1, <2>2, RunChildStep, RunParentStep DEF Next, RunInv
<1>. QED
  BY <1>1, RunInit, PTL DEF Spec

\* run() reports an error only for an agent that never ran and never will, and
\* leaves unreaped only a child that died before its namespaces were up
\* (cell.rs, Cell::run).
THEOREM ErrorsAreRefusals == Spec => []ErrorMeansNeverRan
<1>1. RunInv => ErrorMeansNeverRan
  BY DEF RunInv, ReturnInv, ErrorMeansNeverRan
<1>. QED
  BY <1>1, RunAlways, PTL

-----------------------------------------------------------------------------
(* The promise to the caller.                                              *)

\* How the child ended says whether the agent ran.
StatusInv ==
  /\ child = "exited" => status \in IF ran THEN {"agent", "killed"} ELSE {"refused", "killed"}
  /\ child = "agent" => ran
  /\ result # "none" => parent = "returned"

LEMMA StatusAlways == Spec => []StatusInv
<1>1. Init => StatusInv
  BY DEF Init, StatusInv
<1>2. RunInv /\ StatusInv /\ [Next]_vars => StatusInv'
  <2>. SUFFICES ASSUME RunInv, StatusInv, [Next]_vars PROVE StatusInv'
    OBVIOUS
  <2>. USE DEF StatusInv
  <2>0. ran => child \in {"agent", "exited"}
    BY DEF RunInv, LaunchInv, ChildInv
  <2>1. CASE ChildStep
    <3>1. CASE Refuse
      <4>1. ~ran
        BY <2>0, <3>1 DEF Refuse, MayRefuse
      <4>. QED
        BY <3>1, <4>1 DEF Refuse, Exit, ChildSame, CageSame
    <3>3. CASE Exec
      BY <3>3 DEF Exec, ChildSame
    <3>2. CASE ~Refuse /\ ~Exec
      <4>1. child' \notin {"agent", "exited"} /\ UNCHANGED <<result, parent>>
        BY <2>1, <3>2 DEF ChildStep, Start, PreWall, PreDone, DropPrivilege, Unshare,
           SignalReady, WaitGo, Install, SendListener, WaitSupervisor, InnerWall, InnerDone,
           ChildSame, AfterUnshare, AfterGo
      <4>. QED
        BY <4>1
    <3>. QED
      BY <3>1, <3>2, <3>3
  <2>2. CASE AgentEnds
    BY <2>2 DEF AgentEnds, Exit, ChildSame, CageSame
  <2>3. CASE ChildKilled
    BY <2>3 DEF ChildKilled, Exit, ChildSame, CageSame
  <2>4. CASE ParentStep \/ ParentDies
    BY <2>4 DEF ParentStep, ParentDies, CloseChildEnds, WaitReady, NeverReady, WriteMaps, RunHook,
       SignalGo, SetupFails, CloseChildSock, ReceiveListener, NoListener, SignalSupervising, Reap,
       ParentSame
  <2>5. CASE UNCHANGED vars
    BY <2>5 DEF vars
  <2>. QED
    BY <2>1, <2>2, <2>3, <2>4, <2>5 DEF Next
<1>. QED
  BY <1>1, <1>2, RunAlways, PTL DEF Spec

\* The launch, with its handshakes, failures and deaths, keeps the promise of
\* Cell::run: the agent is started at most once, and the caller is answered once,
\* truly, and only when no agent is alive or can still start (cell.rs:95-99).
THEOREM LaunchImplementsCell == Spec => ImplementsCell
<1>1. Init => Promise!CellInit
  BY DEF Init, Promise!CellInit
<1>2. RunInv /\ StatusInv /\ [Next]_vars => [Promise!CellNext]_(Promise!cellVars)
  <2>. SUFFICES ASSUME RunInv, StatusInv, [Next]_vars
                PROVE  [Promise!CellNext]_(Promise!cellVars)
    OBVIOUS
  <2>. USE DEF Promise!cellVars
  <2>0. /\ ran => child \in {"agent", "exited"}
        /\ result # "none" => parent = "returned"
        /\ parent = "returned" => child = "exited"
    BY DEF RunInv, LaunchInv, ChildInv, ReturnInv, StatusInv
  <2>1. CASE Exec
    <3>1. result = "none" /\ ~ran
      BY <2>0, <2>1 DEF Exec
    <3>2. Promise!Starts
      BY <2>1, <3>1 DEF Exec, ChildSame, Promise!Starts
    <3>. QED
      BY <3>2 DEF Promise!CellNext
  <2>2. CASE ChildStep /\ ~Exec
    <3>1. UNCHANGED <<ran, result>> /\ child # "agent"
      BY <2>2 DEF ChildStep, Start, PreWall, PreDone, DropPrivilege, Unshare, SignalReady, WaitGo,
         Install, SendListener, WaitSupervisor, InnerWall, InnerDone, Refuse, MayRefuse,
         ChildSame, CageSame
    <3>2. child # "exited"
      BY <2>2 DEF ChildStep, Start, PreWall, PreDone, DropPrivilege, Unshare, SignalReady, WaitGo,
         Install, SendListener, WaitSupervisor, InnerWall, InnerDone, Refuse, MayRefuse
    <3>3. ~ran
      BY <2>0, <3>1, <3>2
    <3>. QED
      BY <3>1, <3>3
  <2>3. CASE AgentEnds \/ ChildKilled
    <3>1. UNCHANGED <<ran, result>> /\ child # "exited" /\ child' = "exited"
      BY <2>3 DEF AgentEnds, ChildKilled, Exit, ChildSame, CageSame
    <3>2. CASE ran
      <4>1. Promise!Dies
        BY <2>0, <3>1, <3>2 DEF Promise!Dies
      <4>. QED
        BY <4>1 DEF Promise!CellNext
    <3>3. CASE ~ran
      BY <3>1, <3>3
    <3>. QED
      BY <3>2, <3>3
  <2>4. CASE NeverReady \/ Reap
    <3>1. UNCHANGED <<ran, child>> /\ parent # "returned"
      BY <2>4 DEF NeverReady, Reap, ParentSame
    <3>2. result = "none"
      BY <2>0, <3>1
    <3>3. RunInv'
      BY LaunchStep, RunParentStep, <2>4 DEF RunInv, ParentStep, Next
    <3>4. parent' = "returned" /\ child = "exited"
      BY <2>4, <3>1, <3>3 DEF NeverReady, Reap, RunInv, ReturnInv
    <3>5. result' \in IF ran THEN {"agent", "killed"} ELSE {"error", "refused", "killed"}
      BY <2>4, <3>1, <3>3, <3>4 DEF NeverReady, Reap, RunInv, ReturnInv, StatusInv
    <3>6. Promise!Answers
      BY <3>1, <3>2, <3>4, <3>5 DEF Promise!Answers, Promise!Outcomes
    <3>. QED
      BY <3>6 DEF Promise!CellNext
  <2>5. CASE (ParentStep \/ ParentDies) /\ ~NeverReady /\ ~Reap
    BY <2>5 DEF ParentStep, ParentDies, CloseChildEnds, WaitReady, WriteMaps, RunHook,
       SignalGo, SetupFails, CloseChildSock, ReceiveListener, NoListener, SignalSupervising,
       ParentSame
  <2>6. CASE UNCHANGED vars
    BY <2>6 DEF vars
  <2>. QED
    BY <2>1, <2>2, <2>3, <2>4, <2>5, <2>6 DEF Next
<1>. QED
  BY <1>1, <1>2, RunAlways, StatusAlways, PTL DEF Spec, ImplementsCell, Promise!CellSpec

-----------------------------------------------------------------------------
(* The walls of a running cell.                                            *)

Cgroups == {"none", "session", "leaf"}
CallSet == [at : {"check", "passed"}, th : Threads, file : Files, script : SUBSET Files,
            args : {c.args : c \in Calls}, evicted : BOOLEAN]
EntrySet == [pid : Pids, th : Threads, digest : Files]
RecordSet == [pid : Pids, digest : Files \cup {Nothing}, allowed : BOOLEAN]

ProcessTypes ==
  /\ screened \in Cgroups /\ cgroup \in [Pids -> Cgroups] /\ inCell \subseteq Pids
  /\ image \in [Pids -> SUBSET (Files \cup {Nothing})]
  /\ call \in [Pids -> CallSet \cup {NoCall}]
  /\ inflight \subseteq EntrySet
  /\ events \in Seq(RecordSet)

Early == {"build", "cgroup", "hook", "attach", "inside"}

\* Before the agent runs, only ql is in the cell, and has called nothing; until the
\* hook nothing is attached to it.
EarlyInv ==
  /\ phase \in Early => /\ inCell = {Child} /\ image[Child] = {Nothing} /\ Alive(Child)
                        /\ \A p \in Pids : call[p] = NoCall
                        /\ inflight = {} /\ commits = {} /\ struck = {} /\ events = <<>>
  /\ phase \in Early \ {"inside"} => screened = "none" /\ hooks = "none"
  /\ phase \in {"hook", "attach"} /\ prof.enforce /\ Backend = "v2" =>
       cgroup[Child] = "leaf" \/ "cgroups" \in gaps

\* Nobody but ql is in the cell, and it calls nothing.
OnlyLauncher == \A p \in inCell : call[p] = NoCall /\ image[p] = {Nothing}

\* The wall screens every process of the cell from before the agent runs until the
\* records are read, and others only when the cgroup is known to be missing.
ScreenInv ==
  /\ \A p \in Pids : /\ ~Alive(p) => call[p] = NoCall /\ p \notin inCell
                     /\ cgroup[p] = "leaf" => p \in inCell
  /\ screened # "none" => /\ hooks = "wall" /\ \A p \in inCell : cgroup[p] = screened
                          /\ screened = "session" => "cgroups" \in gaps
  /\ prof.enforce /\ phase \in {"inside", "running"} => screened # "none"
  /\ prof.enforce /\ phase \in {"ended", "sighted"} => screened # "none" \/ OnlyLauncher
  /\ phase = "refused" => OnlyLauncher

\* Behind the wall only approved content runs or is about to.
ApprovedInv ==
  screened # "none" =>
    \A p \in inCell :
      /\ image[p] \subseteq Approved \cup {Nothing}
      /\ call[p] # NoCall => call[p].script \subseteq Approved
      /\ call[p].at = "passed" => call[p].file \in Approved

\* A stashed digest of a leader's is that of its execve under way in the cell, or of
\* one that was allowed and did not happen, unless the wall screens others.
Underway(p) == /\ p \in inCell /\ call[p] # NoCall /\ call[p].th = "leader"
               /\ call[p].at = "passed" \/ call[p].script # {}
StashInv ==
  /\ screened = "none" => inflight = {}
  /\ \A e \in inflight : e.th = "leader" =>
       "cgroups" \in gaps \/ e.pid \in dangling \/ Underway(e.pid)

Yes(p, f) == [pid |-> p, digest |-> f, allowed |-> TRUE]
Told(p, f) == Yes(p, f) \in ToSet(events)

\* Until the records are read, an exec that passed or committed has one, or the ring
\* is full.
ToldInv ==
  /\ Len(events) <= EventRoom
  /\ screened = "none" /\ phase # "drained" /\ phase # "over" => commits = {}
  /\ phase \in {"running", "refused", "ended"} =>
       \/ Len(events) = EventRoom
       \/ /\ \A c \in commits : Told(c.pid, c.file)
          /\ \A p \in Pids : call[p].at = "passed" /\ cgroup[p] = screened =>
                                Told(p, call[p].file)

\* A digest that was not evicted is that of the execve under way.
EntryInv ==
  \A p \in Pids :
    screened # "none" /\ cgroup[p] = screened /\ call[p].at = "passed"
      /\ call[p].th = "leader" /\ ~call[p].evicted
    => Entry(p) = {[pid |-> p, th |-> "leader", digest |-> call[p].file]}

\* The kernel kills what its scan says, for an exec of the cell's made by a leader with
\* room in the ring and its entry in the map.
ScanDecides ==
  \A c \in commits :
    c.th = "leader" /\ c.room /\ ~c.evicted => (c.killed <=> KernelKills(c.file, c.args))

ConnSet == [st : {"live", "closed"}, pid : Pids, netns : Netns, port : Ports, to : Peers,
            noted : BOOLEAN, over : SUBSET Pids]

\* An entry is of a connection that was noted; the entry of the key of a live one that
\* was noted is its own, or that of one noted since; and the answers say no more.
Entered(o, d) == /\ conn[d] # NoConn /\ conn[d].noted /\ conn[d].netns = o.netns
                 /\ conn[d].port = o.port /\ conn[d].pid = o.pid
OwnerInv ==
  /\ conn \in [Conns -> ConnSet \cup {NoConn}] /\ DOMAIN answer = Conns
  /\ IsFiniteSet(owners) /\ (hooks = "none" => owners = {})
  /\ \A o \in owners : \E d \in Conns : Entered(o, d)
  /\ \A c \in Conns : \A o \in owners :
       Live(c) /\ conn[c].noted /\ o.netns = conn[c].netns /\ o.port = conn[c].port =>
         o.pid \in conn[c].over \cup {conn[c].pid}
  /\ \A c \in Conns : answer[c] # NoConn => conn[c].st # "free"
  /\ NamesOpener

Late == {"running", "refused", "ended", "sighted", "drained"}

\* What is said of processes, execs and the wall, but for the sockets.
WallsCore ==
  /\ ProcessTypes /\ EarlyInv /\ ScreenInv /\ ApprovedInv /\ StashInv /\ ToldInv
  /\ EntryInv /\ ScanDecides /\ SparesTheRest

WallSame == UNCHANGED <<phase, prof, host, gaps, hooks>>

WallsInv == WallsCore /\ OwnerInv

-----------------------------------------------------------------------------
(* The types.                                                              *)

LEMMA NoCallIsNone == NoCall \notin CallSet /\ NoCall.at = "none"
BY DEF NoCall, CallSet

LEMMA OnwardType ==
  ASSUME NEW c \in CallSet
  PROVE  /\ Onward(c) \in CallSet /\ Onward(c).th = c.th /\ Onward(c).evicted = c.evicted
         /\ c.file \notin DOMAIN Interpreter =>
              Onward(c).at = "passed" /\ Onward(c).file = c.file /\ Onward(c).script = c.script
         /\ c.file \in DOMAIN Interpreter => Onward(c).at = c.at /\ Onward(c).script = {c.file}
BY LsmAssumption DEF Onward, CallSet

LEMMA ExecveStep ==
  ASSUME ProcessTypes, NEW p \in Pids, Execve(p)
  PROVE  /\ Alive(p) /\ call[p] = NoCall
         /\ \E c \in CallSet : /\ c.at = "check" /\ c.script = {}
                               /\ call' = [call EXCEPT ![p] = c]
         /\ UNCHANGED <<screened, cgroup, inCell, image, inflight, events, dangling, struck, commits>>
<1>1. /\ Alive(p) /\ call[p] = NoCall
      /\ UNCHANGED <<screened, cgroup, inCell, image, inflight, events, dangling, struck, commits>>
  BY Zenon DEF Execve, Kernel
<1>2. PICK d \in Calls, th \in Threads :
        call' = [call EXCEPT ![p] = [at |-> "check", th |-> th, file |-> d.file, script |-> {},
                                     args |-> d.args, evicted |-> FALSE]]
  BY Zenon DEF Execve
<1> DEFINE c == [at |-> "check", th |-> th, file |-> d.file, script |-> {},
                 args |-> d.args, evicted |-> FALSE]
<1>3. c \in CallSet
  BY LsmAssumption DEF CallSet
<1>4. c.at = "check" /\ c.script = {} /\ call' = [call EXCEPT ![p] = c]
  BY <1>2
<1> QED BY <1>1, <1>3, <1>4

\* What enforce_exec does with an execve that it allows, and with one it denies.
LEMMA EnforceStep ==
  ASSUME ProcessTypes, NEW p \in Pids, EnforceExec(p)
  PROVE  LET f == call[p].file
         IN /\ call[p] \in CallSet /\ call[p].at = "check" /\ cgroup[p] = screened
            /\ events' = IF Len(events) < EventRoom
                         THEN Append(events, ExecRecord(p, f)) ELSE events
            /\ \A q \in Pids \ {p} : \/ call'[q] = call[q] /\ ~Overtaken(q)
                                     \/ call'[q] = [call[q] EXCEPT !.evicted = TRUE] /\ Overtaken(q)
            /\ \/ /\ Allows(f) /\ call'[p] = Onward(call[p]) /\ UNCHANGED dangling
                  /\ inflight' \subseteq {e \in inflight : ~(e.pid = p /\ e.th = call[p].th)}
                                          \cup {[pid |-> p, th |-> call[p].th, digest |-> f]}
                  /\ [pid |-> p, th |-> call[p].th, digest |-> f] \in inflight'
               \/ /\ ~Allows(f) /\ call'[p] = NoCall /\ UNCHANGED inflight
                  /\ dangling' = dangling \cup Dangles(p)
            /\ struck' = IF p \in inCell THEN struck ELSE struck \cup {"screened"}
            /\ call' \in [Pids -> CallSet \cup {NoCall}]
            /\ UNCHANGED <<screened, cgroup, inCell, image, commits>>
<1> DEFINE f == call[p].file
<1>1. /\ call[p].at = "check" /\ cgroup[p] = screened
      /\ Emit(p, f)
      /\ IF Allows(f) THEN Stash(p, f) ELSE UNCHANGED inflight
      /\ call' = [q \in Pids |->
                    CASE q = p /\ Allows(f)       -> Onward(call[p])
                      [] q = p /\ ~Allows(f)      -> NoCall
                      [] q # p /\ Overtaken(q)    -> [call[q] EXCEPT !.evicted = TRUE]
                      [] q # p /\ ~Overtaken(q)   -> call[q]]
      /\ dangling' = IF Allows(f) THEN dangling ELSE dangling \cup Dangles(p)
      /\ struck' = IF p \in inCell THEN struck ELSE struck \cup {"screened"}
      /\ UNCHANGED <<screened, cgroup, inCell, image, commits>>
  BY Zenon DEF EnforceExec
<1>2. call[p] \in CallSet
  BY <1>1, NoCallIsNone DEF ProcessTypes
<1>3. \A q \in Pids \ {p} : \/ call'[q] = call[q] /\ ~Overtaken(q)
                            \/ call'[q] = [call[q] EXCEPT !.evicted = TRUE] /\ Overtaken(q)
  <2> HIDE DEF f
  <2>1. ASSUME NEW q \in Pids \ {p}, Overtaken(q) PROVE call'[q] = [call[q] EXCEPT !.evicted = TRUE]
    BY <1>1, <2>1
  <2>2. ASSUME NEW q \in Pids \ {p}, ~Overtaken(q) PROVE call'[q] = call[q]
    BY <1>1, <2>2
  <2> QED BY <2>1, <2>2
<1>4. /\ Allows(f) => call'[p] = Onward(call[p])
      /\ ~Allows(f) => call'[p] = NoCall
  BY <1>1
<1>5. Allows(f) => /\ inflight' \subseteq {e \in inflight : ~(e.pid = p /\ e.th = call[p].th)}
                                          \cup {[pid |-> p, th |-> call[p].th, digest |-> f]}
                   /\ [pid |-> p, th |-> call[p].th, digest |-> f] \in inflight'
  <2> SUFFICES ASSUME Stash(p, f)
               PROVE  /\ inflight' \subseteq {e \in inflight : ~(e.pid = p /\ e.th = call[p].th)}
                                              \cup {[pid |-> p, th |-> call[p].th, digest |-> f]}
                      /\ [pid |-> p, th |-> call[p].th, digest |-> f] \in inflight'
    BY <1>1
  <2> QED BY Zenon DEF Stash
<1>6. call' \in [Pids -> CallSet \cup {NoCall}]
  <2>1. DOMAIN call' = Pids /\ call' = [q \in Pids |-> call'[q]]
    BY <1>1
  <2>2. ASSUME NEW q \in Pids PROVE call'[q] \in CallSet \cup {NoCall}
    <3>1. CASE q = p
      BY <1>2, <1>4, <3>1, OnwardType
    <3>2. CASE q # p /\ ~Overtaken(q)
      BY <1>3, <3>2 DEF ProcessTypes
    <3>3. CASE q # p /\ Overtaken(q)
      <4>1. call[q] \in CallSet
        BY <3>3 DEF Overtaken, ProcessTypes
      <4>2. call'[q] = [call[q] EXCEPT !.evicted = TRUE]
        BY <1>3, <3>3
      <4> QED BY <4>1, <4>2 DEF CallSet
    <3> QED BY <3>1, <3>2, <3>3
  <2> QED BY <2>1, <2>2
<1>7. events' = IF Len(events) < EventRoom THEN Append(events, ExecRecord(p, f)) ELSE events
  BY <1>1 DEF Emit
<1> QED BY <1>1, <1>2, <1>3, <1>4, <1>5, <1>6, <1>7

\* A process goes, or its exec is over.
LEMMA KilledStep ==
  ASSUME ProcessTypes, NEW p \in Pids, Killed(p)
  PROVE  /\ cgroup' \in [Pids -> Cgroups] /\ inCell' \subseteq Pids
         /\ image' \in [Pids -> SUBSET (Files \cup {Nothing})]
         /\ call' \in [Pids -> CallSet \cup {NoCall}]
         /\ cgroup'[p] = "none" /\ call'[p] = NoCall /\ p \notin inCell'
         /\ \A q \in Pids \ {p} : /\ cgroup'[q] = cgroup[q] /\ call'[q] = call[q]
                                  /\ image'[q] = image[q] /\ (q \in inCell' <=> q \in inCell)
BY DEF Killed, ProcessTypes, Cgroups

LEMMA CommitStep ==
  ASSUME ProcessTypes, NEW p \in Pids, Commit(p)
  PROVE  /\ call[p] \in CallSet /\ call[p].at = "passed"
         /\ inflight' = inflight \ Entry(p)
         /\ \/ p \notin inCell /\ UNCHANGED commits
            \/ cgroup[p] # screened /\ UNCHANGED commits
            \/ /\ p \in inCell /\ cgroup[p] = screened
               /\ commits' = commits \cup {[th |-> call[p].th, file |-> call[p].file,
                                            args |-> call[p].args, pid |-> p,
                                            evicted |-> call[p].evicted, killed |-> Kills(p),
                                            room |-> argvs < ArgvRoom]}
         /\ struck' = IF Kills(p) /\ p \notin inCell
                      THEN struck \cup {IF p \in dangling THEN "killed, dangling" ELSE "killed"}
                      ELSE struck
         /\ dangling' = dangling \ {p}
         /\ \/ Killed(p)
            \/ /\ image' = [image EXCEPT ![p] = {call[p].file} \cup call[p].script]
               /\ call' = [call EXCEPT ![p] = NoCall] /\ UNCHANGED <<cgroup, inCell>>
         /\ UNCHANGED <<screened, events>>
<1>1. call[p].at = "passed"
  BY DEF Commit
<1>2. call[p] \in CallSet
  BY <1>1, NoCallIsNone DEF ProcessTypes
<1>3. IF Kills(p) THEN Killed(p)
      ELSE /\ image' = [image EXCEPT ![p] = {call[p].file} \cup call[p].script]
           /\ call' = [call EXCEPT ![p] = NoCall]
           /\ UNCHANGED <<cgroup, inCell>>
  BY Zenon DEF Commit
<1>4. commits' = IF p \in inCell /\ cgroup[p] = screened
                 THEN commits \cup {[th |-> call[p].th, file |-> call[p].file,
                                     args |-> call[p].args, pid |-> p,
                                     evicted |-> call[p].evicted, killed |-> Kills(p),
                                     room |-> argvs < ArgvRoom]}
                 ELSE commits
  BY Zenon DEF Commit
<1>5. /\ inflight' = inflight \ Entry(p) /\ dangling' = dangling \ {p} /\ UNCHANGED <<screened, events>>
      /\ struck' = IF Kills(p) /\ p \notin inCell
                   THEN struck \cup {IF p \in dangling THEN "killed, dangling" ELSE "killed"}
                   ELSE struck
  BY Zenon DEF Commit
<1> QED BY <1>1, <1>2, <1>3, <1>4, <1>5

-----------------------------------------------------------------------------
(* What the processes do, while the wall stands.                           *)

LEMMA LateEarly ==
  ASSUME phase' \in Late
  PROVE  EarlyInv'
BY DEF EarlyInv, Late, Early

LEMMA ExecveInv ==
  ASSUME WallsCore, NEW p \in Pids, Execve(p), UNCHANGED <<prof, host, gaps, hooks>>,
         \/ UNCHANGED phase /\ phase \in Late /\ (Launcher(p) => phase = "running")
         \/ phase = "inside" /\ phase' = "running"
  PROVE  WallsCore'
<1> USE DEF WallsCore
<1>1. /\ Alive(p) /\ call[p] = NoCall
      /\ UNCHANGED <<screened, cgroup, inCell, image, inflight, events, dangling, struck, commits>>
  BY ExecveStep, Zenon
<1>2. PICK c \in CallSet : /\ c.at = "check" /\ c.script = {}
                           /\ call' = [call EXCEPT ![p] = c]
  BY ExecveStep, Zenon
<1>3. call'[p] = c /\ \A q \in Pids : q # p => call'[q] = call[q]
  BY <1>2 DEF ProcessTypes
<1>4. ProcessTypes'
  BY <1>1, <1>2 DEF ProcessTypes
<1>5. EarlyInv'
  BY LateEarly DEF Late
<1>6. ScreenInv'
  <2>1. \A q \in Pids : /\ ~Alive(q)' => call'[q] = NoCall /\ q \notin inCell'
                        /\ cgroup'[q] = "leaf" => q \in inCell'
    BY <1>1, <1>3 DEF ScreenInv, Alive
  <2>2. screened' # "none" => /\ hooks' = "wall" /\ \A q \in inCell' : cgroup'[q] = screened'
                              /\ screened' = "session" => "cgroups" \in gaps'
    BY <1>1 DEF ScreenInv
  <2>3. UNCHANGED phase /\ phase # "running" /\ OnlyLauncher => OnlyLauncher'
    BY <1>1, <1>3 DEF OnlyLauncher, Launcher, Late, ProcessTypes
  <2>4. /\ prof'.enforce /\ phase' \in {"inside", "running"} => screened' # "none"
        /\ prof'.enforce /\ phase' \in {"ended", "sighted"} => screened' # "none" \/ OnlyLauncher'
        /\ phase' = "refused" => OnlyLauncher'
    BY <1>1, <2>3 DEF ScreenInv
  <2> QED BY <2>1, <2>2, <2>4 DEF ScreenInv
<1>7. ApprovedInv'
  BY <1>1, <1>2, <1>3, NoCallIsNone DEF ApprovedInv, ProcessTypes
<1>8. StashInv'
  <2>1. \A q : Underway(q) /\ q \in Pids => Underway(q)'
    BY <1>1, <1>3 DEF Underway
  <2> QED BY <1>1, <2>1 DEF StashInv, EntrySet, ProcessTypes
<1>9. ToldInv'
  <2>1. \A q, f : Told(q, f)' <=> Told(q, f)
    BY <1>1 DEF Told
  <2>2. phase = "inside" => commits = {} /\ \A q \in Pids : call[q].at # "passed"
    BY NoCallIsNone DEF EarlyInv, Early
  <2>3. \A q \in Pids : call'[q].at = "passed" => call[q].at = "passed" /\ call'[q] = call[q]
    BY <1>2, <1>3
  <2> QED BY <1>1, <2>1, <2>2, <2>3 DEF ToldInv, Late
<1>10. EntryInv'
  BY <1>1, <1>2, <1>3 DEF EntryInv, Entry
<1>11. ScanDecides' /\ SparesTheRest'
  BY <1>1 DEF ScanDecides, SparesTheRest
<1> QED BY <1>4, <1>5, <1>6, <1>7, <1>8, <1>9, <1>10, <1>11

\* An execve goes: it fails, or its process ends.
LEMMA CallGoes ==
  ASSUME WallsCore, phase \in Late, WallSame, NEW p \in Pids,
         UNCHANGED <<screened, inflight, events, struck, commits>>,
         dangling' = dangling \cup Dangles(p),
         \/ Killed(p)
         \/ call' = [call EXCEPT ![p] = NoCall] /\ UNCHANGED <<cgroup, inCell, image>>
  PROVE  WallsCore'
<1> USE DEF WallsCore, WallSame
<1>1. /\ cgroup' \in [Pids -> Cgroups] /\ inCell' \subseteq inCell
      /\ image' \in [Pids -> SUBSET (Files \cup {Nothing})]
      /\ call' \in [Pids -> CallSet \cup {NoCall}]
      /\ call'[p] = NoCall
      /\ \A q \in Pids \ {p} : /\ cgroup'[q] = cgroup[q] /\ call'[q] = call[q]
                               /\ image'[q] = image[q] /\ (q \in inCell' <=> q \in inCell)
      /\ \/ cgroup'[p] = "none" /\ p \notin inCell'
         \/ cgroup'[p] = cgroup[p] /\ image'[p] = image[p] /\ (p \in inCell' <=> p \in inCell)
  <2>1. CASE Killed(p)
    BY <2>1, KilledStep DEF ProcessTypes
  <2>2. CASE call' = [call EXCEPT ![p] = NoCall] /\ UNCHANGED <<cgroup, inCell, image>>
    BY <2>2 DEF ProcessTypes
  <2> QED BY <2>1, <2>2
<1>2. ProcessTypes'
  BY <1>1 DEF ProcessTypes
<1>3. EarlyInv'
  BY LateEarly
<1>4. ScreenInv'
  <2>1. \A q \in Pids : /\ ~Alive(q)' => call'[q] = NoCall /\ q \notin inCell'
                        /\ cgroup'[q] = "leaf" => q \in inCell'
    BY <1>1 DEF ScreenInv, Alive
  <2>2. screened' # "none" => /\ hooks' = "wall" /\ \A q \in inCell' : cgroup'[q] = screened'
                              /\ screened' = "session" => "cgroups" \in gaps'
    BY <1>1 DEF ScreenInv, ProcessTypes
  <2>3. OnlyLauncher => OnlyLauncher'
    BY <1>1 DEF OnlyLauncher, ProcessTypes
  <2> QED BY <2>1, <2>2, <2>3 DEF ScreenInv
<1>5. ApprovedInv'
  BY <1>1, NoCallIsNone DEF ApprovedInv, ProcessTypes
<1>6. StashInv'
  <2>1. ASSUME NEW e \in inflight, e.th = "leader"
        PROVE  "cgroups" \in gaps \/ e.pid \in dangling' \/ Underway(e.pid)'
    <3>1. e.pid \in Pids /\ screened # "none"
      BY <2>1 DEF ProcessTypes, EntrySet, StashInv
    <3>2. "cgroups" \in gaps \/ e.pid \in dangling \/ Underway(e.pid)
      BY <2>1 DEF StashInv
    <3>3. CASE e.pid # p /\ Underway(e.pid)
      BY <1>1, <3>1, <3>3 DEF Underway
    <3>4. CASE e.pid = p /\ Underway(p)
      <4>1. cgroup[p] = screened
        BY <3>1, <3>4 DEF Underway, ScreenInv
      <4>2. p \in Dangles(p)
        BY <3>4, <4>1 DEF Underway, Dangles
      <4> QED BY <3>4, <4>2
    <3> QED BY <3>2, <3>3, <3>4
  <2> QED BY <2>1 DEF StashInv
<1>7. ToldInv'
  <2>1. \A q, f : Told(q, f)' <=> Told(q, f)
    BY DEF Told
  <2>2. \A q \in Pids : call'[q].at = "passed" /\ cgroup'[q] = screened' =>
                          call[q].at = "passed" /\ cgroup[q] = screened /\ call'[q] = call[q]
    BY <1>1, NoCallIsNone
  <2> QED BY <2>1, <2>2 DEF ToldInv
<1>8. EntryInv'
  <2>1. \A q \in Pids : call'[q].at = "passed" => q # p
    BY <1>1, NoCallIsNone
  <2>2. \A q \in Pids : Entry(q)' = Entry(q)
    BY DEF Entry
  <2> QED BY <1>1, <2>1, <2>2 DEF EntryInv
<1>9. ScanDecides' /\ SparesTheRest'
  BY DEF ScanDecides, SparesTheRest
<1> QED BY <1>2, <1>3, <1>4, <1>5, <1>6, <1>7, <1>8, <1>9

LEMMA EndsAndFails ==
  ASSUME WallsCore, phase \in Late, WallSame, NEW p \in Pids, ProcessEnds(p) \/ ExecFails(p)
  PROVE  WallsCore'
<1>1. CASE ProcessEnds(p)
  BY <1>1, CallGoes, Zenon DEF ProcessEnds, Gone, Kernel
<1>2. CASE ExecFails(p)
  BY <1>2, CallGoes, Zenon DEF ExecFails, Kernel
<1> QED BY <1>1, <1>2

LEMMA UnscreenedInv ==
  ASSUME WallsCore, phase \in Late, WallSame, NEW p \in Pids, Unscreened(p)
  PROVE  WallsCore'
<1> USE DEF WallsCore, WallSame
<1>1. /\ call[p].at = "check" /\ cgroup[p] # screened
      /\ call' = [call EXCEPT ![p] = Onward(call[p])]
      /\ UNCHANGED <<screened, cgroup, inCell, image, inflight, events, dangling, struck, commits>>
  BY Zenon DEF Unscreened, Kernel
<1>2. call[p] \in CallSet /\ Alive(p)
  BY <1>1, NoCallIsNone DEF ProcessTypes, ScreenInv
<1>3. /\ call' \in [Pids -> CallSet \cup {NoCall}] /\ call'[p] \in CallSet
      /\ \A q \in Pids : q # p => call'[q] = call[q]
  BY <1>1, <1>2, OnwardType DEF ProcessTypes
<1>4. ProcessTypes'
  BY <1>1, <1>3 DEF ProcessTypes
<1>5. EarlyInv'
  BY LateEarly
<1>6. screened # "none" => p \notin inCell
  BY <1>1 DEF ScreenInv
<1>7. OnlyLauncher => p \notin inCell
  BY <1>1, NoCallIsNone DEF OnlyLauncher
<1>8. ScreenInv'
  <2>1. \A q \in Pids : /\ ~Alive(q)' => call'[q] = NoCall /\ q \notin inCell'
                        /\ cgroup'[q] = "leaf" => q \in inCell'
    BY <1>1, <1>2, <1>3 DEF ScreenInv, Alive
  <2>2. screened' # "none" => /\ hooks' = "wall" /\ \A q \in inCell' : cgroup'[q] = screened'
                              /\ screened' = "session" => "cgroups" \in gaps'
    BY <1>1 DEF ScreenInv
  <2>3. OnlyLauncher => OnlyLauncher'
    BY <1>1, <1>3, <1>7 DEF OnlyLauncher, ProcessTypes
  <2> QED BY <1>1, <2>1, <2>2, <2>3 DEF ScreenInv
<1>9. ApprovedInv'
  BY <1>1, <1>3, <1>6 DEF ApprovedInv, ProcessTypes
<1>10. StashInv'
  <2>1. ASSUME NEW e \in inflight, e.th = "leader", Underway(e.pid) PROVE Underway(e.pid)'
    <3>1. e.pid \in Pids /\ screened # "none"
      BY <2>1 DEF ProcessTypes, EntrySet, StashInv
    <3>2. e.pid # p
      BY <1>6, <2>1, <3>1 DEF Underway
    <3> QED BY <1>1, <1>3, <2>1, <3>1, <3>2 DEF Underway
  <2> QED BY <1>1, <2>1 DEF StashInv
<1>11. ToldInv'
  <2>1. \A q, f : Told(q, f)' <=> Told(q, f)
    BY <1>1 DEF Told
  <2> QED BY <1>1, <1>3, <2>1 DEF ToldInv
<1>12. EntryInv'
  BY <1>1, <1>3 DEF EntryInv, Entry
<1>13. ScanDecides' /\ SparesTheRest'
  BY <1>1 DEF ScanDecides, SparesTheRest
<1> QED BY <1>4, <1>5, <1>8, <1>9, <1>10, <1>11, <1>12, <1>13

LEMMA EnforceInv ==
  ASSUME WallsCore, phase \in Late, WallSame, NEW p \in Pids, EnforceExec(p)
  PROVE  WallsCore'
<1> DEFINE f == call[p].file
           key == [pid |-> p, th |-> call[p].th, digest |-> f]
<1> USE DEF WallsCore, WallSame
<1>1. /\ call[p] \in CallSet /\ call[p].at = "check" /\ cgroup[p] = screened
      /\ events' = IF Len(events) < EventRoom THEN Append(events, ExecRecord(p, f)) ELSE events
      /\ \A q \in Pids \ {p} : \/ call'[q] = call[q] /\ ~Overtaken(q)
                               \/ call'[q] = [call[q] EXCEPT !.evicted = TRUE] /\ Overtaken(q)
      /\ \/ /\ Allows(f) /\ call'[p] = Onward(call[p]) /\ UNCHANGED dangling
            /\ inflight' \subseteq {e \in inflight : ~(e.pid = p /\ e.th = call[p].th)} \cup {key}
            /\ key \in inflight'
         \/ /\ ~Allows(f) /\ call'[p] = NoCall /\ UNCHANGED inflight
            /\ dangling' = dangling \cup Dangles(p)
      /\ struck' = IF p \in inCell THEN struck ELSE struck \cup {"screened"}
      /\ call' \in [Pids -> CallSet \cup {NoCall}]
      /\ UNCHANGED <<screened, cgroup, inCell, image, commits>>
  BY EnforceStep, Zenon
<1>2. f \in Files /\ call[p].th \in Threads /\ call[p] # NoCall
  BY <1>1, NoCallIsNone DEF CallSet
<1>3. key \in EntrySet
  BY <1>2 DEF EntrySet
<1>4. Alive(p) /\ screened # "none"
  BY <1>1, <1>2 DEF ScreenInv, Alive
<1>5. Allows(f) => f \in Approved /\ DigestOf(f) = f
  BY DEF Allows, DigestOf
<1>6. /\ \A q \in Pids \ {p} :
           /\ call'[q].at = call[q].at /\ (call'[q] # NoCall <=> call[q] # NoCall)
           /\ call[q] # NoCall => /\ call'[q].th = call[q].th /\ call'[q].file = call[q].file
                                  /\ call'[q].script = call[q].script
                                  /\ ~call'[q].evicted => ~call[q].evicted /\ ~Overtaken(q)
  <2>1. ASSUME NEW q \in Pids \ {p}, Overtaken(q)
        PROVE  /\ call[q] \in CallSet /\ call'[q] \in CallSet /\ call'[q].evicted
               /\ call'[q].at = call[q].at
               /\ call'[q].th = call[q].th /\ call'[q].file = call[q].file
               /\ call'[q].script = call[q].script
    <3>1. call[q] \in CallSet
      BY <2>1 DEF Overtaken, ProcessTypes
    <3>2. call'[q] = [call[q] EXCEPT !.evicted = TRUE]
      BY <1>1, <2>1, Zenon
    <3> QED BY <3>1, <3>2 DEF CallSet
  <2>2. ASSUME NEW q \in Pids \ {p}, ~Overtaken(q) PROVE call'[q] = call[q]
    BY <1>1, <2>2
  <2> QED BY <2>1, <2>2, NoCallIsNone
<1> HIDE DEF key
<1>7. ProcessTypes'
  <2>1. inflight' \subseteq EntrySet
    BY <1>1, <1>3 DEF ProcessTypes
  <2>2. ExecRecord(p, f) \in RecordSet
    BY <1>2 DEF ExecRecord, DigestOf, Allows, RecordSet
  <2>3. events' \in Seq(RecordSet)
    <3>1. \/ events' = events \/ events' = Append(events, ExecRecord(p, f))
      BY <1>1
    <3> QED BY <2>2, <3>1 DEF ProcessTypes
  <2> QED BY <1>1, <2>1, <2>3 DEF ProcessTypes
<1>8. EarlyInv'
  BY LateEarly
<1>9. ScreenInv'
  <2>1. \A q \in Pids : /\ ~Alive(q)' => call'[q] = NoCall /\ q \notin inCell'
                        /\ cgroup'[q] = "leaf" => q \in inCell'
    BY <1>1, <1>4, <1>6 DEF ScreenInv, Alive
  <2>2. screened' # "none" => /\ hooks' = "wall" /\ \A q \in inCell' : cgroup'[q] = screened'
                              /\ screened' = "session" => "cgroups" \in gaps'
    BY <1>1 DEF ScreenInv
  <2>3. OnlyLauncher => OnlyLauncher'
    BY <1>1, <1>2, <1>6 DEF OnlyLauncher, ProcessTypes
  <2> QED BY <1>1, <2>1, <2>2, <2>3 DEF ScreenInv
<1>10. Allows(f) => /\ call'[p] \in CallSet /\ call'[p].th = call[p].th
                    /\ call'[p].evicted = call[p].evicted
                    /\ \/ /\ call'[p].at = "passed" /\ call'[p].file = f
                          /\ call'[p].script = call[p].script
                       \/ call'[p].at = "check" /\ call'[p].script = {f}
  BY <1>1, NoCallIsNone, OnwardType
<1>11. ApprovedInv'
  <2>1. ASSUME NEW q \in inCell
        PROVE  /\ call'[q] # NoCall => call'[q].script \subseteq Approved
               /\ call'[q].at = "passed" => call'[q].file \in Approved
    <3>1. /\ call[q] # NoCall => call[q].script \subseteq Approved
          /\ call[q].at = "passed" => call[q].file \in Approved
          /\ q \in Pids
      BY <1>4 DEF ApprovedInv, ProcessTypes
    <3>2. CASE q # p
      BY <1>6, <3>1, <3>2, NoCallIsNone
    <3>3. CASE q = p /\ Allows(f)
      BY <1>2, <1>5, <1>10, <3>1, <3>3
    <3>4. CASE q = p /\ ~Allows(f)
      BY <1>1, <3>4, NoCallIsNone
    <3> QED BY <3>2, <3>3, <3>4
  <2> QED BY <1>1, <2>1 DEF ApprovedInv
<1>12. p \in inCell \/ "cgroups" \in gaps
  <2>1. CASE p \notin inCell
    <3>1. cgroup[p] = "session"
      BY <1>4, <2>1 DEF ScreenInv, ProcessTypes, Cgroups, Alive
    <3> QED BY <1>1, <1>4, <3>1 DEF ScreenInv
  <2> QED BY <2>1
<1>13. StashInv'
  <2>1. ASSUME NEW e \in inflight', e.th = "leader", "cgroups" \notin gaps
        PROVE  e.pid \in dangling' \/ Underway(e.pid)'
    <3>0. p \in inCell
      BY <1>12, <2>1
    <3>1. CASE e = key
      <4>1. e.pid = p /\ call[p].th = "leader"
        BY <2>1, <3>1 DEF key
      <4>2. CASE Allows(f)
        <5>1. Underway(p)'
          BY <1>1, <1>10, <3>0, <4>1, <4>2, NoCallIsNone DEF Underway
        <5> QED BY <4>1, <5>1
      <4>3. CASE ~Allows(f)
        <5>1. e \in inflight
          BY <1>1, <4>3
        <5>2. p \in dangling \/ Underway(p)
          BY <2>1, <4>1, <5>1 DEF StashInv
        <5>3. Underway(p) => p \in Dangles(p)
          BY <1>1 DEF Underway, Dangles
        <5> QED BY <1>1, <4>1, <4>3, <5>2, <5>3
      <4> QED BY <4>2, <4>3
    <3>2. CASE e # key
      <4>1. e \in inflight /\ e.pid \in Pids /\ (Allows(f) => ~(e.pid = p /\ e.th = call[p].th))
        BY <1>1, <1>7, <2>1, <3>2 DEF ProcessTypes, EntrySet
      <4>2. e.pid \in dangling \/ Underway(e.pid)
        BY <2>1, <4>1 DEF StashInv
      <4>3. CASE e.pid # p
        BY <1>1, <1>6, <4>1, <4>2, <4>3 DEF Underway
      <4>4. CASE e.pid = p /\ ~Allows(f)
        <5>1. Underway(p) => p \in Dangles(p)
          BY <1>1 DEF Underway, Dangles
        <5> QED BY <1>1, <4>2, <4>4, <5>1
      <4>5. CASE e.pid = p /\ Allows(f)
        BY <1>1, <2>1, <4>1, <4>2, <4>5 DEF Underway
      <4> QED BY <4>3, <4>4, <4>5
    <3> QED BY <3>1, <3>2
  <2> QED BY <1>1, <1>4, <2>1 DEF StashInv
<1>14. ToldInv'
  <2>1. events \in Seq(RecordSet)
    BY DEF ProcessTypes
  <2>2. Len(events') <= EventRoom
    BY <1>1, <2>1, LsmAssumption DEF ToldInv
  <2>3. CASE ~(Len(events) < EventRoom)
    <3>1. events' = events /\ Len(events) = EventRoom
      BY <1>1, <2>1, <2>3, LsmAssumption DEF ToldInv
    <3> QED BY <1>1, <1>4, <2>2, <3>1 DEF ToldInv
  <2>4. CASE Len(events) < EventRoom
    <3>1. events' = Append(events, ExecRecord(p, f))
      BY <1>1, <2>4
    <3>2. ToSet(events') = ToSet(events) \cup {ExecRecord(p, f)}
      <4>1. /\ Len(events') = Len(events) + 1 /\ events'[Len(events) + 1] = ExecRecord(p, f)
            /\ \A i \in 1..Len(events) : events'[i] = events[i]
            /\ DOMAIN events = 1..Len(events) /\ DOMAIN events' = 1..(Len(events) + 1)
            /\ Len(events) \in Nat
        <5>1. ExecRecord(p, f) \in RecordSet
          BY <1>2 DEF ExecRecord, DigestOf, Allows, RecordSet
        <5> QED BY <2>1, <3>1, <5>1
      <4> QED BY <4>1 DEF ToSet
    <3>3. \A q, g : Told(q, g) => Yes(q, g) \in ToSet(events')
      BY <3>2 DEF Told
    <3>4. Allows(f) => Yes(p, f) \in ToSet(events')
      <4>1. Allows(f) => ExecRecord(p, f) = Yes(p, f)
        BY <1>5 DEF ExecRecord, Yes
      <4> QED BY <3>2, <4>1
    <3>5. ASSUME NEW q \in Pids, call'[q].at = "passed", cgroup'[q] = screened',
                 ~(Len(events) = EventRoom), phase \in {"running", "refused", "ended"}
          PROVE  Yes(q, call'[q].file) \in ToSet(events')
      <4>1. CASE q = p
        <5>1. Allows(f)
          BY <1>1, <3>5, <4>1, NoCallIsNone
        <5> QED BY <1>10, <3>4, <3>5, <4>1, <5>1
      <4>2. CASE q # p
        <5>1. call[q].at = "passed" /\ cgroup[q] = screened /\ call'[q].file = call[q].file
          BY <1>1, <1>6, <3>5, <4>2, NoCallIsNone
        <5>2. Told(q, call[q].file)
          BY <3>5, <5>1 DEF ToldInv
        <5> QED BY <3>3, <5>1, <5>2
      <4> QED BY <4>1, <4>2
    <3>6. phase \in {"running", "refused", "ended"} =>
            \/ Len(events') = EventRoom
            \/ /\ \A c \in commits' : Yes(c.pid, c.file) \in ToSet(events')
               /\ \A q \in Pids : call'[q].at = "passed" /\ cgroup'[q] = screened' =>
                                    Yes(q, call'[q].file) \in ToSet(events')
      BY <1>1, <2>4, <3>3, <3>5, LsmAssumption DEF ToldInv
    <3> QED BY <1>1, <1>4, <2>2, <3>6, Zenon DEF ToldInv, Told
  <2> QED BY <2>3, <2>4
<1>15. EntryInv'
  <2>1. ASSUME NEW q \in Pids, cgroup[q] = screened, call'[q].at = "passed",
               call'[q].th = "leader", ~call'[q].evicted
        PROVE  Entry(q)' = {[pid |-> q, th |-> "leader", digest |-> call'[q].file]}
    <3>1. CASE q = p
      <4>1. Allows(f) /\ call'[p].file = f /\ call[p].th = "leader"
        BY <1>1, <1>10, <2>1, <3>1, NoCallIsNone
      <4>2. key = [pid |-> q, th |-> "leader", digest |-> call'[q].file]
        BY <3>1, <4>1 DEF key
      <4>3. \A e \in inflight' : e.pid = p /\ e.th = "leader" <=> e = key
        BY <1>1, <4>1, <4>2, <3>1
      <4> QED BY <1>1, <3>1, <4>1, <4>2, <4>3 DEF Entry
    <3>2. CASE q # p
      <4>1. /\ call[q].at = "passed" /\ call[q].th = "leader" /\ ~call[q].evicted
            /\ ~Overtaken(q) /\ call'[q].file = call[q].file /\ call[q] # NoCall
        BY <1>6, <2>1, <3>2, NoCallIsNone
      <4>2. Entry(q) = {[pid |-> q, th |-> "leader", digest |-> call[q].file]}
        BY <1>4, <2>1, <4>1 DEF EntryInv
      <4>3. \A e \in inflight : e.pid = q /\ e.th = "leader" => e \in inflight'
        BY <4>1 DEF Overtaken
      <4>4. \A e \in inflight' : e.pid = q => e \in inflight
        BY <1>1, <3>2 DEF key
      <4> QED BY <4>1, <4>2, <4>3, <4>4 DEF Entry
    <3> QED BY <3>1, <3>2
  <2> QED BY <1>1, <2>1 DEF EntryInv
<1>16. ScanDecides' /\ SparesTheRest'
  BY <1>1, <1>12 DEF ScanDecides, SparesTheRest
<1> QED BY <1>7, <1>8, <1>9, <1>11, <1>13, <1>14, <1>15, <1>16

LEMMA CommitInv ==
  ASSUME WallsCore, phase \in Late, WallSame, NEW p \in Pids, Commit(p)
  PROVE  WallsCore'
<1> DEFINE new == [th |-> call[p].th, file |-> call[p].file, args |-> call[p].args, pid |-> p,
                   evicted |-> call[p].evicted, killed |-> Kills(p), room |-> argvs < ArgvRoom]
<1> USE DEF WallsCore, WallSame
<1>1. /\ call[p] \in CallSet /\ call[p].at = "passed"
      /\ inflight' = inflight \ Entry(p)
      /\ \/ p \notin inCell /\ UNCHANGED commits
         \/ cgroup[p] # screened /\ UNCHANGED commits
         \/ p \in inCell /\ cgroup[p] = screened /\ commits' = commits \cup {new}
      /\ struck' = IF Kills(p) /\ p \notin inCell
                   THEN struck \cup {IF p \in dangling THEN "killed, dangling" ELSE "killed"}
                   ELSE struck
      /\ dangling' = dangling \ {p}
      /\ \/ Killed(p)
         \/ /\ image' = [image EXCEPT ![p] = {call[p].file} \cup call[p].script]
            /\ call' = [call EXCEPT ![p] = NoCall] /\ UNCHANGED <<cgroup, inCell>>
      /\ UNCHANGED <<screened, events>>
  BY CommitStep, Zenon
<1> HIDE DEF new
<1>2. call[p] # NoCall /\ Alive(p) /\ call[p].file \in Files /\ call[p].script \subseteq Files
  BY <1>1, NoCallIsNone DEF ScreenInv, CallSet
<1>3. /\ cgroup' \in [Pids -> Cgroups] /\ inCell' \subseteq inCell
      /\ image' \in [Pids -> SUBSET (Files \cup {Nothing})]
      /\ call' \in [Pids -> CallSet \cup {NoCall}]
      /\ call'[p] = NoCall
      /\ \A q \in Pids \ {p} : /\ cgroup'[q] = cgroup[q] /\ call'[q] = call[q]
                               /\ image'[q] = image[q] /\ (q \in inCell' <=> q \in inCell)
      /\ \/ cgroup'[p] = "none" /\ p \notin inCell'
         \/ /\ cgroup'[p] = cgroup[p] /\ (p \in inCell' <=> p \in inCell)
            /\ image'[p] = {call[p].file} \cup call[p].script
  <2>1. CASE Killed(p)
    BY <2>1, KilledStep DEF ProcessTypes
  <2>2. CASE /\ image' = [image EXCEPT ![p] = {call[p].file} \cup call[p].script]
             /\ call' = [call EXCEPT ![p] = NoCall] /\ UNCHANGED <<cgroup, inCell>>
    BY <1>2, <2>2 DEF ProcessTypes
  <2> QED BY <1>1, <2>1, <2>2
<1>4. ProcessTypes'
  BY <1>1, <1>3 DEF ProcessTypes
<1>5. EarlyInv'
  BY LateEarly
<1>6. ScreenInv'
  <2>1. \A q \in Pids : /\ ~Alive(q)' => call'[q] = NoCall /\ q \notin inCell'
                        /\ cgroup'[q] = "leaf" => q \in inCell'
    BY <1>2, <1>3 DEF ScreenInv, Alive
  <2>2. screened' # "none" => /\ hooks' = "wall" /\ \A q \in inCell' : cgroup'[q] = screened'
                              /\ screened' = "session" => "cgroups" \in gaps'
    BY <1>1, <1>3 DEF ScreenInv, ProcessTypes
  <2>3. OnlyLauncher => OnlyLauncher'
    BY <1>2, <1>3 DEF OnlyLauncher, ProcessTypes
  <2> QED BY <1>1, <2>1, <2>2, <2>3 DEF ScreenInv
<1>7. ApprovedInv'
  <2>1. ASSUME NEW q \in inCell', screened # "none"
        PROVE  /\ image'[q] \subseteq Approved \cup {Nothing}
               /\ call'[q] # NoCall => call'[q].script \subseteq Approved
               /\ call'[q].at = "passed" => call'[q].file \in Approved
    <3>1. /\ q \in Pids /\ image[q] \subseteq Approved \cup {Nothing}
          /\ call[q] # NoCall => call[q].script \subseteq Approved
          /\ call[q].at = "passed" => call[q].file \in Approved
      BY <1>3, <2>1 DEF ApprovedInv, ProcessTypes
    <3>2. CASE q # p
      BY <1>3, <3>1, <3>2
    <3>3. CASE q = p
      BY <1>1, <1>2, <1>3, <2>1, <3>1, <3>3, NoCallIsNone
    <3> QED BY <3>2, <3>3
  <2> QED BY <1>1, <2>1 DEF ApprovedInv
<1>8. StashInv'
  <2>1. ASSUME NEW e \in inflight', e.th = "leader", "cgroups" \notin gaps
        PROVE  e.pid \in dangling' \/ Underway(e.pid)'
    <3>1. e \in inflight /\ e.pid \in Pids /\ e.pid # p
      BY <1>1, <2>1 DEF Entry, ProcessTypes, EntrySet
    <3>2. e.pid \in dangling \/ Underway(e.pid)
      BY <2>1, <3>1 DEF StashInv
    <3> QED BY <1>1, <1>3, <3>1, <3>2 DEF Underway
  <2> QED BY <1>1, <2>1 DEF StashInv
<1>9. ToldInv'
  <2>1. \A q, f : Told(q, f)' <=> Told(q, f)
    BY <1>1 DEF Told, Yes
  <2>2. \A q \in Pids : call'[q].at = "passed" /\ cgroup'[q] = screened' =>
                          call[q].at = "passed" /\ cgroup[q] = screened /\ call'[q] = call[q]
    BY <1>1, <1>3, NoCallIsNone
  <2>3. commits' = commits \/ /\ commits' = commits \cup {new} /\ screened # "none"
                              /\ cgroup[p] = screened
    BY <1>1, <1>2 DEF Alive
  <2>4. new.pid = p /\ new.file = call[p].file
    BY DEF new
  <2>5. ASSUME phase \in {"running", "refused", "ended"}, Len(events) # EventRoom,
               NEW c \in commits'
        PROVE  Told(c.pid, c.file)
    <3>1. CASE c \in commits
      BY <2>5, <3>1 DEF ToldInv
    <3>2. CASE c \notin commits
      BY <1>1, <2>3, <2>4, <2>5, <3>2 DEF ToldInv
    <3> QED BY <3>1, <3>2
  <2> QED BY <1>1, <2>1, <2>2, <2>3, <2>5 DEF ToldInv
<1>10. EntryInv'
  <2>1. \A q \in Pids : call'[q].at = "passed" => q # p
    BY <1>3, NoCallIsNone
  <2>2. \A q \in Pids : q # p => Entry(q)' = Entry(q)
    BY <1>1 DEF Entry
  <2> QED BY <1>1, <1>3, <2>1, <2>2 DEF EntryInv
<1>11. ScanDecides'
  <2>1. ASSUME p \in inCell, cgroup[p] = screened, new.th = "leader", new.room, ~new.evicted
        PROVE  new.killed <=> KernelKills(new.file, new.args)
    <3>1. /\ new.th = call[p].th /\ new.file = call[p].file /\ new.args = call[p].args
          /\ (new.evicted <=> call[p].evicted)
      BY DEF new
    <3>2. (new.killed <=> Kills(p)) /\ (new.room <=> argvs < ArgvRoom)
      BY Zenon DEF new
    <3>3. screened # "none"
      BY <1>2, <2>1 DEF Alive
    <3>4. Entry(p) = {[pid |-> p, th |-> "leader", digest |-> call[p].file]}
      BY <1>1, <2>1, <3>1, <3>3 DEF EntryInv
    <3>5. argvs < ArgvRoom
      BY <2>1, <3>2
    <3>6. Kills(p) <=> KernelKills(call[p].file, call[p].args)
      <4> DEFINE e == [pid |-> p, th |-> "leader", digest |-> call[p].file]
      <4>1. Entry(p) = {e} /\ e.digest = call[p].file
        BY <3>4
      <4> HIDE DEF e
      <4> QED BY <3>5, <4>1, Zenon DEF Kills, Reports
    <3> QED BY <3>1, <3>2, <3>6
  <2>2. \A c \in commits' : c \in commits \/ (c = new /\ p \in inCell /\ cgroup[p] = screened)
    BY <1>1
  <2> QED BY <2>1, <2>2, Zenon DEF ScanDecides
<1>12. SparesTheRest'
  <2>1. ASSUME Kills(p), p \notin inCell, p \notin dangling PROVE "cgroups" \in gaps
    <3>1. PICK e \in Entry(p) : TRUE
      BY <2>1 DEF Kills
    <3>2. e \in inflight /\ e.pid = p /\ e.th = "leader"
      BY <3>1 DEF Entry
    <3> QED BY <2>1, <3>2 DEF StashInv, Underway
  <2>2. {"screened", "killed"} \cap struck' # {} =>
          \/ {"screened", "killed"} \cap struck # {}
          \/ Kills(p) /\ p \notin inCell /\ p \notin dangling
    BY <1>1
  <2> QED BY <2>1, <2>2 DEF SparesTheRest
<1> QED BY <1>4, <1>5, <1>6, <1>7, <1>8, <1>9, <1>10, <1>11, <1>12

\* A new process, in the cell or outside.
LEMMA BornInv ==
  ASSUME WallsCore, phase \in Late, WallSame, NEW q \in Pids, ~Alive(q),
         UNCHANGED <<screened, call, inflight, events, dangling, struck, commits>>,
         \/ \E p \in inCell : /\ Alive(p) /\ Nothing \notin image[p]
                              /\ cgroup' = [cgroup EXCEPT ![q] = cgroup[p]]
                              /\ inCell' = inCell \cup {q}
                              /\ image' = [image EXCEPT ![q] = image[p]]
         \/ /\ cgroup' = [cgroup EXCEPT ![q] = "session"] /\ UNCHANGED inCell
            /\ image' = [image EXCEPT ![q] = {Nothing}]
  PROVE  WallsCore'
<1> USE DEF WallsCore, WallSame
<1>1. call[q] = NoCall /\ q \notin inCell
  BY DEF ScreenInv
<1>2. /\ cgroup' \in [Pids -> Cgroups] /\ inCell' \subseteq Pids
      /\ image' \in [Pids -> SUBSET (Files \cup {Nothing})]
      /\ inCell \subseteq inCell' /\ inCell' \subseteq inCell \cup {q}
      /\ cgroup'[q] # "none"
      /\ \A r \in Pids \ {q} : cgroup'[r] = cgroup[r] /\ image'[r] = image[r]
      /\ \/ q \notin inCell' /\ cgroup'[q] = "session"
         \/ \E p \in inCell : /\ p # q /\ Nothing \notin image[p]
                              /\ cgroup'[q] = cgroup[p] /\ image'[q] = image[p]
                              /\ q \in inCell'
  <2>1. CASE \E p \in inCell : /\ Alive(p) /\ Nothing \notin image[p]
                               /\ cgroup' = [cgroup EXCEPT ![q] = cgroup[p]]
                               /\ inCell' = inCell \cup {q}
                               /\ image' = [image EXCEPT ![q] = image[p]]
    <3>1. PICK p \in inCell : /\ Alive(p) /\ Nothing \notin image[p]
                              /\ cgroup' = [cgroup EXCEPT ![q] = cgroup[p]]
                              /\ inCell' = inCell \cup {q}
                              /\ image' = [image EXCEPT ![q] = image[p]]
      BY <2>1
    <3>2. p \in Pids /\ p # q /\ cgroup[p] \in Cgroups /\ cgroup[p] # "none"
          /\ image[p] \in SUBSET (Files \cup {Nothing})
      BY <1>1, <3>1 DEF ProcessTypes, Alive
    <3> QED BY <1>1, <3>1, <3>2 DEF ProcessTypes
  <2>2. CASE /\ cgroup' = [cgroup EXCEPT ![q] = "session"] /\ UNCHANGED inCell
             /\ image' = [image EXCEPT ![q] = {Nothing}]
    BY <1>1, <2>2 DEF ProcessTypes, Cgroups
  <2> QED BY <2>1, <2>2
<1>3. ProcessTypes'
  BY <1>2 DEF ProcessTypes
<1>4. EarlyInv'
  BY LateEarly
<1>5. ScreenInv'
  <2>1. \A r \in Pids : /\ ~Alive(r)' => call'[r] = NoCall /\ r \notin inCell'
                        /\ cgroup'[r] = "leaf" => r \in inCell'
    BY <1>1, <1>2 DEF ScreenInv, Alive
  <2>2. screened' # "none" => /\ hooks' = "wall" /\ \A r \in inCell' : cgroup'[r] = screened'
                              /\ screened' = "session" => "cgroups" \in gaps'
    BY <1>1, <1>2 DEF ScreenInv, ProcessTypes
  <2>3. OnlyLauncher => OnlyLauncher'
    BY <1>1, <1>2 DEF OnlyLauncher, ProcessTypes
  <2> QED BY <2>1, <2>2, <2>3 DEF ScreenInv
<1>6. ApprovedInv'
  BY <1>1, <1>2, NoCallIsNone DEF ApprovedInv, ProcessTypes
<1>7. StashInv'
  <2>1. \A r : Underway(r) => Underway(r)'
    BY <1>2 DEF Underway
  <2> QED BY <2>1 DEF StashInv
<1>8. ToldInv'
  <2>1. \A r, f : Told(r, f)' <=> Told(r, f)
    BY DEF Told, Yes
  <2>2. \A r \in Pids : call[r].at = "passed" => r # q
    BY <1>1, NoCallIsNone
  <2> QED BY <1>2, <2>1, <2>2 DEF ToldInv
<1>9. EntryInv'
  <2>1. \A r \in Pids : call[r].at = "passed" => r # q
    BY <1>1, NoCallIsNone
  <2>2. \A r \in Pids : Entry(r)' = Entry(r)
    BY DEF Entry
  <2> QED BY <1>2, <2>1, <2>2 DEF EntryInv
<1>10. ScanDecides' /\ SparesTheRest'
  BY DEF ScanDecides, SparesTheRest
<1> QED BY <1>3, <1>4, <1>5, <1>6, <1>7, <1>8, <1>9, <1>10

LEMMA ProcessInvStep ==
  ASSUME WallsCore, CellAct \/ Leaves \/ OutsiderComes
  PROVE  WallsCore'
<1>1. phase \in Late /\ WallSame
  BY DEF CellAct, Leaves, OutsiderComes, Running, Late, WallSame, Rest, connVars, wallVars
<1>2. CASE CellAct
  <2>1. PICK p \in Pids :
          \/ (Launcher(p) => phase = "running") /\ Execve(p)
          \/ EnforceExec(p) \/ Unscreened(p) \/ ExecFails(p) \/ Commit(p)
          \/ \E q \in Pids : Fork(p, q)
    BY <1>2 DEF CellAct
  <2>2. ASSUME NEW q \in Pids, Fork(p, q) PROVE WallsCore'
    <3>1. /\ p \in inCell /\ Alive(p) /\ Nothing \notin image[p] /\ ~Alive(q)
          /\ UNCHANGED <<screened, call, inflight, events, dangling, struck, commits>>
          /\ cgroup' = [cgroup EXCEPT ![q] = cgroup[p]]
          /\ inCell' = inCell \cup {q}
          /\ image' = [image EXCEPT ![q] = image[p]]
      BY <2>2, Zenon DEF Fork, NewPid, Kernel
    <3> QED BY <1>1, <3>1, BornInv
  <2>3. ASSUME Launcher(p) => phase = "running", Execve(p) PROVE WallsCore'
    BY <1>1, <2>3, ExecveInv DEF WallSame
  <2> QED BY <1>1, <2>1, <2>2, <2>3, EnforceInv, UnscreenedInv, EndsAndFails, CommitInv
<1>3. CASE Leaves
  BY <1>1, <1>3, EndsAndFails DEF Leaves
<1>4. CASE OutsiderComes
  <2>1. PICK q \in Pids : Outsider(q)
    BY <1>4 DEF OutsiderComes
  <2>2. /\ ~Alive(q)
        /\ UNCHANGED <<screened, call, inflight, events, dangling, struck, commits>>
        /\ cgroup' = [cgroup EXCEPT ![q] = "session"] /\ UNCHANGED inCell
        /\ image' = [image EXCEPT ![q] = {Nothing}]
    BY <2>1, Zenon DEF Outsider, NewPid, Kernel
  <2> QED BY <1>1, <2>2, BornInv
<1> QED BY <1>2, <1>3, <1>4

-----------------------------------------------------------------------------
(* The building of the walls, and their end.                               *)

\* No process acts.
LEMMA ProcessesRest ==
  ASSUME WallsCore, UNCHANGED <<lsmVars, gaps, prof, host>>, screened # "none" => hooks' = hooks,
         EarlyInv',
         prof.enforce /\ phase' \in {"inside", "running"} => screened # "none",
         prof.enforce /\ phase' \in {"ended", "sighted"} => screened # "none" \/ OnlyLauncher,
         phase' = "refused" => OnlyLauncher,
         screened = "none" /\ phase' # "drained" /\ phase' # "over" => commits = {},
         phase' \in {"running", "refused", "ended"} =>
           \/ Len(events) = EventRoom
           \/ /\ \A c \in commits : Told(c.pid, c.file)
              /\ \A p \in Pids : call[p].at = "passed" /\ cgroup[p] = screened =>
                                    Told(p, call[p].file)
  PROVE  WallsCore'
<1> USE DEF WallsCore
<1>1. UNCHANGED <<screened, cgroup, inCell, image, call, inflight, events, argvs, dangling, struck,
                  commits, gaps, prof, host>>
  BY Zenon DEF lsmVars
<1>2. ProcessTypes' /\ EarlyInv'
  BY <1>1 DEF ProcessTypes
<1>3. OnlyLauncher' <=> OnlyLauncher
  BY <1>1, Zenon DEF OnlyLauncher
<1>4. ScreenInv'
  BY <1>1, <1>3 DEF ScreenInv, Alive
<1>5. ApprovedInv'
  BY <1>1, Zenon DEF ApprovedInv
<1>6. StashInv'
  BY <1>1, Zenon DEF StashInv, Underway
<1>7. \A p, f : Told(p, f)' <=> Told(p, f)
  BY <1>1 DEF Told, Yes
<1>8. ToldInv'
  BY <1>1, <1>7 DEF ToldInv
<1>9. EntryInv'
  BY <1>1, Zenon DEF EntryInv, Entry
<1>10. ScanDecides' /\ SparesTheRest'
  BY <1>1, Zenon DEF ScanDecides, SparesTheRest
<1> QED BY <1>2, <1>4, <1>5, <1>6, <1>8, <1>9, <1>10

LEMMA PhaseStays ==
  ASSUME WallsCore, UNCHANGED <<lsmVars, gaps, prof, host, phase, hooks>>
  PROVE  WallsCore'
<1> USE DEF WallsCore
<1>1. UNCHANGED <<screened, cgroup, inCell, image, call, inflight, events, struck, commits, gaps,
                  prof, host, phase, hooks>>
  BY Zenon DEF lsmVars
<1>2. EarlyInv'
  BY <1>1 DEF EarlyInv, Alive, Backend
<1> QED BY <1>1, <1>2, ProcessesRest DEF ScreenInv, ToldInv

\* As long as the agent does not run there is not much to say.
EarlyPart ==
  /\ ProcessTypes /\ EarlyInv /\ phase \in Early
  /\ \A p \in Pids : ~Alive(p) => p \notin inCell
  /\ \A p \in Pids : cgroup[p] = "leaf" => p \in inCell
  /\ screened # "none" => /\ hooks = "wall" /\ cgroup[Child] = screened
                          /\ screened = "session" => "cgroups" \in gaps
  /\ prof.enforce /\ phase = "inside" => screened # "none"

LEMMA EarlyCore == EarlyPart => WallsCore
<1> SUFFICES ASSUME EarlyPart PROVE WallsCore
  OBVIOUS
<1> USE DEF EarlyPart
<1>1. /\ inCell = {Child} /\ image[Child] = {Nothing}
      /\ \A p \in Pids : call[p] = NoCall
      /\ inflight = {} /\ commits = {} /\ struck = {} /\ events = <<>>
  BY DEF EarlyInv
<1>2. \A p \in Pids : call[p].at = "none"
  BY <1>1, NoCallIsNone
<1>3. ScreenInv
  BY <1>1 DEF ScreenInv, Early
<1>4. ApprovedInv
  BY <1>1, <1>2, WallsAssumption DEF ApprovedInv
<1>5. StashInv
  BY <1>1 DEF StashInv
<1>6. ToldInv
  BY <1>1, LsmAssumption DEF ToldInv, Early
<1>7. EntryInv
  BY <1>2 DEF EntryInv
<1>8. ScanDecides /\ SparesTheRest
  BY <1>1, Zenon DEF ScanDecides, SparesTheRest
<1> QED BY <1>3, <1>4, <1>5, <1>6, <1>7, <1>8 DEF WallsCore

LEMMA EarlyCoreNext == EarlyPart' => WallsCore'
BY EarlyCore, PTL

LEMMA WallsInitCore == WallsInit => WallsCore
<1> SUFFICES ASSUME WallsInit PROVE WallsCore
  OBVIOUS
<1>1. /\ screened = "none" /\ phase = "build" /\ hooks = "none"
      /\ cgroup = [p \in Pids |-> IF p = Child THEN "session" ELSE "none"]
      /\ inCell = {Child} /\ image = [p \in Pids |-> {Nothing}] /\ call = [p \in Pids |-> NoCall]
      /\ inflight = {} /\ events = <<>> /\ struck = {} /\ commits = {}
  BY Zenon DEF WallsInit, LsmInit, ConnInit
<1>2. ProcessTypes
  BY <1>1, WallsAssumption DEF ProcessTypes, Cgroups
<1>3. EarlyInv
  BY <1>1, WallsAssumption DEF EarlyInv, Early, Alive
<1> QED BY <1>1, <1>2, <1>3, WallsAssumption, EarlyCore DEF EarlyPart, Early, Alive

\* A step that builds a wall.
LEMMA BuildStep ==
  ASSUME WallsCore,
         \/ EnsureExecSupported \/ JoinCgroup \/ MountsUnread
         \/ Wire \/ NoUplink \/ AttachExecWall \/ AttachTracker
  PROVE  WallsCore'
<1> USE DEF WallsCore
<1>1. /\ phase \in Early \ {"inside"} /\ UNCHANGED <<prof, host>>
      /\ inCell = {Child} /\ image[Child] = {Nothing} /\ Alive(Child)
      /\ \A p \in Pids : call[p] = NoCall
      /\ inflight = {} /\ commits = {} /\ struck = {} /\ events = <<>>
      /\ screened = "none" /\ hooks = "none"
  <2>1. phase \in Early \ {"inside"} /\ UNCHANGED <<prof, host>>
    BY DEF EnsureExecSupported, JoinCgroup, MountsUnread, Refused, Wire, NoUplink, AttachExecWall,
           AttachTracker, At, Same, Early
  <2> QED BY <2>1 DEF EarlyInv, Early
<1>2. OnlyLauncher
  BY <1>1, WallsAssumption DEF OnlyLauncher
<1>3. ASSUME UNCHANGED <<lsmVars, gaps>>, phase' \notin Early, phase' \in {"refused", "over"}
      PROVE  WallsCore'
  <2>1. EarlyInv'
    BY <1>3 DEF EarlyInv, Early
  <2>2. \A p \in Pids : call[p].at # "passed"
    BY <1>1, NoCallIsNone
  <2> QED BY <1>1, <1>2, <1>3, <2>1, <2>2, ProcessesRest
<1>4. ASSUME UNCHANGED <<lsmVars, gaps>>, phase' \in Early, phase' \notin {"inside"} => hooks' = hooks,
             phase' \in {"hook", "attach"} => phase \in {"hook", "attach"},
             prof.enforce => phase' # "inside"
      PROVE  WallsCore'
  <2>1. EarlyInv'
    <3>1. UNCHANGED <<screened, cgroup, inCell, image, call, inflight, events, struck, commits, gaps>>
      BY <1>4, Zenon DEF lsmVars
    <3> QED BY <1>1, <1>4, <3>1 DEF EarlyInv, Alive, Backend
  <2> QED BY <1>1, <1>2, <1>4, <2>1, ProcessesRest DEF Early
<1>5. CASE EnsureExecSupported
  <2>1. phase' \in {"over", "cgroup"} /\ UNCHANGED <<lsmVars, gaps, connVars>>
    BY <1>5 DEF EnsureExecSupported
  <2> QED BY <1>3, <1>4, <2>1 DEF Early, connVars
<1>6. CASE Wire \/ NoUplink
  <2>1. phase = "hook" /\ phase' \in {"attach", "refused"} /\ UNCHANGED <<lsmVars, gaps, hooks>>
    BY <1>6 DEF Wire, NoUplink, HookLeaves, At, lsmVars
  <2> QED BY <1>3, <1>4, <2>1 DEF Early
<1>7. CASE AttachTracker
  <2>1. phase' = "inside" /\ UNCHANGED <<lsmVars, gaps>> /\ ~prof.enforce
    BY <1>7 DEF AttachTracker, HookLeaves, At, lsmVars
  <2> QED BY <1>4, <2>1 DEF Early
<1>8. CASE AttachExecWall
  <2>1. CASE phase' = "refused" /\ UNCHANGED <<screened, hooks>>
    <3>1. UNCHANGED <<lsmVars, gaps>>
      BY <1>8, <2>1 DEF AttachExecWall, HookLeaves, lsmVars
    <3> QED BY <1>3, <2>1, <3>1 DEF Early
  <2>2. CASE ~(phase' = "refused" /\ UNCHANGED <<screened, hooks>>)
    <3>1. /\ phase = "attach" /\ prof.enforce /\ Backend = "v2"
          /\ phase' = "inside" /\ screened' = cgroup[Child] /\ hooks' = "wall"
          /\ UNCHANGED <<cgroup, inCell, image, call, inflight, events, struck, commits, gaps>>
      BY <1>8, <2>2 DEF AttachExecWall, HookLeaves
    <3>2. cgroup[Child] = "leaf" \/ "cgroups" \in gaps
      BY <3>1 DEF EarlyInv
    <3>3. ProcessTypes'
      BY <1>1, <3>1, WallsAssumption DEF ProcessTypes
    <3>4. EarlyInv'
      BY <1>1, <3>1 DEF EarlyInv, Early, Alive
    <3>5. /\ \A p \in Pids : ~Alive(p)' => p \notin inCell'
          /\ \A p \in Pids : cgroup'[p] = "leaf" => p \in inCell'
          /\ screened' # "none" /\ cgroup'[Child] = screened'
          /\ screened' = "session" => "cgroups" \in gaps'
      BY <1>1, <3>1, <3>2 DEF ScreenInv, Alive
    <3>6. phase' \in Early
      BY <3>1 DEF Early
    <3>7. WallsCore'
      BY <3>1, <3>3, <3>4, <3>5, <3>6, EarlyCoreNext DEF EarlyPart
    <3> QED BY <3>7
  <2> QED BY <2>1, <2>2
<1>9. CASE JoinCgroup
  <2>1. /\ phase' = "hook" /\ hooks' = hooks
        /\ UNCHANGED <<screened, inCell, image, call, inflight, events, struck, commits>>
    BY <1>9 DEF JoinCgroup, At, connVars
  <2>2. /\ cgroup' = cgroup \/ cgroup' = [cgroup EXCEPT ![Child] = "leaf"]
        /\ prof.enforce /\ Backend = "v2" =>
             cgroup' = [cgroup EXCEPT ![Child] = "leaf"] \/ "cgroups" \in gaps'
    BY <1>9 DEF JoinCgroup, ApplyV1, ApplyV2, NoLeaf, WantsLeaf
  <2>3. /\ cgroup' \in [Pids -> Cgroups] /\ cgroup'[Child] \in {cgroup[Child], "leaf"}
        /\ \A p \in Pids : p # Child => cgroup'[p] = cgroup[p]
        /\ prof.enforce /\ Backend = "v2" => cgroup'[Child] = "leaf" \/ "cgroups" \in gaps'
    BY <2>2, WallsAssumption DEF ProcessTypes, Cgroups
  <2>4. ProcessTypes'
    BY <2>1, <2>3 DEF ProcessTypes
  <2>5. EarlyInv'
    BY <1>1, <2>1, <2>3 DEF EarlyInv, Early, Alive, Backend
  <2>6. /\ \A p \in Pids : ~Alive(p)' => p \notin inCell'
        /\ \A p \in Pids : cgroup'[p] = "leaf" => p \in inCell'
        /\ screened' = "none" /\ phase' \in Early /\ phase' # "inside"
    BY <1>1, <2>1, <2>3, WallsAssumption DEF ScreenInv, Alive, Early
  <2>7. WallsCore'
    BY <2>4, <2>5, <2>6, EarlyCoreNext DEF EarlyPart
  <2> QED BY <2>7
<1>10. CASE MountsUnread
  <2>1. phase' = "refused" /\ UNCHANGED <<lsmVars, gaps>>
    BY <1>10 DEF MountsUnread, Refused
  <2> QED BY <1>3, <2>1 DEF Early
<1> QED BY <1>5, <1>6, <1>7, <1>8, <1>9, <1>10

\* The agent starts, or its walls do not.
LEMMA InsideStep ==
  ASSUME WallsCore, Mount \/ InsideFails \/ ExecAgent
  PROVE  WallsCore'
<1> USE DEF WallsCore
<1>1. CASE Mount
  BY <1>1, PhaseStays DEF Mount, Inside, Waits, Same, connVars
<1>2. CASE InsideFails
  <2>1. phase = "inside" /\ phase' = "refused" /\ UNCHANGED <<lsmVars, gaps, prof, host, hooks>>
    BY <1>2 DEF InsideFails, Refused, Inside, Same, connVars
  <2>2. /\ inCell = {Child} /\ image[Child] = {Nothing} /\ commits = {}
        /\ \A p \in Pids : call[p] = NoCall
    BY <2>1 DEF EarlyInv, Early
  <2>3. OnlyLauncher /\ EarlyInv'
    BY <2>1, <2>2, WallsAssumption DEF OnlyLauncher, EarlyInv, Early
  <2>4. \A p \in Pids : call[p].at # "passed"
    BY <2>2, NoCallIsNone
  <2> QED BY <2>1, <2>2, <2>3, <2>4, ProcessesRest
<1>3. CASE ExecAgent
  BY <1>3, WallsAssumption, ExecveInv DEF ExecAgent, Same, connVars
<1> QED BY <1>1, <1>2, <1>3

LEMMA EndStep ==
  ASSUME WallsCore, Ended \/ DrainEvents \/ DetachWall \/ Teardown
  PROVE  WallsCore'
<1> USE DEF WallsCore
<1>1. CASE Ended
  <2>1. /\ phase \in {"running", "refused"} /\ phase' = "ended"
        /\ UNCHANGED <<lsmVars, gaps, prof, host, hooks>>
    BY <1>1 DEF Ended, Same, connVars
  <2>2. EarlyInv'
    BY <2>1 DEF EarlyInv, Early
  <2> QED BY <2>1, <2>2, ProcessesRest DEF ScreenInv, ToldInv
<1>2. CASE Teardown
  <2>1. phase' = "over" /\ UNCHANGED <<lsmVars, gaps, prof, host, hooks>>
    BY <1>2 DEF Teardown, At, Same, connVars
  <2>2. EarlyInv'
    BY <2>1 DEF EarlyInv, Early
  <2> QED BY <2>1, <2>2, ProcessesRest
<1>3. CASE DrainEvents
  <2>1. /\ phase = "ended" /\ phase' = "sighted" /\ events' = <<>>
        /\ UNCHANGED <<screened, cgroup, inCell, image, call, inflight, dangling, struck, commits,
                       hooks, gaps, prof, host>>
    BY <1>3 DEF DrainEvents, At, Same, connVars
  <2>2. ProcessTypes'
    BY <2>1 DEF ProcessTypes
  <2>3. EarlyInv'
    BY <2>1 DEF EarlyInv, Early
  <2>4. OnlyLauncher' <=> OnlyLauncher
    BY <2>1, Zenon DEF OnlyLauncher
  <2>5. ScreenInv'
    BY <2>1, <2>4 DEF ScreenInv, Alive
  <2>6. ApprovedInv' /\ StashInv' /\ EntryInv' /\ ScanDecides' /\ SparesTheRest'
    BY <2>1, Zenon DEF ApprovedInv, StashInv, Underway, EntryInv, Entry, ScanDecides, SparesTheRest
  <2>7. ToldInv'
    BY <2>1, LsmAssumption DEF ToldInv
  <2> QED BY <2>2, <2>3, <2>5, <2>6, <2>7
<1>4. CASE DetachWall
  <2>1. /\ phase' = "drained" /\ events' = <<>> /\ screened' = "none" /\ inflight' = {}
        /\ UNCHANGED <<cgroup, inCell, image, call, dangling, struck, commits, gaps, prof, host>>
    BY <1>4 DEF DetachWall, At, Same
  <2>2. ProcessTypes'
    BY <2>1 DEF ProcessTypes, Cgroups
  <2>3. EarlyInv'
    BY <2>1 DEF EarlyInv, Early
  <2>4. ScreenInv'
    BY <2>1 DEF ScreenInv, Alive
  <2>5. ApprovedInv' /\ StashInv' /\ EntryInv' /\ ScanDecides' /\ SparesTheRest'
    BY <2>1, Zenon DEF ApprovedInv, StashInv, EntryInv, ScanDecides, SparesTheRest
  <2>6. ToldInv'
    BY <2>1, LsmAssumption DEF ToldInv
  <2> QED BY <2>2, <2>3, <2>4, <2>5, <2>6
<1> QED BY <1>1, <1>2, <1>3, <1>4

LEMMA WallsCoreStep ==
  ASSUME WallsCore, [WallsNext]_cellVars
  PROVE  WallsCore'
<1>1. CASE CellConnects \/ OtherConnects \/ ConnGoesOn
  <2>1. UNCHANGED <<lsmVars, phase, prof, host, gaps>>
    BY <1>1 DEF CellConnects, OtherConnects, ConnGoesOn, Quiet, wallVars
  <2>2. UNCHANGED hooks
    BY <1>1, Zenon DEF CellConnects, OtherConnects, ConnGoesOn, Connect, Returns, CloseConn, Attribute
  <2> QED BY <2>1, <2>2, PhaseStays
<1>2. CASE HostFiles \/ TheirTeardown \/ UNCHANGED cellVars
  BY <1>2, PhaseStays DEF HostFiles, TheirTeardown, wallVars, connVars, cellVars, Same
<1> QED BY <1>1, <1>2, BuildStep, InsideStep, EndStep, ProcessInvStep DEF WallsNext

-----------------------------------------------------------------------------
(* Who opened a connection.                                                *)

LEMMA NoConnIsFree == NoConn \notin ConnSet /\ NoConn.st = "free"
BY DEF NoConn, ConnSet

\* The answers given stay right when no connection is forgotten.
LEMMA AnswersStay ==
  ASSUME OwnerInv, UNCHANGED answer,
         \A d \in Conns : conn[d] # NoConn =>
           /\ conn'[d] # NoConn /\ conn'[d].pid = conn[d].pid /\ conn'[d].netns = conn[d].netns
           /\ conn'[d].port = conn[d].port /\ conn[d].over \subseteq conn'[d].over
           /\ conn[d].noted => conn'[d].noted
  PROVE  NamesOpener'
<1>2. \A c \in Conns : answer[c] # NoConn => conn[c] # NoConn
  BY NoConnIsFree DEF OwnerInv
<1>3. ASSUME NEW c \in Conns, answer[c] # NoConn
      PROVE  /\ answer[c].pid \in Openers(c)' \cup {Unknown}
             /\ answer[c].st = "in time" /\ conn'[c].netns # Own =>
                  answer[c].pid \in conn'[c].over \cup {conn'[c].pid, Unknown}
  <2>1. /\ answer[c].pid \in Openers(c) \cup {Unknown}
        /\ answer[c].st = "in time" /\ conn[c].netns # Own =>
             answer[c].pid \in conn[c].over \cup {conn[c].pid, Unknown}
    BY <1>3, Zenon DEF OwnerInv, NamesOpener
  <2>2. /\ conn'[c].port = conn[c].port /\ conn'[c].netns = conn[c].netns
        /\ conn'[c].pid = conn[c].pid /\ conn[c].over \subseteq conn'[c].over
    BY <1>2, <1>3
  <2>3. Openers(c) \subseteq Openers(c)'
    BY <1>2, <1>3 DEF Openers
  <2> QED BY <2>1, <2>2, <2>3
<1>4. \A c \in Conns : answer'[c] # NoConn =>
        /\ answer'[c].pid \in Openers(c)' \cup {Unknown}
        /\ answer'[c].st = "in time" /\ conn'[c].netns # Own =>
             answer'[c].pid \in conn'[c].over \cup {conn'[c].pid, Unknown}
  BY <1>3
<1> QED BY <1>4, Zenon DEF NamesOpener

\* No connection is touched.
LEMMA OwnersRest ==
  ASSUME OwnerInv, UNCHANGED <<conn, answer>>,
         \/ owners' = owners /\ (hooks' = "none" => owners = {})
         \/ owners' = {}
  PROVE  OwnerInv'
<1>1. NamesOpener'
  BY AnswersStay
<1>2. IsFiniteSet(owners') /\ (hooks' = "none" => owners' = {})
  BY FS_EmptySet, Zenon DEF OwnerInv
<1>3. conn' \in [Conns -> ConnSet \cup {NoConn}] /\ DOMAIN answer' = Conns
  BY DEF OwnerInv
<1>4. owners' \subseteq owners
  OBVIOUS
<1>5. \A c \in Conns : \A o \in owners' :
       Live(c)' /\ conn'[c].noted /\ o.netns = conn'[c].netns /\ o.port = conn'[c].port =>
         o.pid \in conn'[c].over \cup {conn'[c].pid}
  BY <1>4 DEF OwnerInv, Live
<1>6. \A o \in owners' : \E d \in Conns : Entered(o, d)'
  BY <1>4 DEF OwnerInv, Entered
<1>7. \A c \in Conns : answer'[c] # NoConn => conn'[c].st # "free"
  BY DEF OwnerInv
<1> QED BY <1>1, <1>2, <1>3, <1>5, <1>6, <1>7 DEF OwnerInv

\* A new connection is not noted, whatever port it has.
LEMMA ConnectKeepsOwners ==
  ASSUME OwnerInv, NEW c \in Conns, NEW p \in Pids, NEW ns \in Netns, NEW to \in Peers,
         Connect(c, p, ns, to)
  PROVE  OwnerInv'
<1> USE DEF OwnerInv
<1>1. conn[c] = NoConn /\ UNCHANGED <<hooks, owners, answer>>
  BY Zenon DEF Connect
<1>2. PICK s \in Ports :
        conn' = [conn EXCEPT ![c] = [st |-> "live", pid |-> p, netns |-> ns, port |-> s,
                                     to |-> to, noted |-> FALSE, over |-> {}]]
  BY Zenon DEF Connect
<1> DEFINE new == [st |-> "live", pid |-> p, netns |-> ns, port |-> s, to |-> to,
                   noted |-> FALSE, over |-> {}]
<1>3. /\ new \in ConnSet /\ new.st = "live" /\ ~new.noted
      /\ conn'[c] = new /\ \A d \in Conns \ {c} : conn'[d] = conn[d]
      /\ conn' \in [Conns -> ConnSet \cup {NoConn}]
  BY <1>2 DEF ConnSet
<1> HIDE DEF new
<1>4. answer[c] = NoConn
  BY <1>1, NoConnIsFree
<1>5. \A d \in Conns : conn[d] # NoConn => conn'[d] = conn[d]
  BY <1>1, <1>3
<1>6. NamesOpener'
  BY <1>1, <1>5, AnswersStay
<1>7. \A d \in Conns : \A o \in owners' :
       Live(d)' /\ conn'[d].noted /\ o.netns = conn'[d].netns /\ o.port = conn'[d].port =>
         o.pid \in conn'[d].over \cup {conn'[d].pid}
  BY <1>1, <1>3 DEF Live
<1>8. \A d \in Conns : answer'[d] # NoConn => conn'[d].st # "free"
  BY <1>1, <1>3, <1>4
<1>9. \A o \in owners' : \E d \in Conns : Entered(o, d)'
  BY <1>1, <1>5 DEF Entered
<1> QED BY <1>1, <1>3, <1>6, <1>7, <1>8, <1>9

\* What a hook that runs, or a port set free, leaves of the connections.
LEMMA FlagsKeepOwners ==
  ASSUME OwnerInv, NEW c \in Conns, Returns(c) \/ CloseConn(c)
  PROVE  /\ conn' \in [Conns -> ConnSet \cup {NoConn}] /\ UNCHANGED <<hooks, answer>>
         /\ \A d \in Conns : conn[d] # NoConn =>
              /\ conn'[d] # NoConn /\ conn'[d].pid = conn[d].pid
              /\ conn'[d].netns = conn[d].netns /\ conn'[d].port = conn[d].port
              /\ conn[d].noted => conn'[d].noted
              /\ conn[d].over \subseteq conn'[d].over
              /\ conn'[d].st # "free"
              /\ d # c => conn'[d].st = conn[d].st /\ conn'[d].noted = conn[d].noted
         /\ \A d \in Conns : conn[d] = NoConn => conn'[d] = NoConn
         /\ Live(c) /\ NamesOpener'
<1> USE DEF OwnerInv
<1>1. conn[c] \in ConnSet /\ Live(c) /\ UNCHANGED <<hooks, answer>>
  BY NoConnIsFree DEF Returns, CloseConn, Live
<1>2. ASSUME NEW d \in Conns
      PROVE  \/ conn'[d] = conn[d] /\ (d # c \/ CloseConn(c))
             \/ /\ conn[d] \in ConnSet
                /\ \/ d = c /\ conn'[d] = [conn[d] EXCEPT !.noted = TRUE]
                   \/ d = c /\ conn'[d] = [conn[d] EXCEPT !.st = "closed"]
                   \/ d # c /\ conn'[d] = [conn[d] EXCEPT !.over = conn[d].over \cup {conn[c].pid}]
  <2>1. CASE Returns(c)
    <3>1. conn'[d] = IF d = c THEN [conn[c] EXCEPT !.noted = TRUE]
                     ELSE IF Live(d) /\ conn[d].noted /\ SameKey(c, d)
                       THEN [conn[d] EXCEPT !.over = conn[d].over \cup {conn[c].pid}]
                     ELSE conn[d]
      BY <2>1 DEF Returns
    <3> QED BY <1>1, <3>1, NoConnIsFree DEF Live
  <2>2. CASE CloseConn(c)
    BY <1>1, <2>2 DEF CloseConn
  <2> QED BY <2>1, <2>2
<1>3. ASSUME NEW d \in Conns
      PROVE  /\ conn'[d] \in ConnSet \cup {NoConn}
             /\ conn[d] # NoConn =>
                  /\ conn'[d] \in ConnSet /\ conn'[d].pid = conn[d].pid
                  /\ conn'[d].netns = conn[d].netns /\ conn'[d].port = conn[d].port
                  /\ conn[d].noted => conn'[d].noted
                  /\ conn[d].over \subseteq conn'[d].over
                  /\ d # c => conn'[d].st = conn[d].st /\ conn'[d].noted = conn[d].noted
             /\ conn[d] = NoConn => conn'[d] = NoConn
  <2>1. CASE conn'[d] = conn[d]
    BY <2>1
  <2>2. CASE conn[d] \in ConnSet
    <3>1. CASE conn'[d] = [conn[d] EXCEPT !.noted = TRUE]
      BY <1>2, <2>2, <3>1, NoConnIsFree DEF ConnSet
    <3>2. CASE conn'[d] = [conn[d] EXCEPT !.st = "closed"]
      BY <1>2, <2>2, <3>2, NoConnIsFree DEF ConnSet
    <3>3. CASE conn'[d] = [conn[d] EXCEPT !.over = conn[d].over \cup {conn[c].pid}]
      <4>1. conn[c].pid \in Pids /\ conn[d].over \subseteq Pids
        BY <1>1, <2>2 DEF ConnSet
      <4> QED BY <2>2, <3>3, <4>1, NoConnIsFree DEF ConnSet
    <3> QED BY <1>2, <2>1, <3>1, <3>2, <3>3
  <2> QED BY <1>2, <2>1, <2>2
<1>4. conn' \in [Conns -> ConnSet \cup {NoConn}]
  <2>1. conn' = [d \in Conns |-> conn'[d]]
    BY DEF Returns, CloseConn
  <2> QED BY <1>3, <2>1
<1>5. \A d \in Conns : conn'[d] \in ConnSet => conn'[d] # NoConn /\ conn'[d].st # "free"
  BY NoConnIsFree DEF ConnSet
<1>6. NamesOpener'
  BY <1>1, <1>3, <1>5, AnswersStay
<1> QED BY <1>1, <1>3, <1>4, <1>5, <1>6

LEMMA ReturnsKeepsOwners ==
  ASSUME OwnerInv, NEW c \in Conns, Returns(c)
  PROVE  OwnerInv'
<1> USE DEF OwnerInv
<1>1. /\ conn' \in [Conns -> ConnSet \cup {NoConn}] /\ UNCHANGED <<hooks, answer>>
      /\ \A d \in Conns : conn[d] # NoConn =>
           /\ conn'[d] # NoConn /\ conn'[d].pid = conn[d].pid
           /\ conn'[d].netns = conn[d].netns /\ conn'[d].port = conn[d].port
           /\ conn[d].noted => conn'[d].noted
           /\ conn[d].over \subseteq conn'[d].over
           /\ conn'[d].st # "free"
           /\ d # c => conn'[d].st = conn[d].st /\ conn'[d].noted = conn[d].noted
      /\ \A d \in Conns : conn[d] = NoConn => conn'[d] = NoConn
      /\ Live(c) /\ NamesOpener'
  BY FlagsKeepOwners, Zenon
<1>2. /\ conn[c] # NoConn /\ conn'[c].noted
      /\ \A d \in Conns \ {c} : Live(d) /\ conn[d].noted /\ SameKey(c, d) =>
           conn[c].pid \in conn'[d].over
  <2>1. conn[c] # NoConn /\ conn[c] \in ConnSet
    BY <1>1, NoConnIsFree DEF Live
  <2>2. conn'[c] = [conn[c] EXCEPT !.noted = TRUE]
    BY DEF Returns
  <2>3. ASSUME NEW d \in Conns \ {c}, Live(d), conn[d].noted, SameKey(c, d)
        PROVE  conn[c].pid \in conn'[d].over
    <3>1. conn'[d] = [conn[d] EXCEPT !.over = conn[d].over \cup {conn[c].pid}]
      BY <2>3 DEF Returns
    <3>2. conn[d] \in ConnSet
      BY <2>3, NoConnIsFree DEF Live
    <3> QED BY <3>1, <3>2 DEF ConnSet
  <2> QED BY <2>1, <2>2, <2>3 DEF ConnSet
<1>3. \A d \in Conns : answer'[d] # NoConn => conn'[d].st # "free"
  BY <1>1, NoConnIsFree
<1>4. CASE hooks = "none"
  <2>1. owners = {} /\ owners' = owners
    BY <1>4, Zenon DEF Returns
  <2> QED BY <1>1, <1>3, <2>1
<1>5. CASE hooks # "none"
  <2> DEFINE kept == {o \in owners : ~(o.netns = conn[c].netns /\ o.port = conn[c].port)}
  <2>1. NoteOwner(c)
    BY <1>5 DEF Returns
  <2>2. PICK out \in SUBSET kept : owners' = (kept \ out) \cup {ConnOwner(c)}
    BY <2>1, Zenon DEF NoteOwner
  <2>3. /\ ConnOwner(c).netns = conn[c].netns /\ ConnOwner(c).port = conn[c].port
        /\ ConnOwner(c).pid = conn[c].pid
    BY DEF ConnOwner
  <2>4. IsFiniteSet(owners')
    <3>1. IsFiniteSet(kept \ out)
      BY FS_Subset, Zenon
    <3> QED BY <2>2, <3>1, FS_AddElement
  <2>5. \A o \in owners' : o \in kept \/ o = ConnOwner(c)
    BY <2>2
  <2>6. ASSUME NEW d \in Conns, NEW o \in owners', Live(d)', conn'[d].noted,
               o.netns = conn'[d].netns, o.port = conn'[d].port
        PROVE  o.pid \in conn'[d].over \cup {conn'[d].pid}
    <3>1. CASE d = c
      <4>1. o = ConnOwner(c) /\ conn'[c].pid = conn[c].pid
        BY <1>1, <1>2, <2>5, <2>6, <3>1
      <4> QED BY <2>3, <3>1, <4>1
    <3>2. CASE d # c
      <4>0. conn[d] # NoConn
        BY <1>1, <2>6, NoConnIsFree DEF Live
      <4>1. /\ Live(d) /\ conn[d].noted /\ o.netns = conn[d].netns /\ o.port = conn[d].port
            /\ conn'[d].pid = conn[d].pid /\ conn[d].over \subseteq conn'[d].over
        BY <1>1, <2>6, <3>2, <4>0 DEF Live
      <4>2. CASE o = ConnOwner(c)
        <5>1. SameKey(c, d)
          BY <2>3, <4>1, <4>2 DEF SameKey
        <5> QED BY <1>2, <2>3, <3>2, <4>1, <4>2, <5>1
      <4>3. CASE o \in kept
        <5>1. o.pid \in conn[d].over \cup {conn[d].pid}
          BY <4>1, <4>3
        <5> QED BY <4>1, <5>1
      <4> QED BY <2>5, <4>2, <4>3
    <3> QED BY <3>1, <3>2
  <2>7. ASSUME NEW o \in owners' PROVE \E d \in Conns : Entered(o, d)'
    <3>1. CASE o = ConnOwner(c)
      <4>1. Entered(o, c)'
        BY <1>1, <1>2, <2>3, <3>1 DEF Entered
      <4> QED BY <4>1
    <3>2. CASE o \in kept
      <4>1. PICK d \in Conns : Entered(o, d)
        BY <3>2
      <4>2. Entered(o, d)'
        BY <1>1, <4>1 DEF Entered
      <4> QED BY <4>2
    <3> QED BY <2>5, <3>1, <3>2
  <2>8. \A d \in Conns : \A o \in owners' :
       Live(d)' /\ conn'[d].noted /\ o.netns = conn'[d].netns /\ o.port = conn'[d].port =>
         o.pid \in conn'[d].over \cup {conn'[d].pid}
    BY <2>6
  <2>9. hooks' # "none" /\ \A o \in owners' : \E d \in Conns : Entered(o, d)'
    BY <1>1, <1>5, <2>7
  <2> QED BY <1>1, <1>3, <2>4, <2>8, <2>9
<1> QED BY <1>4, <1>5

LEMMA CloseKeepsOwners ==
  ASSUME OwnerInv, NEW c \in Conns, CloseConn(c)
  PROVE  OwnerInv'
<1> USE DEF OwnerInv
<1>1. /\ conn' \in [Conns -> ConnSet \cup {NoConn}] /\ UNCHANGED <<hooks, answer>>
      /\ \A d \in Conns : conn[d] # NoConn =>
           /\ conn'[d] # NoConn /\ conn'[d].pid = conn[d].pid
           /\ conn'[d].netns = conn[d].netns /\ conn'[d].port = conn[d].port
           /\ conn[d].noted => conn'[d].noted
           /\ conn[d].over \subseteq conn'[d].over
           /\ conn'[d].st # "free"
           /\ d # c => conn'[d].st = conn[d].st /\ conn'[d].noted = conn[d].noted
      /\ \A d \in Conns : conn[d] = NoConn => conn'[d] = NoConn
      /\ Live(c) /\ NamesOpener'
  BY FlagsKeepOwners, Zenon
<1>2. owners' = owners /\ conn[c].noted
  BY Zenon DEF CloseConn
<1>3. ASSUME NEW d \in Conns, NEW o \in owners, Live(d)', conn'[d].noted,
             o.netns = conn'[d].netns, o.port = conn'[d].port
      PROVE  o.pid \in conn'[d].over \cup {conn'[d].pid}
  <2>1. conn[d] # NoConn
    BY <1>1, <1>3, NoConnIsFree DEF Live
  <2>2. Live(d) /\ conn[d].noted
    BY <1>1, <1>2, <1>3, <2>1 DEF Live
  <2>3. o.pid \in conn[d].over \cup {conn[d].pid}
    BY <1>1, <1>3, <2>1, <2>2
  <2> QED BY <1>1, <2>1, <2>3
<1>4. ASSUME NEW o \in owners PROVE \E d \in Conns : Entered(o, d)'
  <2>1. PICK d \in Conns : Entered(o, d)
    OBVIOUS
  <2>2. Entered(o, d)'
    BY <1>1, <2>1 DEF Entered
  <2> QED BY <2>2
<1>5. \A d \in Conns : answer'[d] # NoConn => conn'[d].st # "free"
  BY <1>1, NoConnIsFree
<1>6. \A d \in Conns : \A o \in owners' :
       Live(d)' /\ conn'[d].noted /\ o.netns = conn'[d].netns /\ o.port = conn'[d].port =>
         o.pid \in conn'[d].over \cup {conn'[d].pid}
  BY <1>2, <1>3
<1>7. \A o \in owners' : \E d \in Conns : Entered(o, d)'
  BY <1>2, <1>4
<1> QED BY <1>1, <1>2, <1>5, <1>6, <1>7

\* A lookup finds one entry or nobody's.
LEMMA LookupFinds ==
  ASSUME OwnerInv, NEW port
  PROVE  \/ LookupConnOwner(port) = Unknown
         \/ \E o \in owners : /\ {e \in owners : e.port = port /\ e.netns # Own} = {o}
                              /\ LookupConnOwner(port) = o.pid
<1> DEFINE found == {o \in owners : o.port = port /\ o.netns # Own}
<1>1. IsFiniteSet(found)
  BY FS_Subset, Zenon DEF OwnerInv
<1>2. CASE Cardinality(found) = 1 /\ hooks # "none"
  <2>1. PICK x : found = {x}
    BY <1>1, <1>2, FS_Singleton, Zenon
  <2>2. (CHOOSE e \in found : TRUE) = x /\ x \in owners
    BY <2>1
  <2>3. LookupOwner(port) = (CHOOSE e \in found : TRUE).pid
    BY <1>2 DEF LookupOwner
  <2> QED BY <1>2, <2>1, <2>2, <2>3, Zenon DEF LookupConnOwner
<1>3. CASE Cardinality(found) # 1 \/ hooks = "none"
  BY <1>3, Zenon DEF LookupConnOwner, LookupOwner
<1> QED BY <1>2, <1>3

LEMMA LookupIsOpener ==
  ASSUME OwnerInv, NEW c \in Conns
  PROVE  /\ LookupConnOwner(conn[c].port) \in Openers(c) \cup {Unknown}
         /\ Live(c) /\ conn[c].noted /\ Noted(c) /\ conn[c].netns # Own =>
              LookupConnOwner(conn[c].port) \in conn[c].over \cup {conn[c].pid, Unknown}
<1> USE DEF OwnerInv
<1>1. CASE LookupConnOwner(conn[c].port) = Unknown
  BY <1>1
<1>2. CASE LookupConnOwner(conn[c].port) # Unknown
  <2>1. PICK o \in owners :
           /\ {e \in owners : e.port = conn[c].port /\ e.netns # Own} = {o}
           /\ LookupConnOwner(conn[c].port) = o.pid
    BY <1>2, LookupFinds
  <2>2. o.port = conn[c].port /\ o.netns # Own
    BY <2>1
  <2>3. o.pid \in Openers(c)
    <3>1. PICK d \in Conns : Entered(o, d)
      BY <2>1
    <3> QED BY <2>2, <3>1 DEF Entered, Openers
  <2>4. ASSUME Live(c), conn[c].noted, Noted(c), conn[c].netns # Own
        PROVE  o.pid \in conn[c].over \cup {conn[c].pid}
    <3>1. PICK e \in owners : e.netns = conn[c].netns /\ e.port = conn[c].port
      BY <2>4, Zenon DEF Noted
    <3>2. e = o
      BY <2>1, <2>4, <3>1
    <3> QED BY <2>4, <3>1, <3>2
  <2> QED BY <2>1, <2>3, <2>4
<1> QED BY <1>1, <1>2

LEMMA AttributeKeepsOwners ==
  ASSUME OwnerInv, NEW c \in Conns, Attribute(c)
  PROVE  OwnerInv'
<1> USE DEF OwnerInv
<1>1. /\ conn[c].st # "free" /\ UNCHANGED <<hooks, owners, conn>>
      /\ answer' = [answer EXCEPT ![c] =
           [st |-> IF Live(c) /\ conn[c].noted /\ Noted(c) THEN "in time" ELSE "early or late",
            pid |-> LookupConnOwner(conn[c].port)]]
  BY Zenon DEF Attribute
<1>2. /\ answer'[c].st = "in time" => Live(c) /\ conn[c].noted /\ Noted(c)
      /\ answer'[c].pid = LookupConnOwner(conn[c].port)
      /\ DOMAIN answer' = Conns /\ \A d \in Conns \ {c} : answer'[d] = answer[d]
  BY <1>1
<1>3. NamesOpener'
  <2>1. \A d \in Conns : Openers(d)' = Openers(d)
    <3>1. conn' = conn
      BY <1>1
    <3> QED BY <3>1 DEF Openers
  <2>2. ASSUME NEW d \in Conns, answer'[d] # NoConn
        PROVE  /\ answer'[d].pid \in Openers(d) \cup {Unknown}
               /\ answer'[d].st = "in time" /\ conn[d].netns # Own =>
                    answer'[d].pid \in conn[d].over \cup {conn[d].pid, Unknown}
    <3>1. CASE d = c
      BY <1>2, <3>1, LookupIsOpener
    <3>2. CASE d # c
      BY <1>2, <2>2, <3>2 DEF NamesOpener
    <3> QED BY <3>1, <3>2
  <2>3. \A d \in Conns : answer'[d] # NoConn =>
          /\ answer'[d].pid \in Openers(d)' \cup {Unknown}
          /\ answer'[d].st = "in time" /\ conn'[d].netns # Own =>
               answer'[d].pid \in conn'[d].over \cup {conn'[d].pid, Unknown}
    BY <1>1, <2>1, <2>2
  <2> QED BY <2>3, Zenon DEF NamesOpener
<1>4. \A d \in Conns : answer'[d] # NoConn => conn'[d].st # "free"
  BY <1>1, <1>2
<1>5. /\ \A o \in owners' : \E d \in Conns : Entered(o, d)'
      /\ \A d \in Conns : \A o \in owners' :
           Live(d)' /\ conn'[d].noted /\ o.netns = conn'[d].netns /\ o.port = conn'[d].port =>
             o.pid \in conn'[d].over \cup {conn'[d].pid}
  BY <1>1 DEF Live, Entered
<1> QED BY <1>1, <1>2, <1>3, <1>4, <1>5

LEMMA OwnerInvStep ==
  ASSUME WallsCore, OwnerInv, [WallsNext]_cellVars
  PROVE  OwnerInv'
<1>1. CASE CellConnects \/ OtherConnects
  <2>1. PICK c \in Conns, p \in Pids, ns \in Netns, to \in Peers : Connect(c, p, ns, to)
    BY <1>1 DEF CellConnects, OtherConnects, CellNetns, Own, Netns, WallsCore, ProcessTypes
  <2> QED BY <2>1, ConnectKeepsOwners
<1>2. CASE ConnGoesOn
  <2>1. PICK c \in Conns : Returns(c) \/ CloseConn(c) \/ Attribute(c)
    BY <1>2, Zenon DEF ConnGoesOn
  <2> QED BY <2>1, ReturnsKeepsOwners, CloseKeepsOwners, AttributeKeepsOwners
<1>3. CASE AttachExecWall \/ AttachTracker
  <2>1. hooks = "none" /\ UNCHANGED <<owners, conn, answer>>
    BY <1>3 DEF AttachExecWall, AttachTracker, At, HookLeaves, WallsCore, EarlyInv, Early
  <2> QED BY <2>1, OwnersRest DEF OwnerInv
<1>4. CASE DetachWall
  <2>1. UNCHANGED <<conn, answer>> /\ (owners' = {} \/ UNCHANGED <<hooks, owners>>)
    BY <1>4, Zenon DEF DetachWall
  <2> QED BY <2>1, OwnersRest DEF OwnerInv
<1>5. CASE \/ EnsureExecSupported \/ JoinCgroup \/ MountsUnread \/ Wire \/ NoUplink
           \/ Mount \/ InsideFails \/ ExecAgent \/ CellAct \/ Leaves \/ OutsiderComes
           \/ HostFiles \/ TheirTeardown \/ Ended \/ DrainEvents \/ Teardown
           \/ UNCHANGED cellVars
  <2>1. UNCHANGED <<hooks, owners, conn, answer>>
    BY <1>5 DEF EnsureExecSupported, JoinCgroup, MountsUnread, Wire, NoUplink, HookLeaves, Mount, InsideFails,
                Inside, ExecAgent, CellAct, Leaves, OutsiderComes, Rest, HostFiles, TheirTeardown,
                Ended, DrainEvents, Teardown, cellVars, connVars
  <2> QED BY <2>1, OwnersRest DEF OwnerInv
<1> QED BY <1>1, <1>2, <1>3, <1>4, <1>5 DEF WallsNext

LEMMA OwnerInvInit == WallsInit => OwnerInv
<1> SUFFICES ASSUME WallsInit PROVE OwnerInv
  OBVIOUS
<1>1. /\ hooks = "none" /\ owners = {} /\ conn = [c \in Conns |-> NoConn]
      /\ answer = [c \in Conns |-> NoConn]
  BY Zenon DEF WallsInit, ConnInit
<1>2. \A c \in Conns : ~Live(c) /\ answer[c] = NoConn
  BY <1>1, NoConnIsFree DEF Live
<1> QED BY <1>1, <1>2, FS_EmptySet DEF OwnerInv, NamesOpener

LEMMA WallsInitInv == WallsInit => WallsInv
BY WallsInitCore, OwnerInvInit DEF WallsInv

LEMMA WallsInvStep == WallsInv /\ [WallsNext]_cellVars => WallsInv'
<1> SUFFICES ASSUME WallsInv, [WallsNext]_cellVars PROVE WallsInv'
  OBVIOUS
<1>1. WallsCore'
  BY WallsCoreStep DEF WallsInv
<1>2. OwnerInv'
  BY OwnerInvStep DEF WallsInv
<1> QED BY <1>1, <1>2 DEF WallsInv

-----------------------------------------------------------------------------
(* What is true of the walls of every cell.                                *)

\* Every state of a cell has its wall where the child is, its maps naming what is under
\* way, and its ring the execs that were allowed.
THEOREM WallsInductive == WallsSpec => []WallsInv
<1>1. WallsInit => WallsInv
  BY WallsInitInv
<1>2. WallsInv /\ [WallsNext]_cellVars => WallsInv'
  BY WallsInvStep
<1> QED BY <1>1, <1>2, PTL DEF WallsSpec

\* A program outside the cell is screened or killed only when the missing cgroup was
\* reported: attach_exec_wall() attaches to the cgroup the child is in.
THEOREM OthersSpared == WallsSpec => []SparesTheRest
<1>1. WallsInv => SparesTheRest
  BY Zenon DEF WallsInv, WallsCore
<1> QED BY <1>1, WallsInductive, PTL

\* In time, lookup_conn_owner() names the opener of a cell's connection or nobody.
THEOREM OpenersNamed == WallsSpec => []NamesOpener
<1>1. WallsInv => NamesOpener
  BY Zenon DEF WallsInv, OwnerInv
<1> QED BY <1>1, WallsInductive, PTL

\* capture_argv() kills an exec of the cell exactly when its scan of the command line
\* says so, if the exec is a leader's, the ring has room and its entry is in the map.
THEOREM ScanKills == WallsSpec => []ScanDecides
<1>1. WallsInv => ScanDecides
  BY Zenon DEF WallsInv, WallsCore
<1> QED BY <1>1, WallsInductive, PTL

LEMMA RunsApproved == WallsInv => ApprovedOnly
<1> SUFFICES ASSUME WallsInv, prof.enforce, phase \in {"running", "ended", "sighted"}, NEW p \in inCell
             PROVE  image[p] \subseteq Approved \cup {Nothing}
  BY Zenon DEF ApprovedOnly
<1> USE DEF WallsInv, WallsCore
<1>1. CASE screened # "none"
  BY <1>1, Zenon DEF ApprovedInv
<1>2. CASE OnlyLauncher
  BY <1>2, Zenon DEF OnlyLauncher
<1> QED BY <1>1, <1>2 DEF ScreenInv

LEMMA DrainTells == WallsInv => EveryExecTold
<1> SUFFICES ASSUME WallsInv, DrainEvents, Len(events) # EventRoom, NEW c \in commits
             PROVE  Yes(c.pid, c.file) \in ToSet(sighted')
  BY DEF EveryExecTold, Yes
<1> USE DEF WallsInv, WallsCore
<1>1. phase = "ended" /\ sighted' = (IF hooks = "wall" THEN events ELSE <<>>)
  BY Zenon DEF DrainEvents, At
<1>2. screened # "none"
  BY <1>1 DEF ToldInv
<1>3. sighted' = events
  BY <1>1, <1>2 DEF ScreenInv
<1>4. Told(c.pid, c.file)
  BY <1>1 DEF ToldInv
<1> QED BY <1>3, <1>4 DEF Told

\* What ran in the cell while the wall was up was approved, and drain_events() finds a
\* record of each exec, unless the ring was full.
THEOREM CellExecsAccounted == WallsSpec => ExecsAccounted
<1>1. WallsInv' => ApprovedOnly'
  BY RunsApproved, PTL
<1>2. WallsInv /\ WallsInv' => ApprovedOnly' /\ EveryExecTold
  BY <1>1, DrainTells
<1> QED BY <1>2, WallsInductive, PTL DEF ExecsAccounted

-----------------------------------------------------------------------------
(* Folds.  tlapm cannot cite an induction theorem whose parameter is an    *)
(* operator, but it can cite the well-founded order of the naturals, and   *)
(* a set stands for the operator.                                          *)

\* A set with 0 and every member's successor has every natural number.
LEMMA NatSets ==
  ASSUME NEW T, 0 \in T, \A n \in Nat : n \in T => n + 1 \in T
  PROVE  Nat \subseteq T
<1> SUFFICES ASSUME Nat \ T # {} PROVE FALSE
  OBVIOUS
<1>1. PICK x \in Nat \ T : \A y \in Nat \ T : ~(<<y, x>> \in OpToRel(<, Nat))
  BY NatLessThanWellFounded, WFMin, Zenon
<1>2. \A y \in Nat \ T : ~(y < x)
  BY <1>1 DEF OpToRel
<1>3. x # 0 /\ x - 1 \in Nat /\ x - 1 \in T
  BY <1>2
<1> QED BY <1>3

\* The greatest of a set of places.
LEMMA MaxUpTo == \A k \in Nat \ {0} : Max(1 .. k) = k
BY DEF Max

LEMMA MaxOf ==
  ASSUME NEW m \in Nat, NEW s \in SUBSET (1 .. m + 1), m + 1 \in s
  PROVE  Max(s) = m + 1
<1>1. \A y \in s : m + 1 >= y
  OBVIOUS
<1>2. Max(s) \in s /\ \A y \in s : Max(s) >= y
  BY <1>1 DEF Max
<1>3. Max(s) \in 1 .. m + 1 /\ Max(s) >= m + 1
  BY <1>2
<1> QED BY <1>3

LEMMA MaxIn ==
  ASSUME NEW m \in Nat, NEW s \in SUBSET (1 .. m), s # {}
  PROVE  Max(s) \in s
<1> DEFINE T == {k \in Nat : \A u \in SUBSET (1 .. k) : u # {} => Max(u) \in u}
<1>1. 0 \in T
  <2>1. 1 .. 0 = {}
    OBVIOUS
  <2> QED BY <2>1
<1>2. ASSUME NEW k \in Nat, k \in T PROVE k + 1 \in T
  <2> SUFFICES ASSUME NEW u \in SUBSET (1 .. k + 1), u # {} PROVE Max(u) \in u
    OBVIOUS
  <2>1. CASE k + 1 \in u
    BY <2>1, MaxOf
  <2>2. CASE k + 1 \notin u
    <3>1. u \in SUBSET (1 .. k)
      BY <2>2
    <3> QED BY <1>2, <3>1
  <2> QED BY <2>1, <2>2
<1> HIDE DEF T
<1>3. Nat \subseteq T
  BY <1>1, <1>2, NatSets
<1> QED BY <1>3 DEF T

\* g folds the places of a sequence from the left, by the step f.
LeftFold(g, base, n, f) ==
  /\ g[{}] = base
  /\ \A s \in SUBSET (1 .. n) : s # {} => g[s] = f[<<g[s \ {Max(s)}], Max(s)>>]

\* A fold over the places of a sequence, with its step as a function, exists.
LEMMA FoldExists ==
  ASSUME NEW A, NEW base \in A, NEW n \in Nat, NEW f \in [A \X (1 .. n) -> A]
  PROVE  \E g \in [SUBSET (1 .. n) -> A] : LeftFold(g, base, n, f)
<1> DEFINE P(m, g) == LeftFold(g, base, m, f)
           R(m) == m <= n => \E g \in [SUBSET (1 .. m) -> A] : P(m, g)
           T == {m \in Nat : R(m)}
<1>1. R(0)
  <2>1. [s \in SUBSET (1 .. 0) |-> base] \in [SUBSET (1 .. 0) -> A]
    OBVIOUS
  <2>2. 1 .. 0 = {} /\ {} \in SUBSET (1 .. 0)
    OBVIOUS
  <2>3. [s \in SUBSET (1 .. 0) |-> base][{}] = base
    BY <2>2
  <2>4. P(0, [s \in SUBSET (1 .. 0) |-> base])
    BY <2>2, <2>3, Zenon DEF LeftFold
  <2> QED BY <2>1, <2>4
<1>2. ASSUME NEW m \in Nat, R(m) PROVE R(m + 1)
  <2> SUFFICES ASSUME m + 1 <= n PROVE \E g \in [SUBSET (1 .. m + 1) -> A] : P(m + 1, g)
    OBVIOUS
  <2>1. PICK g \in [SUBSET (1 .. m) -> A] : P(m, g)
    <3>1. m <= n
      OBVIOUS
    <3> QED BY <1>2, <3>1
  <2> DEFINE h == [s \in SUBSET (1 .. m + 1) |->
                     IF m + 1 \in s THEN f[<<g[s \ {m + 1}], m + 1>>] ELSE g[s]]
  <2>2. ASSUME NEW s \in SUBSET (1 .. m + 1), m + 1 \notin s
        PROVE  s \in SUBSET (1 .. m) /\ h[s] = g[s]
    BY <2>2
  <2>3. ASSUME NEW s \in SUBSET (1 .. m + 1), m + 1 \in s
        PROVE  /\ s \ {m + 1} \in SUBSET (1 .. m) /\ s \ {m + 1} \in SUBSET (1 .. m + 1)
               /\ Max(s) = m + 1
               /\ h[s \ {m + 1}] = g[s \ {m + 1}]
               /\ h[s] = f[<<g[s \ {m + 1}], m + 1>>]
    BY <2>3, MaxOf
  <2>4. h \in [SUBSET (1 .. m + 1) -> A]
    <3> SUFFICES ASSUME NEW s \in SUBSET (1 .. m + 1)
                 PROVE  (IF m + 1 \in s THEN f[<<g[s \ {m + 1}], m + 1>>] ELSE g[s]) \in A
      OBVIOUS
    <3>1. CASE m + 1 \in s
      BY <2>3, <3>1
    <3>2. CASE m + 1 \notin s
      BY <2>2, <3>2
    <3> QED BY <3>1, <3>2
  <2>5. P(m + 1, h)
    <3>0. h[{}] = base
      BY <2>1 DEF LeftFold
    <3> HIDE DEF h
    <3> SUFFICES ASSUME NEW s \in SUBSET (1 .. m + 1), s # {}
                 PROVE  h[s] = f[<<h[s \ {Max(s)}], Max(s)>>]
      BY <3>0 DEF LeftFold
    <3>1. CASE m + 1 \in s
      BY <2>3, <3>1
    <3>2. CASE m + 1 \notin s
      <4>1. s \in SUBSET (1 .. m) /\ h[s] = g[s]
        BY <2>2, <3>2
      <4>2. /\ s \ {Max(s)} \in SUBSET (1 .. m) /\ s \ {Max(s)} \in SUBSET (1 .. m + 1)
            /\ m + 1 \notin s \ {Max(s)}
        <5>1. Max(s) \in s
          BY <4>1, MaxIn
        <5> QED BY <4>1, <5>1, <3>2
      <4>3. h[s \ {Max(s)}] = g[s \ {Max(s)}]
        BY <2>2, <4>2
      <4> QED BY <2>1, <4>1, <4>3 DEF LeftFold
    <3> QED BY <3>1, <3>2
  <2> QED BY <2>4, <2>5
<1> HIDE DEF R
<1>3. 0 \in T /\ \A m \in Nat : m \in T => m + 1 \in T
  BY <1>1, <1>2
<1> HIDE DEF T
<1>4. Nat \subseteq T
  BY <1>3, NatSets
<1>5. R(n)
  BY <1>4 DEF T
<1>6. n <= n
  OBVIOUS
<1> QED BY <1>5, <1>6, Zenon DEF R

Steps(acc, base, n, f) == acc[0] = base /\ \A k \in 1 .. n : acc[k] = f[<<acc[k - 1], k>>]

\* h does so wherever its values are in A.
FoldsIn(h, A, base, n, f) ==
  /\ h[{}] = base
  /\ \A s \in SUBSET (1 .. n) :
       s # {} /\ h[s \ {Max(s)}] \in A => h[s] = f[<<h[s \ {Max(s)}], Max(s)>>]

\* What such a fold has come to by place k.
LEMMA FoldValues ==
  ASSUME NEW A, NEW base \in A, NEW n \in Nat, NEW f \in [A \X (1 .. n) -> A], NEW h,
         FoldsIn(h, A, base, n, f)
  PROVE  \E acc \in [0 .. n -> A] : acc[n] = h[1 .. n] /\ Steps(acc, base, n, f)
<1> DEFINE T == {k \in Nat : k <= n => h[1 .. k] \in A}
<1>1. ASSUME NEW k \in Nat, k + 1 <= n, h[1 .. k] \in A
      PROVE  h[1 .. k + 1] = f[<<h[1 .. k], k + 1>>] /\ h[1 .. k + 1] \in A
  <2>1. /\ 1 .. k + 1 \in SUBSET (1 .. n) /\ 1 .. k + 1 # {} /\ Max(1 .. k + 1) = k + 1
        /\ (1 .. k + 1) \ {Max(1 .. k + 1)} = 1 .. k
    <3>1. Max(1 .. k + 1) = k + 1
      BY MaxUpTo
    <3>2. (1 .. k + 1) \ {k + 1} = 1 .. k
      OBVIOUS
    <3>3. 1 .. k + 1 \in SUBSET (1 .. n) /\ k + 1 \in 1 .. k + 1
      BY <1>1
    <3> QED BY <3>1, <3>2, <3>3, Zenon
  <2>2. h[1 .. k + 1] = f[<<h[1 .. k], k + 1>>]
    BY <1>1, <2>1 DEF FoldsIn
  <2> QED BY <1>1, <2>2
<1>2. 1 .. 0 = {}
  OBVIOUS
<1>3. 0 \in T
  BY <1>2 DEF FoldsIn
<1>4. ASSUME NEW k \in Nat, k \in T PROVE k + 1 \in T
  <2> SUFFICES ASSUME k + 1 <= n PROVE h[1 .. k + 1] \in A
    OBVIOUS
  <2>1. k <= n
    OBVIOUS
  <2> QED BY <1>1, <1>4, <2>1
<1> HIDE DEF T
<1>5. Nat \subseteq T
  BY <1>3, <1>4, NatSets
<1>6. \A k \in 0 .. n : h[1 .. k] \in A
  BY <1>5 DEF T
<1>7. \A k \in 1 .. n : h[1 .. k] = f[<<h[1 .. (k - 1)], k>>]
  <2> SUFFICES ASSUME NEW k \in 1 .. n PROVE h[1 .. k] = f[<<h[1 .. (k - 1)], k>>]
    OBVIOUS
  <2>1. k - 1 \in Nat /\ (k - 1) + 1 = k
    OBVIOUS
  <2> QED BY <1>1, <1>6, <2>1
<1> DEFINE acc == [k \in 0 .. n |-> h[1 .. k]]
<1>8. acc \in [0 .. n -> A]
  BY <1>6
<1>9. acc[0] = base /\ acc[n] = h[1 .. n]
  BY <1>2 DEF FoldsIn
<1>10. \A k \in 1 .. n : acc[k] = f[<<acc[k - 1], k>>]
  BY <1>7
<1> QED BY <1>8, <1>9, <1>10 DEF Steps

-----------------------------------------------------------------------------
(* The kernel's scan of a command line, against the profile's rules.       *)

\* acc[k] is what the kernel has committed of the first k arguments.
CopyRun(acc, S, args) ==
  /\ acc \in [0 .. Len(args) -> Seq(S \cup {Nul})] /\ acc[0] = <<>>
  /\ \A k \in 1 .. Len(args) : acc[k] = acc[k - 1] \o Append(args[k], Nul)

\* The fold of a sequence of arguments, one by one.
LEMMA CommittedFold ==
  ASSUME NEW S, NEW args \in Seq(Seq(S))
  PROVE  \E acc : CopyRun(acc, S, args) /\ acc[Len(args)] = Committed(args)
<1> DEFINE n == Len(args)
           A == Seq(S \cup {Nul})
           f == [x \in A \X (1 .. n) |-> x[1] \o Append(args[x[2]], Nul)]
           step(g) == [s \in SUBSET (1 .. n) |->
                         IF s = {} THEN <<>> ELSE g[s \ {Max(s)}] \o Append(args[Max(s)], Nul)]
           it == CHOOSE i : i = step(i)
<1>1. \A a \in A, k \in 1 .. n : a \o Append(args[k], Nul) \in A
  OBVIOUS
<1>2. f \in [A \X (1 .. n) -> A]
  BY <1>1
<1>3. \A a \in A, k \in 1 .. n : f[<<a, k>>] = a \o Append(args[k], Nul)
  OBVIOUS
<1>4. <<>> \in A /\ n \in Nat /\ DOMAIN args = 1 .. n
  OBVIOUS
<1>5. Committed(args) = it[1 .. n]
  BY <1>4 DEF Committed, FoldLeft, MapThenFoldSet
<1> HIDE DEF n, A, f
<1>6. PICK g \in [SUBSET (1 .. n) -> A] : LeftFold(g, <<>>, n, f)
  BY <1>2, <1>4, FoldExists, Zenon
<1>7. g = step(g)
  <2> SUFFICES ASSUME NEW s \in SUBSET (1 .. n)
               PROVE g[s] = IF s = {} THEN <<>> ELSE g[s \ {Max(s)}] \o Append(args[Max(s)], Nul)
    OBVIOUS
  <2>1. s # {} => Max(s) \in 1 .. n /\ s \ {Max(s)} \in SUBSET (1 .. n)
    BY <1>4, MaxIn
  <2> QED BY <1>3, <1>6, <2>1 DEF LeftFold
<1>8. it = step(it)
  BY <1>7
<1>9. it[{}] = <<>>
  BY <1>8
<1>10. \A s \in SUBSET (1 .. n) :
         s # {} /\ it[s \ {Max(s)}] \in A => it[s] = f[<<it[s \ {Max(s)}], Max(s)>>]
  <2> SUFFICES ASSUME NEW s \in SUBSET (1 .. n), s # {}, it[s \ {Max(s)}] \in A
               PROVE  it[s] = f[<<it[s \ {Max(s)}], Max(s)>>]
    OBVIOUS
  <2>1. it[s] = it[s \ {Max(s)}] \o Append(args[Max(s)], Nul)
    BY <1>8
  <2>2. Max(s) \in 1 .. n
    BY <1>4, MaxIn
  <2> QED BY <1>3, <2>1, <2>2
<1>11. FoldsIn(it, A, <<>>, n, f)
  BY <1>9, <1>10 DEF FoldsIn
<1> HIDE DEF it
<1>12. PICK acc \in [0 .. n -> A] : acc[n] = it[1 .. n] /\ Steps(acc, <<>>, n, f)
  BY <1>2, <1>4, <1>11, FoldValues, Zenon
<1>13. \A k \in 1 .. n : acc[k] = acc[k - 1] \o Append(args[k], Nul)
  <2> SUFFICES ASSUME NEW k \in 1 .. n PROVE acc[k] = acc[k - 1] \o Append(args[k], Nul)
    OBVIOUS
  <2>1. acc[k] = f[<<acc[k - 1], k>>]
    BY <1>12, Zenon DEF Steps
  <2>2. acc[k - 1] \in A
    <3>1. k - 1 \in 0 .. n
      BY <1>4
    <3> QED BY <1>12, <3>1
  <2> QED BY <1>3, <2>1, <2>2
<1> QED BY <1>5, <1>12, <1>13 DEF n, A, Steps, CopyRun

ScanStates(S) == [token : Seq(S), killed : BOOLEAN]
Fresh == [token |-> <<>>, killed |-> FALSE]

\* match_argv_byte() makes a scan of a scan.
LEMMA MatchType ==
  ASSUME NEW S, NEW digest, NEW c \in ScanStates(S), NEW ch \in S
  PROVE  MatchArgvByte(digest, c, ch) \in ScanStates(S)
<1>1. CASE c.killed
  BY <1>1, Zenon DEF MatchArgvByte
<1>2. CASE ~c.killed /\ ch # Nul
  <2>1. MatchArgvByte(digest, c, ch) = IF Len(c.token) < TokenMax - 1
                                  THEN [c EXCEPT !.token = Append(@, ch)] ELSE c
    BY <1>2, Zenon DEF MatchArgvByte
  <2>2. c.token \in Seq(S) /\ Append(c.token, ch) \in Seq(S)
    BY DEF ScanStates
  <2>3. [c EXCEPT !.token = Append(@, ch)] \in ScanStates(S)
    BY <2>2 DEF ScanStates
  <2> QED BY <2>1, <2>3
<1>3. CASE ~c.killed /\ ch = Nul
  <2>1. PICK k \in BOOLEAN :
          k = (c.token # <<>> /\ [digest |-> digest, token |-> c.token] \in Keys)
    OBVIOUS
  <2>2. MatchArgvByte(digest, c, ch) = [token |-> <<>>, killed |-> k]
    BY <1>3, <2>1, Zenon DEF MatchArgvByte
  <2>3. <<>> \in Seq(S)
    OBVIOUS
  <2> QED BY <2>2, <2>3 DEF ScanStates
<1> QED BY <1>1, <1>2, <1>3

\* acc[k] is the scan after k bytes.
ScanRun(acc, S, digest, bytes) ==
  /\ acc \in [0 .. Len(bytes) -> ScanStates(S)]
  /\ \A k \in 1 .. Len(bytes) : acc[k] = MatchArgvByte(digest, acc[k - 1], bytes[k])

\* The scan of a sequence of bytes, one by one.
LEMMA ScanFold ==
  ASSUME NEW S, NEW digest, NEW bytes \in Seq(S)
  PROVE  \E acc : /\ ScanRun(acc, S, digest, bytes)
                  /\ acc[0] = Fresh /\ acc[Len(bytes)] = Scan(digest, bytes)
<1> DEFINE n == Len(bytes)
           A == ScanStates(S)
           f == [x \in A \X (1 .. n) |-> MatchArgvByte(digest, x[1], bytes[x[2]])]
           step(g) == [s \in SUBSET (1 .. n) |->
                         IF s = {} THEN Fresh ELSE MatchArgvByte(digest, g[s \ {Max(s)}], bytes[Max(s)])]
           it == CHOOSE i : i = step(i)
<1>1. \A a \in A, k \in 1 .. n : MatchArgvByte(digest, a, bytes[k]) \in A
  BY MatchType
<1>2. f \in [A \X (1 .. n) -> A]
  BY <1>1
<1>3. \A a \in A, k \in 1 .. n : f[<<a, k>>] = MatchArgvByte(digest, a, bytes[k])
  OBVIOUS
<1>4. Fresh \in A /\ n \in Nat /\ DOMAIN bytes = 1 .. n
  BY DEF ScanStates, Fresh
<1>5. Scan(digest, bytes) = it[1 .. n]
  BY <1>4 DEF Scan, FoldLeft, MapThenFoldSet, MatchArgvByte, Fresh
<1> HIDE DEF n, A, f
<1>6. PICK g \in [SUBSET (1 .. n) -> A] : LeftFold(g, Fresh, n, f)
  BY <1>2, <1>4, FoldExists, Zenon
<1>7. g = step(g)
  <2> SUFFICES ASSUME NEW s \in SUBSET (1 .. n)
               PROVE g[s] = IF s = {} THEN Fresh ELSE MatchArgvByte(digest, g[s \ {Max(s)}], bytes[Max(s)])
    OBVIOUS
  <2>1. s # {} => Max(s) \in 1 .. n /\ s \ {Max(s)} \in SUBSET (1 .. n)
    BY <1>4, MaxIn
  <2> QED BY <1>3, <1>6, <2>1 DEF LeftFold
<1>8. it = step(it)
  BY <1>7
<1>9. it[{}] = Fresh
  BY <1>8
<1>10. \A s \in SUBSET (1 .. n) :
         s # {} /\ it[s \ {Max(s)}] \in A => it[s] = f[<<it[s \ {Max(s)}], Max(s)>>]
  <2> SUFFICES ASSUME NEW s \in SUBSET (1 .. n), s # {}, it[s \ {Max(s)}] \in A
               PROVE  it[s] = f[<<it[s \ {Max(s)}], Max(s)>>]
    OBVIOUS
  <2>1. it[s] = MatchArgvByte(digest, it[s \ {Max(s)}], bytes[Max(s)])
    BY <1>8
  <2>2. Max(s) \in 1 .. n
    BY <1>4, MaxIn
  <2> QED BY <1>3, <2>1, <2>2
<1>11. FoldsIn(it, A, Fresh, n, f)
  BY <1>9, <1>10 DEF FoldsIn
<1> HIDE DEF it
<1>12. PICK acc \in [0 .. n -> A] : acc[n] = it[1 .. n] /\ Steps(acc, Fresh, n, f)
  BY <1>2, <1>4, <1>11, FoldValues, Zenon
<1>13. \A k \in 1 .. n : acc[k] = MatchArgvByte(digest, acc[k - 1], bytes[k])
  <2> SUFFICES ASSUME NEW k \in 1 .. n PROVE acc[k] = MatchArgvByte(digest, acc[k - 1], bytes[k])
    OBVIOUS
  <2>1. acc[k] = f[<<acc[k - 1], k>>]
    BY <1>12, Zenon DEF Steps
  <2>2. acc[k - 1] \in A
    <3>1. k - 1 \in 0 .. n
      BY <1>4
    <3> QED BY <1>12, <3>1
  <2> QED BY <1>3, <2>1, <2>2
<1> QED BY <1>5, <1>12, <1>13 DEF n, A, Steps, ScanRun

\* Whether the kernel has a rule for this token.
HasKey(digest, token) == [digest |-> digest, token |-> token] \in Keys

\* What one byte does to a scan that has not killed: a character that fits is added to
\* the token, and the NUL after a token decides on it.
LEMMA MatchCharacter ==
  ASSUME NEW digest, NEW t, NEW ch, ch # Nul, Len(t) < TokenMax - 1
  PROVE  MatchArgvByte(digest, [token |-> t, killed |-> FALSE], ch)
           = [token |-> Append(t, ch), killed |-> FALSE]
<1> DEFINE c == [token |-> t, killed |-> FALSE]
<1>1. ~c.killed /\ c.token = t
  OBVIOUS
<1>2. MatchArgvByte(digest, c, ch) = [c EXCEPT !.token = Append(@, ch)]
  BY <1>1, Zenon DEF MatchArgvByte
<1> QED BY <1>2

LEMMA MatchNul ==
  ASSUME NEW digest, NEW t
  PROVE  \E k \in BOOLEAN :
           /\ k <=> t # <<>> /\ HasKey(digest, t)
           /\ MatchArgvByte(digest, [token |-> t, killed |-> FALSE], Nul) = [token |-> <<>>, killed |-> k]
<1> DEFINE c == [token |-> t, killed |-> FALSE]
<1>1. ~c.killed /\ c.token = t
  OBVIOUS
<1>2. MatchArgvByte(digest, c, Nul)
        = [token |-> <<>>, killed |-> t # <<>> /\ [digest |-> digest, token |-> t] \in Keys]
  <2> HIDE DEF c
  <2> QED BY <1>1, Zenon DEF MatchArgvByte
<1>3. PICK k \in BOOLEAN : k <=> t # <<>> /\ HasKey(digest, t)
  BY Zenon
<1>4. k = (t # <<>> /\ [digest |-> digest, token |-> t] \in Keys)
  BY <1>3, Zenon DEF HasKey
<1>5. MatchArgvByte(digest, c, Nul) = [token |-> <<>>, killed |-> k]
  BY <1>2, <1>4, Zenon
<1> QED BY <1>3, <1>5

\* The argument stands at this place, with its NUL.
ArgumentAt(bytes, o, arg) ==
  /\ arg \in Seq(Chars) /\ Len(arg) < TokenMax
  /\ o \in 0 .. Len(bytes) /\ o + Len(arg) + 1 <= Len(bytes)
  /\ \A i \in 1 .. Len(arg) : bytes[o + i] = arg[i]
  /\ bytes[o + Len(arg) + 1] = Nul

\* An argument's bytes and the NUL after it leave the scan killed if there is a rule.
LEMMA ScanArgument ==
  ASSUME NEW S, NEW digest, NEW bytes \in Seq(S), NEW o, NEW arg, ArgumentAt(bytes, o, arg),
         NEW acc, ScanRun(acc, S, digest, bytes),
         acc[o] = [token |-> <<>>, killed |-> FALSE]
  PROVE  /\ acc[o + Len(arg) + 1].token = <<>>
         /\ acc[o + Len(arg) + 1].killed <=> arg # <<>> /\ HasKey(digest, arg)
<1> DEFINE m == Len(arg)
           Read(i) == acc[o + i] = [token |-> SubSeq(arg, 1, i), killed |-> FALSE]
           T == {i \in Nat : i <= m => Read(i)}
<1> USE DEF ArgumentAt, ScanRun
<1>1. m \in Nat /\ o \in Nat /\ Len(bytes) \in Nat /\ o + m + 1 <= Len(bytes) /\ m < TokenMax
      /\ TokenMax \in Nat
  BY ArgvAssumption
<1>2. SubSeq(arg, 1, 0) = <<>> /\ SubSeq(arg, 1, m) = arg
  OBVIOUS
<1>3. 0 \in T
  <2>1. o + 0 = o
    BY <1>1
  <2>2. Read(0)
    BY <1>2, <2>1, Zenon
  <2> QED BY <2>2
<1>4. ASSUME NEW i \in Nat, i \in T PROVE i + 1 \in T
  <2> SUFFICES ASSUME i + 1 <= m PROVE Read(i + 1)
    OBVIOUS
  <2>1. /\ o + (i + 1) \in 1 .. Len(bytes) /\ (o + (i + 1)) - 1 = o + i /\ i + 1 \in 1 .. m /\ i <= m
        /\ i < TokenMax - 1
    BY <1>1
  <2>2. acc[o + (i + 1)] = MatchArgvByte(digest, [token |-> SubSeq(arg, 1, i), killed |-> FALSE], arg[i + 1])
    BY <1>4, <2>1
  <2>3. arg[i + 1] # Nul /\ Len(SubSeq(arg, 1, i)) < TokenMax - 1
        /\ Append(SubSeq(arg, 1, i), arg[i + 1]) = SubSeq(arg, 1, i + 1)
    BY <1>1, <2>1, ArgvAssumption
  <2>4. MatchArgvByte(digest, [token |-> SubSeq(arg, 1, i), killed |-> FALSE], arg[i + 1])
          = [token |-> Append(SubSeq(arg, 1, i), arg[i + 1]), killed |-> FALSE]
    <3>1. PICK t : t = SubSeq(arg, 1, i)
      OBVIOUS
    <3>2. PICK ch : ch = arg[i + 1]
      OBVIOUS
    <3>3. ch # Nul /\ Len(t) < TokenMax - 1
      BY <2>3, <3>1, <3>2
    <3>4. MatchArgvByte(digest, [token |-> t, killed |-> FALSE], ch)
            = [token |-> Append(t, ch), killed |-> FALSE]
      BY ONLY <3>3, MatchCharacter, Zenon
    <3> QED BY <3>1, <3>2, <3>4
  <2> QED BY <2>2, <2>3, <2>4
<1> HIDE DEF T
<1>5. Nat \subseteq T
  BY <1>3, <1>4, NatSets
<1>6. acc[o + m] = [token |-> arg, killed |-> FALSE]
  <2>1. Read(m)
    <3>1. m \in T /\ m <= m
      BY <1>1, <1>5
    <3> QED BY <3>1, Zenon DEF T
  <2> QED BY <1>2, <2>1
<1>7. o + m + 1 \in 1 .. Len(bytes) /\ (o + m + 1) - 1 = o + m
  BY <1>1
<1>8. acc[o + m + 1] = MatchArgvByte(digest, [token |-> arg, killed |-> FALSE], Nul)
  BY <1>6, <1>7
<1>9. PICK k \in BOOLEAN :
        /\ k <=> arg # <<>> /\ HasKey(digest, arg)
        /\ MatchArgvByte(digest, [token |-> arg, killed |-> FALSE], Nul) = [token |-> <<>>, killed |-> k]
  BY MatchNul, Zenon
<1>10. acc[o + m + 1].token = <<>> /\ acc[o + m + 1].killed = k
  BY <1>8, <1>9
<1> QED BY <1>9, <1>10

\* From place o on the scan does nothing.
Stopped(acc, o, n) == \A k \in o .. n : acc[k] = acc[o]

\* A scan that has killed is over.
LEMMA ScanStops ==
  ASSUME NEW S, NEW digest, NEW bytes \in Seq(S), NEW o \in 0 .. Len(bytes),
         NEW acc, ScanRun(acc, S, digest, bytes), acc[o].killed
  PROVE  Stopped(acc, o, Len(bytes))
<1> DEFINE T == {i \in Nat : o + i <= Len(bytes) => acc[o + i] = acc[o]}
<1> USE DEF ScanRun
<1>1. 0 \in T
  OBVIOUS
<1>2. ASSUME NEW i \in Nat, i \in T PROVE i + 1 \in T
  <2> SUFFICES ASSUME o + (i + 1) <= Len(bytes) PROVE acc[o + (i + 1)] = acc[o]
    OBVIOUS
  <2>1. /\ o + (i + 1) \in 1 .. Len(bytes) /\ (o + (i + 1)) - 1 = o + i /\ o + i <= Len(bytes)
    OBVIOUS
  <2>2. acc[o + (i + 1)] = MatchArgvByte(digest, acc[o], bytes[o + (i + 1)])
    BY <1>2, <2>1
  <2> QED BY <2>2, Zenon DEF MatchArgvByte
<1> HIDE DEF T
<1>3. Nat \subseteq T
  BY <1>1, <1>2, NatSets
<1> QED
  <2> SUFFICES ASSUME NEW k \in o .. Len(bytes) PROVE acc[k] = acc[o]
    BY DEF Stopped
  <2>1. k - o \in Nat /\ o + (k - o) = k /\ k <= Len(bytes)
    OBVIOUS
  <2> QED BY <1>3, <2>1 DEF T

\* u begins with s.
Extends(u, s) == Len(s) <= Len(u) /\ \A x \in 1 .. Len(s) : u[x] = s[x]

LEMMA ConcatKeeps ==
  ASSUME NEW A, NEW s \in Seq(A), NEW t \in Seq(A)
  PROVE  Extends(s \o t, s)
BY DEF Extends

\* u ends with a and its NUL, from place o.
EndsWith(u, o, a) ==
  /\ Len(u) = o + Len(a) + 1
  /\ \A i \in 1 .. Len(a) : u[o + i] = a[i]
  /\ u[o + Len(a) + 1] = Nul

LEMMA ConcatEnds ==
  ASSUME NEW A, NEW s \in Seq(A), NEW B, NEW a \in Seq(B)
  PROVE  EndsWith(s \o Append(a, Nul), Len(s), a)
<1> DEFINE t == Append(a, Nul)
<1>1. t \in Seq(B \cup {Nul}) /\ Len(t) = Len(a) + 1 /\ t[Len(a) + 1] = Nul
      /\ \A i \in 1 .. Len(a) : t[i] = a[i]
  OBVIOUS
<1> HIDE DEF t
<1>2. Len(s) \in Nat /\ Len(a) \in Nat
  OBVIOUS
<1>3. Len(s \o t) = Len(s) + Len(t)
  BY <1>1
<1>4. \A i \in 1 .. Len(t) : (s \o t)[Len(s) + i] = t[i]
  BY <1>1
<1> QED BY <1>1, <1>2, <1>3, <1>4 DEF EndsWith, t

\* Places of a longer sequence.
LEMMA Upto ==
  /\ \A a, b \in Nat : a <= b => \A x \in 1 .. a : x \in 1 .. b
  /\ \A a, b \in Nat : (\A i \in 1 .. b : a + i \in 1 .. a + b + 1) /\ a + b + 1 \in 1 .. a + b + 1
OBVIOUS

\* Every copy begins with the earlier ones.
PrefixesStand(acc, n) ==
  \A j \in 0 .. n : \A k \in 0 .. j :
    Len(acc[k]) <= Len(acc[j]) /\ \A x \in 1 .. Len(acc[k]) : acc[j][x] = acc[k][x]

\* What was copied of the first arguments stands before the rest.
LEMMA CommittedPrefix ==
  ASSUME NEW S, NEW args \in Seq(Seq(S)), NEW acc, CopyRun(acc, S, args)
  PROVE  PrefixesStand(acc, Len(args))
<1> DEFINE n == Len(args)
           Ahead(j) == \A k \in 0 .. j : Len(acc[k]) <= Len(acc[j])
                                         /\ \A x \in 1 .. Len(acc[k]) : acc[j][x] = acc[k][x]
           T == {j \in Nat : j <= n => Ahead(j)}
<1>5. /\ n \in Nat /\ \A k \in 1 .. n : args[k] \in Seq(S)
      /\ acc \in [0 .. n -> Seq(S \cup {Nul})]
      /\ \A k \in 1 .. n : acc[k] = acc[k - 1] \o Append(args[k], Nul)
  BY DEF CopyRun
<1> HIDE DEF n
<1>1. 0 \in T
  OBVIOUS
<1>2. ASSUME NEW j \in Nat, j \in T PROVE j + 1 \in T
  <2> SUFFICES ASSUME j + 1 <= n PROVE Ahead(j + 1)
    OBVIOUS
  <2>1. Ahead(j) /\ j + 1 \in 1 .. n /\ (j + 1) - 1 = j
    <3>1. j <= n /\ j + 1 \in 1 .. n /\ (j + 1) - 1 = j
      BY <1>5
    <3> QED BY <1>2, <3>1
  <2>2. acc[j + 1] = acc[j] \o Append(args[j + 1], Nul)
    BY <1>5, <2>1
  <2>3. acc[j] \in Seq(S \cup {Nul}) /\ Append(args[j + 1], Nul) \in Seq(S \cup {Nul})
    <3>1. j \in 0 .. n /\ args[j + 1] \in Seq(S)
      BY <1>5, <2>1
    <3>2. PICK s \in Seq(S) : s = args[j + 1]
      BY <3>1
    <3>3. Append(s, Nul) \in Seq(S \cup {Nul})
      OBVIOUS
    <3> QED BY <1>5, <3>1, <3>2, <3>3
  <2>6. Len(acc[j]) <= Len(acc[j + 1]) /\ \A x \in 1 .. Len(acc[j]) : acc[j + 1][x] = acc[j][x]
    <3>1. PICK s : s = acc[j]
      OBVIOUS
    <3>2. PICK t : t = Append(args[j + 1], Nul)
      OBVIOUS
    <3>3. s \in Seq(S \cup {Nul}) /\ t \in Seq(S \cup {Nul}) /\ acc[j + 1] = s \o t
      BY ONLY <2>2, <2>3, <3>1, <3>2
    <3>4. Len(s) <= Len(s \o t) /\ \A x \in 1 .. Len(s) : (s \o t)[x] = s[x]
      <4>1. PICK A : A = S \cup {Nul}
        OBVIOUS
      <4>2. s \in Seq(A) /\ t \in Seq(A)
        BY ONLY <3>3, <4>1
      <4>3. Extends(s \o t, s)
        BY <4>2, ConcatKeeps, Zenon
      <4> QED BY ONLY <4>3 DEF Extends
    <3> QED BY ONLY <3>1, <3>3, <3>4
  <2> SUFFICES ASSUME NEW k \in 0 .. j + 1
               PROVE  Len(acc[k]) <= Len(acc[j + 1])
                      /\ \A x \in 1 .. Len(acc[k]) : acc[j + 1][x] = acc[k][x]
    OBVIOUS
  <2>4. CASE k = j + 1
    BY <2>4, <2>1
  <2>5. CASE k \in 0 .. j
    <3>1. Len(acc[k]) \in Nat /\ Len(acc[j]) \in Nat /\ Len(acc[j + 1]) \in Nat
      <4>1. k \in 0 .. n /\ j \in 0 .. n /\ j + 1 \in 0 .. n
        BY <1>5, <2>1, <2>5
      <4> QED BY <1>5, <4>1
    <3>2. Len(acc[k]) <= Len(acc[j]) /\ \A x \in 1 .. Len(acc[k]) : acc[j][x] = acc[k][x]
      BY <2>1, <2>5
    <3>3. \A x \in 1 .. Len(acc[k]) : x \in 1 .. Len(acc[j])
      BY ONLY <3>1, <3>2, Upto, Zenon
    <3> QED BY ONLY <2>6, <3>1, <3>2, <3>3
  <2> QED BY <2>4, <2>5
<1> HIDE DEF T
<1>3. Nat \subseteq T
  BY <1>1, <1>2, NatSets
<1>4. \A j \in 0 .. n : Ahead(j)
  BY <1>3, <1>5 DEF T
<1> QED BY <1>4 DEF n, PrefixesStand

\* The maps hold no rule without characters.
LEMMA NoEmptyKey == \A digest : ~HasKey(digest, <<>>)
<1> SUFFICES ASSUME NEW digest, [digest |-> digest, token |-> <<>>] \in Keys PROVE FALSE
  BY Zenon DEF HasKey
<1>1. PICK r \in Rules : /\ Len(r.all_of[1]) \in 1 .. TokenMax - 1
                         /\ [digest |-> digest, token |-> <<>>] = [digest |-> r.digest, token |-> r.all_of[1]]
  BY Zenon DEF Keys
<1>2. r.all_of[1] = <<>>
  BY <1>1
<1> QED BY <1>1, <1>2, ArgvAssumption

\* The scan of a whole command line finds whether one of its arguments has a rule.
LEMMA ScanFindsKeys ==
  ASSUME NEW digest, NEW args \in Seq(Seq(Chars)), \A i \in DOMAIN args : Len(args[i]) < TokenMax
  PROVE  Scan(digest, Committed(args)).killed <=> \E i \in DOMAIN args : HasKey(digest, args[i])
<1> DEFINE n == Len(args)
           B == Chars \cup {Nul}
<1>1. PICK C : CopyRun(C, Chars, args) /\ C[Len(args)] = Committed(args)
  BY CommittedFold, Zenon
<1>0. CopyRun(C, Chars, args)
  BY <1>1
<1>11. PrefixesStand(C, Len(args))
  BY <1>0, CommittedPrefix, Zenon
<1>12. /\ C \in [0 .. n -> Seq(B)] /\ C[0] = <<>> /\ C[n] = Committed(args)
       /\ \A k \in 1 .. n : C[k] = C[k - 1] \o Append(args[k], Nul)
  BY <1>1 DEF CopyRun
<1>2. /\ n \in Nat /\ DOMAIN args = 1 .. n /\ args \in [1 .. n -> Seq(Chars)]
      /\ \A k \in 1 .. n : args[k] \in Seq(Chars)
  OBVIOUS
<1> HIDE DEF n, B
<1> DEFINE bytes == Committed(args)
<1>3. bytes = C[n]
  BY <1>12
<1>10. bytes \in Seq(B)
  BY <1>2, <1>12
<1>4. PICK acc : /\ ScanRun(acc, B, digest, bytes)
                 /\ acc[0] = Fresh /\ acc[Len(bytes)] = Scan(digest, bytes)
  BY <1>10, ScanFold, Zenon
<1> HIDE DEF bytes
<1>5. \A k \in 0 .. n : /\ Len(C[k]) \in 0 .. Len(bytes)
                        /\ \A x \in 1 .. Len(C[k]) : bytes[x] = C[k][x]
  BY <1>2, <1>3, <1>11, <1>12 DEF PrefixesStand, n
<1> DEFINE Found(j) == /\ acc[Len(C[j])].token = <<>>
                       /\ acc[Len(C[j])].killed <=> \E i \in 1 .. j : HasKey(digest, args[i])
           T == {j \in Nat : j <= n => Found(j)}
<1>6. 0 \in T
  <2>1. Len(C[0]) = 0 /\ acc[0].token = <<>> /\ ~acc[0].killed /\ 1 .. 0 = {}
    BY <1>4, <1>12 DEF Fresh
  <2>2. Found(0)
    BY <2>1, Zenon
  <2> QED BY <2>2
<1>7. ASSUME NEW j \in Nat, j \in T PROVE j + 1 \in T
  <2> SUFFICES ASSUME j + 1 <= n PROVE Found(j + 1)
    OBVIOUS
  <2> DEFINE o == Len(C[j])
             arg == args[j + 1]
  <2>1. /\ j <= n /\ j \in 0 .. n /\ j + 1 \in 0 .. n /\ j + 1 \in 1 .. n /\ (j + 1) - 1 = j
        /\ arg \in Seq(Chars) /\ Len(arg) < TokenMax
    BY <1>2
  <2>2. Found(j)
    BY <1>7, <2>1
  <2>3. C[j + 1] = C[j] \o Append(arg, Nul) /\ C[j] \in Seq(B)
    BY <1>12, <2>1
  <2>4. /\ Len(C[j + 1]) = o + Len(arg) + 1
        /\ \A i \in 1 .. Len(arg) : C[j + 1][o + i] = arg[i]
        /\ C[j + 1][o + Len(arg) + 1] = Nul
    <3>1. PICK a \in Seq(Chars) : a = args[j + 1]
      BY <2>1
    <3>2. PICK s \in Seq(B) : s = C[j]
      BY <2>3
    <3>3. EndsWith(s \o Append(a, Nul), Len(s), a)
      BY <3>1, <3>2, ConcatEnds, Zenon
    <3> QED BY <2>3, <3>1, <3>2, <3>3 DEF EndsWith
  <2>5. /\ o \in 0 .. Len(bytes) /\ o + Len(arg) + 1 <= Len(bytes)
        /\ \A x \in 1 .. o + Len(arg) + 1 : bytes[x] = C[j + 1][x]
    <3>1. Len(C[j + 1]) <= Len(bytes) /\ o \in 0 .. Len(bytes)
      BY <1>5, <2>1
    <3> QED BY <1>5, <2>1, <2>4, <3>1
  <2>6. ArgumentAt(bytes, o, arg)
    <3>1. Len(arg) \in Nat /\ o \in Nat
      BY <2>1, <2>5
    <3>2. /\ \A i \in 1 .. Len(arg) : o + i \in 1 .. o + Len(arg) + 1
          /\ o + Len(arg) + 1 \in 1 .. o + Len(arg) + 1
      BY ONLY <3>1, Upto, Zenon
    <3> QED BY ONLY <2>1, <2>4, <2>5, <3>2, Zenon DEF ArgumentAt
  <2>7. 1 .. j + 1 = (1 .. j) \cup {j + 1}
    OBVIOUS
  <2> HIDE DEF o, arg
  <2>8. CASE acc[o].killed
    <3>1. o + Len(arg) + 1 \in o .. Len(bytes)
      BY <2>1, <2>5
    <3>2. acc[o + Len(arg) + 1] = acc[o]
      <4>1. PICK k \in o .. Len(bytes) : k = o + Len(arg) + 1
        BY <3>1
      <4>2. o \in 0 .. Len(bytes) /\ ScanRun(acc, B, digest, bytes)
        BY <1>4, <2>5
      <4>3. Stopped(acc, o, Len(bytes))
        BY <1>10, <2>8, <4>2, ScanStops, Zenon
      <4> QED BY <4>1, <4>3 DEF Stopped
    <3> QED BY <2>2, <2>4, <2>7, <2>8, <3>2, Zenon DEF o
  <2>9. CASE ~acc[o].killed
    <3>1. acc[o] = [token |-> <<>>, killed |-> FALSE]
      <4>1. acc[o] \in ScanStates(B) /\ acc[o].token = <<>>
        BY <1>4, <2>2, <2>5 DEF o, ScanRun
      <4> QED BY <2>9, <4>1 DEF ScanStates
    <3>2. /\ acc[o + Len(arg) + 1].token = <<>>
          /\ acc[o + Len(arg) + 1].killed <=> arg # <<>> /\ HasKey(digest, arg)
      BY <1>4, <1>10, <2>6, <3>1, ScanArgument, Zenon
    <3> QED BY <2>2, <2>4, <2>7, <2>9, <3>2, NoEmptyKey, Zenon DEF o, arg
  <2> QED BY <2>8, <2>9
<1> HIDE DEF T
<1>8. Nat \subseteq T
  BY <1>6, <1>7, NatSets
<1>9. Found(n)
  <2>1. n \in T /\ n <= n
    BY <1>2, <1>8
  <2> QED BY <2>1, Zenon DEF T
<1> QED BY <1>2, <1>3, <1>4, <1>9, Zenon DEF bytes

\* Where every rule of the binary fits a key, and every argument a token and the copy, the
\* kernel's scan (match_argv_byte() over bpf_loop()) kills what evaluate_argv() denies.
THEOREM KernelIsExact ==
  ASSUME NEW digest, NEW args \in Seq(Seq(Chars)), Representable(digest, args)
  PROVE  KernelKills(digest, args) <=> EvaluateArgv(digest, args)
<1>1. Captured(args) = Committed(args)
  BY Zenon DEF Representable, Captured
<1>2. KernelKills(digest, args) <=> \E i \in DOMAIN args : HasKey(digest, args[i])
  BY <1>1, ScanFindsKeys, Zenon DEF KernelKills, Representable
<1>3. \A r \in Rules : r.digest = digest =>
        /\ r.all_of \in Seq(Seq(Chars \cup {Nul})) /\ Len(r.all_of) = 1
        /\ Len(r.all_of[1]) \in 1 .. TokenMax - 1
        /\ r.all_of # <<>> /\ ToSet(r.all_of) = {r.all_of[1]}
  BY ArgvAssumption DEF Representable, ToSet
<1>4. \A token : HasKey(digest, token) <=> \E r \in Rules : r.digest = digest /\ r.all_of[1] = token
  BY <1>3 DEF HasKey, Keys
<1>5. EvaluateArgv(digest, args) <=> \E r \in Rules : r.digest = digest /\ r.all_of[1] \in ToSet(args)
  BY <1>3 DEF EvaluateArgv
<1>6. \A x : x \in ToSet(args) <=> \E i \in DOMAIN args : x = args[i]
  BY DEF ToSet
<1>7. EvaluateArgv(digest, args) <=>
        \E i \in DOMAIN args : \E r \in Rules : r.digest = digest /\ r.all_of[1] = args[i]
  BY <1>5, <1>6
<1> QED BY <1>2, <1>4, <1>7

\* What the history of execs says of a command line.
CommitTypes == \A c \in commits : c.args \in Seq(Seq(Chars))

LEMMA CommitTypesInit == WallsInit => CommitTypes
BY DEF WallsInit, LsmInit, CommitTypes

LEMMA CommitTypesStep == ProcessTypes /\ CommitTypes /\ [WallsNext]_cellVars => CommitTypes'
<1> SUFFICES ASSUME ProcessTypes, CommitTypes, [WallsNext]_cellVars PROVE CommitTypes'
  OBVIOUS
<1>1. CASE CellAct
  <2>1. PICK p \in Pids :
          \/ Execve(p) \/ EnforceExec(p) \/ Unscreened(p) \/ ExecFails(p) \/ Commit(p)
          \/ \E q \in Pids : Fork(p, q)
    BY <1>1, Zenon DEF CellAct
  <2>2. CASE Commit(p)
    <3>1. call[p] \in CallSet
      BY <2>2, CommitStep, Zenon
    <3>2. call[p].args \in Seq(Seq(Chars))
      BY <3>1, LsmAssumption DEF CallSet
    <3>3. PICK k : k = Kills(p)
      BY Zenon
    <3>4. PICK r : r = (argvs < ArgvRoom)
      BY Zenon
    <3> DEFINE new == [th |-> call[p].th, file |-> call[p].file, args |-> call[p].args, pid |-> p,
                       evicted |-> call[p].evicted, killed |-> k, room |-> r]
    <3>5. commits' = commits \/ commits' = commits \cup {new}
      BY <2>2, <3>3, <3>4, CommitStep, Zenon
    <3>6. new.args = call[p].args
      OBVIOUS
    <3> HIDE DEF new
    <3> QED BY <3>2, <3>5, <3>6, Zenon DEF CommitTypes
  <2>3. CASE ~Commit(p)
    <3>1. UNCHANGED commits
      BY <2>1, <2>3, Zenon DEF Execve, EnforceExec, Unscreened, ExecFails, Fork, Kernel
    <3> QED BY <3>1 DEF CommitTypes
  <2> QED BY <2>2, <2>3
<1>2. CASE ~CellAct
  <2>1. UNCHANGED commits
    <3>1. CASE ExecAgent \/ Leaves \/ OutsiderComes
      BY <3>1, Zenon DEF ExecAgent, Execve, Leaves, ProcessEnds, OutsiderComes, Outsider, Kernel
    <3>2. CASE UNCHANGED cellVars
      BY <3>2 DEF cellVars, lsmVars
    <3>3. CASE CellConnects \/ OtherConnects \/ ConnGoesOn
      BY <3>3 DEF CellConnects, OtherConnects, ConnGoesOn, Quiet, lsmVars
    <3> QED
      BY <1>2, <3>1, <3>2, <3>3
      DEF WallsNext, EnsureExecSupported, JoinCgroup, MountsUnread, Wire, NoUplink, AttachExecWall,
          AttachTracker, HookLeaves, Mount, InsideFails, Inside, HostFiles, TheirTeardown, Ended,
          DrainEvents, DetachWall, Teardown, lsmVars
  <2> QED BY <2>1 DEF CommitTypes
<1> QED BY <1>1, <1>2

\* capture_argv() kills an exec of the cell exactly when the profile's argv rules deny it
\* (evaluate_argv()), for any rules and command lines the kernel's maps can hold.
THEOREM DeniedKilled == WallsSpec => []KillsTheDenied
<1>1. WallsInit => CommitTypes
  BY CommitTypesInit
<1>2. WallsInv /\ CommitTypes /\ [WallsNext]_cellVars => CommitTypes'
  BY CommitTypesStep, Zenon DEF WallsInv, WallsCore
<1>3. ScanDecides /\ CommitTypes => KillsTheDenied
  <2> SUFFICES ASSUME ScanDecides, CommitTypes, NEW c \in commits,
                      c.th = "leader", c.room, ~c.evicted, Representable(c.file, c.args)
               PROVE  c.killed <=> EvaluateArgv(c.file, c.args)
    BY Zenon DEF KillsTheDenied
  <2>1. c.killed <=> KernelKills(c.file, c.args)
    BY Zenon DEF ScanDecides
  <2>2. c.args \in Seq(Seq(Chars))
    BY DEF CommitTypes
  <2>3. KernelKills(c.file, c.args) <=> EvaluateArgv(c.file, c.args)
    BY <2>2, KernelIsExact, Zenon
  <2> QED BY <2>1, <2>3
<1> QED BY <1>1, <1>2, <1>3, WallsInductive, ScanKills, PTL DEF WallsSpec

-----------------------------------------------------------------------------
(* Paths, and what expand() finds.                                         *)

\* A path's first names, as paths.
Upper(p, i) == SubSeq(p, 1, i)

\* The first names of a path, taken once or twice.
LEMMA UpperFacts ==
  ASSUME NEW p \in Seq(Names), NEW i \in 0 .. Len(p)
  PROVE  /\ Upper(p, i) \in Seq(Names) /\ Len(Upper(p, i)) = i
         /\ \A j \in 1 .. i : Upper(p, i)[j] = p[j]
         /\ \A j \in 0 .. i : Upper(Upper(p, i), j) = Upper(p, j)
         /\ i > 0 => Front(Upper(p, i)) = Upper(p, i - 1) /\ Last(Upper(p, i)) = p[i]
<1> DEFINE u == Upper(p, i)
<1>1. u \in Seq(Names) /\ Len(u) = i /\ \A j \in 1 .. i : u[j] = p[j]
  BY DEF Upper
<1>2. ASSUME NEW j \in 0 .. i PROVE Upper(u, j) = Upper(p, j)
  <2>1. SubSeq(u, 1, j) = [k \in 1 .. j |-> u[k]] /\ SubSeq(p, 1, j) = [k \in 1 .. j |-> p[k]]
    <3> HIDE DEF u
    <3> QED BY <1>1
  <2> QED BY <1>1, <2>1 DEF Upper
<1>3. i > 0 => Front(u) = Upper(u, i - 1) /\ Last(u) = u[i]
  <2> HIDE DEF u
  <2> QED BY <1>1 DEF Front, Last, Upper
<1> QED BY <1>1, <1>2, <1>3

\* Paths are not empty.
LEMMA PathFacts == \A p \in Paths : p \in Seq(Names) /\ Len(p) \in Nat \ {0} /\ Upper(p, Len(p)) = p
BY PathAssumption DEF Upper

\* The directories above a path are its own first names.
LEMMA UppersAre == \A p \in Paths : \A i \in 1 .. Len(p) : Upper(p, i) \in Paths
<1> SUFFICES ASSUME NEW p \in Paths PROVE \A i \in 1 .. Len(p) : Upper(p, i) \in Paths
  OBVIOUS
<1> DEFINE n == Len(p)
           T == {k \in Nat : k < n => Upper(p, n - k) \in Paths}
<1>1. p \in Seq(Names) /\ n \in Nat \ {0} /\ Upper(p, n) = p
  BY PathFacts
<1> HIDE DEF n
<1>2. 0 \in T
  BY <1>1
<1>3. ASSUME NEW k \in Nat, k \in T PROVE k + 1 \in T
  <2> SUFFICES ASSUME k + 1 < n PROVE Upper(p, n - (k + 1)) \in Paths
    OBVIOUS
  <2>1. n - k \in 0 .. n /\ n - k > 1 /\ (n - k) - 1 = n - (k + 1) /\ Upper(p, n - k) \in Paths
    BY <1>1, <1>3
  <2>2. Len(Upper(p, n - k)) = n - k /\ Front(Upper(p, n - k)) = Upper(p, (n - k) - 1)
    <3>1. PICK i \in 0 .. Len(p) : i = n - k
      BY <2>1 DEF n
    <3>2. i > 0
      BY <2>1, <3>1
    <3>3. Len(Upper(p, i)) = i /\ Front(Upper(p, i)) = Upper(p, i - 1)
      BY <1>1, <3>2, UpperFacts, Zenon
    <3> QED BY <3>1, <3>3
  <2> QED BY <2>1, <2>2, PathAssumption
<1> HIDE DEF T
<1>4. Nat \subseteq T
  BY <1>2, <1>3, NatSets
<1>5. ASSUME NEW i \in 1 .. n PROVE Upper(p, i) \in Paths
  <2>1. n - i \in Nat /\ n - i < n /\ n - (n - i) = i
    BY <1>1
  <2> QED BY <1>4, <2>1 DEF T
<1> QED BY <1>5 DEF n

\* Above is what is shorter.
LEMMA AboveAre == \A p \in Paths : Above(p) = {Upper(p, i) : i \in 1 .. Len(p) - 1}
<1> SUFFICES ASSUME NEW p \in Paths PROVE Above(p) = {Upper(p, i) : i \in 1 .. Len(p) - 1}
  OBVIOUS
<1>1. p \in Seq(Names) /\ Len(p) \in Nat \ {0} /\ Upper(p, Len(p)) = p
  BY PathFacts
<1>2. ASSUME NEW q \in Above(p) PROVE \E i \in 1 .. Len(p) - 1 : q = Upper(p, i)
  <2>1. q \in Paths /\ q # p /\ Len(q) <= Len(p) /\ SubSeq(q, 1, Len(q)) = SubSeq(p, 1, Len(q))
    BY DEF Above, IsPrefix
  <2>2. Len(q) \in Nat \ {0} /\ Upper(q, Len(q)) = q
    BY <2>1, PathFacts
  <2>3. q = Upper(p, Len(q))
    BY <2>1, <2>2 DEF Upper
  <2>4. Len(q) # Len(p)
    BY <1>1, <2>1, <2>3
  <2>5. Len(q) \in 1 .. Len(p) - 1
    BY <1>1, <2>1, <2>2, <2>4
  <2> QED BY <2>3, <2>5
<1>3. ASSUME NEW i \in 1 .. Len(p) - 1 PROVE Upper(p, i) \in Above(p)
  <2>1. i \in 0 .. Len(p) /\ i \in 1 .. Len(p) /\ i # Len(p)
    BY <1>1
  <2>2. Upper(p, i) \in Paths
    BY <2>1, UppersAre
  <2>3. Len(Upper(p, i)) = i /\ Upper(Upper(p, i), i) = Upper(p, i)
    BY <1>1, <2>1, UpperFacts
  <2>4. IsPrefix(Upper(p, i), p)
    <3>1. SubSeq(Upper(p, i), 1, i) = SubSeq(p, 1, i)
      BY <2>3, Zenon DEF Upper
    <3>2. i <= Len(p)
      BY <1>1
    <3> QED BY <2>3, <3>1, <3>2, Zenon DEF IsPrefix
  <2> QED BY <1>1, <2>1, <2>2, <2>3, <2>4 DEF Above
<1> QED BY <1>2, <1>3

\* What is above what is above.
LEMMA AboveAbove ==
  ASSUME NEW p \in Paths, NEW q \in Above(p)
  PROVE  q \in Paths /\ Above(q) \subseteq Above(p)
<1>1. q \in Paths
  BY DEF Above
<1>2. PICK i \in 1 .. Len(p) - 1 : q = Upper(p, i)
  BY AboveAre
<1>3. p \in Seq(Names) /\ Len(p) \in Nat /\ i \in 0 .. Len(p)
  BY PathFacts
<1>4. Len(q) = i /\ \A j \in 0 .. i : Upper(q, j) = Upper(p, j)
  BY <1>2, <1>3, UpperFacts
<1>5. ASSUME NEW r \in Above(q) PROVE r \in Above(p)
  <2>1. PICK j \in 1 .. Len(q) - 1 : r = Upper(q, j)
    BY <1>1, AboveAre
  <2>2. r = Upper(p, j) /\ j \in 1 .. Len(p) - 1
    BY <1>2, <1>3, <1>4, <2>1
  <2> QED BY <2>2, AboveAre
<1> QED BY <1>1, <1>5

\* What stands has directories above it.
Tree == \A p \in Paths : Len(p) > 1 /\ kind[p] # "none" => kind[Front(p)] \in Dirs

\* Every directory above what stands is one.
LEMMA AboveStand ==
  ASSUME Tree, NEW p \in Paths, kind[p] # "none"
  PROVE  \A q \in Above(p) : kind[q] \in Dirs
<1> DEFINE n == Len(p)
           T == {k \in Nat : 0 < k /\ k < n => kind[Upper(p, n - k)] \in Dirs}
<1>1. p \in Seq(Names) /\ n \in Nat \ {0} /\ Upper(p, n) = p
  BY PathFacts
<1> HIDE DEF n
<1>2. 0 \in T
  OBVIOUS
<1>3. ASSUME NEW k \in Nat, k \in T PROVE k + 1 \in T
  <2> SUFFICES ASSUME k + 1 < n PROVE kind[Upper(p, n - (k + 1))] \in Dirs
    OBVIOUS
  <2>1. PICK i \in 1 .. Len(p) : i = n - k
    BY <1>1 DEF n
  <2>2. i > 1 /\ i > 0 /\ i - 1 = n - (k + 1) /\ i \in 0 .. Len(p)
    BY <1>1, <2>1
  <2>3. Len(Upper(p, i)) = i /\ Front(Upper(p, i)) = Upper(p, i - 1)
    BY <1>1, <2>2, UpperFacts, Zenon
  <2>4. kind[Upper(p, i)] # "none"
    BY <1>1, <1>3, <2>1 DEF Dirs
  <2>5. Upper(p, i) \in Paths
    BY <2>1, UppersAre
  <2> QED BY <2>2, <2>3, <2>4, <2>5 DEF Tree
<1> HIDE DEF T
<1>4. Nat \subseteq T
  BY <1>2, <1>3, NatSets
<1>5. ASSUME NEW i \in 1 .. n - 1 PROVE kind[Upper(p, i)] \in Dirs
  <2>1. n - i \in Nat /\ 0 < n - i /\ n - i < n /\ n - (n - i) = i
    BY <1>1
  <2> QED BY <1>4, <2>1 DEF T
<1> QED BY <1>5, AboveAre DEF n

\* acc[k] is the frontier after k components of a pattern.
DescentRun(acc, comps) ==
  /\ acc \in [0 .. Len(comps) -> SUBSET (Paths \cup {<<>>})] /\ acc[0] = {<<>>}
  /\ \A k \in 1 .. Len(comps) : acc[k] = Descend(acc[k - 1], comps[k])

\* The fold of a sequence of components, one by one.
LEMMA ExpandFold ==
  ASSUME NEW S, NEW pattern, pattern.comps \in Seq(S)
  PROVE  \E acc : DescentRun(acc, pattern.comps) /\ acc[Len(pattern.comps)] = Expand(pattern)
<1> DEFINE comps == pattern.comps
           n == Len(comps)
           A == SUBSET (Paths \cup {<<>>})
           f == [x \in A \X (1 .. n) |-> Descend(x[1], comps[x[2]])]
           step(g) == [s \in SUBSET (1 .. n) |->
                         IF s = {} THEN {<<>>} ELSE Descend(g[s \ {Max(s)}], comps[Max(s)])]
           it == CHOOSE i : i = step(i)
<1>1. \A a \in A, k \in 1 .. n : Descend(a, comps[k]) \in A
  BY DEF Descend
<1>2. f \in [A \X (1 .. n) -> A]
  BY <1>1
<1>3. \A a \in A, k \in 1 .. n : f[<<a, k>>] = Descend(a, comps[k])
  OBVIOUS
<1>4. {<<>>} \in A /\ n \in Nat /\ DOMAIN comps = 1 .. n
  OBVIOUS
<1>5. Expand(pattern) = it[1 .. n]
  BY <1>4 DEF Expand, FoldLeft, MapThenFoldSet
<1> HIDE DEF comps, n, A, f
<1>6. PICK g \in [SUBSET (1 .. n) -> A] : LeftFold(g, {<<>>}, n, f)
  BY <1>2, <1>4, FoldExists, Zenon
<1>7. g = step(g)
  <2> SUFFICES ASSUME NEW s \in SUBSET (1 .. n)
               PROVE g[s] = IF s = {} THEN {<<>>} ELSE Descend(g[s \ {Max(s)}], comps[Max(s)])
    OBVIOUS
  <2>1. s # {} => Max(s) \in 1 .. n /\ s \ {Max(s)} \in SUBSET (1 .. n)
    BY <1>4, MaxIn
  <2> QED BY <1>3, <1>6, <2>1 DEF LeftFold
<1>8. it = step(it)
  BY <1>7
<1>9. it[{}] = {<<>>}
  BY <1>8
<1>10. \A s \in SUBSET (1 .. n) :
         s # {} /\ it[s \ {Max(s)}] \in A => it[s] = f[<<it[s \ {Max(s)}], Max(s)>>]
  <2> SUFFICES ASSUME NEW s \in SUBSET (1 .. n), s # {}, it[s \ {Max(s)}] \in A
               PROVE  it[s] = f[<<it[s \ {Max(s)}], Max(s)>>]
    OBVIOUS
  <2>1. it[s] = Descend(it[s \ {Max(s)}], comps[Max(s)])
    BY <1>8
  <2>2. Max(s) \in 1 .. n
    BY <1>4, MaxIn
  <2> QED BY <1>3, <2>1, <2>2
<1>11. FoldsIn(it, A, {<<>>}, n, f)
  BY <1>9, <1>10 DEF FoldsIn
<1> HIDE DEF it
<1>12. PICK acc \in [0 .. n -> A] : acc[n] = it[1 .. n] /\ Steps(acc, {<<>>}, n, f)
  BY <1>2, <1>4, <1>11, FoldValues, Zenon
<1>13. \A k \in 1 .. n : acc[k] = Descend(acc[k - 1], comps[k])
  <2> SUFFICES ASSUME NEW k \in 1 .. n PROVE acc[k] = Descend(acc[k - 1], comps[k])
    OBVIOUS
  <2>1. acc[k] = f[<<acc[k - 1], k>>]
    BY <1>12, Zenon DEF Steps
  <2>2. acc[k - 1] \in A
    <3>1. k - 1 \in 0 .. n
      BY <1>4
    <3> QED BY <1>12, <3>1
  <2> QED BY <1>3, <2>1, <2>2
<1> QED BY <1>5, <1>12, <1>13 DEF n, A, Steps, DescentRun, comps

Kinds == {"none", "file"} \cup Dirs

\* Nothing covers the directories above p: then expand() sees what stands there, and
\* lists what is not sealed.
LEMMA SeesStanding ==
  ASSUME Tree, NEW p \in Paths, kind[p] # "none", ~Hidden(p)
  PROVE  Sees(p) # "none" /\ \A q \in Above(p) : Sees(q) = kind[q] /\ kind[q] \in Dirs
<1>1. Sees(p) # "none"
  BY DEF Sees
<1>2. ASSUME NEW q \in Above(p) PROVE Sees(q) = kind[q] /\ kind[q] \in Dirs
  <2>1. ~Hidden(q) /\ q \in Paths /\ cover[q] = "none"
    BY AboveAbove DEF Hidden
  <2>2. kind[q] \in Dirs
    BY AboveStand
  <2> QED BY <2>1, <2>2 DEF Sees
<1> QED BY <1>1, <1>2

\* expand() finds the directory, or the file, that a denied path stands under.
LEMMA ExpandFinds ==
  ASSUME Tree, NEW p \in Paths, kind[p] # "none", ~Hidden(p),
         NEW pattern \in Patterns, PathMatches(p, pattern), Listable(p, pattern)
  PROVE  Upper(p, Len(pattern.comps)) \in Expand(pattern)
<1> DEFINE comps == pattern.comps
           n == Len(comps)
<1>1. comps \in Seq(Names \cup {Star}) /\ n \in Nat /\ DOMAIN comps = 1 .. n
  BY DEF Patterns
<1>2. p \in Seq(Names) /\ Len(p) \in Nat \ {0} /\ Upper(p, Len(p)) = p /\ Upper(p, 0) = <<>>
  BY PathFacts DEF Upper
<1>3. n <= Len(p) /\ \A i \in 1 .. n : Component(comps[i], p[i])
  <2>1. /\ IF pattern.deep THEN Len(p) >= n ELSE Len(p) = n
        /\ \A i \in DOMAIN comps : Component(comps[i], p[i])
    BY Zenon DEF PathMatches
  <2> QED BY <1>1, <1>2, <2>1
<1>4. PICK acc : DescentRun(acc, comps) /\ acc[n] = Expand(pattern)
  <2>1. pattern.comps \in Seq(Names \cup {Star})
    BY <1>1
  <2> QED BY <2>1, ExpandFold, Zenon
<1>5. acc[0] = {<<>>} /\ \A k \in 1 .. n : acc[k] = Descend(acc[k - 1], comps[k])
  BY <1>4, Zenon DEF DescentRun
<1> HIDE DEF n, comps
<1> DEFINE T == {i \in Nat : i <= n => Upper(p, i) \in acc[i]}
<1>6. 0 \in T
  BY <1>2, <1>5
<1>7. ASSUME NEW i \in Nat, i \in T PROVE i + 1 \in T
  <2> SUFFICES ASSUME i + 1 <= n PROVE Upper(p, i + 1) \in acc[i + 1]
    OBVIOUS
  <2>1. PICK k \in 1 .. Len(p) : k = i + 1
    BY <1>1, <1>2, <1>3
  <2>2. k \in 1 .. n /\ k > 0 /\ k - 1 = i /\ k \in 0 .. Len(p) /\ i <= n
    BY <1>1, <2>1
  <2>3. Upper(p, k) \in Paths
    BY UppersAre
  <2>4. Front(Upper(p, k)) = Upper(p, i) /\ Last(Upper(p, k)) = p[k]
    <3>1. Front(Upper(p, k)) = Upper(p, k - 1) /\ Last(Upper(p, k)) = p[k]
      BY <1>2, <2>2, UpperFacts, Zenon
    <3> QED BY <2>2, <3>1
  <2>5. Sees(Upper(p, k)) # "none"
    <3>1. CASE k = Len(p)
      BY <1>2, <3>1, SeesStanding
    <3>2. CASE k # Len(p)
      <4>1. k \in 1 .. Len(p) - 1
        BY <1>2, <3>2
      <4>2. Upper(p, k) \in Above(p)
        BY <4>1, AboveAre
      <4> QED BY <4>2, SeesStanding DEF Dirs
    <3> QED BY <3>1, <3>2
  <2>6. comps[k] \in {Star, p[k]}
    BY <1>3, <2>2 DEF Component
  <2>7. Upper(p, i) \in acc[i] /\ acc[k] = Descend(acc[i], comps[k])
    BY <1>5, <1>7, <2>2
  <2>8. ASSUME comps[k] = Star PROVE Lists(Upper(p, i))
    <3>1. CASE i = 0
      BY <1>2, <3>1 DEF Lists
    <3>2. CASE i # 0
      <4>1. i \in 1 .. Len(p) - 1
        BY <1>7, <2>1, <2>2, <3>2
      <4>2. Sees(Upper(p, i)) = kind[Upper(p, i)] /\ kind[Upper(p, i)] \in Dirs
        BY <4>1, AboveAre, SeesStanding
      <4>3. kind[Upper(p, i)] # "sealed"
        <5>1. k \in DOMAIN comps /\ k > 1
          BY <1>1, <2>2, <3>2
        <5>2. kind[SubSeq(p, 1, k - 1)] # "sealed"
          BY <2>8, <5>1, Zenon DEF Listable, comps
        <5> QED BY <2>2, <5>2 DEF Upper
      <4> QED BY <4>2, <4>3 DEF Lists, Dirs
    <3> QED BY <3>1, <3>2
  <2> QED BY <2>1, <2>3, <2>4, <2>5, <2>6, <2>7, <2>8 DEF Descend
<1> HIDE DEF T
<1>8. Nat \subseteq T
  BY <1>6, <1>7, NatSets
<1>9. Upper(p, n) \in acc[n]
  <2>1. n \in T /\ n <= n
    BY <1>1, <1>8
  <2> QED BY <2>1, Zenon DEF T
<1> QED BY <1>4, <1>9 DEF n, comps

\* expand() finds paths of interest only, since a pattern has a component.
LEMMA ExpandIn ==
  ASSUME NEW pattern \in Patterns
  PROVE  Expand(pattern) \subseteq Paths
<1> DEFINE n == Len(pattern.comps)
<1>1. pattern.comps \in Seq(Names \cup {Star}) /\ n \in Nat \ {0}
  BY DEF Patterns
<1>2. PICK acc : DescentRun(acc, pattern.comps) /\ acc[n] = Expand(pattern)
  BY <1>1, ExpandFold, Zenon
<1>3. acc[n] = Descend(acc[n - 1], pattern.comps[n])
  BY <1>1, <1>2 DEF DescentRun
<1> QED BY <1>2, <1>3 DEF Descend

\* A finite set's members are all in each of its listings.
LEMMA ListingsList ==
  ASSUME NEW A, IsFiniteSet(A), NEW s \in SetToSeqs(A)
  PROVE  s \in Seq(A) /\ ToSet(s) = A
<1> DEFINE n == Cardinality(A)
<1>1. n \in Nat
  BY FS_CardinalityType
<1>2. s \in [1 .. n -> A] /\ \A i, j \in 1 .. n : i # j => s[i] # s[j]
  BY Zenon DEF SetToSeqs
<1>3. s \in Injection(1 .. n, A)
  BY <1>2 DEF Injection, IsInjective
<1>4. Cardinality(1 .. n) = n
  BY <1>1, FS_Interval
<1>5. s \in Surjection(1 .. n, A)
  BY <1>3, <1>4, FS_Injection, Zenon
<1>6. s \in Seq(A) /\ DOMAIN s = 1 .. n
  BY <1>1, <1>2
<1>7. \A x \in A : \E i \in 1 .. n : s[i] = x
  BY <1>5 DEF Surjection
<1> QED BY <1>2, <1>6, <1>7 DEF ToSet

-----------------------------------------------------------------------------
(* The mount wall.                                                         *)

\* Something stands at p, and what was denied there is covered, or about to be.
Waiting(p) == \E t \in ToSet(targets) : t = p \/ t \in Above(p)
Covered(p) == Hidden(p) \/ cover[p] \in {"tmpfs", "null"} \/ Waiting(p)

MountTypes ==
  /\ kind \in [Paths -> Kinds] /\ made \in [Paths -> Nat] /\ DOMAIN cover = Paths
  /\ todo \in Seq(Patterns) /\ targets \in Seq(Paths)
  /\ \A s \in stood : s[1] \in Paths /\ s[2] \in Nat

\* What stood when its pattern was expanded is covered while it stands, and nothing was
\* expanded before the host's mounts were shut out.
CoverInv ==
  /\ stood # {} \/ targets # <<>> => private
  /\ \A s \in stood : /\ s[2] <= made[s[1]]
                      /\ made[s[1]] = s[2] /\ kind[s[1]] # "none" => Covered(s[1])

MountInv == MountTypes /\ Tree /\ CoverInv

\* The directory a path is in.
LEMMA FrontAbove == \A p \in Paths : Len(p) > 1 => Front(p) \in Above(p) /\ Front(p) # p
<1> SUFFICES ASSUME NEW p \in Paths, Len(p) > 1 PROVE Front(p) \in Above(p)
  BY DEF Above
<1>1. Len(p) - 1 \in 1 .. Len(p) - 1
  BY PathFacts
<1> QED BY <1>1, AboveAre DEF Front, Upper

\* What is expanded is about to be covered, unless it is hidden.
LEMMA ExpandKeeps ==
  ASSUME MountInv, ExpandNext
  PROVE  MountInv'
<1> USE DEF MountInv
<1>1. /\ private /\ targets = <<>> /\ todo # <<>> /\ todo' = Tail(todo)
      /\ targets' \in SetToSeqs(Expand(Head(todo)))
      /\ UNCHANGED <<private, cover, kind, made>>
      /\ stood' = stood \cup {<<p, made[p]>> :
                   p \in {q \in Paths : /\ kind[q] # "none" /\ PathMatches(q, Head(todo))
                                        /\ Listable(q, Head(todo))}}
  BY DEF ExpandNext, Host
<1>2. Head(todo) \in Patterns /\ todo' \in Seq(Patterns)
  BY <1>1 DEF MountTypes
<1>3. Expand(Head(todo)) \subseteq Paths
  BY <1>2, ExpandIn, Zenon
<1>4. IsFiniteSet(Expand(Head(todo)))
  BY <1>3, PathAssumption, FS_Subset
<1>5. targets' \in Seq(Expand(Head(todo))) /\ ToSet(targets') = Expand(Head(todo))
  BY <1>1, <1>4, ListingsList, Zenon
<1>6. targets' \in Seq(Paths)
  BY <1>3, <1>5
<1>7. ToSet(targets) = {}
  BY <1>1 DEF ToSet
<1>8. ASSUME NEW p \in Paths, kind[p] # "none", PathMatches(p, Head(todo)), Listable(p, Head(todo))
      PROVE  Covered(p)'
  <2>1. CASE Hidden(p)
    BY <1>1, <2>1 DEF Covered, Hidden
  <2>2. CASE ~Hidden(p)
    <3>1. PICK pattern \in Patterns : pattern = Head(todo)
      BY <1>2
    <3>2. Upper(p, Len(pattern.comps)) \in Expand(pattern)
      BY <1>8, <2>2, <3>1, ExpandFinds, Zenon
    <3>3. Len(pattern.comps) \in Nat \ {0} /\ Len(pattern.comps) <= Len(p)
      <4>1. IF pattern.deep THEN Len(p) >= Len(pattern.comps) ELSE Len(p) = Len(pattern.comps)
        BY <1>8, <3>1, Zenon DEF PathMatches
      <4>2. Len(pattern.comps) \in Nat \ {0}
        BY DEF Patterns
      <4> QED BY <4>1, <4>2, PathFacts
    <3>4. Len(pattern.comps) = Len(p) \/ Len(pattern.comps) \in 1 .. Len(p) - 1
      BY <3>3, PathFacts
    <3>5. Upper(p, Len(pattern.comps)) = p \/ Upper(p, Len(pattern.comps)) \in Above(p)
      BY <3>4, PathFacts, AboveAre
    <3> QED BY <1>5, <3>1, <3>2, <3>5, Zenon DEF Covered, Waiting
  <2> QED BY <2>1, <2>2
<1>9. MountTypes'
  BY <1>1, <1>2, <1>6 DEF MountTypes
<1>10. Tree'
  BY <1>1 DEF Tree
<1>11. CoverInv'
  <2>1. ASSUME NEW s \in stood
        PROVE  /\ s[2] <= made[s[1]]
               /\ made[s[1]] = s[2] /\ kind[s[1]] # "none" => Covered(s[1])'
    BY <1>1, <1>7 DEF CoverInv, Covered, Waiting, Hidden
  <2>2. ASSUME NEW s \in stood' \ stood
        PROVE  s[2] <= made[s[1]] /\ Covered(s[1])'
    <3>1. PICK p \in {q \in Paths : /\ kind[q] # "none" /\ PathMatches(q, Head(todo))
                                    /\ Listable(q, Head(todo))} : s = <<p, made[p]>>
      BY <1>1
    <3>2. s[1] = p /\ s[2] = made[p] /\ made[p] \in Nat
      BY <3>1 DEF MountTypes
    <3>3. Covered(p)'
      BY <1>8
    <3> QED BY <3>2, <3>3
  <2> QED BY <1>1, <2>1, <2>2 DEF CoverInv
<1> QED BY <1>9, <1>10, <1>11

\* What is taken off the list is covered, or hidden with what is above it.
LEMMA HideKeeps ==
  ASSUME MountInv, Hide
  PROVE  MountInv'
<1> USE DEF MountInv
<1>1. /\ targets # <<>> /\ targets' = Tail(targets)
      /\ UNCHANGED <<private, todo, stood, kind, made>>
  BY DEF Hide, Host
<1>2. PICK t : t = Head(targets)
  OBVIOUS
<1>3. cover' = CASE Sees(t) \in Dirs -> [cover EXCEPT ![t] = "tmpfs"]
                 [] Sees(t) = "file"  -> [cover EXCEPT ![t] = "null"]
                 [] OTHER             -> cover
  BY <1>2, Zenon DEF Hide
<1>4. t \in Paths /\ targets' \in Seq(Paths) /\ ToSet(targets) = {t} \cup ToSet(targets')
  <2>1. t = targets[1] /\ Len(targets) \in Nat \ {0} /\ targets \in Seq(Paths)
    BY <1>1, <1>2 DEF MountTypes
  <2>2. targets' \in Seq(Paths) /\ Len(targets') = Len(targets) - 1
        /\ \A i \in 1 .. Len(targets) - 1 : targets'[i] = targets[i + 1]
    BY <1>1, <2>1
  <2>3. \A i \in 1 .. Len(targets) :
          i = 1 \/ (targets[i] = targets'[i - 1] /\ i - 1 \in 1 .. Len(targets'))
    BY <2>1, <2>2
  <2>4. \A i \in 1 .. Len(targets') : targets'[i] = targets[i + 1] /\ i + 1 \in 1 .. Len(targets)
    BY <2>1, <2>2
  <2>5. 1 \in 1 .. Len(targets) /\ DOMAIN targets = 1 .. Len(targets)
        /\ DOMAIN targets' = 1 .. Len(targets')
    BY <2>1, <2>2
  <2>6. t \in Paths
    BY <2>1
  <2>7. \A x : x \in ToSet(targets) <=> \E i \in 1 .. Len(targets) : x = targets[i]
    BY ONLY <2>5 DEF ToSet
  <2>8. \A x : x \in ToSet(targets') <=> \E i \in 1 .. Len(targets') : x = targets'[i]
    BY ONLY <2>5 DEF ToSet
  <2>9. \A x \in ToSet(targets) : x = t \/ x \in ToSet(targets')
    BY ONLY <2>1, <2>3, <2>7, <2>8
  <2>10. t \in ToSet(targets) /\ \A x \in ToSet(targets') : x \in ToSet(targets)
    BY ONLY <2>1, <2>4, <2>5, <2>7, <2>8
  <2> QED BY <2>2, <2>6, <2>9, <2>10
<1>5. Sees(t) \in Kinds
  BY <1>4 DEF Sees, Kinds, Dirs, MountTypes
<1>6. /\ DOMAIN cover' = Paths
      /\ \A q \in Paths : cover'[q] = cover[q] \/ (q = t /\ cover'[q] \in {"tmpfs", "null"})
  BY <1>3, <1>4 DEF MountTypes
<1>7. Sees(t) # "none" => cover'[t] \in {"tmpfs", "null"}
  BY <1>3, <1>4, <1>5 DEF MountTypes, Kinds
<1>8. ASSUME NEW p \in Paths, kind[p] # "none", Covered(p) PROVE Covered(p)'
  <2>1. CASE Hidden(p)
    BY <1>6, <2>1 DEF Hidden, Covered, Above
  <2>2. CASE cover[p] \in {"tmpfs", "null"}
    BY <1>6, <2>2 DEF Covered
  <2>3. CASE \E u \in ToSet(targets') : u = p \/ u \in Above(p)
    BY <2>3 DEF Covered, Waiting
  <2>4. CASE t = p \/ t \in Above(p)
    <3>1. CASE Sees(t) = "none"
      <4>1. kind[t] # "none"
        BY <1>8, <2>4, AboveStand DEF Dirs
      <4>2. Hidden(t)
        BY <3>1, <4>1 DEF Sees
      <4>3. Hidden(p)
        BY <2>4, <4>2, AboveAbove DEF Hidden
      <4> QED BY <2>1, <4>3
    <3>2. CASE Sees(t) # "none"
      BY <1>7, <2>4, <3>2 DEF Covered, Hidden
    <3> QED BY <3>1, <3>2
  <2> QED BY <1>4, <1>8, <2>1, <2>2, <2>3, <2>4 DEF Covered, Waiting
<1>9. MountTypes'
  BY <1>1, <1>4, <1>6 DEF MountTypes
<1>10. Tree'
  BY <1>1 DEF Tree
<1>11. CoverInv'
  BY <1>1, <1>8 DEF CoverInv, MountTypes
<1> QED BY <1>9, <1>10, <1>11

\* What the host does at a path with nothing below it.
LEMMA TreeStays ==
  ASSUME MountInv, NEW p \in Paths, NEW k \in Kinds,
         k # "none" /\ Len(p) > 1 => kind[Front(p)] \in Dirs,
         \A q \in Paths : p \in Above(q) => kind[q] = "none",
         kind' = [kind EXCEPT ![p] = k]
  PROVE  Tree'
<1> SUFFICES ASSUME NEW q \in Paths, Len(q) > 1, kind'[q] # "none" PROVE kind'[Front(q)] \in Dirs
  BY DEF Tree
<1> USE DEF MountInv
<1>1. Front(q) \in Above(q) /\ Front(q) \in Paths /\ Front(q) # q
  BY FrontAbove DEF Above
<1>2. CASE q = p
  BY <1>1, <1>2 DEF MountTypes
<1>3. CASE q # p
  BY <1>1, <1>3 DEF MountTypes, Tree, Dirs
<1> QED BY <1>2, <1>3

\* What the host takes away was the last of its path, and what it makes is new.
LEMMA HostKeeps ==
  ASSUME MountInv, NEW p \in Paths, HostMakes(p) \/ HostRemoves(p)
  PROVE  MountInv'
<1> USE DEF MountInv
<1>1. /\ UNCHANGED <<private, todo, targets, stood>>
      /\ \A q \in Paths : p \in Above(q) => kind[q] = "none"
      /\ cover' = [cover EXCEPT ![p] = "none"]
  BY DEF HostMakes, HostRemoves, Wall
<1>2. PICK k \in Kinds : /\ kind' = [kind EXCEPT ![p] = k]
                         /\ k # "none" /\ Len(p) > 1 => kind[Front(p)] \in Dirs
                         /\ k # "none" => made' = [made EXCEPT ![p] = @ + 1]
                         /\ k = "none" => UNCHANGED made
  BY DEF HostMakes, HostRemoves, Kinds, Dirs
<1>3. Tree'
  BY <1>1, <1>2, TreeStays
<1>4. MountTypes'
  BY <1>1, <1>2 DEF MountTypes, Kinds
<1>5. ASSUME NEW s \in stood
      PROVE  /\ s[2] <= made'[s[1]]
             /\ made'[s[1]] = s[2] /\ kind'[s[1]] # "none" => Covered(s[1])'
  <2>1. s[1] \in Paths /\ s[2] \in Nat /\ s[2] <= made[s[1]] /\ made[s[1]] \in Nat
    BY DEF MountTypes, CoverInv
  <2>2. CASE s[1] = p
    BY <1>2, <2>1, <2>2 DEF MountTypes
  <2>3. CASE s[1] # p
    <3>1. made'[s[1]] = made[s[1]] /\ kind'[s[1]] = kind[s[1]] /\ cover'[s[1]] = cover[s[1]]
      BY <1>1, <1>2, <2>1, <2>3 DEF MountTypes
    <3>2. ASSUME kind[s[1]] # "none", Covered(s[1]) PROVE Covered(s[1])'
      <4>1. \A q \in Above(s[1]) : cover'[q] = cover[q]
        BY <1>1, <2>1, <3>2 DEF Above, MountTypes
      <4> QED BY <1>1, <3>1, <3>2, <4>1 DEF Covered, Hidden, Waiting
    <3> QED BY <2>1, <3>1, <3>2 DEF CoverInv
  <2> QED BY <2>2, <2>3
<1>6. CoverInv'
  BY <1>1, <1>5 DEF CoverInv
<1> QED BY <1>3, <1>4, <1>6

\* A directory stays one, and nothing that stood goes.
LEMMA SealsKeep ==
  ASSUME MountInv, NEW p \in Paths, HostSeals(p)
  PROVE  MountInv'
<1> USE DEF MountInv
<1>1. PICK k \in Dirs : kind' = [kind EXCEPT ![p] = k]
  BY DEF HostSeals
<1>2. kind[p] \in Dirs /\ UNCHANGED <<made, cover, private, todo, targets, stood>>
  BY DEF HostSeals, Wall
<1>3. MountTypes'
  BY <1>1, <1>2 DEF MountTypes, Kinds
<1>4. \A q \in Paths : (kind'[q] # "none" => kind[q] # "none") /\ (kind[q] \in Dirs => kind'[q] \in Dirs)
  BY <1>1, <1>2 DEF MountTypes, Dirs
<1>5. Tree'
  BY <1>4, FrontAbove DEF Tree, Above
<1>6. \A q \in Paths : Covered(q) => Covered(q)'
  BY <1>2 DEF Covered, Hidden, Waiting
<1>7. CoverInv'
  BY <1>2, <1>4, <1>6 DEF CoverInv, MountTypes
<1> QED BY <1>3, <1>5, <1>7

LEMMA MountStays ==
  ASSUME MountInv, UNCHANGED <<kind, made, todo, targets, stood>>,
         UNCHANGED <<private, cover>> \/ MakeRootPrivate \/ \E p \in Paths : HostMounts(p)
  PROVE  MountInv'
<1> USE DEF MountInv
<1>1. MountTypes' /\ Tree'
  BY DEF MountTypes, Tree, MakeRootPrivate, HostMounts
<1>2. CoverInv'
  <2>1. CASE UNCHANGED <<private, cover>> \/ MakeRootPrivate
    BY <2>1 DEF CoverInv, Covered, Hidden, Waiting, MakeRootPrivate
  <2>2. CASE \E p \in Paths : HostMounts(p)
    BY <2>2 DEF CoverInv, HostMounts, Wall
  <2> QED BY <2>1, <2>2
<1> QED BY <1>1, <1>2

\* The agent starts behind a wall that covers all it was to cover.
RunningInv == phase = "running" => targets = <<>>

LEMMA MountInvInit == WallsInit => MountInv /\ RunningInv
<1> SUFFICES ASSUME WallsInit PROVE MountInv /\ RunningInv
  OBVIOUS
<1>1. prof.denied \in Seq(Patterns)
  BY WallsAssumption DEF WallsInit
<1>2. MountInit(prof.denied) /\ phase = "build"
  BY DEF WallsInit
<1> QED BY <1>1, <1>2 DEF MountInit, MountInv, MountTypes, Tree, CoverInv, RunningInv, Kinds

LEMMA MountInvStep == MountInv /\ RunningInv /\ [WallsNext]_cellVars => MountInv' /\ RunningInv'
<1> SUFFICES ASSUME MountInv, RunningInv, [WallsNext]_cellVars PROVE MountInv' /\ RunningInv'
  OBVIOUS
<1>1. CASE Mount
  <2>1. phase = "inside" /\ phase' = phase
    BY <1>1 DEF Mount, Waits
  <2>2. MakeRootPrivate \/ ExpandNext \/ Hide
    BY <1>1 DEF Mount
  <2>3. MountInv'
    BY <2>2, MountStays, ExpandKeeps, HideKeeps DEF MakeRootPrivate, Host
  <2> QED BY <2>1, <2>3 DEF RunningInv
<1>2. CASE HostFiles
  <2>1. PICK p \in Paths : HostMakes(p) \/ HostRemoves(p) \/ HostSeals(p) \/ HostMounts(p)
    BY <1>2 DEF HostFiles
  <2>2. UNCHANGED <<phase, targets>>
    BY <1>2, <2>1 DEF HostFiles, wallVars, HostMakes, HostRemoves, HostSeals, HostMounts, Wall
  <2>3. MountInv'
    BY <2>1, HostKeeps, SealsKeep, MountStays DEF HostMounts, Host, Wall
  <2> QED BY <2>2, <2>3 DEF RunningInv
<1>3. CASE ExecAgent
  <2>1. UNCHANGED mountVars /\ targets = <<>>
    BY <1>3 DEF ExecAgent, Walled
  <2> QED BY <2>1, MountStays DEF mountVars, RunningInv
<1>4. CASE ~(Mount \/ HostFiles \/ ExecAgent)
  <2>1. UNCHANGED mountVars /\ (phase' = "running" => phase = "running")
    <3>1. CASE UNCHANGED cellVars
      BY <3>1 DEF cellVars, wallVars
    <3>2. CASE \/ EnsureExecSupported \/ JoinCgroup \/ MountsUnread
               \/ Wire \/ NoUplink \/ AttachExecWall \/ AttachTracker
      BY <3>2 DEF EnsureExecSupported, JoinCgroup, MountsUnread, Refused, Wire, NoUplink,
                  AttachExecWall, AttachTracker, HookLeaves, At
    <3>3. CASE InsideFails \/ CellAct \/ Leaves \/ OutsiderComes \/ TheirTeardown
      BY <3>3 DEF InsideFails, Refused, CellAct, Leaves, OutsiderComes, Rest, TheirTeardown, wallVars
    <3>4. CASE CellConnects \/ OtherConnects \/ ConnGoesOn
      BY <3>4 DEF CellConnects, OtherConnects, ConnGoesOn, Quiet, wallVars
    <3>5. CASE Ended \/ DrainEvents \/ DetachWall \/ Teardown
      BY <3>5 DEF Ended, DrainEvents, DetachWall, Teardown, At
    <3> QED BY <1>4, <3>1, <3>2, <3>3, <3>4, <3>5 DEF WallsNext
  <2> QED BY <2>1, MountStays DEF mountVars, RunningInv
<1> QED BY <1>1, <1>2, <1>3, <1>4

\* While the agent runs, what stood under a denied pattern when expand() looked cannot be
\* read, for any patterns and paths, whatever the host does at them meanwhile.
THEOREM StoodHidden == WallsSpec => []HiddenStays
<1>1. MountInv /\ RunningInv => HiddenStays
  <2> SUFFICES ASSUME MountInv, RunningInv, phase = "running",
                      NEW s \in stood, made[s[1]] = s[2], Reads(s[1])
               PROVE  FALSE
    BY DEF HiddenStays
  <2>1. kind[s[1]] # "none" /\ ~Hidden(s[1]) /\ cover[s[1]] \in {"none", "host"}
    BY DEF Reads
  <2>2. Waiting(s[1])
    BY <2>1 DEF MountInv, CoverInv, Covered
  <2> QED BY <2>2 DEF RunningInv, Waiting, ToSet
<1> QED BY <1>1, MountInvInit, MountInvStep, PTL DEF WallsSpec
=============================================================================
