----------------------------- MODULE KillSwitch -----------------------------
(***************************************************************************)
(* The registry of running cells, `ql run` as far as it keeps its handle   *)
(* there, and the two commands that work on it from another shell: `ql ps`, *)
(* which prunes handles, and `ql kill`, which walks /proc and signals the   *)
(* tree below the run (ql-cli: registry.rs, kill.rs, and run.rs 265-527).  *)
(*                                                                         *)
(* The kernel is a table of process ids: processes fork, end and leave     *)
(* their children to init, and a free pid is given out again.  A process   *)
(* ends and frees its pid at once.  Only pids are seen by the code; owner  *)
(* says what a process belongs to.                                         *)
(***************************************************************************)
EXTENDS Integers, FiniteSets

CONSTANTS
  Pids,    \* the process ids
  Runs,    \* the `ql run` invocations
  Ids,     \* the cell ids
  NoId,    \* none of them
  Nobody,  \* the owner of processes outside all cells
  MaxOutside \* bound on the processes outside all cells at a time

ASSUME KillAssumption ==
  /\ Pids \subseteq Nat \ {0} /\ IsFiniteSet(Pids)
  /\ Nobody \notin Runs /\ NoId \notin Ids /\ MaxOutside \in Nat

Owners == Runs \cup {Nobody}
InitProcess == 0   \* the parent of orphans
Free == [owner |-> Nobody, parent |-> InitProcess, used |-> FALSE]
NoHandle == [pid |-> 0, run |-> Nobody]
NoPs == [pid |-> 0, dead |-> FALSE]
NoKill == [id |-> NoId, handle |-> NoHandle]

VARIABLES
  procs,       \* the process table: who uses a pid, and its parent
  idOf,        \* the cell id of each run: QL_CELL_ID, or derived from its pid
  stage,       \* where each run is
  pidOf,       \* the pid of the run's own process
  handles,     \* the registry: a handle, or none, by id
  ps,          \* the pid of each handle that `ql ps` read, then whether it is to go
  kill,        \* the id and the handle `ql kill` works on
  killStage,
  parents,     \* the parent links it read
  unread,      \* the pids whose /proc entry it has yet to reach
  targets,     \* the pids it will signal
  todo,        \* those of them not yet signalled in this round
  \* History, which no action depends on:
  alone,       \* the runs that wrote their handle and had their id to themselves
  freed,       \* the pids given up, of those it goes by
  members,     \* the pids whose process was in the tree when the scan began
  split,       \* the tree lost a process from its middle during the scan
  strayed      \* a process outside the cell was signalled, though none was given up

kernel == <<procs, freed, members, split>>
runVars == <<idOf, stage, pidOf, alone>>
killVars == <<kill, killStage, parents, unread, targets, todo, strayed>>
vars == <<kernel, runVars, handles, ps, killVars>>

-----------------------------------------------------------------------------
(* Processes.                                                              *)

Live(p) == procs[p].used

Process(owner, parent) == [owner |-> owner, parent |-> parent, used |-> TRUE]

Spawn(p, owner, parent) ==
  /\ ~Live(p)
  /\ procs' = [procs EXCEPT ![p] = Process(owner, parent)]
  /\ UNCHANGED <<freed, members, split>>

\* Processes end: their children become init's, and the runs whose own processes
\* they were are over.
End(S) ==
  /\ procs' = [q \in Pids |->
       IF q \in S THEN Free
       ELSE IF procs[q].parent \in S THEN [procs[q] EXCEPT !.parent = InitProcess]
       ELSE procs[q]]
  /\ stage' = [r \in Runs |-> IF pidOf[r] \in S THEN "gone" ELSE stage[r]]
  /\ pidOf' = [r \in Runs |-> IF pidOf[r] \in S THEN 0 ELSE pidOf[r]]
  /\ alone' = {r \in alone : pidOf[r] \notin S}
  /\ freed' = IF killStage = "scan" THEN freed \cup S ELSE freed \cup (S \cap targets)
  /\ members' = members \ S
  /\ split' = (split \/ (killStage = "scan" /\ \E q \in members : procs[q].parent \in S))
  /\ UNCHANGED idOf

Init ==
  /\ procs = [p \in Pids |-> Free]
  /\ idOf \in [Runs -> Ids]
  /\ stage = [r \in Runs |-> "new"]
  /\ pidOf = [r \in Runs |-> 0]
  /\ handles = [i \in Ids |-> NoHandle]
  /\ ps = [i \in Ids |-> NoPs]
  /\ kill = NoKill /\ killStage = "idle"
  /\ parents = [p \in Pids |-> InitProcess]
  /\ unread = {} /\ targets = {} /\ todo = {}
  /\ alone = {} /\ freed = {}
  /\ members = {} /\ split = FALSE /\ strayed = FALSE

\* Room for one more process of an owner.
Room(owner) ==
  owner = Nobody =>
    Cardinality({p \in Pids : Live(p) /\ procs[p].owner = Nobody}) < MaxOutside

\* A process of a cell, or one outside, forks.
Fork(p, q) ==
  /\ Live(p) /\ \A r \in Runs : pidOf[r] # p
  /\ Room(procs[p].owner)
  /\ Spawn(q, procs[p].owner, p)
  /\ UNCHANGED <<runVars, handles, ps, killVars>>

Foreign(q) ==
  /\ Room(Nobody)
  /\ Spawn(q, Nobody, InitProcess)
  /\ UNCHANGED <<runVars, handles, ps, killVars>>

\* A process exits, crashes or is killed by somebody else.
Dies(p) ==
  /\ Live(p)
  /\ End({p})
  /\ UNCHANGED <<handles, ps, killVars>>

-----------------------------------------------------------------------------
(* ql run.                                                                 *)

Unlisted(i) == [handles EXCEPT ![i] = NoHandle]

\* The run will remove the handle under its id.
InForce(r) == stage[r] \in {"listed", "running"}

Namesakes(r) == {q \in Runs \ {r} : idOf[q] = idOf[r] /\ InForce(q)}

\* `ql ps` or `ql kill` works on a handle that was under this id.
Worked(i) == ps[i] # NoPs \/ kill.id = i

\* The process comes to registry::register(), whose failure is ignored.  Before, no
\* other process knows of it.
Start(r, p) ==
  /\ stage[r] = "new"
  /\ Spawn(p, r, InitProcess)
  /\ pidOf' = [pidOf EXCEPT ![r] = p]
  /\ stage' = [stage EXCEPT ![r] = "listed"]
  /\ \/ /\ handles' = [handles EXCEPT ![idOf[r]] = [pid |-> p, run |-> r]]
        /\ alone' = (alone \ Namesakes(r)) \cup
                      {x \in {r} : Namesakes(r) = {} /\ ~Worked(idOf[r])}
     \/ UNCHANGED handles /\ alone' = alone \ Namesakes(r)
  /\ UNCHANGED <<idOf, ps, killVars>>

\* No tier, an unmet requirement, an unknown phase: the handle is removed.
Refuse(r) ==
  /\ stage[r] = "listed"
  /\ handles' = Unlisted(idOf[r])
  /\ stage' = [stage EXCEPT ![r] = "leaving"]
  /\ UNCHANGED <<kernel, idOf, pidOf, alone, ps, killVars>>

\* The verdicts file cannot be created: the handle stays.
RefuseVerdicts(r) ==
  /\ stage[r] = "listed"
  /\ stage' = [stage EXCEPT ![r] = "leaving"]
  /\ UNCHANGED <<kernel, idOf, pidOf, alone, handles, ps, killVars>>

\* Cell::run(): the child is forked, and from here on waited for.
Launch(r, q) ==
  /\ stage[r] = "listed"
  /\ Spawn(q, r, pidOf[r])
  /\ stage' = [stage EXCEPT ![r] = "running"]
  /\ UNCHANGED <<idOf, pidOf, alone, handles, ps, killVars>>

\* The child has ended, or the cell could not be built.
Finish(r) ==
  /\ stage[r] \in {"listed", "running"}
  /\ \A q \in Pids : Live(q) => procs[q].parent # pidOf[r]
  /\ handles' = Unlisted(idOf[r])
  /\ stage' = [stage EXCEPT ![r] = "leaving"]
  /\ UNCHANGED <<kernel, idOf, pidOf, alone, ps, killVars>>

Leave(r) ==
  /\ stage[r] = "leaving"
  /\ Dies(pidOf[r])

-----------------------------------------------------------------------------
(* ql ps.                                                                  *)

\* list() reads the files, one by one; of a handle only the pid is looked at.
PsRead(i) ==
  /\ ps[i] = NoPs /\ handles[i] # NoHandle
  /\ ps' = [ps EXCEPT ![i] = [pid |-> handles[i].pid, dead |-> FALSE]]
  /\ UNCHANGED <<kernel, runVars, handles, killVars>>

\* pid_alive().
PsTest(i) ==
  /\ ps[i].pid # 0
  /\ ps' = [ps EXCEPT ![i] = [pid |-> 0, dead |-> ~Live(ps[i].pid)]]
  /\ UNCHANGED <<kernel, runVars, handles, killVars>>

\* deregister(), of whatever is under the id by now.
PsPrune(i) ==
  /\ ps[i].dead
  /\ handles' = Unlisted(i)
  /\ ps' = [ps EXCEPT ![i] = NoPs]
  /\ UNCHANGED <<kernel, runVars, killVars>>

-----------------------------------------------------------------------------
(* ql kill.                                                                *)

\* Mutant: the handle is taken off the list first.
KillGetClears(i) ==
  /\ killStage = "idle" /\ handles[i] # NoHandle
  /\ kill' = [id |-> i, handle |-> handles[i]]
  /\ killStage' = "check"
  /\ handles' = Unlisted(i)
  /\ UNCHANGED <<kernel, runVars, ps, parents, unread, targets, todo, strayed>>

KillGet(i) ==
  /\ killStage = "idle" /\ handles[i] # NoHandle
  /\ kill' = [id |-> i, handle |-> handles[i]]
  /\ killStage' = "check"
  /\ UNCHANGED <<kernel, runVars, handles, ps, parents, unread, targets, todo, strayed>>

\* Everything below root by the links given, and root: what is in every set that
\* has root and, with a process, its children.
Below(root, link) ==
  {p \in Pids : \A S \in SUBSET Pids :
     /\ root \in S
     /\ \A q \in Pids : link[q] \in S => q \in S
     => p \in S}

Tree(root) == Below(root, [p \in Pids |-> procs[p].parent])

\* Of the history: what stands below the pid now, and whether it is still the run's.
Witness(below, h) ==
  /\ members' = below
  /\ split' = FALSE
  /\ freed' = IF pidOf[h.run] = h.pid THEN {} ELSE {h.pid}

KillCheck ==
  /\ killStage = "check"
  /\ LET h == kill.handle IN
       \/ /\ Live(h.pid)
          /\ killStage' = "scan" /\ unread' = Pids
          /\ Witness(Tree(h.pid), h)
       \/ /\ ~Live(h.pid)
          /\ killStage' = "kill" /\ UNCHANGED unread
          /\ Witness({}, h)
  /\ UNCHANGED <<procs, runVars, handles, ps, kill, parents, targets, todo, strayed>>

\* /proc is read in the order of the pids, one stat file at a time.
ReadPpid(p) ==
  /\ killStage = "scan"
  /\ p \in unread /\ \A q \in unread : p <= q
  /\ unread' = unread \ {p}
  /\ parents' = IF Live(p) THEN [parents EXCEPT ![p] = procs[p].parent] ELSE parents
  /\ UNCHANGED <<kernel, runVars, handles, ps, kill, killStage, targets, todo, strayed>>

\* Mutant: the walk takes one generation.
ReachedOnce(root) == {root} \cup {p \in Pids : parents[p] = root}

\* Mutant: processes that escaped to init are swept up as well.
ReachedWithOrphans(root) ==
  Below(root, [p \in Pids |-> IF Live(p) /\ parents[p] = InitProcess THEN root ELSE parents[p]])

\* descendants() and the root, by the links that were read.
Reached(root) == Below(root, parents)

PickTargets ==
  /\ killStage = "scan" /\ unread = {}
  /\ targets' = Reached(kill.handle.pid)
  /\ parents' = [p \in Pids |-> InitProcess]
  /\ freed' = freed \cap targets'
  /\ killStage' = "term"
  /\ UNCHANGED <<procs, members, split, runVars, handles, ps, kill, unread, todo, strayed>>

\* Signals go to whatever has the pids by now.
Hit(S) ==
  strayed' = (strayed \/ (/\ \E p \in S : Live(p) /\ procs[p].owner # kill.handle.run
                         /\ freed \cap targets = {}))

\* SIGTERM to all of them, in one step: it ends `ql run`; what else it reaches may
\* handle it.  The grace period follows.
Terminate ==
  /\ killStage = "term"
  /\ \E S \in SUBSET {p \in targets : Live(p)} :
       /\ \A r \in Runs : pidOf[r] \in targets => pidOf[r] \in S
       /\ End(S)
  /\ Hit(targets)
  /\ killStage' = "kill" /\ todo' = targets
  /\ UNCHANGED <<handles, ps, kill, parents, unread, targets>>

\* SIGKILL to the same pids, one after the other.
KillSurvivor(p) ==
  /\ killStage = "kill"
  /\ p \in todo /\ \A q \in todo : p <= q
  /\ Hit({p})
  /\ IF Live(p) THEN End({p}) ELSE UNCHANGED <<kernel, runVars>>
  /\ todo' = todo \ {p}
  /\ UNCHANGED <<handles, ps, kill, killStage, parents, unread, targets>>

Swept == killStage = "kill" /\ todo = {}

KillClear ==
  /\ Swept
  /\ handles' = Unlisted(kill.id)
  /\ killStage' = "idle" /\ kill' = NoKill
  /\ targets' = {} /\ strayed' = FALSE /\ members' = {} /\ split' = FALSE /\ freed' = {}
  /\ UNCHANGED <<procs, runVars, ps, parents, unread, todo>>

Next ==
  \/ \E p, q \in Pids : Fork(p, q)
  \/ \E p \in Pids : Foreign(p) \/ Dies(p)
  \/ \E r \in Runs : \/ \E p \in Pids : Start(r, p) \/ Launch(r, p)
                     \/ Refuse(r) \/ RefuseVerdicts(r)
                     \/ Finish(r) \/ Leave(r)
  \/ \E i \in Ids : PsRead(i) \/ PsTest(i) \/ PsPrune(i) \/ KillGet(i)
  \/ KillCheck \/ PickTargets \/ Terminate \/ KillClear
  \/ \E p \in Pids : ReadPpid(p) \/ KillSurvivor(p)

Spec == Init /\ [][Next]_vars
-----------------------------------------------------------------------------
(* Properties.                                                             *)

Handles == [pid : Pids, run : Runs]

\* The variables hold what the code's types and guards allow; only pids of real
\* processes are read or signalled.
TypeOK ==
  /\ procs \in [Pids -> [owner : Owners, parent : Pids \cup {InitProcess}, used : BOOLEAN]]
  /\ idOf \in [Runs -> Ids]
  /\ stage \in [Runs -> {"new", "listed", "running", "leaving", "gone"}]
  /\ pidOf \in [Runs -> Pids \cup {0}]
  /\ handles \in [Ids -> Handles \cup {NoHandle}]
  /\ ps \in [Ids -> [pid : Pids \cup {0}, dead : BOOLEAN]]
  /\ kill \in [id : Ids, handle : Handles] \cup {NoKill}
  /\ killStage \in {"idle", "check", "scan", "term", "kill"}
  /\ parents \in [Pids -> Pids \cup {InitProcess}]
  /\ unread \subseteq Pids /\ targets \subseteq Pids /\ todo \subseteq Pids
  /\ alone \subseteq Runs /\ split \in BOOLEAN /\ strayed \in BOOLEAN
  /\ freed \subseteq Pids /\ members \subseteq Pids

\* A run that wrote its handle stays listed under its own pid until it is over,
\* whatever `ql ps` prunes and `ql kill` clears meanwhile, unless another run with its
\* id was in force at the same time, or one of the two was at work on an older handle
\* of that id when it registered (registry.rs:6, kill.rs:56, kill.rs:68).
ListedWhileRunning ==
  \A r \in alone : InForce(r) => handles[idOf[r]] = [pid |-> pidOf[r], run |-> r]

\* When `ql kill` has swept, nothing is left of the tree that stood when it began
\* to read /proc, unless the tree split under it: the entries are read one by one
\* while processes come and go (kill.rs:114).
TreeSwept == Swept /\ ~split => members = {}

\* `ql kill` signals a process outside the cell only by way of a pid that had been
\* given up: by the run of a stale handle, during the scan, or before a signal
\* (kill.rs:90-110).
NoStraySignal == ~strayed
=============================================================================
