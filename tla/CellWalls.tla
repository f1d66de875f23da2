------------------------------ MODULE CellWalls ------------------------------
(***************************************************************************)
(* The walls of a cell as the host sees them, in the order they go up:     *)
(* the cgroup (enforcers/cgroup.rs, cgroups.rs), what the parent's hook    *)
(* attaches to it (ql-enforce, lib.rs: the broker link of veth.rs, the     *)
(* Tier-1 exec wall or the connect hooks alone), and, inside the           *)
(* namespaces, id maps, mounts, network and system calls; then the agent,  *)
(* and after it the draining of the kernel's rings, which takes the exec   *)
(* wall down.  The handshakes between parent and child are CellLaunch's.   *)
(***************************************************************************)
EXTENDS ExecLsm, ConnOwners, MountWall, FiniteSetsExt

CONSTANTS
  Child,       \* the pid of the process run() forks
  Setups       \* <<profile, host>>: [limits, enforce, denied, brokered, deny, filter, entry],
               \* the last the command, and [lsm, mounts, controllers], the build and
               \* what /proc/self/mounts tells

Controllers == {"pids", "memory"}

ASSUME WallsAssumption ==
  /\ Child \in Pids
  /\ \A s \in Setups : s[1].limits \subseteq Controllers /\ s[1].entry \in Calls
  /\ \A s \in Setups : s[2].controllers \subseteq Controllers
                      /\ s[2].mounts \subseteq {"v2"} \cup Controllers
  /\ \A s \in Setups : s[1].denied \in Seq(Patterns)

VARIABLES
  phase,    \* how far the run is
  prof,     \* the profile
  host,     \* the host
  limits,   \* the limits in force for the child
  gaps,     \* the walls reported as unavailable
  link,     \* whose the veth pair of this run's name is: "none", "ours", "theirs"
  sighted   \* the exec decisions drained from the ring

wallVars == <<phase, prof, host, limits, gaps, link, sighted>>
cellVars == <<lsmVars, connVars, mountVars, wallVars>>

WallsInit ==
  /\ LsmInit(Child) /\ ConnInit
  /\ phase = "build" /\ \E s \in Setups : prof = s[1] /\ host = s[2]
  /\ MountInit(prof.denied)
  /\ prof.denied = <<>> => \A p \in Paths : kind[p] = "none"
  /\ limits = {} /\ gaps = {} /\ link \in {"none", "theirs"} /\ sighted = <<>>
  /\ link = "theirs" => prof.brokered

At(p, q) == phase = p /\ phase' = q
Same == UNCHANGED <<prof, host>>

\* A wall that fails refuses the run: the child does not exec.
Refused == phase' = "refused" /\ UNCHANGED <<limits, gaps, sighted>> /\ Same

-----------------------------------------------------------------------------
(* Building, and the cgroup, by the child before its user namespace.       *)

\* ensure_exec_supported(): without the `lsm` feature a profile that demands
\* the wall is turned down.
EnsureExecSupported ==
  /\ phase = "build"
  /\ phase' = IF prof.enforce /\ ~host.lsm THEN "over" ELSE "cgroup"
  /\ UNCHANGED <<limits, gaps, sighted>> /\ Same
  /\ UNCHANGED <<lsmVars, connVars, mountVars, link>>

\* CgroupBackend::detect(): the unified hierarchy if it has a controller of
\* use, else the old one's mounts.
Backend ==
  IF "v2" \in host.mounts /\ host.controllers # {} THEN "v2"
  ELSE IF host.mounts \cap Controllers # {} THEN "v1"
  ELSE "unsupported"

WantsLeaf == prof.limits # {} \/ prof.enforce

\* Mutant: a leaf that could not be made or joined is not reported.
NoLeafSilently == UNCHANGED <<gaps, limits, cgroup>>

\* Neither the leaf nor the membership: reported, and the run goes on.
NoLeaf ==
  /\ gaps' = gaps \cup {"cgroups"}
  /\ UNCHANGED <<limits, cgroup>>

\* apply_v2(): limits as far as they can be written, then the membership.
ApplyV2 ==
  /\ \E done \in SUBSET (prof.limits \cap host.controllers) : limits' = done
  /\ cgroup' = [cgroup EXCEPT ![Child] = "leaf"]
  /\ UNCHANGED gaps

\* apply_v1(): each controller for itself, where the profile limits it; the
\* unified membership stays what it was.
ApplyV1 ==
  \E joined \in SUBSET (prof.limits \cap host.mounts) :
    /\ limits' \in SUBSET joined
    /\ gaps' = IF joined = {} THEN gaps \cup {"cgroups"} ELSE gaps
    /\ UNCHANGED cgroup

JoinCgroup ==
  /\ At("cgroup", "hook")
  /\ IF ~WantsLeaf THEN UNCHANGED <<limits, gaps, cgroup>>
     ELSE \/ Backend = "v2" /\ (ApplyV2 \/ NoLeaf)
          \/ Backend = "v1" /\ ApplyV1
          \/ Backend = "unsupported" /\ NoLeaf
  /\ UNCHANGED <<sighted, link>> /\ Same
  /\ UNCHANGED <<screened, inCell, image, call, inflight, events, argvs, born, dangling, execs,
                 struck, commits, connVars, mountVars>>

\* detect() cannot read /proc/self/mounts, which is no missing feature but an error.
MountsUnread ==
  /\ WantsLeaf /\ phase = "cgroup" /\ Refused
  /\ UNCHANGED <<lsmVars, connVars, mountVars, link>>

-----------------------------------------------------------------------------
(* The parent's hook.                                                      *)

HookLeaves == UNCHANGED <<cgroup, inCell, image, call, inflight, events, argvs, born, dangling, execs,
                          struck, commits, owners, conn, answer, mountVars, limits, gaps, sighted>>

\* veth::wire(): the name must be free; a later step may fail and leave the
\* pair behind.
Wire ==
  /\ phase = "hook" /\ prof.brokered
  /\ \/ link = "none" /\ phase' = "attach" /\ link' = "ours"
     \/ phase' = "refused" /\ link' \in (IF link = "none" THEN {"none", "ours"} ELSE {link})
  /\ UNCHANGED <<screened, hooks>> /\ HookLeaves /\ Same

NoUplink ==
  /\ ~prof.brokered /\ At("hook", "attach")
  /\ UNCHANGED <<screened, hooks, link>> /\ HookLeaves /\ Same

\* attach_exec_wall(): to the cgroup the child is in, in the unified
\* hierarchy; whatever fails refuses the run.
AttachExecWall ==
  /\ phase = "attach" /\ prof.enforce
  /\ \/ Backend = "v2" /\ Approved # {} /\ phase' = "inside"
        /\ screened' = cgroup[Child] /\ hooks' = "wall"
     \/ phase' = "refused" /\ UNCHANGED <<screened, hooks>>
  /\ UNCHANGED link /\ HookLeaves /\ Same

\* attach_conn_tracker(): without it the run goes on, unattributed.
AttachTracker ==
  /\ ~prof.enforce /\ At("attach", "inside")
  /\ hooks' \in (IF prof.brokered /\ host.lsm THEN {"none", "tracker"} ELSE {"none"})
  /\ UNCHANGED <<screened, link>> /\ HookLeaves /\ Same

-----------------------------------------------------------------------------
(* Inside the namespaces, in the order of the builder.  A step that fails, *)
(* an unsupported filter among them, refuses the run.                      *)

Inside == UNCHANGED <<lsmVars, connVars, link>>
Waits == UNCHANGED <<phase, limits, gaps, sighted>> /\ Same

Mount ==
  /\ phase = "inside" /\ ~Walled
  /\ MakeRootPrivate \/ ExpandNext \/ Hide
  /\ Inside /\ Waits

InsideFails ==
  /\ phase = "inside" /\ Refused
  /\ Inside /\ UNCHANGED mountVars

\* SeccompEnforcer: a name it does not know is an error; a filter that lists
\* what is allowed cannot list execve, and the agent does not start.
ExecAgent ==
  /\ phase = "inside" /\ Walled
  /\ prof.filter \in {"none", "deny list"}
  /\ phase' = "running"
  /\ Execve(Child)
  /\ call'[Child].th = "leader" /\ call'[Child].file = prof.entry.file /\ call'[Child].args = prof.entry.args
  /\ UNCHANGED <<connVars, mountVars, limits, gaps, link, sighted>> /\ Same

-----------------------------------------------------------------------------
(* The agent, the programs around it, and the host's files.                *)

Rest == UNCHANGED <<connVars, mountVars, wallVars>>
Quiet == UNCHANGED <<lsmVars, mountVars, wallVars>>
Running == phase \in {"running", "refused", "ended", "sighted", "drained"}

\* The launcher makes no execve but that of execvp(), which may take several: for
\* each directory of PATH, and with a shell for a file of no known format.  Further
\* processes, of the cell and others, are of interest to the programs in the
\* kernel only.
Launcher(p) == p \in inCell /\ Nothing \in image[p]

CellAct ==
  /\ Running
  /\ \E p \in Pids :
       \/ prof.enforce /\ (Launcher(p) => phase = "running") /\ Execve(p)
       \/ EnforceExec(p) \/ Unscreened(p) \/ ExecFails(p) \/ Commit(p)
       \/ \E q \in Pids : hooks # "none" /\ Fork(p, q)
  /\ Rest

Leaves ==
  /\ Running
  /\ \E p \in Pids :
       /\ (\A c \in Conns : Live(c) /\ conn[c].pid = p => conn[c].noted)
       /\ ProcessEnds(p)
  /\ Rest

\* A pid is free for others only once its parent has reaped it.
OutsiderComes ==
  /\ Running /\ hooks # "none"
  /\ \E q \in Pids \ (IF phase = "running" THEN {Child} ELSE {}) : Outsider(q)
  /\ Rest

CellNetns == IF prof.deny THEN "cell" ELSE Own

\* From a cell with its own namespace only the broker link leads out of it.
CellConnects ==
  /\ phase = "running" /\ prof.brokered /\ link = "ours"
  /\ \E c \in Conns, p \in inCell, to \in Peers :
       Nothing \notin image[p] /\ Connect(c, p, CellNetns, to)
  /\ Quiet

\* Of interest to a broker only.
OtherConnects ==
  /\ Running /\ prof.brokered /\ hooks # "none"
  /\ \E c \in Conns, p \in Pids \ inCell, ns \in {Own, "other"}, to \in Peers :
       Alive(p) /\ (to = "broker" => ns = CellNetns) /\ Connect(c, p, ns, to)
  /\ Quiet

ConnGoesOn ==
  /\ Running
  /\ \E c \in Conns :
       \/ Returns(c)
       \/ CloseConn(c)
       \/ conn[c] # NoConn /\ conn[c].netns = CellNetns /\ Attribute(c)
  /\ Quiet

HostFiles ==
  /\ phase \in {"inside", "running"} /\ prof.denied # <<>>
  /\ \E p \in Paths : HostMakes(p) \/ HostRemoves(p) \/ HostSeals(p) \/ HostMounts(p)
  /\ UNCHANGED <<lsmVars, connVars, wallVars>>

\* The other run whose link has this name ends, or tears down a link it could
\* not make.
TheirTeardown ==
  /\ phase # "over" /\ link # "none"
  /\ link' = "none"
  /\ UNCHANGED <<phase, limits, gaps, sighted, lsmVars, connVars, mountVars>> /\ Same

-----------------------------------------------------------------------------
(* The end, also of a run that was refused.  The rings are read, then the  *)
(* wall goes with its loader; what is left of the agent's processes is no  *)
(* longer screened.                                                        *)

Ended ==
  /\ ~Alive(Child) /\ phase \in {"running", "refused"} /\ phase' = "ended"
  /\ UNCHANGED <<limits, gaps, link, sighted, lsmVars, connVars, mountVars>> /\ Same

\* drain_events(), then drain_argv() for the labels.
DrainEvents ==
  /\ At("ended", "sighted")
  /\ sighted' = IF hooks = "wall" THEN events ELSE <<>>
  /\ events' = <<>>
  /\ UNCHANGED <<screened, cgroup, inCell, image, call, inflight, argvs, born, dangling, execs, struck,
                 commits, connVars, mountVars, limits, gaps, link>> /\ Same

DetachWall ==
  /\ At("sighted", "drained")
  /\ screened' = "none" /\ argvs' = 0 /\ events' = <<>> /\ inflight' = {}
  /\ IF hooks = "wall" THEN hooks' = "none" /\ owners' = {} ELSE UNCHANGED <<hooks, owners>>
  /\ UNCHANGED <<cgroup, inCell, image, call, born, dangling, execs, struck, commits, conn, answer,
                 mountVars, limits, gaps, link, sighted>> /\ Same

Teardown ==
  /\ At("drained", "over")
  /\ link' = IF prof.brokered THEN "none" ELSE link
  /\ UNCHANGED <<limits, gaps, sighted, lsmVars, connVars, mountVars>> /\ Same

WallsNext ==
  \/ EnsureExecSupported \/ JoinCgroup \/ MountsUnread
  \/ Wire \/ NoUplink \/ AttachExecWall \/ AttachTracker
  \/ Mount \/ InsideFails \/ ExecAgent
  \/ CellAct \/ Leaves \/ OutsiderComes \/ CellConnects \/ OtherConnects \/ ConnGoesOn \/ HostFiles
  \/ TheirTeardown
  \/ Ended \/ DrainEvents \/ DetachWall \/ Teardown

WallsSpec == WallsInit /\ [][WallsNext]_cellVars

-----------------------------------------------------------------------------
(* Properties.                                                             *)

\* While the exec wall is up, every program that runs in the cell, scripts and
\* their interpreters included, has approved content, whatever was raced,
\* evicted, forked or unhashable; but for ql's own launcher.
ApprovedOnly ==
  prof.enforce /\ phase \in {"running", "ended", "sighted"} =>
    \A p \in inCell : image[p] \subseteq Approved \cup {Nothing}

\* The wall attaches to the cgroup of the child, and that is the user's own
\* session when the leaf was not joined: then, and only then, are programs
\* outside the cell screened or killed, and the run has reported the missing
\* cgroup.  But for one whose pid inherits the digest of an execve in the cell
\* that was allowed and did not happen.
SparesTheRest == {"screened", "killed"} \cap struck # {} => "cgroups" \in gaps

\* An exec the kernel's map can judge is killed exactly when the profile's argv
\* rules deny it, if it was made by its process's leader, with room in the
\* ring, and its entry was not evicted.
KillsTheDenied ==
  \A c \in commits :
    c.th = "leader" /\ c.room /\ ~c.evicted /\ Representable(c.file, c.args) =>
      (c.killed <=> EvaluateArgv(c.file, c.args))

\* Whom the broker takes for the opener of a connection: nobody, or a process that
\* opened one from that port, in the cell's namespace or another that is not ql's,
\* however early or late it asks. If it asks while the connection is open and has its
\* entry, it is told the opener, or one of the cell who has since connected elsewhere
\* from the same port, or nobody; also when another namespace uses the port, or did,
\* and entries are never taken out.
Openers(c) == {conn[d].pid : d \in {d \in Conns : /\ conn[d] # NoConn /\ conn[d].noted
                                                /\ conn[d].port = conn[c].port
                                                /\ conn[d].netns # Own}}
NamesOpener ==
  \A c \in Conns : answer[c] # NoConn =>
    /\ answer[c].pid \in Openers(c) \cup {Unknown}
    /\ answer[c].st = "in time" /\ conn[c].netns # Own =>
         answer[c].pid \in conn[c].over \cup {conn[c].pid, Unknown}

\* What stood under a denied pattern when the wall was built cannot be read while
\* the agent runs, whatever the host creates, replaces, removes, mounts or seals
\* meanwhile; only what is new at such a path can, and what a wildcard did not
\* reach, in a directory that could not be listed.
HiddenStays ==
  phase = "running" => \A s \in stood : made[s[1]] = s[2] => ~Reads(s[1])

\* Every exec that committed in the cell is among the decisions drained at the
\* end, as allowed, unless the ring was full.
EveryExecTold ==
  DrainEvents =>
     \/ Len(events) = EventRoom
     \/ \A c \in commits :
          [pid |-> c.pid, digest |-> c.file, allowed |-> TRUE] \in ToSet(sighted')

\* What ran in the cell was approved, and its record says that it ran.
ExecsAccounted == [][ApprovedOnly' /\ EveryExecTold]_cellVars
=============================================================================
