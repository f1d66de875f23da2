------------------------------ MODULE ExecLsm ------------------------------
(***************************************************************************)
(* The Tier-1 exec wall: the BPF programs of enforce.bpf.c and the maps    *)
(* ql-lsm fills and drains.  A process that calls execve in the screened   *)
(* cgroup meets enforce_exec before the exec commits and capture_argv      *)
(* after; the two are tied by a map keyed by process and thread, and by    *)
(* the time of the second every exec runs on its process's leader.         *)
(* Cgroups, processes and execve are the kernel's, of which only what      *)
(* the two programs can observe is kept.                                   *)
(***************************************************************************)
EXTENDS ArgvRules, Naturals, FiniteSets

CONSTANTS
  Pids,         \* process ids
  Files,        \* the binaries and scripts, by content
  Approved,     \* profile.exec.allow_digests
  Unhashable,   \* files whose content the kernel cannot hash
  Interpreter,  \* Interpreter[f]: the interpreter of script f
  Calls,        \* what execve is called with: [file, args]
  EventRoom,    \* the records the `events` ring holds
  ArgvRoom,     \* the records the `argv_events` ring holds
  MaxInflight,  \* the entries of `inflight`
  MaxExecs,     \* bound: execve calls
  MaxBorn,      \* bound: the processes, the cell's and others
  Nothing       \* no file; as an image, that of ql or of a program outside

ASSUME LsmAssumption ==
  /\ Approved \subseteq Files /\ Unhashable \subseteq Files
  /\ DOMAIN Interpreter \subseteq Files
  /\ \A f \in DOMAIN Interpreter : Interpreter[f] \in Files \ DOMAIN Interpreter
  /\ Nothing \notin Files /\ EventRoom \in Nat
  /\ \A c \in Calls : c.file \in Files /\ c.args \in Seq(Seq(Chars))

Threads == {"leader", "worker"}
NoCall == [at |-> "none"]

VARIABLES
  screened,   \* the cgroup enforce_exec is attached to, or "none"
  cgroup,     \* cgroup[p]: the cgroup of the process with pid p, "none" if the pid is free
  inCell,     \* the pids of the cell's processes
  image,      \* image[p]: the files p runs, a script and its interpreter
  call,       \* call[p]: p's execve, while it is under way
  inflight,   \* the map of that name: [pid, th, digest]
  events,     \* the ring of that name: [pid, digest, allowed]
  argvs,      \* how many records the ring of committed argument vectors holds
  born,       \* how many processes there were
  dangling,   \* history: the pids whose leader was allowed an execve that did not commit
  execs,      \* history: how many execve calls there were
  struck,     \* history: what was done to processes outside the cell: screened, or
              \* killed, by a dangling entry or not
  commits     \* history: the cell's execs that committed under the wall

lsmVars == <<screened, cgroup, inCell, image, call, inflight, events, argvs,
             born, dangling, execs, struck, commits>>

LsmInit(child) ==
  /\ screened = "none"
  /\ cgroup = [p \in Pids |-> IF p = child THEN "session" ELSE "none"]
  /\ inCell = {child}
  /\ image = [p \in Pids |-> {Nothing}]
  /\ call = [p \in Pids |-> NoCall]
  /\ inflight = {} /\ events = <<>> /\ argvs = 0
  /\ born = 1
  /\ dangling = {} /\ execs = 0 /\ struck = {} /\ commits = {}

Alive(p) == cgroup[p] # "none"
Kernel == UNCHANGED <<screened, inflight, events, argvs, struck, commits>>

-----------------------------------------------------------------------------
(* Processes.  A new one has a pid nobody uses.                            *)

NewPid(q) ==
  /\ ~Alive(q) /\ born < MaxBorn
  /\ born' = born + 1

Fork(p, q) ==
  /\ Alive(p) /\ NewPid(q)
  /\ p \in inCell /\ Nothing \notin image[p]
  /\ cgroup' = [cgroup EXCEPT ![q] = cgroup[p]]
  /\ inCell' = inCell \cup {q}
  /\ image' = [image EXCEPT ![q] = image[p]]
  /\ UNCHANGED <<call, dangling, execs>> /\ Kernel

\* A program outside the cell, in the cgroup ql was started from.
Outsider(q) ==
  /\ NewPid(q)
  /\ cgroup' = [cgroup EXCEPT ![q] = "session"]
  /\ image' = [image EXCEPT ![q] = {Nothing}]
  /\ UNCHANGED <<inCell, call, dangling, execs>> /\ Kernel

\* enforce_exec has stashed the digest of an execve that will not commit.
Dangles(p) ==
  IF /\ call[p] # NoCall /\ cgroup[p] = screened
     /\ call[p].th = "leader" /\ (call[p].at = "passed" \/ call[p].script # {})
  THEN {p} ELSE {}

Killed(p) ==
  /\ cgroup' = [cgroup EXCEPT ![p] = "none"]
  /\ inCell' = inCell \ {p}
  /\ image' = [image EXCEPT ![p] = {Nothing}]
  /\ call' = [call EXCEPT ![p] = NoCall]

Gone(p) == Killed(p) /\ dangling' = dangling \cup Dangles(p)

ProcessEnds(p) == Alive(p) /\ Gone(p) /\ UNCHANGED <<born, execs>> /\ Kernel

\* The launcher calls execve once, for the agent.
Execve(p) ==
  /\ Alive(p) /\ call[p] = NoCall /\ execs < MaxExecs
  /\ execs' = execs + 1
  /\ \E c \in Calls, th \in Threads :
       call' = [call EXCEPT ![p] = [at |-> "check", th |-> th, file |-> c.file, script |-> {},
                                    args |-> c.args, evicted |-> FALSE]]
  /\ UNCHANGED <<cgroup, inCell, image, born, dangling>> /\ Kernel

-----------------------------------------------------------------------------
(* enforce_exec, at bprm_check_security: for a script once for the script  *)
(* and once for its interpreter.                                           *)

\* Mutant: what cannot be hashed is let through.
AllowsUnhashed(f) == f \in Approved \cup Unhashable

Allows(f) == f \notin Unhashable /\ f \in Approved

DigestOf(f) == IF f \in Unhashable THEN Nothing ELSE f

ExecRecord(p, f) == [pid |-> p, digest |-> DigestOf(f), allowed |-> Allows(f)]

\* A full ring drops the record; the decision stands.
Emit(p, f) == events' = IF Len(events) < EventRoom
                        THEN Append(events, ExecRecord(p, f)) ELSE events

\* A full map evicts an entry for the new one.
Stash(p, f) ==
  LET kept == {e \in inflight : ~(e.pid = p /\ e.th = call[p].th)} IN
    \E out \in SUBSET kept :
      /\ Cardinality(out) = IF Cardinality(kept) < MaxInflight THEN 0 ELSE 1
      /\ inflight' = (kept \ out) \cup {[pid |-> p, th |-> call[p].th, digest |-> f]}

\* Where an allowed execve goes on: with a script's interpreter, or to commit.
Onward(c) ==
  IF c.file \in DOMAIN Interpreter
  THEN [c EXCEPT !.file = Interpreter[c.file], !.script = {c.file}]
  ELSE [c EXCEPT !.at = "passed"]

\* An entry that goes while its execve is under way is gone for capture_argv.
Overtaken(q) ==
  /\ call[q] # NoCall
  /\ \E e \in inflight \ inflight' : e.pid = q /\ e.th = call[q].th

EnforceExec(p) ==
  /\ call[p].at = "check" /\ cgroup[p] = screened
  /\ LET f == call[p].file IN
       /\ Emit(p, f)
       /\ IF Allows(f) THEN Stash(p, f) ELSE UNCHANGED inflight
       /\ call' = [q \in Pids |->
                     CASE q = p /\ Allows(f)       -> Onward(call[p])
                       [] q = p /\ ~Allows(f)      -> NoCall
                       [] q # p /\ Overtaken(q)    -> [call[q] EXCEPT !.evicted = TRUE]
                       [] q # p /\ ~Overtaken(q)   -> call[q]]
  /\ dangling' = IF Allows(call[p].file) THEN dangling ELSE dangling \cup Dangles(p)
  /\ struck' = IF p \in inCell THEN struck ELSE struck \cup {"screened"}
  /\ UNCHANGED <<screened, cgroup, inCell, image, argvs, born, execs, commits>>

\* The program is not attached to this process's cgroup.
Unscreened(p) ==
  /\ call[p].at = "check" /\ cgroup[p] # screened
  /\ call' = [call EXCEPT ![p] = Onward(@)]
  /\ UNCHANGED <<cgroup, inCell, image, born, dangling, execs>> /\ Kernel

\* The kernel gives an allowed execve up: no memory, a bad format.
ExecFails(p) ==
  /\ call[p].at = "passed"
  /\ call' = [call EXCEPT ![p] = NoCall]
  /\ dangling' = dangling \cup Dangles(p)
  /\ UNCHANGED <<cgroup, inCell, image, born, execs>> /\ Kernel

-----------------------------------------------------------------------------
(* capture_argv, at sched_process_exec.  The thread that called execve has *)
(* become its process's leader.                                            *)

Entry(p) == {e \in inflight : e.pid = p /\ e.th = "leader"}

\* Only an exec that went through enforce_exec is looked at, and only while
\* there is room for its record.
Reports(p) == Entry(p) # {} /\ argvs < ArgvRoom

Kills(p) == Reports(p) /\ \E e \in Entry(p) : KernelKills(e.digest, call[p].args)

Commit(p) ==
  /\ call[p].at = "passed"
  /\ inflight' = inflight \ Entry(p)
  /\ argvs' = IF Reports(p) THEN argvs + 1 ELSE argvs
  /\ commits' = IF p \in inCell /\ cgroup[p] = screened
                THEN commits \cup {[th |-> call[p].th, file |-> call[p].file,
                                    args |-> call[p].args, pid |-> p,
                                    evicted |-> call[p].evicted, killed |-> Kills(p),
                                    room |-> argvs < ArgvRoom]}
                ELSE commits
  /\ struck' = IF Kills(p) /\ p \notin inCell
               THEN struck \cup {IF p \in dangling THEN "killed, dangling" ELSE "killed"}
               ELSE struck
  /\ dangling' = dangling \ {p}
  /\ IF Kills(p) THEN Killed(p)
     ELSE /\ image' = [image EXCEPT ![p] = {call[p].file} \cup call[p].script]
          /\ call' = [call EXCEPT ![p] = NoCall]
          /\ UNCHANGED <<cgroup, inCell>>
  /\ UNCHANGED <<screened, events, born, execs>>
=============================================================================
