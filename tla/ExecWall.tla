------------------------------ MODULE ExecWall ------------------------------
(***************************************************************************)
(* The Tier-2 exec wall (ql-enforce, exec_supervisor.rs and cell.rs,      *)
(* Cell::supervise).  Every execve of a task in the cell becomes a seccomp *)
(* notification; one supervisor thread receives it, hashes the target,    *)
(* answers it, and, when the profile has argv rules, looks at the argument *)
(* vector the kernel committed and kills the process that broke a rule.   *)
(* Tasks fork, exec and die meanwhile, and the kernel recycles pids.      *)
(*                                                                         *)
(* What an execve names may change while it is pending: a sibling thread   *)
(* writes to the task's memory, or the file is rewritten.  CONTINUE makes  *)
(* the kernel read path, file and vector anew, so the file that was hashed *)
(* need not be the file that is executed.                                  *)
(***************************************************************************)
EXTENDS Naturals, Sequences, FiniteSets

CONSTANTS
  Pids,      \* process ids of the cell, as the supervisor sees them
  Child,     \* the child run() forked; only the supervisor reaps it
  Files,     \* the binaries, by content digest
  Approved,  \* profile.exec.allow_digests
  Args,      \* argument vectors
  OwnArgv,   \* the launcher's own
  ArgvDeny,  \* pairs <<file, args>> the argv rules deny
  Asks,      \* the files and vectors execve is called with
  Nothing,   \* no file, no argument vector
  MaxExecs,  \* bound: execve calls
  MaxGen     \* bound: how often a pid is used

ASSUME WallAssumption ==
  /\ Child \in Pids
  /\ Approved \subseteq Files
  /\ Nothing \notin Files /\ Nothing \notin Args
  /\ OwnArgv \in Args
  /\ ArgvDeny \subseteq Files \X Args
  /\ Asks \subseteq [file : Files \cup {Nothing}, argv : Args]
  /\ MaxExecs \in Nat /\ MaxGen \in Nat \ {0}

\* The launcher's own image is file Nothing: it ran before the wall was up.
Images == [file : Files \cup {Nothing}, argv : Args]

VARIABLES
  alive,    \* the pids in use
  gen,      \* how often each pid has been used, to tell its users apart
  image,    \* what each task runs
  asked,    \* the image each task's pending execve asks for
  note,     \* that execve's notification: none, queued, received, continued
  id,       \* and the notification's id
  lastId,   \* the ids handed out so far
  swapped,  \* history: the tasks whose pending file changed since it was hashed
  pc,       \* where the supervisor is
  cur,      \* the notification it serves: pid, id
  digest,   \* the digest it computed, or Nothing
  pre,      \* the argument vector before the exec
  got,      \* the committed argument vector, or Nothing
  exit,     \* whether the child has been reaped
  records,  \* one record per decision, oldest first
  kills,    \* history: the processes the supervisor killed, and for what
  runs      \* history: the execs that were let through and committed

tasks == <<alive, gen, image, asked, note, id, lastId, swapped, runs>>
supervisor == <<pc, cur, digest, pre, got, exit, records, kills>>
vars == <<tasks, supervisor>>

-----------------------------------------------------------------------------
(* The supervisor's predicates.                                            *)

Capture == ArgvDeny # {}

\* Mutant: a binary that cannot be hashed is let through.
DecideOpen(d) == IF d \in Approved \cup {Nothing} THEN "allow" ELSE "deny"

\* decide(): an unhashable binary is denied.
Decide(d) == IF d \in Approved THEN "allow" ELSE "deny"

\* evaluate_argv(): some rule for this digest matches.
ArgvDenied(d, argv) == <<d, argv>> \in ArgvDeny

\* SECCOMP_IOCTL_NOTIF_ID_VALID: the task still waits for this answer.
Pending(n) == n.pid \in alive /\ note[n.pid] = "received" /\ id[n.pid] = n.id

Init ==
  /\ alive = {Child}
  /\ gen = [p \in Pids |-> IF p = Child THEN 1 ELSE 0]
  /\ image = [p \in Pids |-> [file |-> Nothing, argv |-> OwnArgv]]
  /\ asked = image
  /\ note = [p \in Pids |-> "none"]
  /\ id = [p \in Pids |-> 0]
  /\ lastId = 0
  /\ swapped = {}
  /\ pc = "wait"
  /\ cur = [pid |-> Child, id |-> 0, gen |-> 0]
  /\ digest = Nothing /\ pre = Nothing /\ got = Nothing
  /\ exit = FALSE
  /\ records = <<>>
  /\ kills = {}
  /\ runs = {}

-----------------------------------------------------------------------------
(* The tasks of the cell, and the kernel.                                  *)

\* execve, while the wall is up: the task blocks on its notification.  Image
\* file Nothing stands for a path that does not exist in the cell.
Execve(p) ==
  /\ p \in alive /\ note[p] = "none"
  /\ pc # "returned"
  /\ lastId < MaxExecs
  /\ \E i \in Asks : asked' = [asked EXCEPT ![p] = i]
  /\ note' = [note EXCEPT ![p] = "queued"]
  /\ lastId' = lastId + 1
  /\ id' = [id EXCEPT ![p] = lastId']
  /\ UNCHANGED <<alive, gen, image, swapped, runs, supervisor>>

\* What a pending execve names changes: a sibling thread writes another path or
\* vector to its arguments, or the owner of the file rewrites or replaces it.
\* (Before the supervisor has received it, nobody has read what it names.)
Change(p) ==
  /\ note[p] \in {"received", "continued"}
  /\ \E i \in Asks \ {asked[p]} :
       /\ asked' = [asked EXCEPT ![p] = i]
       /\ swapped' = IF i.file = asked[p].file THEN swapped ELSE swapped \cup {p}
  /\ UNCHANGED <<alive, gen, image, note, id, lastId, runs, supervisor>>

\* The kernel reads path, file and vector of a continued execve once more, and
\* executes what it finds, or fails it.
Commit(p) ==
  /\ p \in alive /\ note[p] = "continued"
  /\ note' = [note EXCEPT ![p] = "none"]
  /\ swapped' = swapped \ {p}
  /\ \/ /\ asked[p].file # Nothing
        /\ image' = [image EXCEPT ![p] = asked[p]]
        /\ runs' = runs \cup {[id |-> id[p], file |-> asked[p].file,
                               swapped |-> p \in swapped]}
     \/ UNCHANGED <<image, runs>>
  /\ UNCHANGED <<alive, gen, asked, id, lastId, supervisor>>

\* A child process, under a pid nobody uses; the child's own pid is free only
\* once the supervisor has reaped it.
Fork(p, q) ==
  /\ p \in alive /\ note[p] = "none"
  /\ q \notin alive /\ (q = Child => exit)
  /\ gen[q] < MaxGen
  /\ alive' = alive \cup {q}
  /\ gen' = [gen EXCEPT ![q] = @ + 1]
  /\ image' = [image EXCEPT ![q] = image[p]]
  /\ UNCHANGED <<asked, note, id, lastId, swapped, runs, supervisor>>

Dies(p) ==
  /\ alive' = alive \ {p}
  /\ note' = [note EXCEPT ![p] = "none"]
  /\ swapped' = swapped \ {p}
  /\ UNCHANGED <<gen, image, asked, id, lastId, runs>>

Exit(p) == p \in alive /\ Dies(p) /\ UNCHANGED supervisor

-----------------------------------------------------------------------------
(* Cell::supervise and serve_one.                                          *)

\* Back to the top of the loop.
Loop == pc' = "wait" /\ UNCHANGED <<cur, digest, pre, got>>

Reap ==
  /\ pc = "wait"
  /\ exit' = (exit \/ Child \notin alive)
  /\ pc' = "poll"
  /\ UNCHANGED <<tasks, cur, digest, pre, got, records, kills>>

Queued == {p \in alive : note[p] = "queued"}

PollReady ==
  /\ pc = "poll"
  /\ Queued # {}
  /\ pc' = "recv"
  /\ UNCHANGED <<tasks, cur, digest, pre, got, exit, records, kills>>

\* Mutant: supervision goes on until the last task of the cell has ended.
PollIdleWaitsForAll ==
  /\ pc = "poll"
  /\ Queued = {}
  /\ pc' = IF exit /\ alive = {} THEN "close" ELSE "wait"
  /\ UNCHANGED <<tasks, cur, digest, pre, got, exit, records, kills>>

\* Nothing for 200 ms: supervision ends if the child has been reaped.
PollIdle ==
  /\ pc = "poll"
  /\ Queued = {}
  /\ pc' = IF exit THEN "close" ELSE "wait"
  /\ UNCHANGED <<tasks, cur, digest, pre, got, exit, records, kills>>

\* The listener is dropped: the kernel fails every execve still waiting.
Close ==
  /\ pc = "close"
  /\ pc' = "returned"
  /\ note' = [p \in Pids |-> IF note[p] = "queued" THEN "none" ELSE note[p]]
  /\ UNCHANGED <<alive, gen, image, asked, id, lastId, swapped, runs>>
  /\ UNCHANGED <<cur, digest, pre, got, exit, records, kills>>

\* The kernel hands out the oldest notification; the ioctl fails when its task
\* is gone by now.
Receive ==
  /\ pc = "recv"
  /\ \/ \E p \in Queued :
          /\ \A q \in Queued : id[p] <= id[q]
          /\ cur' = [pid |-> p, id |-> id[p], gen |-> gen[p]]
          /\ note' = [note EXCEPT ![p] = "received"]
          /\ pc' = "hash"
          /\ UNCHANGED <<digest, pre, got>>
     \/ Queued = {} /\ Loop /\ UNCHANGED note
  /\ UNCHANGED <<alive, gen, image, asked, id, lastId, swapped, runs, exit, records, kills>>

\* read_path and hash_target.  A path the cell does not have is looked up in
\* the supervisor's own root; the memory of a recycled pid may hold any path.
Hash ==
  /\ pc = "hash"
  /\ digest' \in IF Pending(cur) /\ asked[cur.pid].file # Nothing
                  THEN {asked[cur.pid].file, Nothing}
                  ELSE Files \cup {Nothing}
  /\ swapped' = IF Pending(cur) THEN swapped \ {cur.pid} ELSE swapped
  /\ pc' = "check"
  /\ UNCHANGED <<alive, gen, image, asked, note, id, lastId, runs>>
  /\ UNCHANGED <<cur, pre, got, exit, records, kills>>

WantCommitted == Capture /\ Decide(digest) = "allow"

\* notif_id_valid, and the argument vector before the exec.
Check ==
  /\ pc = "check"
  /\ \/ /\ Pending(cur)
        /\ pre' = IF WantCommitted THEN image[cur.pid].argv ELSE Nothing
        /\ pc' = "respond"
        /\ UNCHANGED <<cur, digest, got>>
     \/ ~Pending(cur) /\ Loop
  /\ UNCHANGED <<tasks, exit, records, kills>>

\* SECCOMP_IOCTL_NOTIF_SEND: CONTINUE or EACCES; it fails for a task that is
\* gone, and nothing is reported.
Respond ==
  /\ pc = "respond"
  /\ \/ /\ Pending(cur)
        /\ note' = [note EXCEPT ![cur.pid] =
                      IF Decide(digest) = "allow" THEN "continued" ELSE "none"]
        /\ got' = Nothing
        /\ pc' = IF WantCommitted THEN "capture" ELSE "report"
        /\ UNCHANGED <<cur, digest, pre>>
     \/ ~Pending(cur) /\ Loop /\ UNCHANGED note
  /\ UNCHANGED <<alive, gen, image, asked, id, lastId, swapped, runs, exit, records, kills>>

\* Mutant: takes the first argument vector it reads.
CaptureSeesAny ==
  /\ pc = "capture"
  /\ cur.pid \in alive
  /\ got' = image[cur.pid].argv
  /\ pc' = "report"
  /\ UNCHANGED <<tasks, cur, digest, pre, exit, records, kills>>

\* read_committed_argv: the vector changed ...
CaptureSees ==
  /\ pc = "capture"
  /\ cur.pid \in alive
  /\ image[cur.pid].argv # pre
  /\ got' = image[cur.pid].argv
  /\ pc' = "report"
  /\ UNCHANGED <<tasks, cur, digest, pre, exit, records, kills>>

Committed(n) == \E r \in runs : r.id = n.id

\* Mutant: no event for an exec whose vector was not seen.
CaptureGivesUpSilently ==
  /\ pc = "capture"
  /\ Loop
  /\ UNCHANGED <<tasks, exit, records, kills>>

\* ... or the polls are used up: the task is gone, slow, or has the same vector.
CaptureGivesUp ==
  /\ pc = "capture"
  /\ pc' = "report"
  /\ UNCHANGED <<tasks, cur, digest, pre, got, exit, records, kills>>

Broken == got # Nothing /\ ArgvDenied(digest, got)

\* on_event: the argv rules, and the record.
Report ==
  /\ pc = "report"
  /\ records' = Append(records, [id |-> cur.id, digest |-> digest,
                                 decision |-> Decide(digest), killed |-> Broken])
  /\ pc' = IF Broken THEN "kill" ELSE "wait"
  /\ UNCHANGED <<tasks, cur, digest, pre, got, exit, kills>>

\* SIGKILL, by pid.
Kill ==
  /\ pc = "kill"
  /\ pc' = "wait"
  /\ \/ /\ cur.pid \in alive
        /\ Dies(cur.pid)
        /\ kills' = kills \cup {[hit |-> gen[cur.pid], meant |-> cur.gen,
                                 image |-> image[cur.pid],
                                 id |-> cur.id, digest |-> digest]}
     \/ cur.pid \notin alive /\ UNCHANGED <<tasks, kills>>
  /\ UNCHANGED <<cur, digest, pre, got, exit, records>>

Supervise ==
  \/ Reap \/ PollReady \/ PollIdle \/ Close \/ Receive \/ Hash \/ Check
  \/ Respond \/ CaptureSees \/ CaptureGivesUp \/ Report \/ Kill

Task(p) == Execve(p) \/ Exit(p) \/ \E q \in Pids : Fork(p, q)

Next == Supervise \/ \E p \in Pids : Task(p) \/ Change(p) \/ Commit(p)

Spec == Init /\ [][Next]_vars

\* The supervisor's loop never blocks for long (poll has a timeout, an ioctl
\* follows a successful poll), and the kernel completes what was continued.
FairSpec == Spec /\ WF_vars(Supervise) /\ \A p \in Pids : WF_vars(Commit(p))

-----------------------------------------------------------------------------
(* Properties.                                                             *)

\* The variables hold what the code's types and the kernel allow.
TypeOK ==
  /\ alive \subseteq Pids
  /\ gen \in [Pids -> 0..MaxGen]
  /\ image \in [Pids -> Images] /\ asked \in [Pids -> Images]
  /\ note \in [Pids -> {"none", "queued", "received", "continued"}]
  /\ id \in [Pids -> 0..MaxExecs] /\ lastId \in 0..MaxExecs
  /\ swapped \subseteq Pids
  /\ pc \in {"wait", "poll", "recv", "hash", "check", "respond", "capture",
             "report", "kill", "close", "returned"}
  /\ cur \in [pid : Pids, id : 0..MaxExecs, gen : 0..MaxGen]
  /\ digest \in Files \cup {Nothing}
  /\ {pre, got} \subseteq Args \cup {Nothing}
  /\ exit \in BOOLEAN
  /\ \A p \in Pids : note[p] # "none" => p \in alive

\* No task runs a binary whose digest the profile does not approve, though tasks
\* die and their pids are used again between the supervisor's look at the binary
\* and its answer; only a change of what the execve names, after that look and
\* before the kernel's own, gets past it (exec_supervisor.rs:326-356, :466-472).
OnlyApproved == \A r \in runs : r.swapped \/ r.file \in Approved

\* Between two notifications, every exec that was let through and committed has
\* exactly one record, an "allow", of the digest that ran unless that file was
\* swapped behind the look; no notification has two (cell.rs:827, "One record
\* per `execve` the wall screened").
OneRecordPerExec ==
  /\ \A i, j \in DOMAIN records : records[i].id = records[j].id => i = j
  /\ pc \in {"wait", "poll", "recv", "close", "returned"} =>
       \A r \in runs : \E i \in DOMAIN records :
         /\ records[i].id = r.id
         /\ records[i].decision = "allow"
         /\ r.swapped \/ records[i].digest = r.file

\* A kill that reaches the process that made the exec finds it running with an
\* argument vector that a rule denies to the binary that was hashed, and running
\* that binary unless it was swapped: the vector judged is the committed one and
\* no other, early, late or of another task (cell.rs:484-510).
KillsOffender ==
  \A k \in kills : k.hit = k.meant =>
    /\ ArgvDenied(k.digest, k.image.argv)
    /\ k.image.file = k.digest \/ \E r \in runs : r.id = k.id /\ r.swapped

\* No execve waits for ever for its answer, and supervision ends once the child
\* has ended and its descendants make no more execs.
AllServed ==
  /\ \A p \in Pids : note[p] \in {"queued", "received"} ~>
                       note[p] \notin {"queued", "received"}
  /\ Child \notin alive ~> pc = "returned"
=============================================================================
