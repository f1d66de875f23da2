-------------------------- MODULE ExecWall_proofs --------------------------
(***************************************************************************)
(* The exec wall lets only approved binaries run, for any number of tasks *)
(* and pids, any set of digests and rules, and any number of execs.       *)
(* Screened says what the answer in preparation and the answers already   *)
(* given rest on.  Numbering, Accounted and OnTarget give the records and  *)
(* the kills: one record per exec, and a kill for what was seen to run.    *)
(*                                                                         *)
(* Then the policies the wall enforces, and where they come from: learnt   *)
(* from a trace (TraceInv), tried on a recorded stream (StreamInv), and    *)
(* compiled from lockfiles, signed and checked before a run (ApprovalInv). *)
(***************************************************************************)
EXTENDS ExecWall, LearnLife, FiniteSetTheorems, WellFoundedInduction, TLAPS

Notes == {"none", "queued", "received", "continued"}
Steps == {"wait", "poll", "recv", "hash", "check", "respond", "capture",
          "report", "kill", "close", "returned"}
Served == [pid : Pids, id : 0..MaxExecs, gen : 0..MaxGen]

TaskTypes ==
  /\ alive \subseteq Pids
  /\ gen \in [Pids -> 0..MaxGen]
  /\ image \in [Pids -> Images] /\ asked \in [Pids -> Images]
  /\ note \in [Pids -> Notes]
  /\ id \in [Pids -> 0..MaxExecs] /\ lastId \in 0..MaxExecs
  /\ swapped \subseteq Pids
  /\ \A p \in Pids : note[p] # "none" => p \in alive

SupervisorTypes ==
  /\ pc \in Steps
  /\ cur \in Served
  /\ digest \in Files \cup {Nothing}
  /\ pre \in Args \cup {Nothing} /\ got \in Args \cup {Nothing}
  /\ exit \in BOOLEAN

LEMMA TypesAreTypeOK == TypeOK <=> TaskTypes /\ SupervisorTypes
BY DEF TypeOK, TaskTypes, SupervisorTypes, Notes, Steps, Served

\* What the kernel may execute when it is told to continue.
Passes(i) == i.file \in Approved \cup {Nothing}

\* The answer in preparation rests on the pending execve itself, and every
\* answer given lets only an approved binary through, or one that was swapped.
LetsBy(p) == p \in swapped \/ Passes(asked[p])

Screened ==
  /\ pc \in {"check", "respond"} /\ Pending(cur) /\ digest \in Approved => LetsBy(cur.pid)
  /\ \A p \in Pids : note[p] = "continued" => LetsBy(p)
  /\ OnlyApproved

WallInv == TaskTypes /\ SupervisorTypes /\ Screened

-----------------------------------------------------------------------------
LEMMA WallInit == Init => WallInv
<1>. SUFFICES ASSUME Init PROVE WallInv
  OBVIOUS
<1>1. image = [p \in Pids |-> [file |-> Nothing, argv |-> OwnArgv]] /\ OwnArgv \in Args
  BY WallAssumption DEF Init
<1>2. image \in [Pids -> Images] /\ asked \in [Pids -> Images]
  BY <1>1 DEF Init, Images
<1>3. gen \in [Pids -> 0..MaxGen]
  BY WallAssumption DEF Init
<1>4. note \in [Pids -> Notes] /\ id \in [Pids -> 0..MaxExecs] /\ lastId \in 0..MaxExecs
  BY WallAssumption DEF Init, Notes
<1>5. cur \in Served
  BY WallAssumption DEF Init, Served
<1>6. TaskTypes
  BY <1>2, <1>3, <1>4, WallAssumption DEF Init, TaskTypes
<1>7. SupervisorTypes
  BY <1>5 DEF Init, SupervisorTypes, Steps
<1>8. Screened
  BY <1>4 DEF Init, Screened, OnlyApproved
<1>. QED
  BY <1>6, <1>7, <1>8 DEF WallInv

LEMMA ExecveInv ==
  ASSUME WallInv, NEW p \in Pids, Execve(p)
  PROVE  WallInv'
<1>. USE DEF WallInv
<1>1. PICK i \in Images : asked' = [asked EXCEPT ![p] = i]
  BY WallAssumption DEF Execve, Images
<1>2. /\ p \in alive /\ note[p] = "none" /\ lastId < MaxExecs
      /\ note' = [note EXCEPT ![p] = "queued"]
      /\ lastId' = lastId + 1 /\ id' = [id EXCEPT ![p] = lastId']
      /\ UNCHANGED <<alive, gen, image, swapped, runs>>
  BY DEF Execve
<1>3. UNCHANGED <<pc, cur, digest, pre, got, exit>>
  BY DEF Execve, supervisor
<1>4. lastId' \in 0..MaxExecs
  BY <1>2, WallAssumption DEF TaskTypes
<1>5. TaskTypes'
  BY <1>1, <1>2, <1>4 DEF TaskTypes, Notes
<1>6. SupervisorTypes'
  BY <1>3 DEF SupervisorTypes
<1>7. Pending(cur)' => Pending(cur) /\ cur.pid # p
  BY <1>2, <1>3 DEF Pending, TaskTypes, SupervisorTypes, Served
<1>8. Screened'
  BY <1>1, <1>2, <1>3, <1>7 DEF Screened, LetsBy, OnlyApproved, Passes, TaskTypes, SupervisorTypes, Served
<1>. QED
  BY <1>5, <1>6, <1>8

LEMMA ChangeInv ==
  ASSUME WallInv, NEW p \in Pids, Change(p)
  PROVE  WallInv'
<1>. USE DEF WallInv
<1>1. PICK i \in Images : /\ asked' = [asked EXCEPT ![p] = i]
                          /\ swapped' = IF i.file = asked[p].file THEN swapped ELSE swapped \cup {p}
  BY WallAssumption DEF Change, Images
<1>2. UNCHANGED <<alive, gen, image, note, id, lastId, runs>>
  BY DEF Change
<1>3. UNCHANGED <<pc, cur, digest, pre, got, exit>>
  BY DEF Change, supervisor
<1>4. TaskTypes'
  BY <1>1, <1>2 DEF TaskTypes
<1>5. SupervisorTypes'
  BY <1>3 DEF SupervisorTypes
<1>6. \A q \in Pids : LetsBy(q) => LetsBy(q)'
  BY <1>1 DEF LetsBy, Passes, TaskTypes
<1>7. Pending(cur)' = Pending(cur) /\ cur.pid \in Pids
  BY <1>2, <1>3 DEF Pending, SupervisorTypes, Served
<1>8. LetsBy(cur.pid)' = (cur.pid \in swapped' \/ Passes(asked'[cur.pid]))
  BY <1>3 DEF LetsBy, Passes
<1>9. Screened'
  BY <1>2, <1>3, <1>6, <1>7, <1>8 DEF Screened, LetsBy, OnlyApproved, Passes
<1>. QED
  BY <1>4, <1>5, <1>9

LEMMA CommitInv ==
  ASSUME WallInv, NEW p \in Pids, Commit(p)
  PROVE  WallInv'
<1>. USE DEF WallInv
<1>1. /\ note[p] = "continued" /\ note' = [note EXCEPT ![p] = "none"]
      /\ UNCHANGED <<alive, gen, asked, id, lastId>>
  BY DEF Commit
<1>2. UNCHANGED <<pc, cur, digest, pre, got, exit>>
  BY DEF Commit, supervisor
<1>3. \/ asked[p].file # Nothing /\ image' = [image EXCEPT ![p] = asked[p]]
           /\ runs' = runs \cup {[id |-> id[p], file |-> asked[p].file,
                                  swapped |-> p \in swapped]}
      \/ UNCHANGED <<image, runs>>
  BY DEF Commit
<1>0. swapped' = swapped \ {p}
  BY DEF Commit
<1>4. image' \in [Pids -> Images]
  BY <1>3 DEF TaskTypes
<1>5. TaskTypes'
  BY <1>0, <1>1, <1>4 DEF TaskTypes, Notes
<1>6. SupervisorTypes'
  BY <1>2 DEF SupervisorTypes
<1>7. OnlyApproved'
  <2>1. LetsBy(p) /\ OnlyApproved
    BY <1>1 DEF Screened
  <2>2. asked[p].file # Nothing => p \in swapped \/ asked[p].file \in Approved
    BY <2>1 DEF LetsBy, Passes
  <2>3. CASE UNCHANGED runs
    BY <2>1, <2>3 DEF OnlyApproved
  <2>4. CASE /\ asked[p].file # Nothing
             /\ runs' = runs \cup {[id |-> id[p], file |-> asked[p].file,
                                    swapped |-> p \in swapped]}
    <3>. DEFINE new == [id |-> id[p], file |-> asked[p].file, swapped |-> p \in swapped]
    <3>1. (p \in swapped => new.swapped) /\ new.file = asked[p].file
      OBVIOUS
    <3>2. new.swapped \/ new.file \in Approved
      BY <2>2, <2>4, <3>1
    <3>. HIDE DEF new
    <3>3. runs' = runs \cup {new}
      BY <2>4 DEF new
    <3>. QED
      BY <2>1, <3>2, <3>3 DEF OnlyApproved
  <2>. QED
    BY <1>3, <2>3, <2>4
<1>8. Pending(cur)' => Pending(cur) /\ cur.pid # p
  BY <1>1, <1>2 DEF Pending, TaskTypes, SupervisorTypes, Served
<1>9. Screened'
  BY <1>0, <1>1, <1>2, <1>7, <1>8 DEF Screened, LetsBy, Passes, TaskTypes
<1>. QED
  BY <1>5, <1>6, <1>9

LEMMA ForkInv ==
  ASSUME WallInv, NEW p \in Pids, NEW q \in Pids, Fork(p, q)
  PROVE  WallInv'
<1>. USE DEF WallInv
<1>1. /\ q \notin alive /\ gen[q] < MaxGen
      /\ alive' = alive \cup {q} /\ gen' = [gen EXCEPT ![q] = @ + 1]
      /\ image' = [image EXCEPT ![q] = image[p]]
      /\ UNCHANGED <<asked, note, id, lastId, swapped, runs>>
  BY DEF Fork
<1>2. UNCHANGED <<pc, cur, digest, pre, got, exit>>
  BY DEF Fork, supervisor
<1>3. gen[q] + 1 \in 0..MaxGen
  BY <1>1, WallAssumption DEF TaskTypes
<1>4. TaskTypes'
  BY <1>1, <1>3 DEF TaskTypes
<1>5. SupervisorTypes'
  BY <1>2 DEF SupervisorTypes
<1>6. Pending(cur)' => Pending(cur)
  BY <1>1, <1>2 DEF Pending, TaskTypes, SupervisorTypes, Served
<1>7. Screened'
  BY <1>1, <1>2, <1>6 DEF Screened, LetsBy, OnlyApproved, Passes
<1>. QED
  BY <1>4, <1>5, <1>7

\* A death takes a task and its notification away, whatever the supervisor does.
LEMMA DiesInv ==
  ASSUME WallInv, NEW p \in Pids, Dies(p)
  PROVE  /\ TaskTypes'
         /\ \A q \in Pids : note'[q] = "continued" => LetsBy(q)'
         /\ OnlyApproved'
         /\ UNCHANGED <<pc, cur, digest>> =>
              (Pending(cur)' => Pending(cur) /\ (LetsBy(cur.pid) => LetsBy(cur.pid)'))
<1>. USE DEF WallInv
<1>1. /\ alive' = alive \ {p} /\ note' = [note EXCEPT ![p] = "none"]
      /\ swapped' = swapped \ {p}
      /\ UNCHANGED <<gen, image, asked, id, lastId, runs>>
  BY DEF Dies
<1>2. TaskTypes'
  BY <1>1 DEF TaskTypes, Notes
<1>3. \A q \in Pids : note'[q] = "continued" => LetsBy(q)'
  BY <1>1 DEF Screened, TaskTypes, LetsBy, Passes
<1>4. OnlyApproved'
  BY <1>1 DEF Screened, OnlyApproved
<1>5. UNCHANGED <<pc, cur, digest>> =>
        (Pending(cur)' => Pending(cur) /\ (LetsBy(cur.pid) => LetsBy(cur.pid)'))
  BY <1>1 DEF Pending, TaskTypes, SupervisorTypes, Served, LetsBy, Passes
<1>. QED
  BY <1>2, <1>3, <1>4, <1>5

LEMMA ExitInv ==
  ASSUME WallInv, NEW p \in Pids, Exit(p)
  PROVE  WallInv'
<1>1. Dies(p) /\ UNCHANGED <<pc, cur, digest, pre, got, exit>>
  BY DEF Exit, supervisor
<1>3. SupervisorTypes'
  BY <1>1 DEF WallInv, SupervisorTypes
<1>4. /\ TaskTypes' /\ OnlyApproved'
      /\ Pending(cur)' => Pending(cur) /\ (LetsBy(cur.pid) => LetsBy(cur.pid)')
      /\ \A q \in Pids : note'[q] = "continued" => LetsBy(q)'
  BY <1>1, DiesInv
<1>5. Screened'
  BY <1>1, <1>4 DEF Screened, WallInv
<1>. QED
  BY <1>3, <1>4, <1>5 DEF WallInv

-----------------------------------------------------------------------------
(* The supervisor.                                                         *)

\* A step that leaves the tasks alone and is not on the way to an answer.
LEMMA AsideInv ==
  ASSUME WallInv, UNCHANGED tasks, pc' \in Steps \ {"check", "respond"}, SupervisorTypes'
  PROVE  WallInv'
BY DEF WallInv, TaskTypes, Screened, LetsBy, OnlyApproved, Passes, tasks

LEMMA LoopStepInv ==
  ASSUME WallInv, Reap \/ PollReady \/ PollIdle \/ CaptureSees \/ CaptureGivesUp \/ Report
  PROVE  WallInv'
<1>1. CASE Reap
  BY <1>1, AsideInv DEF Reap, WallInv, SupervisorTypes, Steps
<1>2. CASE PollReady \/ PollIdle
  BY <1>2, AsideInv DEF PollReady, PollIdle, WallInv, SupervisorTypes, Steps
<1>3. CASE CaptureSees
  <2>1. cur.pid \in Pids
    BY DEF WallInv, SupervisorTypes, Served
  <2>2. image[cur.pid].argv \in Args
    BY <2>1 DEF WallInv, TaskTypes, Images
  <2>. QED
    BY <1>3, <2>2, AsideInv DEF CaptureSees, WallInv, SupervisorTypes, Steps
<1>4. CASE CaptureGivesUp
  BY <1>4, AsideInv DEF CaptureGivesUp, WallInv, SupervisorTypes, Steps
<1>5. CASE Report
  BY <1>5, AsideInv DEF Report, WallInv, SupervisorTypes, Steps
<1>. QED
  BY <1>1, <1>2, <1>3, <1>4, <1>5

LEMMA CloseInv == WallInv /\ Close => WallInv'
BY DEF WallInv, Close, TaskTypes, SupervisorTypes, Screened, LetsBy, OnlyApproved, Passes, Notes, Steps

LEMMA ReceiveInv == WallInv /\ Receive => WallInv'
<1>. SUFFICES ASSUME WallInv, Receive PROVE WallInv'
  OBVIOUS
<1>. USE DEF WallInv
<1>0. UNCHANGED <<alive, gen, image, asked, id, lastId, swapped, runs, exit>>
  BY DEF Receive
<1>1. CASE Queued = {} /\ Loop /\ UNCHANGED note
  BY <1>0, <1>1, AsideInv DEF Loop, tasks, SupervisorTypes, Steps
<1>2. CASE ~(Queued = {} /\ Loop /\ UNCHANGED note)
  <2>1. PICK p \in Queued :
          /\ cur' = [pid |-> p, id |-> id[p], gen |-> gen[p]]
          /\ note' = [note EXCEPT ![p] = "received"]
          /\ pc' = "hash"
          /\ UNCHANGED <<digest, pre, got>>
    BY <1>2 DEF Receive
  <2>2. p \in Pids /\ p \in alive
    BY DEF Queued, TaskTypes
  <2>3. TaskTypes'
    BY <1>0, <2>1, <2>2 DEF TaskTypes, Notes
  <2>4. cur' \in Served
    BY <2>1, <2>2 DEF TaskTypes, Served
  <2>5. SupervisorTypes'
    BY <1>0, <2>1, <2>4 DEF SupervisorTypes, Steps
  <2>6. Screened'
    BY <1>0, <2>1, <2>2 DEF Screened, LetsBy, OnlyApproved, Passes, TaskTypes
  <2>. QED
    BY <2>3, <2>5, <2>6
<1>. QED
  BY <1>1, <1>2

\* The digest is of the file the pending execve names at this moment.
LEMMA HashInv == WallInv /\ Hash => WallInv'
<1>. SUFFICES ASSUME WallInv, Hash PROVE WallInv'
  OBVIOUS
<1>. USE DEF WallInv
<1>1. /\ UNCHANGED <<alive, gen, image, asked, note, id, lastId, runs>>
      /\ UNCHANGED <<cur, pre, got, exit>> /\ pc' = "check"
      /\ swapped' \subseteq swapped
      /\ \A q \in Pids : q # cur.pid \/ ~Pending(cur) => (q \in swapped' <=> q \in swapped)
  BY DEF Hash
<1>2. cur.pid \in Pids /\ asked[cur.pid].file \in Files \cup {Nothing}
  BY DEF TaskTypes, SupervisorTypes, Served, Images
<1>3. digest' \in Files \cup {Nothing}
  BY <1>2 DEF Hash
<1>4. TaskTypes'
  BY <1>1 DEF TaskTypes
<1>5. SupervisorTypes'
  BY <1>1, <1>3 DEF SupervisorTypes, Steps
<1>6. ASSUME Pending(cur), digest' \in Approved PROVE Passes(asked[cur.pid])
  <2>1. CASE asked[cur.pid].file = Nothing
    BY <2>1 DEF Passes
  <2>2. CASE asked[cur.pid].file # Nothing
    BY <1>6, <2>2, WallAssumption DEF Hash, Passes
  <2>. QED
    BY <2>1, <2>2
<1>7. Pending(cur)' = Pending(cur) /\ (Pending(cur) => note[cur.pid] # "continued")
  BY <1>1 DEF Pending
<1>8. Screened'
  BY <1>1, <1>2, <1>6, <1>7 DEF Screened, LetsBy, OnlyApproved, Passes
<1>. QED
  BY <1>4, <1>5, <1>8

LEMMA CheckInv == WallInv /\ Check => WallInv'
<1>. SUFFICES ASSUME WallInv, Check PROVE WallInv'
  OBVIOUS
<1>. USE DEF WallInv
<1>1. UNCHANGED tasks /\ UNCHANGED <<cur, digest, got, exit>> /\ pc = "check"
  BY DEF Check, Loop
<1>2. pre' \in Args \cup {Nothing}
  <2>1. cur.pid \in Pids
    BY DEF SupervisorTypes, Served
  <2>2. image[cur.pid].argv \in Args
    BY <2>1 DEF TaskTypes, Images
  <2>. QED
    BY <2>2 DEF Check, Loop, SupervisorTypes
<1>3. pc' \in {"respond", "wait"}
  BY DEF Check, Loop
<1>4. TaskTypes'
  BY <1>1 DEF TaskTypes, tasks
<1>5. SupervisorTypes'
  BY <1>1, <1>2, <1>3 DEF SupervisorTypes, Steps
<1>6. Pending(cur)' = Pending(cur)
  BY <1>1 DEF Pending, tasks
<1>7. Screened'
  BY <1>1, <1>3, <1>6 DEF Screened, LetsBy, OnlyApproved, Passes, tasks
<1>. QED
  BY <1>4, <1>5, <1>7

\* CONTINUE is sent only to the execve whose file was approved.
LEMMA RespondInv == WallInv /\ Respond => WallInv'
<1>. SUFFICES ASSUME WallInv, Respond PROVE WallInv'
  OBVIOUS
<1>. USE DEF WallInv
<1>0. UNCHANGED <<alive, gen, image, asked, id, lastId, swapped, runs, exit>> /\ pc = "respond"
  BY DEF Respond
<1>1. CASE ~Pending(cur)
  BY <1>0, <1>1, AsideInv DEF Respond, Loop, tasks, SupervisorTypes, Steps
<1>2. CASE Pending(cur)
  <2>0. cur.pid \in Pids
    BY DEF SupervisorTypes, Served
  <2>1. note' = [note EXCEPT ![cur.pid] = IF Decide(digest) = "allow" THEN "continued" ELSE "none"]
    BY <1>2 DEF Respond
  <2>2. pc' \in {"capture", "report"} /\ got' = Nothing /\ UNCHANGED <<cur, digest, pre>>
    BY <1>2 DEF Respond
  <2>3. Decide(digest) = "allow" => digest \in Approved
    BY DEF Decide
  <2>4. Decide(digest) = "allow" => LetsBy(cur.pid)
    BY <1>0, <1>2, <2>3 DEF Screened
  <2>5. TaskTypes'
    BY <1>0, <1>2, <2>0, <2>1 DEF TaskTypes, Notes, Pending
  <2>6. SupervisorTypes'
    BY <1>0, <2>2 DEF SupervisorTypes, Steps
  <2>7. \A p \in Pids : note'[p] = "continued" => LetsBy(p)
    BY <2>0, <2>1, <2>4 DEF Screened, TaskTypes
  <2>8. Screened'
    BY <1>0, <2>2, <2>7 DEF Screened, LetsBy, OnlyApproved, Passes
  <2>. QED
    BY <2>5, <2>6, <2>8
<1>. QED
  BY <1>1, <1>2

LEMMA KillInv == WallInv /\ Kill => WallInv'
<1>. SUFFICES ASSUME WallInv, Kill PROVE WallInv'
  OBVIOUS
<1>0. pc' = "wait" /\ UNCHANGED <<cur, digest, pre, got, exit>>
  BY DEF Kill
<1>1. cur.pid \in Pids
  BY DEF WallInv, SupervisorTypes, Served
<1>2. SupervisorTypes'
  BY <1>0 DEF WallInv, SupervisorTypes, Steps
<1>3. CASE UNCHANGED tasks
  BY <1>0, <1>2, <1>3, AsideInv DEF Steps
<1>4. CASE Dies(cur.pid)
  <2>1. TaskTypes' /\ OnlyApproved' /\ \A q \in Pids : note'[q] = "continued" => LetsBy(q)'
    BY <1>1, <1>4, DiesInv
  <2>2. Screened'
    BY <1>0, <2>1 DEF Screened
  <2>. QED
    BY <1>2, <2>1, <2>2 DEF WallInv
<1>. QED
  BY <1>3, <1>4 DEF Kill, tasks

LEMMA WallStep == WallInv /\ [Next]_vars => WallInv'
<1>. SUFFICES ASSUME WallInv, [Next]_vars PROVE WallInv'
  OBVIOUS
<1>1. CASE Supervise
  BY <1>1, LoopStepInv, CloseInv, ReceiveInv, HashInv, CheckInv, RespondInv, KillInv DEF Supervise
<1>2. ASSUME NEW p \in Pids, Task(p) \/ Change(p) \/ Commit(p) PROVE WallInv'
  BY <1>2, ExecveInv, ExitInv, ForkInv, ChangeInv, CommitInv DEF Task
<1>3. CASE UNCHANGED vars
  <2>1. UNCHANGED tasks /\ UNCHANGED <<pc, cur, digest, pre, got, exit>>
    BY <1>3 DEF vars, supervisor
  <2>2. Pending(cur)' = Pending(cur)
    BY <2>1 DEF Pending, tasks
  <2>. QED
    BY <2>1, <2>2 DEF WallInv, TaskTypes, SupervisorTypes, Screened, LetsBy, OnlyApproved, Passes, tasks
<1>. QED
  BY <1>1, <1>2, <1>3 DEF Next

LEMMA WallAlways == Spec => []WallInv
BY WallInit, WallStep, PTL DEF Spec

\* The supervisor and the kernel's notifications keep their types, and only a
\* living task has a notification (exec_supervisor.rs, serve_one).
THEOREM WallTypes == Spec => []TypeOK
BY WallAlways, TypesAreTypeOK, PTL DEF WallInv

\* Whatever dies, forks or reuses a pid between the supervisor's look at a
\* binary and its answer, no task runs a binary that is not approved, unless
\* what its execve names changed after that look and before the kernel's
\* (exec_supervisor.rs, serve_one; cell.rs, Cell::supervise).
THEOREM OnlyApprovedRuns == Spec => []OnlyApproved
<1>1. WallInv => OnlyApproved
  BY DEF WallInv, Screened
<1>. QED
  BY <1>1, WallAlways, PTL

-----------------------------------------------------------------------------
(* Records.                                                                *)

Recording == [id : 0..MaxExecs, digest : Files \cup {Nothing},
              decision : {"allow", "deny"}, killed : BOOLEAN]

Serving == {"hash", "check", "respond", "capture", "report"}

Unrecorded(n) == \A i \in DOMAIN records : records[i].id # n

\* Ids are handed out in ascending order, and one that waits was never served.
Numbering ==
  /\ records \in Seq(Recording)
  /\ cur.id <= lastId
  /\ \A p \in Pids : id[p] <= lastId
  /\ \A i \in DOMAIN records : records[i].id <= lastId
  /\ \A i, j \in DOMAIN records : records[i].id = records[j].id => i = j
  /\ \A p, q \in Pids : note[p] = "queued" /\ note[q] = "queued" /\ id[p] = id[q] => p = q
  /\ \A p \in Pids : note[p] = "queued" =>
       Unrecorded(id[p]) /\ (pc \in Serving => id[p] # cur.id)
  /\ pc \in Serving => Unrecorded(cur.id)

\* A step that neither queues nor takes a notification, nor records anything.
LEMMA NumberKept ==
  ASSUME TaskTypes, Numbering, UNCHANGED <<records, cur, id, lastId>>,
         \A p \in Pids : note'[p] = "queued" => note[p] = "queued",
         pc' \in Serving => pc \in Serving
  PROVE  Numbering'
BY Zenon DEF Numbering, Unrecorded

LEMMA ExecveNumber ==
  ASSUME WallInv, Numbering, NEW p \in Pids, Execve(p)
  PROVE  Numbering'
<1>1. /\ note' = [note EXCEPT ![p] = "queued"]
      /\ lastId' = lastId + 1 /\ id' = [id EXCEPT ![p] = lastId']
      /\ UNCHANGED <<pc, cur, records>>
  BY DEF Execve, supervisor
<1>2. /\ note \in [Pids -> Notes] /\ id \in [Pids -> 0..MaxExecs] /\ lastId \in Nat
      /\ cur.id \in Nat /\ \A i \in DOMAIN records : records[i].id \in Nat
  <2>1. note \in [Pids -> Notes] /\ id \in [Pids -> 0..MaxExecs] /\ lastId \in Nat
    BY WallAssumption DEF WallInv, TaskTypes
  <2>2. cur.id \in Nat
    BY WallAssumption DEF WallInv, SupervisorTypes, Served
  <2>3. \A r \in Recording : r.id \in Nat
    BY WallAssumption DEF Recording
  <2>4. records \in Seq(Recording)
    BY DEF Numbering
  <2>. QED
    BY <2>1, <2>2, <2>3, <2>4
<1>3. \A q \in Pids : q # p => id'[q] = id[q] /\ note'[q] = note[q]
  BY <1>1, <1>2
<1>4. id'[p] = lastId + 1 /\ \A q \in Pids : id[q] <= lastId /\ id[q] \in Nat
  BY <1>1, <1>2, WallAssumption DEF Numbering
<1>5. cur'.id <= lastId' /\ (\A q \in Pids : id'[q] <= lastId')
      /\ \A i \in DOMAIN records' : records'[i].id <= lastId'
  BY <1>1, <1>2, <1>3, <1>4 DEF Numbering
<1>6. \A q, r \in Pids : note'[q] = "queued" /\ note'[r] = "queued" /\ id'[q] = id'[r] => q = r
  BY <1>2, <1>3, <1>4 DEF Numbering
<1>7. \A q \in Pids : note'[q] = "queued" =>
        Unrecorded(id[q])' /\ (pc' \in Serving => id'[q] # cur'.id)
  <2>. SUFFICES ASSUME NEW q \in Pids, note'[q] = "queued"
                PROVE  Unrecorded(id[q])' /\ (pc' \in Serving => id'[q] # cur'.id)
    OBVIOUS
  <2>1. CASE q = p
    BY <1>1, <1>2, <1>4, <2>1 DEF Numbering, Unrecorded
  <2>2. CASE q # p
    BY <1>1, <1>3, <2>2 DEF Numbering, Unrecorded
  <2>. QED
    BY <2>1, <2>2
<1>. QED
  BY <1>1, <1>5, <1>6, <1>7, Zenon DEF Numbering, Unrecorded

LEMMA ReceiveNumber ==
  ASSUME WallInv, Numbering, Receive
  PROVE  Numbering'
<1>0. UNCHANGED <<id, lastId, records>>
  BY DEF Receive
<1>1. CASE Queued = {} /\ Loop /\ UNCHANGED note
  BY <1>0, <1>1, NumberKept DEF Loop, WallInv, Serving
<1>2. CASE ~(Queued = {} /\ Loop /\ UNCHANGED note)
  <2>1. PICK p \in Queued :
          /\ cur' = [pid |-> p, id |-> id[p], gen |-> gen[p]]
          /\ note' = [note EXCEPT ![p] = "received"]
          /\ pc' = "hash"
    BY <1>2 DEF Receive
  <2>2. p \in Pids /\ note[p] = "queued" /\ cur'.id = id[p]
    BY <2>1 DEF WallInv, TaskTypes, Queued
  <2>3. \A q \in Pids : note'[q] = "queued" => q # p /\ note[q] = "queued"
    BY <2>1, <2>2 DEF WallInv, TaskTypes
  <2>4. Unrecorded(id[p]) /\ \A q \in Pids : note'[q] = "queued" => id[q] # id[p]
    BY <2>2, <2>3, Zenon DEF Numbering
  <2>. QED
    BY <1>0, <2>2, <2>3, <2>4, Zenon DEF Numbering, Unrecorded
<1>. QED
  BY <1>1, <1>2

LEMMA ReportNumber ==
  ASSUME WallInv, Numbering, Report
  PROVE  Numbering'
<1>. DEFINE r == [id |-> cur.id, digest |-> digest,
                  decision |-> Decide(digest), killed |-> Broken]
<1>1. /\ records' = Append(records, r) /\ pc = "report" /\ pc' \in {"kill", "wait"}
      /\ UNCHANGED <<cur, note, id, lastId>>
  BY DEF Report, tasks
<1>2. r \in Recording
  <2>1. Decide(digest) \in {"allow", "deny"} /\ Broken \in BOOLEAN
    BY DEF Decide, Broken, ArgvDenied
  <2>2. cur.id \in 0..MaxExecs /\ digest \in Files \cup {Nothing}
    BY DEF WallInv, SupervisorTypes, Served
  <2>. QED
    BY <2>1, <2>2 DEF Recording
<1>3. r.id = cur.id
  OBVIOUS
<1>. HIDE DEF r
<1>4. records \in Seq(Recording) /\ records' \in Seq(Recording)
  BY <1>1, <1>2 DEF Numbering
<1>5. /\ DOMAIN records' = DOMAIN records \cup {Len(records) + 1}
      /\ Len(records) + 1 \notin DOMAIN records
      /\ \A i \in DOMAIN records : records'[i] = records[i]
      /\ records'[Len(records) + 1] = r
  BY <1>1, <1>2, <1>4
<1>6. Unrecorded(cur.id)
  BY <1>1 DEF Numbering, Serving
<1>7. \A i \in DOMAIN records' : records'[i].id <= lastId
  BY <1>3, <1>5 DEF Numbering
<1>8. \A i, j \in DOMAIN records' : records'[i].id = records'[j].id => i = j
  BY <1>3, <1>5, <1>6, Zenon DEF Numbering, Unrecorded
<1>9. \A p \in Pids : note[p] = "queued" => \A i \in DOMAIN records' : records'[i].id # id[p]
  <2>. SUFFICES ASSUME NEW p \in Pids, note[p] = "queued", NEW i \in DOMAIN records'
                PROVE  records'[i].id # id[p]
    OBVIOUS
  <2>1. cur.id # id[p] /\ \A j \in DOMAIN records : records[j].id # id[p]
    BY <1>1 DEF Numbering, Unrecorded, Serving
  <2>. QED
    BY <1>3, <1>5, <2>1
<1>10. pc' \notin Serving
  BY <1>1 DEF Serving
<1>. QED
  BY <1>1, <1>4, <1>7, <1>8, <1>9, <1>10, Zenon DEF Numbering, Unrecorded

LEMMA NumberStep == WallInv /\ Numbering /\ [Next]_vars => Numbering'
<1>. SUFFICES ASSUME WallInv, Numbering, [Next]_vars PROVE Numbering'
  OBVIOUS
<1>0. TaskTypes /\ note \in [Pids -> Notes] /\ cur.pid \in Pids
  BY DEF WallInv, TaskTypes, SupervisorTypes, Served
<1>1. CASE Reap \/ PollReady \/ PollIdle \/ Hash \/ Check \/ CaptureSees \/ CaptureGivesUp
  <2>1. UNCHANGED <<records, cur, id, lastId, note>> /\ (pc' \in Serving => pc \in Serving)
    BY <1>1 DEF Reap, PollReady, PollIdle, Hash, Check, CaptureSees, CaptureGivesUp,
                Loop, tasks, Serving
  <2>. QED
    BY <1>0, <2>1, NumberKept
<1>2. CASE Close \/ Respond
  <2>1. UNCHANGED <<records, cur, id, lastId>> /\ (pc' \in Serving => pc \in Serving)
    BY <1>2 DEF Close, Respond, Loop, Serving
  <2>2. \A p \in Pids : note'[p] = "queued" => note[p] = "queued"
    BY <1>0, <1>2 DEF Close, Respond
  <2>. QED
    BY <1>0, <2>1, <2>2, NumberKept
<1>3. CASE Kill
  <2>1. UNCHANGED <<records, cur, id, lastId>> /\ pc' \notin Serving
    BY <1>3 DEF Kill, Dies, tasks, Serving
  <2>2. \A p \in Pids : note'[p] = "queued" => note[p] = "queued"
    BY <1>0, <1>3 DEF Kill, Dies, tasks
  <2>. QED
    BY <1>0, <2>1, <2>2, NumberKept
<1>4. ASSUME NEW p \in Pids, Exit(p) \/ Change(p) \/ Commit(p) \/ \E q \in Pids : Fork(p, q)
      PROVE  Numbering'
  <2>1. UNCHANGED <<records, cur, id, lastId, pc>>
    BY <1>4 DEF Exit, Dies, Change, Commit, Fork, supervisor
  <2>2. \A q \in Pids : note'[q] = "queued" => note[q] = "queued"
    BY <1>0, <1>4 DEF Exit, Dies, Change, Commit, Fork
  <2>. QED
    BY <1>0, <2>1, <2>2, NumberKept
<1>5. CASE UNCHANGED vars
  BY <1>0, <1>5, NumberKept DEF vars, tasks, supervisor
<1>. QED
  BY <1>1, <1>2, <1>3, <1>4, <1>5, ReceiveNumber, ReportNumber, ExecveNumber
     DEF Next, Supervise, Task

-----------------------------------------------------------------------------
\* The exec with notification n of file f has its record, or is about to get it.
Kept(n, f) ==
  \E i \in DOMAIN records :
    records[i].id = n /\ records[i].decision = "allow" /\ records[i].digest = f

Due(n, f) == pc \in {"capture", "report"} /\ cur.id = n /\ digest = f /\ Decide(f) = "allow"

Entered(n, f) == Kept(n, f) \/ Due(n, f)

\* The exec with notification n, of file g or of a file that went missing, has
\* an entry; if what it named was swapped, the entry may be of another file.
Answered(n, g, other) == \E f : Entered(n, f) /\ (other \/ g \in {f, Nothing})

\* What was let through is what was hashed, or it was swapped; and it is recorded
\* or about to be.
Accounted ==
  /\ pc \in {"check", "respond"} /\ Pending(cur) =>
       cur.pid \in swapped \/ asked[cur.pid].file = Nothing
                          \/ digest \in {asked[cur.pid].file, Nothing}
  /\ \A p \in Pids : note[p] = "continued" =>
       Answered(id[p], asked[p].file, p \in swapped)
  /\ \A r \in runs : r.file # Nothing /\ Answered(r.id, r.file, r.swapped)

\* Once entered, always entered: recording takes what is due.
LEMMA EnteredStays ==
  ASSUME NEW n, NEW f,
         Entered(n, f),
         \/ UNCHANGED <<records, cur, digest>> /\ pc' \in {"capture", "report"}
         \/ UNCHANGED records /\ pc \notin {"capture", "report"}
  PROVE  Entered(n, f)'
BY Zenon DEF Entered, Kept, Due

LEMMA ReportEnters ==
  ASSUME WallInv, Numbering, Report, NEW n, NEW f, Entered(n, f)
  PROVE  Entered(n, f)'
<1>. DEFINE r == [id |-> cur.id, digest |-> digest,
                  decision |-> Decide(digest), killed |-> Broken]
<1>1. records' = Append(records, r) /\ records \in Seq(Recording)
  BY DEF Report, Numbering
<1>2. r.id = cur.id /\ r.digest = digest /\ r.decision = Decide(digest)
  OBVIOUS
<1>. HIDE DEF r
<1>3. /\ DOMAIN records \subseteq DOMAIN records' /\ Len(records) + 1 \in DOMAIN records'
      /\ \A i \in DOMAIN records : records'[i] = records[i]
      /\ records'[Len(records) + 1] = r
  BY <1>1
<1>4. CASE Kept(n, f)
  BY <1>3, <1>4, Zenon DEF Entered, Kept
<1>5. CASE Due(n, f)
  BY <1>2, <1>3, <1>5, Zenon DEF Entered, Kept, Due
<1>. QED
  BY <1>4, <1>5 DEF Entered

\* What is answered is the pending file, or that file has been swapped.
Tracks(p) == p \in swapped' \/ (p \notin swapped /\ asked'[p].file = asked[p].file)

\* A step that leaves what was entered, lets nothing through and answers nothing.
LEMMA AccountKept ==
  ASSUME TaskTypes, Accounted, \A n, f : Entered(n, f) => Entered(n, f)',
         \A p \in Pids : note'[p] = "continued" =>
           note[p] = "continued" /\ id'[p] = id[p] /\ Tracks(p),
         UNCHANGED runs,
         pc' \in {"check", "respond"} /\ Pending(cur)' =>
           /\ pc \in {"check", "respond"} /\ Pending(cur)
           /\ UNCHANGED <<cur, digest>> /\ Tracks(cur.pid)
  PROVE  Accounted'
<1>1. ASSUME NEW p \in Pids, note'[p] = "continued"
      PROVE  Answered(id[p], asked[p].file, p \in swapped)'
  <2>1. PICK f : Entered(id[p], f) /\ (p \in swapped \/ asked[p].file \in {f, Nothing})
    BY <1>1, Zenon DEF Accounted, Answered
  <2>2. PICK n : n = id[p]
    OBVIOUS
  <2>3. Entered(n, f)' /\ id'[p] = n
    BY <1>1, <2>1, <2>2
  <2>4. Entered(id[p], f)'
    BY <2>3, Zenon DEF Entered, Kept, Due
  <2>5. p \in swapped' \/ asked'[p].file \in {f, Nothing}
    BY <1>1, <2>1 DEF Tracks
  <2>. QED
    BY <2>4, <2>5, Zenon DEF Answered, Entered, Kept, Due
<1>2. ASSUME NEW r \in runs
      PROVE  r.file # Nothing /\ Answered(r.id, r.file, r.swapped)'
  <2>1. PICK f : Entered(r.id, f) /\ (r.swapped \/ r.file \in {f, Nothing})
    BY Zenon DEF Accounted, Answered
  <2>2. Entered(r.id, f)' /\ r.file # Nothing
    BY <2>1, Zenon DEF Accounted
  <2>. QED
    BY <2>1, <2>2, Zenon DEF Answered, Entered, Kept, Due
<1>3. pc' \in {"check", "respond"} /\ Pending(cur)' =>
        cur'.pid \in swapped' \/ asked'[cur'.pid].file = Nothing
                              \/ digest' \in {asked'[cur'.pid].file, Nothing}
  BY DEF Accounted, Tracks
<1>. QED
  BY <1>1, <1>2, <1>3, Zenon DEF Accounted, Answered, Entered, Kept, Due

LEMMA TaskAccount ==
  ASSUME WallInv, Accounted, NEW p \in Pids, Task(p) \/ Change(p)
  PROVE  Accounted'
<1>0. TaskTypes /\ cur.pid \in Pids
  BY DEF WallInv, SupervisorTypes, Served
<1>1. UNCHANGED <<pc, cur, digest, records, runs>>
  BY DEF Task, Execve, Change, Exit, Dies, Fork, supervisor
<1>2. \A n, f : Entered(n, f) => Entered(n, f)'
  BY <1>1, EnteredStays, Zenon
<1>3. \A q \in Pids : note'[q] # "none" /\ note'[q] # "queued" =>
        note[q] = note'[q] /\ q \in alive /\ id'[q] = id[q] /\ Tracks(q)
  <2>1. CASE Task(p)
    BY <1>0, <2>1 DEF Task, Execve, Exit, Dies, Fork, TaskTypes, Tracks
  <2>2. CASE Change(p)
    BY <1>0, <2>2 DEF Change, TaskTypes, Tracks
  <2>. QED
    BY <2>1, <2>2
<1>4. Pending(cur)' => Pending(cur) /\ Tracks(cur.pid)
  BY <1>0, <1>1, <1>3 DEF Pending
<1>. QED
  BY <1>0, <1>1, <1>2, <1>3, <1>4, AccountKept

LEMMA CommitAccount ==
  ASSUME WallInv, Accounted, NEW p \in Pids, Commit(p)
  PROVE  Accounted'
<1>0. TaskTypes /\ cur.pid \in Pids
  BY DEF WallInv, SupervisorTypes, Served
<1>1. /\ UNCHANGED <<pc, cur, digest, records, asked, id, alive>>
      /\ note[p] = "continued" /\ note' = [note EXCEPT ![p] = "none"]
      /\ swapped' = swapped \ {p}
  BY DEF Commit, supervisor
<1>2. \A n, f : Entered(n, f) <=> Entered(n, f)'
  BY <1>1, Zenon DEF Entered, Kept, Due
<1>3. \A r \in runs' : r.file # Nothing /\ Answered(r.id, r.file, r.swapped)'
  <2>1. \A r \in runs' : r.file # Nothing /\ Answered(r.id, r.file, r.swapped)
    <3>1. CASE UNCHANGED runs
      BY <3>1, Zenon DEF Accounted
    <3>2. CASE /\ asked[p].file # Nothing
               /\ runs' = runs \cup {[id |-> id[p], file |-> asked[p].file,
                                      swapped |-> p \in swapped]}
      <4>1. Answered(id[p], asked[p].file, p \in swapped)
        BY <1>1, Zenon DEF Accounted
      <4>. DEFINE new == [id |-> id[p], file |-> asked[p].file, swapped |-> p \in swapped]
      <4>2. new.id = id[p] /\ new.file = asked[p].file /\ (new.swapped <=> p \in swapped)
        OBVIOUS
      <4>3. new.file # Nothing /\ Answered(new.id, new.file, new.swapped)
        BY <3>2, <4>1, <4>2 DEF Answered
      <4>. HIDE DEF new
      <4>. QED
        BY <3>2, <4>3, Zenon DEF Accounted, new
    <3>. QED
      BY <3>1, <3>2 DEF Commit
  <2>. QED
    BY <1>2, <2>1, Zenon DEF Answered
<1>4. \A q \in Pids : note'[q] = "continued" =>
        q # p /\ note[q] = "continued" /\ (q \in swapped' <=> q \in swapped)
  BY <1>0, <1>1 DEF TaskTypes
<1>5. \A q \in Pids : note'[q] = "continued" =>
        Answered(id[q], asked[q].file, q \in swapped)'
  <2>. SUFFICES ASSUME NEW q \in Pids, note'[q] = "continued"
                PROVE  Answered(id[q], asked[q].file, q \in swapped)'
    OBVIOUS
  <2>1. PICK f : Entered(id[q], f) /\ (q \in swapped \/ asked[q].file \in {f, Nothing})
    BY <1>4, Zenon DEF Accounted, Answered
  <2>2. id'[q] = id[q] /\ asked'[q] = asked[q] /\ (q \in swapped' <=> q \in swapped)
    BY <1>1, <1>4
  <2>3. Entered(id[q], f)'
    BY <1>1, <2>1, Zenon DEF Entered, Kept, Due
  <2>. QED
    BY <2>1, <2>2, <2>3, Zenon DEF Answered, Entered, Kept, Due
<1>6. Pending(cur)' => Pending(cur) /\ cur.pid # p
  BY <1>0, <1>1 DEF TaskTypes, Pending
<1>7. pc' \in {"check", "respond"} /\ Pending(cur)' =>
        cur'.pid \in swapped' \/ asked'[cur'.pid].file = Nothing
                              \/ digest' \in {asked'[cur'.pid].file, Nothing}
  BY <1>1, <1>6 DEF Accounted
<1>. QED
  BY <1>3, <1>5, <1>7, Zenon DEF Accounted, Answered, Entered, Kept, Due

\* The one step that lets an exec through.
LEMMA RespondAccount ==
  ASSUME WallInv, Accounted, Respond
  PROVE  Accounted'
<1>0. /\ TaskTypes /\ cur.pid \in Pids /\ pc = "respond"
      /\ UNCHANGED <<alive, asked, id, lastId, swapped, runs, records, cur, digest>>
  BY DEF WallInv, SupervisorTypes, Served, Respond, Loop
<1>1. \A n, f : Entered(n, f) => Entered(n, f)'
  BY <1>0, EnteredStays, Zenon
<1>2. CASE ~Pending(cur)
  <2>1. UNCHANGED note /\ pc' = "wait" /\ \A p \in Pids : Tracks(p)
    BY <1>0, <1>2 DEF Respond, Loop, Tracks
  <2>. QED
    BY <1>0, <1>1, <2>1, AccountKept
<1>3. CASE Pending(cur)
  <2>1. /\ note' = [note EXCEPT ![cur.pid] =
                      IF Decide(digest) = "allow" THEN "continued" ELSE "none"]
        /\ pc' \in {"capture", "report"}
    BY <1>3 DEF Respond
  <2>2. \A p \in Pids : p # cur.pid => note'[p] = note[p]
    BY <1>0, <2>1 DEF TaskTypes
  <2>3. note'[cur.pid] = "continued" => Decide(digest) = "allow"
    BY <1>0, <2>1 DEF TaskTypes
  <2>4. Decide(digest) = "allow" => digest # Nothing
    BY WallAssumption DEF Decide
  <2>5. note'[cur.pid] = "continued" =>
          /\ Entered(id[cur.pid], digest)'
          /\ cur.pid \in swapped \/ asked[cur.pid].file \in {digest, Nothing}
    <3>. SUFFICES ASSUME note'[cur.pid] = "continued"
                  PROVE  /\ Entered(id[cur.pid], digest)'
                         /\ cur.pid \in swapped \/ asked[cur.pid].file \in {digest, Nothing}
      OBVIOUS
    <3>1. id'[cur'.pid] = cur'.id /\ Decide(digest)' = "allow"
      BY <1>0, <1>3, <2>3 DEF Pending, Decide
    <3>2. Due(id[cur.pid], digest)'
      BY <2>1, <3>1 DEF Due
    <3>3. cur.pid \in swapped \/ asked[cur.pid].file \in {digest, Nothing}
      BY <1>0, <1>3, <2>3, <2>4 DEF Accounted
    <3>. QED
      BY <3>2, <3>3 DEF Entered
  <2>6. ASSUME NEW p \in Pids, note'[p] = "continued"
        PROVE  Answered(id[p], asked[p].file, p \in swapped)'
    <3>1. CASE p = cur.pid
      BY <1>0, <2>5, <2>6, <3>1, Zenon DEF Answered, Entered, Kept, Due
    <3>2. CASE p # cur.pid
      <4>1. PICK f : Entered(id[p], f) /\ (p \in swapped \/ asked[p].file \in {f, Nothing})
        BY <2>2, <2>6, <3>2, Zenon DEF Accounted, Answered
      <4>2. Entered(id[p], f)'
        BY <1>0, <2>1, <4>1, Zenon DEF Entered, Kept, Due
      <4>. QED
        BY <1>0, <4>1, <4>2, Zenon DEF Answered, Entered, Kept, Due
    <3>. QED
      BY <3>1, <3>2
  <2>7. \A r \in runs' : r.file # Nothing /\ Answered(r.id, r.file, r.swapped)'
    BY <1>0, <1>1, Zenon DEF Accounted, Answered
  <2>8. pc' \notin {"check", "respond"}
    BY <2>1
  <2>. QED
    BY <1>0, <2>6, <2>7, <2>8, Zenon DEF Accounted, Answered, Entered, Kept, Due
<1>. QED
  BY <1>2, <1>3

LEMMA HashAccount ==
  ASSUME WallInv, Accounted, Hash
  PROVE  Accounted'
<1>0. /\ UNCHANGED <<alive, note, asked, id, runs, records, cur>>
      /\ pc = "hash" /\ pc' = "check" /\ cur.pid \in Pids
  BY DEF WallInv, SupervisorTypes, Served, Hash
<1>1. \A n, f : Entered(n, f) => Entered(n, f)'
  BY <1>0, EnteredStays, Zenon
<1>2. Pending(cur) => asked[cur.pid].file = Nothing \/ digest' \in {asked[cur.pid].file, Nothing}
  BY DEF Hash
<1>3. Pending(cur)' => Pending(cur)
  BY <1>0 DEF Pending
<1>4. \A p \in Pids : note[p] = "continued" => (p \in swapped' <=> p \in swapped)
  BY DEF Hash, Pending
<1>5. \A p \in Pids : note'[p] = "continued" =>
        Answered(id[p], asked[p].file, p \in swapped)'
  <2>. SUFFICES ASSUME NEW p \in Pids, note'[p] = "continued"
                PROVE  Answered(id[p], asked[p].file, p \in swapped)'
    OBVIOUS
  <2>1. PICK f : Entered(id[p], f) /\ (p \in swapped \/ asked[p].file \in {f, Nothing})
    BY <1>0, Zenon DEF Accounted, Answered
  <2>2. Entered(id[p], f)'
    BY <1>0, <2>1, Zenon DEF Entered, Kept, Due
  <2>. QED
    BY <1>0, <1>4, <2>1, <2>2, Zenon DEF Answered, Entered, Kept, Due
<1>6. \A r \in runs' : r.file # Nothing /\ Answered(r.id, r.file, r.swapped)'
  BY <1>0, <1>1, Zenon DEF Accounted, Answered
<1>. QED
  BY <1>0, <1>2, <1>3, <1>5, <1>6, Zenon DEF Accounted, Answered, Entered, Kept, Due

LEMMA AccountStep == WallInv /\ Numbering /\ Accounted /\ [Next]_vars => Accounted'
<1>. SUFFICES ASSUME WallInv, Numbering, Accounted, [Next]_vars PROVE Accounted'
  OBVIOUS
<1>0. TaskTypes /\ cur.pid \in Pids
  BY DEF WallInv, SupervisorTypes, Served
<1>1. CASE Reap \/ PollReady \/ PollIdle \/ Check
  <2>1. /\ UNCHANGED <<alive, note, asked, id, runs, records, cur, digest>>
        /\ \A p \in Pids : Tracks(p)
    BY <1>1 DEF Reap, PollReady, PollIdle, Check, Loop, tasks, Tracks
  <2>2. pc \notin {"capture", "report"}
        /\ (pc' \in {"check", "respond"} => pc \in {"check", "respond"})
    BY <1>1 DEF Reap, PollReady, PollIdle, Check, Loop
  <2>3. \A n, f : Entered(n, f) => Entered(n, f)'
    BY <2>1, <2>2, EnteredStays, Zenon
  <2>4. Pending(cur)' => Pending(cur)
    BY <2>1 DEF Pending
  <2>. QED
    BY <1>0, <2>1, <2>2, <2>3, <2>4, AccountKept
<1>2. CASE CaptureSees \/ CaptureGivesUp
  <2>1. /\ UNCHANGED <<alive, note, asked, id, runs, records, cur, digest>> /\ pc' = "report"
        /\ \A p \in Pids : Tracks(p)
    BY <1>2 DEF CaptureSees, CaptureGivesUp, tasks, Tracks
  <2>2. \A n, f : Entered(n, f) => Entered(n, f)'
    BY <2>1, EnteredStays, Zenon
  <2>. QED
    BY <1>0, <2>1, <2>2, AccountKept
<1>3. CASE Report
  <2>1. /\ UNCHANGED <<note, asked, id, runs>> /\ pc' \notin {"check", "respond"}
        /\ \A p \in Pids : Tracks(p)
    BY <1>3 DEF Report, tasks, Tracks
  <2>2. \A n, f : Entered(n, f) => Entered(n, f)'
    BY <1>3, ReportEnters
  <2>. QED
    BY <1>0, <2>1, <2>2, AccountKept
<1>4. CASE Close \/ Kill \/ Receive
  <2>1. /\ UNCHANGED <<asked, id, runs, records>>
        /\ pc \notin {"capture", "report"} /\ pc' \notin {"check", "respond"}
    BY <1>4 DEF Close, Kill, Receive, Dies, Loop, tasks
  <2>2. \A p \in Pids : note'[p] = "continued" => note[p] = "continued" /\ Tracks(p)
    BY <1>0, <1>4 DEF Close, Kill, Receive, Dies, Queued, tasks, TaskTypes, Tracks
  <2>3. \A n, f : Entered(n, f) => Entered(n, f)'
    BY <2>1, EnteredStays, Zenon
  <2>. QED
    BY <1>0, <2>1, <2>2, <2>3, AccountKept
<1>5. CASE UNCHANGED vars
  <2>1. /\ UNCHANGED <<pc, alive, note, asked, id, runs, records, cur, digest>>
        /\ \A p \in Pids : Tracks(p)
    BY <1>5 DEF vars, tasks, supervisor, Tracks
  <2>2. \A n, f : Entered(n, f) => Entered(n, f)'
    BY <2>1, EnteredStays, Zenon
  <2>3. Pending(cur)' => Pending(cur)
    BY <2>1 DEF Pending
  <2>. QED
    BY <1>0, <2>1, <2>2, <2>3, AccountKept
<1>. QED
  BY <1>1, <1>2, <1>3, <1>4, <1>5, TaskAccount, CommitAccount, RespondAccount,
     HashAccount DEF Next, Supervise

LEMMA AccountInit == Init => Numbering /\ Accounted
<1>. SUFFICES ASSUME Init PROVE Numbering /\ Accounted
  OBVIOUS
<1>1. records \in Seq(Recording) /\ DOMAIN records = {}
  BY DEF Init
<1>2. /\ cur.id = 0 /\ lastId = 0 /\ pc = "wait" /\ runs = {}
      /\ \A p \in Pids : id[p] = 0 /\ note[p] = "none"
  BY DEF Init
<1>. QED
  BY <1>1, <1>2 DEF Numbering, Accounted, Serving

LEMMA RecordsAlways == Spec => [](WallInv /\ Numbering /\ Accounted)
<1>1. Init => WallInv /\ Numbering /\ Accounted
  BY WallInit, AccountInit
<1>2. WallInv /\ Numbering /\ Accounted /\ [Next]_vars => (WallInv /\ Numbering /\ Accounted)'
  BY WallStep, NumberStep, AccountStep
<1>. QED
  BY <1>1, <1>2, PTL DEF Spec

\* Whatever order tasks exec, die and reuse pids in, a served execve has one
\* record and what ran, unless it was swapped, is in it as allowed (cell.rs,
\* Cell::supervise).
THEOREM RecordsEveryExec == Spec => []OneRecordPerExec
<1>1. WallInv /\ Numbering /\ Accounted => OneRecordPerExec
  <2>. SUFFICES ASSUME Numbering, Accounted PROVE OneRecordPerExec
    OBVIOUS
  <2>1. ASSUME pc \in {"wait", "poll", "recv", "close", "returned"}, NEW r \in runs
        PROVE  \E f : Kept(r.id, f) /\ (r.swapped \/ f = r.file)
    <3>1. PICK f : Entered(r.id, f) /\ (r.swapped \/ r.file \in {f, Nothing})
      BY Zenon DEF Accounted, Answered
    <3>2. Kept(r.id, f) /\ r.file # Nothing
      BY <2>1, <3>1 DEF Accounted, Entered, Due
    <3>. QED
      BY <3>1, <3>2
  <2>2. ASSUME pc \in {"wait", "poll", "recv", "close", "returned"}, NEW r \in runs
        PROVE  \E i \in DOMAIN records :
                 /\ records[i].id = r.id
                 /\ records[i].decision = "allow"
                 /\ r.swapped \/ records[i].digest = r.file
    BY <2>1, <2>2 DEF Kept
  <2>3. \A i, j \in DOMAIN records : records[i].id = records[j].id => i = j
    BY DEF Numbering
  <2>. QED
    BY <2>2, <2>3 DEF OneRecordPerExec
<1>. QED
  BY <1>1, RecordsAlways, PTL

-----------------------------------------------------------------------------
(* Kills.                                                                  *)

\* The task that asked is still there: its pid may be another's by now.
SameTask == cur.pid \in alive /\ gen[cur.pid] = cur.gen

\* What was let through was swapped behind the supervisor's look.
Swapped(n) == \E r \in runs : r.id = n /\ r.swapped

RunsHashed == image[cur.pid].file = digest \/ Swapped(cur.id)

\* The vector that is judged is the one the hashed file was started with.
OnTarget ==
  /\ pc \in Serving \cup {"kill"} => gen[cur.pid] >= cur.gen
  /\ pc \in {"hash", "check", "respond"} /\ Pending(cur) => gen[cur.pid] = cur.gen
  /\ pc = "respond" /\ Pending(cur) /\ WantCommitted => image[cur.pid].argv = pre
  /\ pc = "capture" => got = Nothing
  /\ pc = "capture" /\ SameTask =>
       \/ /\ note[cur.pid] = "continued" /\ image[cur.pid].argv = pre
          /\ id[cur.pid] = cur.id
          /\ cur.pid \in swapped \/ asked[cur.pid].file \in {digest, Nothing}
       \/ /\ note[cur.pid] \in {"none", "queued"}
          /\ image[cur.pid].argv = pre \/ RunsHashed
  /\ pc \in {"report", "kill"} /\ SameTask /\ got # Nothing =>
       /\ note[cur.pid] \in {"none", "queued"}
       /\ RunsHashed /\ image[cur.pid].argv = got
  /\ pc = "kill" => Broken
  /\ KillsOffender

LEMMA InvTypes ==
  ASSUME WallInv
  PROVE  /\ cur.pid \in Pids /\ cur.gen \in Nat /\ alive \subseteq Pids
         /\ gen \in [Pids -> Nat] /\ image \in [Pids -> Images] /\ asked \in [Pids -> Images]
         /\ note \in [Pids -> Notes] /\ id \in [Pids -> Nat]
         /\ \A p \in Pids : note[p] # "none" => p \in alive
<1>1. cur.pid \in Pids /\ cur.gen \in Nat
  BY WallAssumption DEF WallInv, SupervisorTypes, Served
<1>2. gen \in [Pids -> Nat] /\ id \in [Pids -> Nat]
  BY WallAssumption DEF WallInv, TaskTypes
<1>. QED
  BY <1>1, <1>2 DEF WallInv, TaskTypes

\* What the tasks can do to the one being served.
Unmoved(c) == image'[c] = image[c] /\ note'[c] = note[c] /\ id'[c] = id[c] /\ Tracks(c)

Moved(c) ==
  \/ Unmoved(c)
  \/ note[c] = "none" /\ note'[c] = "queued" /\ image'[c] = image[c]
  \/ /\ note[c] = "continued" /\ note'[c] = "none"
     /\ \/ image'[c] = image[c]
        \/ /\ asked[c].file # Nothing /\ image'[c] = asked[c]
           /\ c \in swapped => \E r \in runs' : r.id = id[c] /\ r.swapped

LEMMA TaskMoves ==
  ASSUME WallInv, NEW p \in Pids, Task(p) \/ Change(p) \/ Commit(p)
  PROVE  /\ UNCHANGED <<pc, cur, digest, pre, got, kills>> /\ runs \subseteq runs'
         /\ gen'[cur.pid] >= gen[cur.pid]
         /\ Pending(cur)' => Pending(cur) /\ Unmoved(cur.pid) /\ gen'[cur.pid] = gen[cur.pid]
         /\ cur.pid \in alive' /\ gen'[cur.pid] = gen[cur.pid] =>
              cur.pid \in alive /\ Moved(cur.pid)
<1>1. UNCHANGED <<pc, cur, digest, pre, got, kills>>
  BY DEF Task, Execve, Exit, Fork, Change, Commit, supervisor
<1>0. runs \subseteq runs'
  BY DEF Task, Execve, Exit, Dies, Fork, Change, Commit
<1>. DEFINE c == cur.pid
<1>2. CASE Execve(p)
  <2>1. /\ UNCHANGED <<gen, alive, image, swapped>> /\ note[p] = "none"
        /\ note' = [note EXCEPT ![p] = "queued"]
        /\ \A q \in Pids : q # p => asked'[q] = asked[q] /\ id'[q] = id[q]
    BY <1>2, InvTypes DEF Execve
  <2>0. c \in Pids /\ gen[c] \in Nat /\ note \in [Pids -> Notes]
    BY InvTypes
  <2>2. CASE c = p
    <3>1. note'[c] = "queued" /\ Moved(c)
      BY <2>0, <2>1, <2>2 DEF Moved
    <3>2. ~Pending(cur)'
      BY <1>1, <3>1 DEF Pending
    <3>. QED
      BY <1>0, <1>1, <2>0, <2>1, <3>1, <3>2
  <2>3. CASE c # p
    <3>1. Unmoved(c)
      BY <2>0, <2>1, <2>3 DEF Unmoved, Tracks
    <3>2. Pending(cur)' => Pending(cur)
      BY <1>1, <2>1, <3>1 DEF Pending, Unmoved
    <3>. QED
      BY <1>0, <1>1, <2>0, <2>1, <3>1, <3>2 DEF Moved
  <2>. QED
    BY <1>0, <1>1, <2>2, <2>3
<1>6. CASE Change(p)
  <2>1. UNCHANGED <<gen, alive, image, note, id>>
    BY <1>6 DEF Change
  <2>2. Tracks(c)
    BY <1>6, InvTypes DEF Change, Tracks
  <2>. QED
    BY <1>0, <1>1, <2>1, <2>2, InvTypes DEF Moved, Unmoved, Pending
<1>3. CASE Commit(p)
  <2>1. /\ UNCHANGED <<gen, alive, asked, id>> /\ note[p] = "continued"
        /\ note' = [note EXCEPT ![p] = "none"] /\ swapped' = swapped \ {p}
        /\ \/ /\ asked[p].file # Nothing /\ image' = [image EXCEPT ![p] = asked[p]]
              /\ runs' = runs \cup {[id |-> id[p], file |-> asked[p].file,
                                     swapped |-> p \in swapped]}
           \/ UNCHANGED image
    BY <1>3 DEF Commit
  <2>2. CASE c = p
    <3>0. note'[c] = "none" /\ gen[c] \in Nat /\ ~Pending(cur)'
      BY <1>1, <2>1, <2>2, InvTypes DEF Pending
    <3>1. CASE UNCHANGED image
      BY <1>0, <1>1, <2>1, <2>2, <3>0, <3>1, InvTypes DEF Moved
    <3>2. CASE /\ asked[p].file # Nothing /\ image' = [image EXCEPT ![p] = asked[p]]
               /\ runs' = runs \cup {[id |-> id[p], file |-> asked[p].file,
                                      swapped |-> p \in swapped]}
      <4>. DEFINE new == [id |-> id[p], file |-> asked[p].file, swapped |-> p \in swapped]
      <4>1. new.id = id[p] /\ (p \in swapped => new.swapped) /\ new \in runs'
        BY <3>2
      <4>. HIDE DEF new
      <4>2. p \in swapped => \E r \in runs' : r.id = id[p] /\ r.swapped
        BY <4>1
      <4>3. image'[p] = asked[p]
        BY <3>2, InvTypes
      <4>. QED
        BY <1>1, <2>1, <2>2, <3>2, <4>2, <4>3, InvTypes DEF Moved, Pending
    <3>. QED
      BY <2>1, <3>1, <3>2
  <2>3. CASE c # p
    <3>0. c \in Pids /\ gen[c] \in Nat
      BY InvTypes
    <3>1. Unmoved(c)
      BY <2>1, <2>3, <3>0, InvTypes DEF Unmoved, Tracks
    <3>2. Pending(cur)' => Pending(cur)
      BY <1>1, <2>1, <3>1 DEF Pending, Unmoved
    <3>. QED
      BY <1>0, <1>1, <2>1, <3>0, <3>1, <3>2 DEF Moved
  <2>. QED
    BY <1>0, <1>1, <2>2, <2>3
<1>4. CASE Exit(p)
  <2>1. /\ UNCHANGED <<gen, asked, id, image>> /\ alive' = alive \ {p}
        /\ note' = [note EXCEPT ![p] = "none"] /\ swapped' = swapped \ {p}
    BY <1>4 DEF Exit, Dies
  <2>. QED
    BY <1>0, <1>1, <2>1, InvTypes DEF Moved, Unmoved, Tracks, Pending
<1>5. ASSUME NEW q \in Pids, Fork(p, q)
      PROVE  /\ gen'[c] >= gen[c]
             /\ Pending(cur)' => Pending(cur) /\ Unmoved(c) /\ gen'[c] = gen[c]
             /\ c \in alive' /\ gen'[c] = gen[c] => c \in alive /\ Moved(c)
  <2>1. /\ UNCHANGED <<asked, id, note, swapped>> /\ alive' = alive \cup {q} /\ q \notin alive
        /\ gen' = [gen EXCEPT ![q] = @ + 1] /\ image' = [image EXCEPT ![q] = image[p]]
    BY <1>5 DEF Fork
  <2>2. CASE c = q
    <3>1. gen'[c] = gen[c] + 1 /\ gen[c] \in Nat
      BY <2>1, <2>2, InvTypes
    <3>2. ~Pending(cur)'
      BY <1>1, <2>1, <2>2, InvTypes DEF Pending
    <3>. QED
      BY <3>1, <3>2
  <2>3. CASE c # q
    BY <1>1, <2>1, <2>3, InvTypes DEF Moved, Unmoved, Tracks, Pending
  <2>. QED
    BY <2>2, <2>3
<1>. QED
  BY <1>0, <1>1, <1>2, <1>3, <1>4, <1>5, <1>6 DEF Task

LEMMA TaskOnTarget ==
  ASSUME WallInv, OnTarget, NEW p \in Pids, Task(p) \/ Change(p) \/ Commit(p)
  PROVE  OnTarget'
<1>. DEFINE c == cur.pid
<1>0. /\ UNCHANGED <<pc, cur, digest, pre, got, kills>> /\ gen'[c] >= gen[c]
      /\ runs \subseteq runs'
      /\ Pending(cur)' => Pending(cur) /\ Unmoved(c) /\ gen'[c] = gen[c]
      /\ c \in alive' /\ gen'[c] = gen[c] => c \in alive /\ Moved(c)
  BY TaskMoves
<1>1. gen'[c] \in Nat /\ gen[c] \in Nat /\ cur.gen \in Nat
  <2>1. WallInv'
    BY ExecveInv, ExitInv, ForkInv, ChangeInv, CommitInv DEF Task
  <2>2. gen' \in [Pids -> Nat]
    BY <2>1, WallAssumption DEF WallInv, TaskTypes
  <2>. QED
    BY <2>2, InvTypes
<1>2. pc \in Serving \cup {"kill"} /\ SameTask' => SameTask /\ Moved(c)
  BY <1>0, <1>1 DEF OnTarget, SameTask
<1>3. pc' \in Serving \cup {"kill"} => gen'[cur'.pid] >= cur'.gen
  BY <1>0, <1>1 DEF OnTarget
<1>4. /\ pc' \in {"hash", "check", "respond"} /\ Pending(cur)' => gen'[cur'.pid] = cur'.gen
      /\ pc' = "respond" /\ Pending(cur)' /\ WantCommitted' => image'[cur'.pid].argv = pre'
  BY <1>0 DEF OnTarget, Unmoved, WantCommitted
<1>8. Swapped(cur.id) => Swapped(cur.id)'
  BY <1>0 DEF Swapped
<1>9. image'[c] = image[c] /\ RunsHashed => RunsHashed'
  BY <1>0, <1>8 DEF RunsHashed, Swapped
<1>5. ASSUME pc' = "capture", SameTask'
      PROVE  \/ /\ note'[c] = "continued" /\ image'[c].argv = pre /\ id'[c] = cur.id
                /\ c \in swapped' \/ asked'[c].file \in {digest, Nothing}
             \/ /\ note'[c] \in {"none", "queued"}
                /\ image'[c].argv = pre \/ RunsHashed'
  <2>1. pc = "capture" /\ SameTask /\ Moved(c)
    BY <1>0, <1>2, <1>5 DEF Serving
  <2>2. CASE note[c] = "continued" /\ image[c].argv = pre /\ id[c] = cur.id
             /\ (c \in swapped \/ asked[c].file \in {digest, Nothing})
    <3>1. CASE Unmoved(c)
      BY <2>2, <3>1 DEF Unmoved, Tracks
    <3>2. CASE note'[c] = "none" /\ image'[c] = image[c]
      BY <2>2, <3>2
    <3>3. CASE /\ note'[c] = "none" /\ asked[c].file # Nothing /\ image'[c] = asked[c]
               /\ c \in swapped => \E r \in runs' : r.id = id[c] /\ r.swapped
      <4>1. c \in swapped => Swapped(cur.id)'
        BY <1>0, <2>2, <3>3 DEF Swapped
      <4>2. c \notin swapped => image'[c].file = digest
        BY <2>2, <3>3
      <4>3. RunsHashed'
        BY <1>0, <4>1, <4>2 DEF RunsHashed, Swapped
      <4>. QED
        BY <3>3, <4>3
    <3>. QED
      BY <2>1, <2>2, <3>1, <3>2, <3>3 DEF Moved
  <2>3. CASE note[c] \in {"none", "queued"} /\ (image[c].argv = pre \/ RunsHashed)
    <3>1. image'[c] = image[c] /\ note'[c] \in {"none", "queued"}
      BY <2>1, <2>3 DEF Moved, Unmoved
    <3>. QED
      BY <1>9, <2>3, <3>1
  <2>. QED
    BY <2>1, <2>2, <2>3 DEF OnTarget
<1>6. ASSUME pc' \in {"report", "kill"}, SameTask', got # Nothing
      PROVE  /\ note'[c] \in {"none", "queued"}
             /\ RunsHashed' /\ image'[c].argv = got
  <2>1. pc \in {"report", "kill"} /\ SameTask /\ Moved(c)
    BY <1>0, <1>2, <1>6 DEF Serving
  <2>2. note[c] \in {"none", "queued"} /\ RunsHashed /\ image[c].argv = got
    BY <1>6, <2>1 DEF OnTarget
  <2>3. image'[c] = image[c] /\ note'[c] \in {"none", "queued"}
    BY <2>1, <2>2 DEF Moved, Unmoved
  <2>. QED
    BY <1>9, <2>2, <2>3
<1>7. /\ pc' = "capture" => got' = Nothing
      /\ pc' = "kill" => Broken'
      /\ KillsOffender'
  <2>1. (pc' = "capture" => got' = Nothing) /\ (pc' = "kill" => Broken')
    BY <1>0 DEF OnTarget, Broken
  <2>2. KillsOffender'
    BY <1>0 DEF OnTarget, KillsOffender
  <2>. QED
    BY <2>1, <2>2
<1>. QED
  BY <1>0, <1>3, <1>4, <1>5, <1>6, <1>7 DEF OnTarget

\* A supervisor that serves nobody judges nobody.
LEMMA IdleOnTarget ==
  ASSUME KillsOffender', pc' \notin Serving \cup {"kill"}
  PROVE  OnTarget'
BY DEF OnTarget, Serving

LEMMA ReceiveOnTarget ==
  ASSUME WallInv, OnTarget, Receive
  PROVE  OnTarget'
<1>0. UNCHANGED <<gen, kills, runs>> /\ KillsOffender'
  BY DEF Receive, OnTarget, KillsOffender
<1>1. CASE pc' = "hash" /\ \E p \in Queued : cur' = [pid |-> p, id |-> id[p], gen |-> gen[p]]
  <2>1. PICK p \in Queued : cur' = [pid |-> p, id |-> id[p], gen |-> gen[p]]
    BY <1>1
  <2>2. p \in Pids
    BY InvTypes DEF Queued
  <2>3. gen'[cur'.pid] = cur'.gen /\ cur'.gen \in Nat
    BY <1>0, <2>1, <2>2, InvTypes
  <2>. QED
    BY <1>0, <1>1, <2>3 DEF OnTarget
<1>2. CASE Loop
  BY <1>0, <1>2, IdleOnTarget DEF Loop, Serving
<1>. QED
  BY <1>1, <1>2 DEF Receive

LEMMA RespondOnTarget ==
  ASSUME WallInv, Accounted, OnTarget, Respond
  PROVE  OnTarget'
<1>0. /\ pc = "respond"
      /\ UNCHANGED <<gen, alive, image, asked, id, swapped, runs, kills, cur, digest, pre>>
      /\ KillsOffender'
  BY DEF Respond, Loop, OnTarget, KillsOffender
<1>1. CASE ~Pending(cur)
  BY <1>0, <1>1, IdleOnTarget DEF Respond, Loop, Serving
<1>2. CASE Pending(cur)
  <2>1. /\ note'[cur.pid] = IF Decide(digest) = "allow" THEN "continued" ELSE "none"
        /\ got' = Nothing
        /\ pc' = IF WantCommitted THEN "capture" ELSE "report"
    BY <1>2, InvTypes DEF Respond
  <2>2. gen'[cur'.pid] >= cur'.gen
    BY <1>0, InvTypes DEF OnTarget, Serving
  <2>3. ASSUME WantCommitted
        PROVE  /\ note'[cur.pid] = "continued" /\ image[cur.pid].argv = pre
               /\ id[cur.pid] = cur.id
               /\ cur.pid \in swapped \/ asked[cur.pid].file \in {digest, Nothing}
    <3>1. Decide(digest) = "allow" /\ digest # Nothing
      BY <2>3, WallAssumption DEF WantCommitted, Decide
    <3>. QED
      BY <1>0, <1>2, <2>1, <2>3, <3>1 DEF OnTarget, Accounted, Pending
  <2>. QED
    BY <1>0, <2>1, <2>2, <2>3 DEF OnTarget
<1>. QED
  BY <1>1, <1>2

LEMMA KillOnTarget ==
  ASSUME WallInv, OnTarget, Kill
  PROVE  OnTarget'
<1>1. pc = "kill" /\ pc' = "wait"
  BY DEF Kill
<1>2. Broken
  BY <1>1 DEF OnTarget
<1>0. runs' = runs
  BY DEF Kill, Dies, tasks
<1>3. CASE UNCHANGED kills
  <2>1. KillsOffender'
    BY <1>0, <1>3 DEF OnTarget, KillsOffender
  <2>. QED
    BY <1>1, <2>1, IdleOnTarget DEF Serving
<1>4. CASE /\ cur.pid \in alive
           /\ kills' = kills \cup {[hit |-> gen[cur.pid], meant |-> cur.gen,
                                    image |-> image[cur.pid],
                                    id |-> cur.id, digest |-> digest]}
  <2>1. gen[cur.pid] = cur.gen =>
          ArgvDenied(digest, image[cur.pid].argv) /\ RunsHashed
    BY <1>1, <1>2, <1>4 DEF OnTarget, SameTask, Broken
  <2>2. KillsOffender'
    BY <1>0, <1>4, <2>1 DEF OnTarget, KillsOffender, ArgvDenied, RunsHashed, Swapped
  <2>. QED
    BY <1>1, <2>2, IdleOnTarget DEF Serving
<1>. QED
  BY <1>3, <1>4 DEF Kill

\* The steps between an answer's preparation and the verdict on the vector.
LEMMA ServeOnTarget ==
  ASSUME WallInv, OnTarget, Hash \/ Check \/ CaptureSees \/ CaptureGivesUp \/ Report
  PROVE  OnTarget'
<1>0. /\ UNCHANGED <<alive, gen, image, asked, note, id, runs, cur, kills>>
      /\ KillsOffender'
      /\ (Pending(cur)' <=> Pending(cur)) /\ (SameTask' <=> SameTask)
      /\ (Swapped(cur.id)' <=> Swapped(cur.id))
  BY DEF Hash, Check, CaptureSees, CaptureGivesUp, Report, Loop, tasks, OnTarget,
         KillsOffender, Pending, SameTask, Swapped
<1>1. CASE Hash
  BY <1>0, <1>1 DEF Hash, OnTarget, Serving
<1>2. CASE Check
  <2>1. CASE pc' = "wait"
    BY <1>0, <2>1, IdleOnTarget DEF Serving
  <2>2. CASE /\ Pending(cur) /\ pc' = "respond" /\ UNCHANGED <<digest, got>>
             /\ pre' = IF WantCommitted THEN image[cur.pid].argv ELSE Nothing
    BY <1>0, <1>2, <2>2 DEF Check, OnTarget, Serving, WantCommitted
  <2>. QED
    BY <1>2, <2>1, <2>2 DEF Check, Loop
<1>3. CASE CaptureSees
  BY <1>0, <1>3 DEF CaptureSees, OnTarget, Serving, RunsHashed
<1>4. CASE CaptureGivesUp
  BY <1>0, <1>4 DEF CaptureGivesUp, OnTarget, Serving, RunsHashed
<1>5. CASE Report
  <2>1. CASE Broken
    BY <1>0, <1>5, <2>1 DEF Report, OnTarget, Serving, RunsHashed, Broken
  <2>2. CASE ~Broken
    BY <1>0, <1>5, <2>2, IdleOnTarget DEF Report, Serving
  <2>. QED
    BY <2>1, <2>2
<1>. QED
  BY <1>1, <1>2, <1>3, <1>4, <1>5

LEMMA TargetStep == WallInv /\ Accounted /\ OnTarget /\ [Next]_vars => OnTarget'
<1>. SUFFICES ASSUME WallInv, Accounted, OnTarget, [Next]_vars PROVE OnTarget'
  OBVIOUS
<1>1. CASE Reap \/ PollReady \/ PollIdle \/ Close
  <2>1. kills' = kills /\ pc' \notin Serving \cup {"kill"}
    BY <1>1 DEF Reap, PollReady, PollIdle, Close, Serving
  <2>2. KillsOffender'
    BY <1>1, <2>1 DEF Reap, PollReady, PollIdle, Close, tasks, OnTarget, KillsOffender
  <2>. QED
    BY <2>1, <2>2, IdleOnTarget
<1>2. CASE UNCHANGED vars
  BY <1>2 DEF vars, tasks, supervisor, OnTarget, Pending, SameTask, WantCommitted,
              Broken, KillsOffender, Swapped, RunsHashed
<1>. QED
  BY <1>1, <1>2, TaskOnTarget, ReceiveOnTarget, RespondOnTarget, KillOnTarget,
     ServeOnTarget DEF Next, Supervise

\* A process that is killed for the vector it was seen with runs the binary that
\* was hashed (unless it was swapped), with that vector, unless its pid was given
\* to another process
\* (cell.rs, Cell::supervise; exec_supervisor.rs, read_committed_argv).
THEOREM KillsAreDeserved == Spec => []KillsOffender
<1>1. Init => OnTarget
  BY DEF Init, OnTarget, Serving, KillsOffender
<1>2. WallInv /\ Accounted /\ OnTarget /\ [Next]_vars => OnTarget'
  BY TargetStep
<1>3. OnTarget => KillsOffender
  BY DEF OnTarget
<1>. QED
  BY <1>1, <1>2, <1>3, RecordsAlways, PTL DEF Spec

-----------------------------------------------------------------------------
(* Compiling, signing and the gates of a run: the types.                   *)

AllDomains == Bundled \cup Hosting \cup {Wider} \cup UNION {Domains(l) : l \in Lockfiles}
PinSet == [path : Lockfiles, sha : Contents, vcs : {"unknown", "clean", "dirty"}]
CommitOrNone == Commits \cup {Nobody}
SignedBodies == (SUBSET AllDomains) \X (SUBSET PinSet) \X CommitOrNone
SignatureSet == [by : Signers \cup {Nobody}, over : SUBSET SignedBodies]
ProfileSet == [net : SUBSET AllDomains, pins : SUBSET PinSet, commit : CommitOrNone,
               sig : SignatureSet, hand : BOOLEAN]
CompilerSet == [pc : {"idle", "walk", "vcs", "write"}, only : SUBSET Lockfiles,
                seen : SUBSET Lockfiles, found : SUBSET (Lockfiles \X Contents),
                asked : SUBSET PinSet, held : ProfileSet]
SignerSet == [pc : {"idle", "sign"}, by : Signers \cup {Nobody}, held : ProfileSet]
RunnerSet == [pc : {"off", "pins", "started"}, held : ProfileSet,
              demand : {"nothing", "signed", "trusted"}, checked : SUBSET PinSet]

ApprovalTypeOK ==
  /\ disk \in [Lockfiles -> Contents \cup {Absent}] /\ repo \in BOOLEAN
  /\ file \in [ProfileFiles -> ProfileSet]
  /\ compiler \in CompilerSet /\ signer \in SignerSet /\ runner \in RunnerSet
  /\ presented \in [Signers -> SUBSET ((SUBSET AllDomains) \X (SUBSET PinSet))]
  /\ touched \subseteq Lockfiles

\* Whatever a signature is over, whoever tampered with the profile since, the
\* signer had its domains and pins before him together.
Vouched(p, shown) ==
  p.sig.by # Nobody => \A x \in p.sig.over : <<x[1], x[2]>> \in shown[p.sig.by]

VouchedInv ==
  /\ \A f \in ProfileFiles : Vouched(file[f], presented)
  /\ compiler.pc = "write" => compiler.held.sig = NoSignature
  /\ signer.pc = "sign" =>
       /\ signer.by \in Signers
       /\ <<signer.held.net, signer.held.pins>> \in presented[signer.by]
  /\ runner.pc # "off" /\ runner.demand # "nothing" =>
       /\ runner.held.sig.by \in Signers
       /\ <<runner.held.net, runner.held.pins>> \in presented[runner.held.sig.by]

\* The pins the run has compared still hold of the disk, but for later edits.
CheckedInv ==
  /\ runner.pc # "off" =>
       \A q \in runner.checked : q.path \notin touched => disk[q.path] = q.sha
  /\ runner.pc = "started" => runner.checked = runner.held.pins

\* A profile's domains are Bundled or of its pins.
Rooted(p) ==
  ~p.hand => p.net \subseteq Bundled \cup (IF p.pins = {} THEN {} ELSE Envelope(p.pins))

RootedInv ==
  /\ \A f \in ProfileFiles : Rooted(file[f])
  /\ signer.pc = "sign" => Rooted(signer.held)
  /\ compiler.pc = "write" => Rooted(compiler.held) /\ compiler.asked # {}
  /\ compiler.pc \in {"vcs", "write"} => compiler.found # {}
  /\ IsFiniteSet(compiler.found)

ApprovalInv == ApprovalTypeOK /\ VouchedInv /\ CheckedInv /\ RootedInv

-----------------------------------------------------------------------------
(* Profiles as data.                                                       *)

LEMMA EnvelopeType ==
  ASSUME NEW pins \in SUBSET PinSet
  PROVE  Envelope(pins) \subseteq AllDomains
<1>1. \A q \in pins : q.path \in Lockfiles
  BY DEF PinSet
<1> QED BY <1>1, Zenon DEF Envelope, AllDomains

LEMMA BlankType == Blank \in ProfileSet
<1>1. NoSignature \in SignatureSet
  BY DEF NoSignature, SignatureSet
<1> QED BY <1>1 DEF Blank, ProfileSet, CommitOrNone

LEMMA FreshType ==
  /\ Fresh \in ProfileSet /\ Fresh.sig.by = Nobody
  /\ Fresh.net = Bundled /\ Fresh.pins = {} /\ Fresh.hand = FALSE
<1>1. Blank \in ProfileSet /\ Blank.sig.by = Nobody /\ Blank.pins = {} /\ Blank.hand = FALSE
  BY BlankType DEF Blank, NoSignature
<1>2. Bundled \in SUBSET AllDomains
  BY DEF AllDomains
<1>3. Fresh = [Blank EXCEPT !.net = Bundled]
  BY DEF Fresh
<1> QED BY <1>1, <1>2, <1>3 DEF ProfileSet

LEMMA ProfileIn ==
  ASSUME NEW net \in SUBSET AllDomains, NEW pins \in SUBSET PinSet,
         NEW commit \in CommitOrNone, NEW sig \in SignatureSet, NEW hand \in BOOLEAN
  PROVE  [net |-> net, pins |-> pins, commit |-> commit, sig |-> sig, hand |-> hand] \in ProfileSet
BY DEF ProfileSet

\* Compiling keeps the signature, takes the pins as they are and roots the domains
\* in them, if it starts from a profile without pins.
LEMMA AppliedType ==
  ASSUME NEW p \in ProfileSet, NEW pins \in SUBSET PinSet, NEW replace \in BOOLEAN
  PROVE  /\ Applied(p, pins, replace) \in ProfileSet
         /\ Applied(p, pins, replace).sig = p.sig
         /\ Rooted(p) /\ pins # {} => Rooted(Applied(p, pins, replace))
<1> DEFINE net == IF replace THEN Envelope(pins) ELSE p.net \cup Envelope(pins)
           q == Applied(p, pins, replace)
<1>1. /\ q = [p EXCEPT !.net = net, !.pins = pins, !.hand = p.hand \/ p.pins # {}]
      /\ net \subseteq AllDomains
  BY EnvelopeType DEF Applied, ProfileSet
<1>2. /\ q = [net |-> net, pins |-> pins, commit |-> p.commit, sig |-> p.sig,
             hand |-> p.hand \/ p.pins # {}]
      /\ p.commit \in CommitOrNone /\ p.sig \in SignatureSet /\ p.hand \in BOOLEAN
  BY <1>1 DEF ProfileSet
<1> HIDE DEF q
<1>3. q \in ProfileSet /\ q.sig = p.sig
  BY <1>1, <1>2 DEF ProfileSet
<1>4. ASSUME Rooted(p), pins # {}, ~q.hand
      PROVE  q.net \subseteq Bundled \cup Envelope(pins)
  BY <1>2, <1>4 DEF Rooted
<1>5. q.pins = pins
  BY <1>2
<1> QED BY <1>3, <1>4, <1>5, Zenon DEF Rooted, q

SignedAs(p, commit, s) ==
  LET a == Attested(p, commit)
  IN  [a EXCEPT !.sig = [by |-> s, over |-> SigningBytes(a)]]

\* A signature is over what the profile says: the same domains and pins.
LEMMA SignedType ==
  ASSUME NEW p \in ProfileSet, NEW commit \in CommitOrNone, NEW s \in Signers \cup {Nobody}
  PROVE  LET q == SignedAs(p, commit, s)
         IN  /\ q \in ProfileSet
             /\ q.net = p.net /\ q.pins = p.pins /\ q.hand = p.hand
             /\ q.sig.by = s /\ \A x \in q.sig.over : x[1] = p.net /\ x[2] = p.pins
<1> DEFINE q == SignedAs(p, commit, s)
<1> DEFINE a == Attested(p, commit)
           c == IF commit = Nobody THEN p.commit ELSE commit
<1>1. a = [net |-> p.net, pins |-> p.pins, commit |-> c, sig |-> p.sig, hand |-> p.hand]
  BY DEF Attested, ProfileSet
<1>2. c \in CommitOrNone /\ p.net \in SUBSET AllDomains /\ p.pins \in SUBSET PinSet
      /\ p.hand \in BOOLEAN
  BY DEF ProfileSet
<1>3. SigningBytes(a) = {<<p.net, p.pins, c>>}
  BY <1>1 DEF SigningBytes
<1> HIDE DEF c
<1>4. [by |-> s, over |-> SigningBytes(a)] \in SignatureSet
  BY <1>2, <1>3 DEF SignatureSet, SignedBodies
<1>5. q = [net |-> p.net, pins |-> p.pins, commit |-> c,
           sig |-> [by |-> s, over |-> SigningBytes(a)], hand |-> p.hand]
  BY <1>1 DEF SignedAs
<1> HIDE DEF q
<1> HIDE DEF a
<1> DEFINE sig == [by |-> s, over |-> SigningBytes(a)]
<1> HIDE DEF sig
<1>6. q \in ProfileSet
  <2>1. q = [net |-> p.net, pins |-> p.pins, commit |-> c, sig |-> sig, hand |-> p.hand]
    BY <1>5 DEF sig
  <2>2. sig \in SignatureSet
    BY <1>4 DEF sig
  <2>3. [net |-> p.net, pins |-> p.pins, commit |-> c, sig |-> sig, hand |-> p.hand] \in ProfileSet
    BY <1>2, <2>2, ProfileIn
  <2> QED BY <2>1, <2>3, Zenon
<1>7. q.net = p.net /\ q.pins = p.pins /\ q.hand = p.hand /\ q.sig.by = s
      /\ q.sig.over = {<<p.net, p.pins, c>>}
  BY <1>3, <1>5
<1> QED BY <1>6, <1>7 DEF q

\* An accepted profile of which a signature is demanded says what its signer had
\* before him.
LEMMA AcceptedVouched ==
  ASSUME NEW p \in ProfileSet, NEW shown, NEW demand, demand # "nothing",
         Vouched(p, shown), Accepted(p, demand)
  PROVE  p.sig.by \in Signers /\ <<p.net, p.pins>> \in shown[p.sig.by]
<1>1. p.sig.by # Nobody /\ p.sig.over = {<<p.net, p.pins, p.commit>>}
  BY DEF Accepted, Authentic, SigningBytes
<1>2. p.sig.by \in Signers
  BY <1>1 DEF ProfileSet, SignatureSet
<1> DEFINE x == <<p.net, p.pins, p.commit>>
<1>3. x[1] = p.net /\ x[2] = p.pins /\ x \in p.sig.over
  BY <1>1
<1>4. <<x[1], x[2]>> \in shown[p.sig.by]
  BY <1>1, <1>3, Zenon DEF Vouched
<1> QED BY <1>2, <1>3, <1>4

LEMMA VouchedFor ==
  ASSUME NEW p \in ProfileSet, NEW r \in ProfileSet, NEW shown, Vouched(p, shown),
         r.sig \in {p.sig, NoSignature}
  PROVE  Vouched(r, shown)
<1>1. r.sig = p.sig \/ r.sig.by = Nobody
  BY DEF NoSignature
<1> QED BY <1>1 DEF Vouched

-----------------------------------------------------------------------------
(* The types of the approval workflow.                                     *)

LEMMA ApprovalTypeInit == ApprovalInit => ApprovalTypeOK
<1> SUFFICES ASSUME ApprovalInit PROVE ApprovalTypeOK
  OBVIOUS
<1>1. disk \in [Lockfiles -> Contents \cup {Absent}] /\ repo \in BOOLEAN
  BY ApprovalAssumption, Zenon DEF ApprovalInit
<1>2. file \in [ProfileFiles -> ProfileSet]
  BY FreshType DEF ApprovalInit
<1>3. compiler \in CompilerSet
  BY BlankType DEF ApprovalInit, Idle, CompilerSet
<1>4. signer \in SignerSet
  BY BlankType DEF ApprovalInit, Unsigned, SignerSet
<1>5. runner \in RunnerSet
  BY BlankType DEF ApprovalInit, Off, RunnerSet
<1>6. presented \in [Signers -> SUBSET ((SUBSET AllDomains) \X (SUBSET PinSet))]
      /\ touched \subseteq Lockfiles
  BY DEF ApprovalInit
<1> QED BY <1>1, <1>2, <1>3, <1>4, <1>5, <1>6 DEF ApprovalTypeOK

LEMMA IdleType == Idle \in CompilerSet /\ Off \in RunnerSet /\ Unsigned \in SignerSet
<1>1. Idle \in CompilerSet
  BY BlankType DEF Idle, CompilerSet
<1>2. Off \in RunnerSet
  BY BlankType DEF Off, RunnerSet
<1>3. Unsigned \in SignerSet
  BY BlankType DEF Unsigned, SignerSet
<1> QED BY <1>1, <1>2, <1>3

LEMMA CompilerTypeStep ==
  ASSUME ApprovalTypeOK, CompileStep
  PROVE  compiler' \in CompilerSet
<1> USE DEF ApprovalTypeOK
<1>1. ASSUME Compile PROVE compiler' \in CompilerSet
  <2>1. PICK only \in {Lockfiles} \cup {{l} : l \in Lockfiles} :
          compiler' = [Idle EXCEPT !.pc = "walk", !.only = only]
    BY <1>1 DEF Compile
  <2>2. only \in SUBSET Lockfiles
    OBVIOUS
  <2> QED BY <2>1, <2>2, IdleType DEF CompilerSet
<1>2. ASSUME Walked PROVE compiler' \in CompilerSet
  <2>1. Chosen(compiler.found) \subseteq compiler.found
    BY DEF Chosen
  <2> QED BY <1>2, <2>1, IdleType DEF Walked, CompilerSet
<1>3. ASSUME NEW l \in Lockfiles, Walk(l) PROVE compiler' \in CompilerSet
  <2>1. CASE disk[l] = Absent
    <3>1. compiler' = [compiler EXCEPT !.seen = @ \cup {l}, !.found = compiler.found]
      BY <1>3, <2>1 DEF Walk
    <3> QED BY <3>1 DEF CompilerSet
  <2>2. CASE disk[l] # Absent
    <3>1. disk[l] \in Contents
      BY <2>2
    <3>2. compiler' = [compiler EXCEPT !.seen = @ \cup {l}, !.found = @ \cup {<<l, disk[l]>>}]
      BY <1>3, <2>2 DEF Walk
    <3>3. <<l, disk[l]>> \in Lockfiles \X Contents
      BY <3>1
    <3>4. compiler.found \cup {<<l, disk[l]>>} \in SUBSET (Lockfiles \X Contents)
      BY <3>3 DEF CompilerSet
    <3> HIDE DEF ApprovalTypeOK
    <3> QED BY <3>2, <3>4 DEF CompilerSet, ApprovalTypeOK
  <2> QED BY <2>1, <2>2
<1>4. ASSUME NEW x \in compiler.found, AskGit(x[1], x[2]) PROVE compiler' \in CompilerSet
  <2>1. x[1] \in Lockfiles /\ x[2] \in Contents
    BY DEF CompilerSet
  <2>2. VcsState(x[1]) \in {"unknown", "clean", "dirty"}
    BY DEF VcsState
  <2>3. Pin(x[1], x[2], VcsState(x[1])) \in PinSet
    BY <2>1, <2>2 DEF Pin, PinSet
  <2> QED BY <1>4, <2>3 DEF AskGit, CompilerSet
<1>5. ASSUME NEW f \in ProfileFiles, ReadSource(f) PROVE compiler' \in CompilerSet
  BY <1>5, IdleType DEF ReadSource, CompilerSet
<1>6. ASSUME NEW f \in ProfileFiles, WriteCompiled(f) PROVE compiler' \in CompilerSet
  BY <1>6, IdleType DEF WriteCompiled
<1> QED BY <1>1, <1>2, <1>3, <1>4, <1>5, <1>6 DEF CompileStep

LEMMA FileTypeStep ==
  ASSUME ApprovalTypeOK, ApprovalNext
  PROVE  file' \in [ProfileFiles -> ProfileSet]
<1> USE DEF ApprovalTypeOK
<1>1. ASSUME UNCHANGED file PROVE file' \in [ProfileFiles -> ProfileSet]
  BY <1>1
<1>2. ASSUME NEW f \in ProfileFiles, NEW p \in ProfileSet, file' = [file EXCEPT ![f] = p]
      PROVE  file' \in [ProfileFiles -> ProfileSet]
  BY <1>2
<1>3. ASSUME NEW f \in ProfileFiles, WriteCompiled(f)
      PROVE  file' \in [ProfileFiles -> ProfileSet]
  <2>1. \A replace \in BOOLEAN : Applied(compiler.held, compiler.asked, replace) \in ProfileSet
    BY AppliedType DEF CompilerSet
  <2> QED BY <1>2, <1>3, <2>1, Zenon DEF WriteCompiled
<1>4. ASSUME NEW f \in ProfileFiles, EditProfile(f)
      PROVE  file' \in [ProfileFiles -> ProfileSet]
  <2>1. NoSignature \in SignatureSet
    BY DEF NoSignature, SignatureSet
  <2>2. Wider \in AllDomains
    BY DEF AllDomains
  <2>3. CASE file' = [file EXCEPT ![f].net = @ \cup {Wider}, ![f].hand = TRUE]
    BY <2>2, <2>3 DEF ProfileSet
  <2>4. CASE file' = [file EXCEPT ![f].sig = NoSignature]
    BY <2>1, <2>4 DEF ProfileSet
  <2> QED BY <1>4, <2>3, <2>4 DEF EditProfile
<1>5. ASSUME NEW f \in ProfileFiles, Export(f)
      PROVE  file' \in [ProfileFiles -> ProfileSet]
  BY <1>2, <1>5, FreshType DEF Export
<1>6. ASSUME NEW f \in ProfileFiles, WriteSigned(f)
      PROVE  file' \in [ProfileFiles -> ProfileSet]
  <2>1. PICK commit \in CommitOrNone : file' = [file EXCEPT ![f] = SignedAs(signer.held, commit, signer.by)]
    BY <1>6 DEF WriteSigned, SignedAs, CommitOrNone
  <2>2. signer.held \in ProfileSet /\ signer.by \in Signers \cup {Nobody}
    BY DEF SignerSet
  <2>3. SignedAs(signer.held, commit, signer.by) \in ProfileSet
    BY <2>2, SignedType, Zenon
  <2> QED BY <1>2, <2>1, <2>3, Zenon
<1>7. ASSUME \/ GitCommit \/ RunGate \/ Compile \/ Walked
             \/ \E l \in Lockfiles : Walk(l) \/ Edit(l)
             \/ \E x \in compiler.found : AskGit(x[1], x[2])
             \/ \E f \in ProfileFiles : ReadSource(f) \/ \E s \in Signers : ReadToSign(f, s)
      PROVE  UNCHANGED file
  BY <1>7 DEF GitCommit, RunGate, Start, End, LoadAndCheck, VerifyPin, Judging, Compile, Walked,
    Walk, Edit, AskGit, ReadSource, ReadToSign
<1> QED BY <1>1, <1>3, <1>4, <1>5, <1>6, <1>7 DEF ApprovalNext, CompileStep

LEMMA SignerTypeStep ==
  ASSUME ApprovalTypeOK, ApprovalNext
  PROVE  /\ signer' \in SignerSet
         /\ presented' \in [Signers -> SUBSET ((SUBSET AllDomains) \X (SUBSET PinSet))]
<1> USE DEF ApprovalTypeOK
<1>1. ASSUME NEW f \in ProfileFiles, NEW s \in Signers, ReadToSign(f, s)
      PROVE  /\ signer' \in SignerSet
             /\ presented' \in [Signers -> SUBSET ((SUBSET AllDomains) \X (SUBSET PinSet))]
  <2>1. signer' \in SignerSet
    BY <1>1 DEF ReadToSign, SignerSet
  <2>2. <<file[f].net, file[f].pins>> \in (SUBSET AllDomains) \X (SUBSET PinSet)
    BY DEF ProfileSet
  <2> QED BY <1>1, <2>1, <2>2 DEF ReadToSign
<1>2. ASSUME NEW f \in ProfileFiles, WriteSigned(f)
      PROVE  signer' \in SignerSet /\ UNCHANGED presented
  BY <1>2, IdleType DEF WriteSigned
<1>3. ASSUME \/ GitCommit \/ RunGate \/ CompileStep
             \/ \E l \in Lockfiles : Edit(l)
             \/ \E f \in ProfileFiles : EditProfile(f) \/ Export(f)
      PROVE  UNCHANGED <<signer, presented>>
  BY <1>3 DEF GitCommit, RunGate, Start, End, LoadAndCheck, VerifyPin, Judging, CompileStep, Compile,
    Walked, Walk, Edit, AskGit, ReadSource, WriteCompiled, Outside, EditProfile, Export, compilation
<1> QED BY <1>1, <1>2, <1>3 DEF ApprovalNext

LEMMA RunnerTypeStep ==
  ASSUME ApprovalTypeOK, ApprovalNext
  PROVE  runner' \in RunnerSet /\ touched' \subseteq Lockfiles
<1> USE DEF ApprovalTypeOK
<1>1. ASSUME NEW f \in ProfileFiles, LoadAndCheck(f)
      PROVE  runner' \in RunnerSet /\ touched' \subseteq Lockfiles
  <2>1. PICK demand \in {"nothing", "signed", "trusted"} :
          runner' = [Off EXCEPT !.pc = "pins", !.held = file[f], !.demand = demand]
    BY <1>1 DEF LoadAndCheck
  <2>2. runner' \in RunnerSet
    BY <2>1, IdleType DEF RunnerSet
  <2> QED BY <1>1, <2>2 DEF LoadAndCheck
<1>2. ASSUME NEW p \in runner.held.pins, VerifyPin(p)
      PROVE  runner' \in RunnerSet /\ UNCHANGED touched
  <2>1. p \in PinSet
    BY DEF RunnerSet, ProfileSet
  <2> QED BY <1>2, <2>1, IdleType DEF VerifyPin, RunnerSet, Judging
<1>3. ASSUME Start \/ End
      PROVE  runner' \in RunnerSet /\ UNCHANGED touched
  BY <1>3, IdleType DEF Start, End, RunnerSet, Judging
<1>4. ASSUME NEW l \in Lockfiles, Edit(l)
      PROVE  UNCHANGED runner /\ touched' \subseteq Lockfiles
  BY <1>4 DEF Edit, compilation
<1>5. ASSUME \/ GitCommit \/ CompileStep
             \/ \E f \in ProfileFiles : \/ EditProfile(f) \/ Export(f) \/ WriteSigned(f)
                                       \/ \E s \in Signers : ReadToSign(f, s)
      PROVE  UNCHANGED <<runner, touched>>
  BY <1>5 DEF GitCommit, CompileStep, Compile, Walked, Walk, AskGit, ReadSource, WriteCompiled, Outside,
    EditProfile, Export, WriteSigned, ReadToSign, compilation
<1> QED BY <1>1, <1>2, <1>3, <1>4, <1>5 DEF ApprovalNext, RunGate

LEMMA ApprovalTypeStep ==
  ASSUME ApprovalTypeOK, ApprovalNext
  PROVE  ApprovalTypeOK'
<1> USE DEF ApprovalTypeOK
<1>1. disk' \in [Lockfiles -> Contents \cup {Absent}] /\ repo' \in BOOLEAN
  <2>1. ASSUME NEW l \in Lockfiles, Edit(l)
        PROVE  disk' \in [Lockfiles -> Contents \cup {Absent}] /\ UNCHANGED repo
    BY <2>1 DEF Edit
  <2>2. ASSUME \/ GitCommit \/ CompileStep \/ RunGate
               \/ \E f \in ProfileFiles : \/ EditProfile(f) \/ Export(f) \/ WriteSigned(f)
                                         \/ \E s \in Signers : ReadToSign(f, s)
        PROVE  UNCHANGED <<disk, repo>>
    BY <2>2 DEF GitCommit, CompileStep, Compile, Walked, Walk, AskGit, ReadSource, WriteCompiled, Outside,
      EditProfile, Export, WriteSigned, ReadToSign, RunGate, Start, End, LoadAndCheck, VerifyPin, Judging
  <2> QED BY <2>1, <2>2 DEF ApprovalNext
<1>2. compiler' \in CompilerSet
  <2>1. ASSUME ~CompileStep PROVE UNCHANGED compiler
    BY <2>1 DEF ApprovalNext, GitCommit, EditProfile, Export, WriteSigned, ReadToSign, RunGate, Start, End,
      LoadAndCheck, VerifyPin, Judging, Edit, compilation
  <2> QED BY <2>1, CompilerTypeStep
<1> QED BY <1>1, <1>2, FileTypeStep, SignerTypeStep, RunnerTypeStep

-----------------------------------------------------------------------------
(* Signatures vouch for what their signer had before him.                  *)

\* Signers are only ever shown more.
LEMMA ShownGrows ==
  ASSUME ApprovalTypeOK, ApprovalNext
  PROVE  \A s \in Signers : presented[s] \subseteq presented'[s]
<1>1. ASSUME NEW f \in ProfileFiles, NEW s \in Signers, ReadToSign(f, s)
      PROVE  \A t \in Signers : presented[t] \subseteq presented'[t]
  BY <1>1 DEF ReadToSign, ApprovalTypeOK
<1>2. ASSUME \/ GitCommit \/ RunGate \/ CompileStep
             \/ \E l \in Lockfiles : Edit(l)
             \/ \E f \in ProfileFiles : EditProfile(f) \/ Export(f) \/ WriteSigned(f)
      PROVE  UNCHANGED presented
  BY <1>2 DEF GitCommit, RunGate, Start, End, LoadAndCheck, VerifyPin, Judging, CompileStep, Compile,
    Walked, Walk, Edit, AskGit, ReadSource, WriteCompiled, Outside, EditProfile, Export, WriteSigned,
    compilation
<1> QED BY <1>1, <1>2 DEF ApprovalNext

LEMMA VouchedStays ==
  ASSUME NEW p \in ProfileSet, NEW shown, NEW more, Vouched(p, shown),
         \A s \in Signers : shown[s] \subseteq more[s]
  PROVE  Vouched(p, more)
<1>1. ASSUME p.sig.by # Nobody, NEW x \in p.sig.over
      PROVE  <<x[1], x[2]>> \in more[p.sig.by]
  <2>1. p.sig.by \in Signers
    BY <1>1 DEF ProfileSet, SignatureSet
  <2>2. <<x[1], x[2]>> \in shown[p.sig.by]
    BY <1>1, Zenon DEF Vouched
  <2> QED BY <2>1, <2>2
<1> QED BY <1>1, Zenon DEF Vouched

LEMMA VouchedFiles ==
  ASSUME ApprovalTypeOK, VouchedInv, ApprovalNext, NEW g \in ProfileFiles
  PROVE  Vouched(file'[g], presented')
<1> USE DEF ApprovalTypeOK
<1>1. ASSUME file'[g] \in ProfileSet, file'[g].sig \in {file[g].sig, NoSignature}
      PROVE  Vouched(file'[g], presented')
  <2>1. Vouched(file[g], presented)
    BY DEF VouchedInv
  <2>2. file[g] \in ProfileSet
    OBVIOUS
  <2>3. Vouched(file'[g], presented)
    BY <1>1, <2>1, <2>2, VouchedFor
  <2> QED BY <1>1, <2>3, ShownGrows, VouchedStays
<1>2. file'[g] \in ProfileSet
  BY FileTypeStep
<1>3. ASSUME NEW f \in ProfileFiles, WriteCompiled(f)
      PROVE  file'[g].sig \in {file[g].sig, NoSignature}
  <2>1. PICK replace \in BOOLEAN :
          file' = [file EXCEPT ![f] = Applied(compiler.held, compiler.asked, replace)]
    BY <1>3 DEF WriteCompiled
  <2>2. Applied(compiler.held, compiler.asked, replace).sig = NoSignature
    BY <1>3, AppliedType DEF VouchedInv, WriteCompiled, CompilerSet
  <2> QED BY <2>1, <2>2
<1>4. ASSUME NEW f \in ProfileFiles, EditProfile(f)
      PROVE  file'[g].sig \in {file[g].sig, NoSignature}
  <2>1. CASE file' = [file EXCEPT ![f].net = @ \cup {Wider}, ![f].hand = TRUE]
    BY <2>1 DEF ProfileSet
  <2>2. CASE file' = [file EXCEPT ![f].sig = NoSignature]
    BY <2>2 DEF ProfileSet
  <2> QED BY <1>4, <2>1, <2>2 DEF EditProfile
<1>5. ASSUME NEW f \in ProfileFiles, Export(f)
      PROVE  file'[g].sig \in {file[g].sig, NoSignature}
  BY <1>5, FreshType DEF Export, Fresh, Blank
<1>6. ASSUME NEW f \in ProfileFiles, WriteSigned(f)
      PROVE  Vouched(file'[g], presented')
  <2>1. PICK commit \in CommitOrNone : file' = [file EXCEPT ![f] = SignedAs(signer.held, commit, signer.by)]
    BY <1>6 DEF WriteSigned, SignedAs, CommitOrNone
  <2> DEFINE q == SignedAs(signer.held, commit, signer.by)
  <2>2. signer.held \in ProfileSet /\ signer.by \in Signers \cup {Nobody}
    BY DEF SignerSet
  <2>3. /\ q \in ProfileSet /\ q.sig.by = signer.by
        /\ \A x \in q.sig.over : x[1] = signer.held.net /\ x[2] = signer.held.pins
    BY <2>2, SignedType, Zenon
  <2>4. file' = [file EXCEPT ![f] = q]
    BY <2>1
  <2> HIDE DEF q
  <2>5. <<signer.held.net, signer.held.pins>> \in presented[signer.by]
    BY <1>6 DEF WriteSigned, VouchedInv
  <2>6. Vouched(q, presented)
    BY <2>3, <2>5 DEF Vouched
  <2>7. UNCHANGED presented
    BY <1>6 DEF WriteSigned
  <2>8. CASE g = f
    BY <2>4, <2>6, <2>7, <2>8
  <2>9. CASE g # f
    BY <2>4, <2>7, <2>9, <1>1, <1>2
  <2> QED BY <2>8, <2>9
<1>7. ASSUME \/ GitCommit \/ RunGate \/ Compile \/ Walked
             \/ \E l \in Lockfiles : Walk(l) \/ Edit(l)
             \/ \E x \in compiler.found : AskGit(x[1], x[2])
             \/ \E f \in ProfileFiles : ReadSource(f) \/ \E s \in Signers : ReadToSign(f, s)
      PROVE  UNCHANGED file
  BY <1>7 DEF GitCommit, RunGate, Start, End, LoadAndCheck, VerifyPin, Judging, Compile, Walked,
    Walk, Edit, AskGit, ReadSource, ReadToSign
<1> QED BY <1>1, <1>2, <1>3, <1>4, <1>5, <1>6, <1>7 DEF ApprovalNext, CompileStep

LEMMA VouchedSigner ==
  ASSUME ApprovalTypeOK, VouchedInv, ApprovalNext, signer'.pc = "sign"
  PROVE  /\ signer'.by \in Signers
         /\ <<signer'.held.net, signer'.held.pins>> \in presented'[signer'.by]
<1>1. ASSUME NEW f \in ProfileFiles, NEW s \in Signers, ReadToSign(f, s)
      PROVE  /\ signer'.by \in Signers
             /\ <<signer'.held.net, signer'.held.pins>> \in presented'[signer'.by]
  BY <1>1 DEF ReadToSign, ApprovalTypeOK
<1>2. ASSUME NEW f \in ProfileFiles, WriteSigned(f)
      PROVE  FALSE
  BY <1>2 DEF WriteSigned, Unsigned
<1>3. ASSUME \/ GitCommit \/ RunGate \/ CompileStep
             \/ \E l \in Lockfiles : Edit(l)
             \/ \E f \in ProfileFiles : EditProfile(f) \/ Export(f)
      PROVE  UNCHANGED <<signer, presented>>
  BY <1>3 DEF GitCommit, RunGate, Start, End, LoadAndCheck, VerifyPin, Judging, CompileStep, Compile,
    Walked, Walk, Edit, AskGit, ReadSource, WriteCompiled, Outside, EditProfile, Export, compilation
<1> QED BY <1>1, <1>2, <1>3 DEF ApprovalNext, VouchedInv

LEMMA VouchedRunner ==
  ASSUME ApprovalTypeOK, VouchedInv, ApprovalNext,
         runner'.pc # "off", runner'.demand # "nothing"
  PROVE  /\ runner'.held.sig.by \in Signers
         /\ <<runner'.held.net, runner'.held.pins>> \in presented'[runner'.held.sig.by]
<1>1. ASSUME NEW f \in ProfileFiles, LoadAndCheck(f)
      PROVE  /\ runner'.held.sig.by \in Signers
             /\ <<runner'.held.net, runner'.held.pins>> \in presented[runner'.held.sig.by]
  <2>1. PICK demand \in {"nothing", "signed", "trusted"} :
          /\ Accepted(file[f], demand)
          /\ runner' = [Off EXCEPT !.pc = "pins", !.held = file[f], !.demand = demand]
    BY <1>1 DEF LoadAndCheck
  <2>2. runner'.held = file[f] /\ runner'.demand = demand
    BY <2>1 DEF Off
  <2>3. file[f] \in ProfileSet /\ Vouched(file[f], presented)
    BY DEF ApprovalTypeOK, VouchedInv
  <2> QED BY <2>1, <2>2, <2>3, AcceptedVouched
<1>2. ASSUME ~(\E f \in ProfileFiles : LoadAndCheck(f))
      PROVE  /\ runner.pc # "off" /\ runner.demand # "nothing"
             /\ runner'.held = runner.held
  <2>1. ASSUME NEW p \in runner.held.pins, VerifyPin(p)
        PROVE  /\ runner.pc # "off" /\ runner.demand # "nothing"
               /\ runner'.held = runner.held
    BY <2>1 DEF VerifyPin, Off, ApprovalTypeOK, RunnerSet
  <2>2. ASSUME Start
        PROVE  /\ runner.pc # "off" /\ runner.demand # "nothing"
               /\ runner'.held = runner.held
    BY <2>2 DEF Start, ApprovalTypeOK, RunnerSet
  <2>3. ASSUME End PROVE FALSE
    BY <2>3 DEF End, Off
  <2>4. ASSUME \/ GitCommit \/ CompileStep
               \/ \E l \in Lockfiles : Edit(l)
               \/ \E f \in ProfileFiles : \/ EditProfile(f) \/ Export(f) \/ WriteSigned(f)
                                         \/ \E s \in Signers : ReadToSign(f, s)
        PROVE  UNCHANGED runner
    BY <2>4 DEF GitCommit, CompileStep, Compile, Walked, Walk, AskGit, ReadSource, WriteCompiled, Outside,
      EditProfile, Export, WriteSigned, ReadToSign, Edit, compilation
  <2> QED BY <1>2, <2>1, <2>2, <2>3, <2>4 DEF ApprovalNext, RunGate
<1>3. CASE \E f \in ProfileFiles : LoadAndCheck(f)
  BY <1>1, <1>3, ShownGrows
<1>4. CASE ~(\E f \in ProfileFiles : LoadAndCheck(f))
  <2>1. /\ runner.held.sig.by \in Signers
        /\ <<runner.held.net, runner.held.pins>> \in presented[runner.held.sig.by]
    BY <1>2, <1>4 DEF VouchedInv
  <2> QED BY <1>2, <1>4, <2>1, ShownGrows
<1> QED BY <1>3, <1>4

LEMMA VouchedStep ==
  ASSUME ApprovalTypeOK, VouchedInv, ApprovalNext
  PROVE  VouchedInv'
<1>1. ASSUME compiler'.pc = "write" PROVE compiler'.held.sig = NoSignature
  <2>1. ASSUME NEW f \in ProfileFiles, ReadSource(f)
        PROVE  compiler'.held.sig = NoSignature
    BY <1>1, <2>1 DEF ReadSource, Idle, ApprovalTypeOK, CompilerSet
  <2>2. ASSUME Compile PROVE FALSE
    BY <1>1, <2>2 DEF Compile, Idle
  <2>3. ASSUME Walked PROVE FALSE
    BY <1>1, <2>3 DEF Walked, Idle, ApprovalTypeOK, CompilerSet
  <2>4. ASSUME NEW l \in Lockfiles, Walk(l) PROVE FALSE
    BY <1>1, <2>4 DEF Walk, ApprovalTypeOK, CompilerSet
  <2>5. ASSUME NEW x \in compiler.found, AskGit(x[1], x[2]) PROVE FALSE
    BY <1>1, <2>5 DEF AskGit, ApprovalTypeOK, CompilerSet
  <2>6. ASSUME NEW f \in ProfileFiles, WriteCompiled(f) PROVE FALSE
    BY <1>1, <2>6 DEF WriteCompiled, Idle
  <2>7. ASSUME ~CompileStep PROVE UNCHANGED compiler
    BY <2>7 DEF ApprovalNext, GitCommit, EditProfile, Export, WriteSigned, ReadToSign, RunGate, Start, End,
      LoadAndCheck, VerifyPin, Judging, Edit, compilation
  <2> QED BY <1>1, <2>1, <2>2, <2>3, <2>4, <2>5, <2>6, <2>7 DEF CompileStep, VouchedInv
<1> QED BY <1>1, VouchedFiles, VouchedSigner, VouchedRunner DEF VouchedInv

-----------------------------------------------------------------------------
(* The pins that a run has compared, and the roots of a profile's domains. *)

LEMMA CheckedStep ==
  ASSUME ApprovalTypeOK, CheckedInv, ApprovalNext
  PROVE  CheckedInv'
<1> USE DEF ApprovalTypeOK
<1>1. ASSUME NEW f \in ProfileFiles, LoadAndCheck(f) PROVE CheckedInv'
  BY <1>1 DEF LoadAndCheck, Off, CheckedInv
<1>2. ASSUME NEW p \in runner.held.pins, VerifyPin(p) PROVE CheckedInv'
  <2>1. CASE disk[p.path] = p.sha
    <3>1. runner' = [runner EXCEPT !.checked = @ \cup {p}] /\ UNCHANGED <<disk, touched>>
          /\ runner.pc = "pins"
      BY <1>2, <2>1 DEF VerifyPin, Judging
    <3>2. runner'.checked = runner.checked \cup {p} /\ runner'.pc = "pins"
      BY <3>1 DEF RunnerSet
    <3> QED BY <2>1, <3>1, <3>2 DEF CheckedInv
  <2>2. CASE disk[p.path] # p.sha
    BY <1>2, <2>2 DEF VerifyPin, Off, CheckedInv
  <2> QED BY <2>1, <2>2
<1>3. ASSUME Start PROVE CheckedInv'
  <2>1. /\ runner'.pc = "started" /\ runner'.checked = runner.checked /\ runner'.held = runner.held
        /\ UNCHANGED <<disk, touched>> /\ runner.pc = "pins" /\ runner.checked = runner.held.pins
    BY <1>3 DEF Start, RunnerSet, Judging
  <2> QED BY <2>1 DEF CheckedInv
<1>4. ASSUME End PROVE CheckedInv'
  BY <1>4 DEF End, Off, CheckedInv
<1>5. ASSUME NEW l \in Lockfiles, Edit(l) PROVE CheckedInv'
  <2>1. /\ touched' = touched \cup {l} /\ UNCHANGED runner
        /\ \A k \in Lockfiles : k # l => disk'[k] = disk[k]
    BY <1>5 DEF Edit, compilation
  <2>2. \A q \in runner.checked : q.path \in Lockfiles
    BY DEF RunnerSet, PinSet
  <2> QED BY <2>1, <2>2 DEF CheckedInv
<1>6. ASSUME \/ GitCommit \/ CompileStep
             \/ \E f \in ProfileFiles : \/ EditProfile(f) \/ Export(f) \/ WriteSigned(f)
                                       \/ \E s \in Signers : ReadToSign(f, s)
      PROVE  UNCHANGED <<runner, touched, disk>>
  BY <1>6 DEF GitCommit, CompileStep, Compile, Walked, Walk, AskGit, ReadSource, WriteCompiled, Outside,
    EditProfile, Export, WriteSigned, ReadToSign, compilation
<1>7. UNCHANGED <<runner, touched, disk>> => CheckedInv'
  BY DEF CheckedInv
<1> QED BY <1>1, <1>2, <1>3, <1>4, <1>5, <1>6, <1>7 DEF ApprovalNext, RunGate

\* No lockfile is lost between the walk and the envelope: a compile that gets to
\* write has pins.
LEMMA FoundStep ==
  ASSUME ApprovalTypeOK, RootedInv, CompileStep
  PROVE  /\ compiler'.pc \in {"vcs", "write"} => compiler'.found # {}
         /\ compiler'.pc = "write" => Rooted(compiler'.held) /\ compiler'.asked # {}
         /\ IsFiniteSet(compiler'.found)
<1> USE DEF ApprovalTypeOK
<1> DEFINE goal == /\ compiler'.pc \in {"vcs", "write"} => compiler'.found # {}
                   /\ compiler'.pc = "write" => Rooted(compiler'.held) /\ compiler'.asked # {}
                   /\ IsFiniteSet(compiler'.found)
<1>1. compiler' = Idle => goal
  BY FS_EmptySet DEF Idle
<1>2. ASSUME Compile PROVE goal
  <2>1. compiler'.pc = "walk" /\ compiler'.found = {}
    BY <1>2 DEF Compile, Idle
  <2> QED BY <2>1, FS_EmptySet
<1>3. ASSUME NEW l \in Lockfiles, Walk(l) PROVE goal
  <2>1. compiler'.pc = "walk" /\ compiler'.found \in {compiler.found, compiler.found \cup {<<l, disk[l]>>}}
    BY <1>3 DEF Walk, CompilerSet
  <2>2. IsFiniteSet(compiler'.found)
    <3>1. IsFiniteSet(compiler.found \cup {<<l, disk[l]>>})
      BY FS_AddElement, Zenon DEF RootedInv
    <3> QED BY <2>1, <3>1, Zenon DEF RootedInv
  <2> QED BY <2>1, <2>2
<1>4. ASSUME Walked, compiler.found # {} PROVE goal
  <2>1. compiler'.pc = "vcs" /\ compiler'.found \in {compiler.found, Chosen(compiler.found)}
    BY <1>4 DEF Walked, CompilerSet
  <2>2. Chosen(compiler.found) \subseteq compiler.found /\ Chosen(compiler.found) # {}
    BY <1>4 DEF Chosen
  <2>3. IsFiniteSet(compiler'.found)
    BY <2>1, <2>2, FS_Subset DEF RootedInv
  <2> QED BY <1>4, <2>1, <2>2, <2>3
<1>5. ASSUME NEW x \in compiler.found, AskGit(x[1], x[2]) PROVE goal
  <2>1. compiler'.pc = "vcs" /\ compiler'.found = compiler.found
    BY <1>5 DEF AskGit, CompilerSet
  <2> QED BY <2>1 DEF RootedInv
<1>6. ASSUME NEW f \in ProfileFiles, ReadSource(f), file[f].sig = NoSignature PROVE goal
  <2>1. /\ compiler'.pc = "write" /\ compiler'.held = file[f]
        /\ compiler'.found = compiler.found /\ compiler'.asked = compiler.asked
    BY <1>6 DEF ReadSource, CompilerSet
  <2>2. /\ compiler.found # {} /\ IsFiniteSet(compiler.found) /\ compiler.pc = "vcs"
        /\ Cardinality(compiler.asked) = Cardinality(compiler.found)
    BY <1>6 DEF ReadSource, RootedInv
  <2>3. compiler.asked # {}
    BY <2>2, FS_EmptySet
  <2> QED BY <2>1, <2>2, <2>3 DEF RootedInv
<1>7. ASSUME Walked, compiler.found = {} PROVE compiler' = Idle
  BY <1>7 DEF Walked
<1>8. ASSUME NEW f \in ProfileFiles, ReadSource(f), file[f].sig # NoSignature PROVE compiler' = Idle
  BY <1>8 DEF ReadSource
<1>9. ASSUME NEW f \in ProfileFiles, WriteCompiled(f) PROVE compiler' = Idle
  BY <1>9 DEF WriteCompiled
<1> HIDE DEF goal
<1>10. goal
  BY <1>1, <1>2, <1>3, <1>4, <1>5, <1>6, <1>7, <1>8, <1>9 DEF CompileStep
<1> QED BY <1>10 DEF goal

LEMMA RootedFiles ==
  ASSUME ApprovalTypeOK, RootedInv, ApprovalNext, NEW g \in ProfileFiles
  PROVE  Rooted(file'[g])
<1> USE DEF ApprovalTypeOK
<1>1. Rooted(file[g])
  BY DEF RootedInv
<1>2. ASSUME NEW f \in ProfileFiles, NEW p, Rooted(p), file' = [file EXCEPT ![f] = p]
      PROVE  Rooted(file'[g])
  BY <1>1, <1>2
<1>3. ASSUME NEW f \in ProfileFiles, WriteCompiled(f) PROVE Rooted(file'[g])
  <2>1. PICK replace \in BOOLEAN :
          file' = [file EXCEPT ![f] = Applied(compiler.held, compiler.asked, replace)]
    BY <1>3 DEF WriteCompiled
  <2>2. Rooted(compiler.held) /\ compiler.asked # {}
    BY <1>3 DEF WriteCompiled, RootedInv
  <2>3. compiler.held \in ProfileSet /\ compiler.asked \in SUBSET PinSet
    BY DEF CompilerSet
  <2>4. Rooted(Applied(compiler.held, compiler.asked, replace))
    BY <2>2, <2>3, AppliedType
  <2> QED BY <1>2, <2>1, <2>4
<1>4. ASSUME NEW f \in ProfileFiles, EditProfile(f) PROVE Rooted(file'[g])
  <2>1. CASE file' = [file EXCEPT ![f].net = @ \cup {Wider}, ![f].hand = TRUE]
    <3>1. CASE g = f
      <4>1. file'[g].hand = TRUE
        BY <2>1, <3>1 DEF ProfileSet
      <4> QED BY <4>1 DEF Rooted
    <3>2. CASE g # f
      BY <1>1, <2>1, <3>2
    <3> QED BY <3>1, <3>2
  <2>2. CASE file' = [file EXCEPT ![f].sig = NoSignature]
    <3>1. /\ file'[g].hand = file[g].hand /\ file'[g].net = file[g].net
          /\ file'[g].pins = file[g].pins
      BY <2>2 DEF ProfileSet
    <3> QED BY <1>1, <3>1 DEF Rooted
  <2> QED BY <1>4, <2>1, <2>2 DEF EditProfile
<1>5. ASSUME NEW f \in ProfileFiles, Export(f) PROVE Rooted(file'[g])
  <2>1. Rooted(Fresh)
    BY FreshType DEF Rooted
  <2> QED BY <1>2, <1>5, <2>1 DEF Export
<1>6. ASSUME NEW f \in ProfileFiles, WriteSigned(f) PROVE Rooted(file'[g])
  <2>1. PICK commit \in CommitOrNone : file' = [file EXCEPT ![f] = SignedAs(signer.held, commit, signer.by)]
    BY <1>6 DEF WriteSigned, SignedAs, CommitOrNone
  <2> DEFINE q == SignedAs(signer.held, commit, signer.by)
  <2>2. signer.held \in ProfileSet /\ signer.by \in Signers \cup {Nobody}
    BY DEF SignerSet
  <2>3. q.net = signer.held.net /\ q.pins = signer.held.pins /\ q.hand = signer.held.hand
    BY <2>2, SignedType, Zenon
  <2>4. file' = [file EXCEPT ![f] = q]
    BY <2>1
  <2> HIDE DEF q
  <2>5. Rooted(q)
    BY <1>6, <2>3 DEF WriteSigned, RootedInv, Rooted
  <2> QED BY <1>2, <2>4, <2>5
<1>7. ASSUME \/ GitCommit \/ RunGate \/ Compile \/ Walked
             \/ \E l \in Lockfiles : Walk(l) \/ Edit(l)
             \/ \E x \in compiler.found : AskGit(x[1], x[2])
             \/ \E f \in ProfileFiles : ReadSource(f) \/ \E s \in Signers : ReadToSign(f, s)
      PROVE  UNCHANGED file
  BY <1>7 DEF GitCommit, RunGate, Start, End, LoadAndCheck, VerifyPin, Judging, Compile, Walked,
    Walk, Edit, AskGit, ReadSource, ReadToSign
<1> QED BY <1>1, <1>3, <1>4, <1>5, <1>6, <1>7 DEF ApprovalNext, CompileStep

LEMMA RootedStep ==
  ASSUME ApprovalTypeOK, RootedInv, ApprovalNext
  PROVE  RootedInv'
<1>1. ASSUME ~CompileStep PROVE UNCHANGED compiler
  BY <1>1 DEF ApprovalNext, GitCommit, EditProfile, Export, WriteSigned, ReadToSign, RunGate, Start, End,
    LoadAndCheck, VerifyPin, Judging, Edit, compilation
<1>2. /\ compiler'.pc \in {"vcs", "write"} => compiler'.found # {}
      /\ compiler'.pc = "write" => Rooted(compiler'.held) /\ compiler'.asked # {}
      /\ IsFiniteSet(compiler'.found)
  <2>1. CASE CompileStep
    BY <2>1, FoundStep
  <2>2. CASE ~CompileStep
    BY <1>1, <2>2 DEF RootedInv
  <2> QED BY <2>1, <2>2
<1>3. ASSUME signer'.pc = "sign" PROVE Rooted(signer'.held)
  <2>1. ASSUME NEW f \in ProfileFiles, NEW s \in Signers, ReadToSign(f, s)
        PROVE  Rooted(signer'.held)
    BY <2>1 DEF ReadToSign, RootedInv
  <2>2. ASSUME NEW f \in ProfileFiles, WriteSigned(f)
        PROVE  FALSE
    BY <1>3, <2>2 DEF WriteSigned, Unsigned
  <2>3. ASSUME \/ GitCommit \/ RunGate \/ CompileStep
               \/ \E l \in Lockfiles : Edit(l)
               \/ \E f \in ProfileFiles : EditProfile(f) \/ Export(f)
        PROVE  UNCHANGED signer
    BY <2>3 DEF GitCommit, RunGate, Start, End, LoadAndCheck, VerifyPin, Judging, CompileStep, Compile,
      Walked, Walk, Edit, AskGit, ReadSource, WriteCompiled, Outside, EditProfile, Export, compilation
  <2> QED BY <1>3, <2>1, <2>2, <2>3 DEF ApprovalNext, RootedInv
<1> QED BY <1>2, <1>3, RootedFiles DEF RootedInv

LEMMA ApprovalInvInit == LearnInit => ApprovalInv
<1> SUFFICES ASSUME LearnInit PROVE ApprovalInv
  OBVIOUS
<1>1. ApprovalInit
  BY DEF LearnInit
<1>2. Rooted(Fresh) /\ Vouched(Fresh, presented)
  BY FreshType DEF Rooted, Vouched
<1>3. VouchedInv
  BY <1>1, <1>2 DEF VouchedInv, ApprovalInit, Idle, Unsigned, Off
<1>4. CheckedInv
  BY <1>1 DEF CheckedInv, ApprovalInit, Off
<1>5. RootedInv
  BY <1>1, <1>2, FS_EmptySet DEF RootedInv, ApprovalInit, Idle, Unsigned
<1> QED BY <1>1, <1>3, <1>4, <1>5, ApprovalTypeInit DEF ApprovalInv

LEMMA ApprovalInvStep == ApprovalInv /\ [LearnNext]_learnVars => ApprovalInv'
<1> SUFFICES ASSUME ApprovalInv, [LearnNext]_learnVars PROVE ApprovalInv'
  OBVIOUS
<1>1. CASE ApprovalNext
  BY <1>1, ApprovalTypeStep, VouchedStep, CheckedStep, RootedStep DEF ApprovalInv
<1>2. CASE UNCHANGED approvalVars
  BY <1>2 DEF approvalVars, ApprovalInv, ApprovalTypeOK, VouchedInv, CheckedInv, RootedInv
<1>3. ApprovalNext \/ UNCHANGED approvalVars
  BY DEF LearnNext, Learn, learnVars
<1> QED BY <1>1, <1>2, <1>3

\* The invariant of compiling, signing and the gates of a run.
THEOREM ApprovalInductive == LearnSpec => []ApprovalInv
BY ApprovalInvInit, ApprovalInvStep, PTL DEF LearnSpec

\* A run that demands a signature starts only under domains and pins that the signer
\* had before him together, and with its pinned lockfiles as they were when it was
\* compiled (ql run's check_signature and verify_pins, after any commands and edits).
THEOREM RunsStartApproved == LearnSpec => []StartsAsApproved
<1>1. ApprovalInv => StartsAsApproved
  BY DEF ApprovalInv, VouchedInv, CheckedInv, StartsAsApproved
<1> QED BY <1>1, ApprovalInductive, PTL

\* The domains that `ql compile` adds to a profile are those of the lockfiles it is
\* pinned to (assemble, apply_to and pin_lockfiles, through signing and approving).
THEOREM DomainsHaveRoots == LearnSpec => []RegistriesPinned
<1>1. ApprovalInv => RegistriesPinned
  BY DEF ApprovalInv, RootedInv, Rooted, RegistriesPinned
<1> QED BY <1>1, ApprovalInductive, PTL

-----------------------------------------------------------------------------
(* Recording a run and replaying it.                                       *)

LineSet == [axis : {"egress", "exec"}, allowed : BOOLEAN, target : Hosts \cup Programs,
            rule : {"host not in allow-list", "allowed", "host did not resolve",
                    "private address", "digest"}]
Elements(s) == {s[i] : i \in DOMAIN s}

\* Lines of an axis that say of a target that it was let through, and the reverse.
Shown(told, axis, target) ==
  \E l \in told : l.axis = axis /\ l.allowed /\ l.target = target
LetDo(ops, axis, target) == \E op \in ops : op.axis = axis /\ op.target = target

\* The stream has a line for whatever the broker or the wall decided, and no other,
\* unless a write was lost.
StreamInv ==
  /\ lines \in Seq(LineSet) /\ execLines \in Seq(LineSet)
  /\ \A l \in Elements(execLines) : l.axis = "exec"
  /\ \A l \in Elements(lines) \cup Elements(execLines) :
       /\ l.allowed => LetDo(let, l.axis, l.target)
       /\ l.axis = "egress" => (l.allowed <=> l.rule = "allowed")
       /\ l.axis = "exec" => policy.enforce
  /\ \A op \in let :
       \/ /\ op.axis = "egress"
          /\ op.addr \in Addresses /\ Evaluate(policy, op.target, op.addr) = "allowed"
          /\ lost \/ Shown(Elements(lines), "egress", op.target)
       \/ /\ op.axis = "exec"
          /\ policy.enforce /\ ~lost =>
               Shown(Elements(lines) \cup Elements(execLines), "exec", op.target)
  /\ recording = "over" => execLines = <<>>
  /\ verdict # {} => recording = "over"

LEMMA ElementsAppend ==
  ASSUME NEW S, NEW s \in Seq(S), NEW e \in S
  PROVE  Append(s, e) \in Seq(S) /\ Elements(Append(s, e)) = Elements(s) \cup {e}
<1> DEFINE t == Append(s, e)
<1>1. t \in Seq(S) /\ Len(t) = Len(s) + 1 /\ t[Len(s) + 1] = e
      /\ \A i \in 1..Len(s) : t[i] = s[i]
  OBVIOUS
<1>2. DOMAIN t = 1..(Len(s) + 1) /\ DOMAIN s = 1..Len(s) /\ Len(s) \in Nat
  BY <1>1
<1> HIDE DEF t
<1>3. \A x \in Elements(t) : x \in Elements(s) \cup {e}
  BY <1>1, <1>2 DEF Elements
<1>4. \A x \in Elements(s) : x \in Elements(t)
  BY <1>1, <1>2 DEF Elements
<1>5. e \in Elements(t)
  BY <1>1, <1>2 DEF Elements
<1>6. Elements(t) = Elements(s) \cup {e}
  BY <1>3, <1>4, <1>5
<1> QED BY <1>1, <1>6 DEF t

LEMMA ElementsHeadTail ==
  ASSUME NEW S, NEW s \in Seq(S), s # <<>>
  PROVE  /\ Head(s) \in S /\ Tail(s) \in Seq(S)
         /\ Elements(s) = {Head(s)} \cup Elements(Tail(s))
<1>1. /\ Head(s) \in S /\ Tail(s) \in Seq(S) /\ Len(s) \in Nat \ {0}
      /\ s[1] = Head(s) /\ Len(Tail(s)) = Len(s) - 1
      /\ \A i \in 1..(Len(s) - 1) : Tail(s)[i] = s[i + 1]
  OBVIOUS
<1> DEFINE t == Tail(s)
<1>2. DOMAIN t = 1..(Len(s) - 1) /\ DOMAIN s = 1..Len(s)
  BY <1>1
<1>3. Len(s) \in Nat \ {0} /\ s[1] = Head(s) /\ \A i \in 1..(Len(s) - 1) : t[i] = s[i + 1]
  BY <1>1
<1> HIDE DEF t
<1>4. \A x \in Elements(s) : x = Head(s) \/ x \in Elements(t)
  <2> SUFFICES ASSUME NEW i \in 1..Len(s), s[i] # Head(s) PROVE s[i] \in Elements(t)
    BY <1>2 DEF Elements
  <2>1. i - 1 \in 1..(Len(s) - 1) /\ t[i - 1] = s[(i - 1) + 1] /\ (i - 1) + 1 = i
    BY <1>3
  <2> QED BY <1>2, <2>1 DEF Elements
<1>5. \A x \in Elements(t) : x \in Elements(s)
  <2> SUFFICES ASSUME NEW i \in 1..(Len(s) - 1) PROVE t[i] \in Elements(s)
    BY <1>2 DEF Elements
  <2> QED BY <1>2, <1>3 DEF Elements
<1>6. Head(s) \in Elements(s)
  BY <1>2, <1>3 DEF Elements
<1>7. Elements(s) = {Head(s)} \cup Elements(t)
  BY <1>4, <1>5, <1>6
<1> QED BY <1>1, <1>7 DEF t

LEMMA StreamInit == ReplayInit => StreamInv
BY DEF ReplayInit, StreamInv, Elements

\* What holds of a decision stays so when more is let through and told.
LEMMA StreamGrows ==
  ASSUME NEW ops, NEW more, ops \subseteq more, NEW told, NEW longer, told \subseteq longer,
         NEW axis, NEW target
  PROVE  /\ LetDo(ops, axis, target) => LetDo(more, axis, target)
         /\ Shown(told, axis, target) => Shown(longer, axis, target)
BY DEF LetDo, Shown

LEMMA DialStream ==
  ASSUME StreamInv, NEW h \in Hosts, NEW a \in Addresses, Dial(h, a)
  PROVE  StreamInv'
<1> DEFINE rule == Evaluate(policy, h, a)
           op == [axis |-> "egress", target |-> h, addr |-> a]
           line == [axis |-> "egress", allowed |-> rule = "allowed", target |-> h, rule |-> rule]
<1>1. rule \in {"host not in allow-list", "allowed", "host did not resolve", "private address"}
  BY DEF Evaluate
<1>2. /\ recording = "open" /\ UNCHANGED <<recording, policy, execLines, verdict>>
      /\ \/ lines' = Append(lines, line) /\ UNCHANGED lost
         \/ UNCHANGED lines /\ lost' = TRUE
      /\ let' = IF rule = "allowed" THEN let \cup {op} ELSE let
  BY DEF Dial, Write
<1> HIDE DEF rule
<1>3. line \in LineSet
  BY <1>1 DEF LineSet
<1>4. /\ line.axis = "egress" /\ line.target = h /\ line.rule = rule
      /\ line.allowed <=> rule = "allowed"
  OBVIOUS
<1>5. op.axis = "egress" /\ op.target = h /\ op.addr = a
  OBVIOUS
<1> HIDE DEF line, op
<1>6. lines' \in Seq(LineSet)
      /\ \/ Elements(lines') = Elements(lines) \cup {line} /\ UNCHANGED lost
         \/ Elements(lines') = Elements(lines) /\ lost'
  <2>1. lines \in Seq(LineSet)
    BY DEF StreamInv
  <2>2. CASE lines' = Append(lines, line) /\ UNCHANGED lost
    BY <1>3, <2>1, <2>2, ElementsAppend, Zenon
  <2>3. CASE UNCHANGED lines /\ lost' = TRUE
    BY <2>1, <2>3
  <2> QED BY <1>2, <2>2, <2>3
<1>7. let \subseteq let' /\ (rule = "allowed" => op \in let') /\ \A o \in let' : o \in let \/ (o = op /\ rule = "allowed")
  <2>1. CASE rule = "allowed"
    BY <1>2, <2>1
  <2>2. CASE rule # "allowed"
    BY <1>2, <2>2
  <2> QED BY <2>1, <2>2
<1>8. ASSUME NEW l \in Elements(lines') \cup Elements(execLines)
      PROVE  /\ l.allowed => LetDo(let', l.axis, l.target)
             /\ l.axis = "egress" => (l.allowed <=> l.rule = "allowed")
             /\ l.axis = "exec" => policy.enforce
  <2>1. CASE l = line
    BY <1>4, <1>5, <1>7, <2>1 DEF LetDo
  <2>2. CASE l \in Elements(lines) \cup Elements(execLines)
    BY <1>7, <2>2, StreamGrows DEF StreamInv
  <2> QED BY <1>6, <2>1, <2>2
<1>9. ASSUME NEW o \in let'
      PROVE  \/ /\ o.axis = "egress"
                /\ o.addr \in Addresses /\ Evaluate(policy, o.target, o.addr) = "allowed"
                /\ lost' \/ Shown(Elements(lines'), "egress", o.target)
             \/ /\ o.axis = "exec"
                /\ policy.enforce /\ ~lost' =>
                     Shown(Elements(lines') \cup Elements(execLines), "exec", o.target)
  <2>1. CASE o = op /\ rule = "allowed"
    BY <1>4, <1>5, <1>6, <2>1 DEF Shown, rule
  <2>2. CASE o \in let
    <3>1. Elements(lines) \subseteq Elements(lines') /\ (lost => lost')
      BY <1>6
    <3>2. Elements(lines) \cup Elements(execLines) \subseteq Elements(lines') \cup Elements(execLines)
      BY <3>1
    <3> QED BY <2>2, <3>1, <3>2, StreamGrows DEF StreamInv
  <2> QED BY <1>7, <2>1, <2>2
<1> QED BY <1>2, <1>6, <1>8, <1>9 DEF StreamInv

LEMMA LaunchStream ==
  ASSUME StreamInv, NEW f \in Programs, Launch(f)
  PROVE  StreamInv'
<1> DEFINE allowed == policy.enforce => f \in policy.digests
           op == [axis |-> "exec", target |-> f, addr |-> "none"]
           line == [axis |-> "exec", allowed |-> allowed, target |-> f, rule |-> "digest"]
<1>1. /\ recording = "open" /\ UNCHANGED <<recording, policy, lines, lost, verdict>>
      /\ let' = IF allowed THEN let \cup {op} ELSE let
      /\ execLines' = IF policy.enforce THEN Append(execLines, line) ELSE execLines
  BY DEF Launch
<1> HIDE DEF allowed
<1>2. allowed \in BOOLEAN
  BY DEF allowed
<1>3. line \in LineSet
  BY <1>2 DEF LineSet
<1>4. line.axis = "exec" /\ line.target = f /\ (line.allowed <=> allowed)
  BY <1>2
<1>5. op.axis = "exec" /\ op.target = f
  OBVIOUS
<1> HIDE DEF line, op
<1>6. execLines' \in Seq(LineSet)
      /\ \/ policy.enforce /\ Elements(execLines') = Elements(execLines) \cup {line}
         \/ ~policy.enforce /\ Elements(execLines') = Elements(execLines)
  BY <1>1, <1>3, ElementsAppend DEF StreamInv
<1>7. let \subseteq let' /\ (allowed => op \in let') /\ \A o \in let' : o \in let \/ (o = op /\ allowed)
  <2>1. CASE allowed
    BY <1>1, <2>1
  <2>2. CASE ~allowed
    BY <1>1, <2>2
  <2> QED BY <2>1, <2>2
<1>8. ASSUME NEW l \in Elements(lines) \cup Elements(execLines')
      PROVE  /\ l.allowed => LetDo(let', l.axis, l.target)
             /\ l.axis = "egress" => (l.allowed <=> l.rule = "allowed")
             /\ l.axis = "exec" => policy.enforce
  <2>1. CASE l = line /\ policy.enforce
    BY <1>4, <1>5, <1>7, <2>1 DEF LetDo
  <2>2. CASE l \in Elements(lines) \cup Elements(execLines)
    BY <1>7, <2>2, StreamGrows DEF StreamInv
  <2> QED BY <1>6, <2>1, <2>2
<1>9. ASSUME NEW o \in let'
      PROVE  \/ /\ o.axis = "egress"
                /\ o.addr \in Addresses /\ Evaluate(policy, o.target, o.addr) = "allowed"
                /\ lost \/ Shown(Elements(lines), "egress", o.target)
             \/ /\ o.axis = "exec"
                /\ policy.enforce /\ ~lost =>
                     Shown(Elements(lines) \cup Elements(execLines'), "exec", o.target)
  <2>1. CASE o = op /\ allowed
    BY <1>4, <1>5, <1>6, <2>1 DEF Shown
  <2>2. CASE o \in let
    <3>1. Elements(lines) \cup Elements(execLines) \subseteq Elements(lines) \cup Elements(execLines')
      BY <1>6
    <3> QED BY <2>2, <3>1, StreamGrows DEF StreamInv
  <2> QED BY <1>7, <2>1, <2>2
<1>10. \A l \in Elements(execLines') : l.axis = "exec"
  BY <1>4, <1>6 DEF StreamInv
<1> QED BY <1>1, <1>6, <1>8, <1>9, <1>10 DEF StreamInv

LEMMA DrainStream ==
  ASSUME StreamInv, Drain
  PROVE  StreamInv'
<1>1. /\ recording' = "ending" /\ recording # "over" /\ execLines # <<>> /\ execLines' = Tail(execLines)
      /\ \/ lines' = Append(lines, Head(execLines)) /\ UNCHANGED lost
         \/ UNCHANGED lines /\ lost' = TRUE
      /\ UNCHANGED <<policy, let, verdict>>
  BY DEF Drain, Write
<1>2. /\ Head(execLines) \in LineSet /\ execLines' \in Seq(LineSet)
      /\ Elements(execLines) = {Head(execLines)} \cup Elements(execLines')
  BY <1>1, ElementsHeadTail DEF StreamInv
<1>3. lines' \in Seq(LineSet)
      /\ \/ Elements(lines') = Elements(lines) \cup {Head(execLines)} /\ UNCHANGED lost
         \/ Elements(lines') = Elements(lines) /\ lost'
  <2>1. lines \in Seq(LineSet)
    BY DEF StreamInv
  <2>2. CASE lines' = Append(lines, Head(execLines)) /\ UNCHANGED lost
    <3>1. Head(execLines) \in LineSet
      BY <1>2
    <3>2. /\ Append(lines, Head(execLines)) \in Seq(LineSet)
          /\ Elements(Append(lines, Head(execLines))) = Elements(lines) \cup {Head(execLines)}
      <4>1. \A e \in LineSet : /\ Append(lines, e) \in Seq(LineSet)
                              /\ Elements(Append(lines, e)) = Elements(lines) \cup {e}
        BY <2>1, ElementsAppend, Zenon
      <4> QED BY <3>1, <4>1
    <3> QED BY <2>2, <3>2, Zenon
  <2>3. CASE UNCHANGED lines /\ lost' = TRUE
    BY <2>1, <2>3
  <2> QED BY <1>1, <2>2, <2>3
<1>4. /\ Elements(lines') \cup Elements(execLines') \subseteq Elements(lines) \cup Elements(execLines)
      /\ lost' \/ Elements(lines') \cup Elements(execLines') = Elements(lines) \cup Elements(execLines)
      /\ Elements(lines) \subseteq Elements(lines') /\ (lost => lost')
      /\ Elements(execLines') \subseteq Elements(execLines)
  BY <1>2, <1>3
<1>5. \A l \in Elements(lines') \cup Elements(execLines') :
        /\ l.allowed => LetDo(let, l.axis, l.target)
        /\ l.axis = "egress" => (l.allowed <=> l.rule = "allowed")
        /\ l.axis = "exec" => policy.enforce
  BY <1>4 DEF StreamInv
<1>6. ASSUME NEW o \in let
      PROVE  \/ /\ o.axis = "egress"
                /\ o.addr \in Addresses /\ Evaluate(policy, o.target, o.addr) = "allowed"
                /\ lost' \/ Shown(Elements(lines'), "egress", o.target)
             \/ /\ o.axis = "exec"
                /\ policy.enforce /\ ~lost' =>
                     Shown(Elements(lines') \cup Elements(execLines'), "exec", o.target)
  BY <1>4, StreamGrows DEF StreamInv
<1> QED BY <1>1, <1>2, <1>3, <1>4, <1>5, <1>6 DEF StreamInv

LEMMA StreamStep ==
  ASSUME StreamInv, ReplayNext
  PROVE  StreamInv'
<1>1. ASSUME Record \/ Over \/ \E p \in Policies : Propose(p) PROVE StreamInv'
  <2>1. /\ UNCHANGED <<policy, lines, execLines, let>> /\ (lost => lost')
        /\ recording' = "over" => execLines = <<>>
        /\ verdict' # {} => recording' = "over"
    BY <1>1 DEF Record, Over, Propose, StreamInv
  <2> QED BY <2>1 DEF StreamInv
<1> QED BY <1>1, DialStream, LaunchStream, DrainStream DEF ReplayNext

\* What is on an axis of the stream is what was let through there, if nothing was lost.
LEMMA OnAxis ==
  ASSUME NEW axis
  PROVE  On(axis) = {l \in Elements(lines) : l.axis = axis}
BY DEF On, Elements

LEMMA EgressHonest ==
  ASSUME StreamInv, ~lost, NEW p, p.private => policy.private
  PROVE  /\ ReplayEgress(p) = "pass" => \A op \in Doing("egress") : ~Denies(p, op)
         /\ ReplayEgress(p) = "fail" => \E op \in Doing("egress") : Denies(p, op)
<1> DEFINE V(l) == EgressVerdict(p, l)
           regressed == \E l \in On("egress") : l.allowed /\ EgressVerdict(p, l) = "deny"
           undetermined == \E l \in On("egress") : EgressVerdict(p, l) = "unknown"
<1>1. ReplayEgress(p) =
        CASE On("egress") = {} -> IF header # {"missing"} /\ "egress" \in header
                                  THEN "pass" ELSE "unknown"
          [] regressed         -> "fail"
          [] OTHER             -> IF undetermined THEN "unknown" ELSE "pass"
  BY DEF ReplayEgress, Regressed, Undetermined
<1>2. ASSUME ReplayEgress(p) = "pass", NEW op \in Doing("egress")
      PROVE  ~Denies(p, op)
  <2>1. /\ op \in let /\ op.axis = "egress" /\ op.addr \in Addresses
        /\ Evaluate(policy, op.target, op.addr) = "allowed"
        /\ Shown(Elements(lines), "egress", op.target)
    BY DEF Doing, StreamInv
  <2>2. PICK l \in Elements(lines) : l.axis = "egress" /\ l.allowed /\ l.target = op.target
    BY <2>1 DEF Shown
  <2>3. l \in On("egress")
    BY <2>2, OnAxis
  <2>4. EgressVerdict(p, l) # "deny"
    BY <1>1, <1>2, <2>2, <2>3
  <2>5. HostAllowed(p, op.target)
    BY <2>2, <2>4 DEF EgressVerdict
  <2>6. policy.private => op.addr = "public"
    BY <2>1 DEF Evaluate, Addresses
  <2>7. Evaluate(p, op.target, op.addr) = "allowed"
    BY <2>5, <2>6 DEF Evaluate
  <2> QED BY <2>1, <2>7 DEF Denies
<1>3. ASSUME ReplayEgress(p) = "fail"
      PROVE  \E op \in Doing("egress") : Denies(p, op)
  <2>1. regressed
    BY <1>1, <1>3
  <2>2. PICK l \in On("egress") : l.allowed /\ EgressVerdict(p, l) = "deny"
    BY <2>1
  <2>3. l \in Elements(lines) /\ l.axis = "egress"
    BY OnAxis
  <2>4. l.rule = "allowed" /\ LetDo(let, "egress", l.target)
    BY <2>2, <2>3 DEF StreamInv
  <2>5. PICK op \in let : op.axis = "egress" /\ op.target = l.target
    BY <2>4 DEF LetDo
  <2>6. ~HostAllowed(p, op.target)
    BY <2>2, <2>4, <2>5 DEF EgressVerdict
  <2>7. Evaluate(p, op.target, op.addr) = "host not in allow-list"
    BY <2>6 DEF Evaluate
  <2>8. Denies(p, op) /\ op \in Doing("egress")
    BY <2>5, <2>7 DEF Denies, Doing
  <2> QED BY <2>8
<1> QED BY <1>2, <1>3

LEMMA ExecHonest ==
  ASSUME StreamInv, ~lost, execLines = <<>>, NEW p
  PROVE  /\ ReplayExec(p) = "pass" => \A op \in Doing("exec") : ~Denies(p, op)
         /\ ReplayExec(p) = "fail" => \E op \in Doing("exec") : Denies(p, op)
<1> DEFINE regressed == \E l \in On("exec") : l.allowed /\ ExecVerdict(p, l) = "deny"
<1>1. ReplayExec(p) =
        CASE On("exec") = {} -> "unknown"
          [] OTHER           -> IF regressed THEN "fail" ELSE "pass"
  BY DEF ReplayExec, Regressed
<1>2. Elements(execLines) = {}
  BY DEF Elements
<1>3. ASSUME ReplayExec(p) = "pass", NEW op \in Doing("exec")
      PROVE  ~Denies(p, op)
  <2>1. On("exec") # {} /\ ~regressed
    BY <1>1, <1>3
  <2>2. policy.enforce
    BY <2>1, OnAxis DEF StreamInv
  <2>3. op \in let /\ op.axis = "exec"
    BY DEF Doing
  <2>4. Shown(Elements(lines) \cup Elements(execLines), "exec", op.target)
    BY <2>2, <2>3 DEF StreamInv
  <2>5. PICK l \in Elements(lines) : l.axis = "exec" /\ l.allowed /\ l.target = op.target
    BY <1>2, <2>4 DEF Shown
  <2>6. l \in On("exec")
    BY <2>5, OnAxis
  <2>7. ExecVerdict(p, l) # "deny"
    BY <2>1, <2>5, <2>6
  <2>8. p.enforce => op.target \in p.digests
    BY <2>5, <2>7 DEF ExecVerdict
  <2> QED BY <2>3, <2>8 DEF Denies
<1>4. ASSUME ReplayExec(p) = "fail"
      PROVE  \E op \in Doing("exec") : Denies(p, op)
  <2>1. regressed
    BY <1>1, <1>4
  <2>2. PICK l \in On("exec") : l.allowed /\ ExecVerdict(p, l) = "deny"
    BY <2>1
  <2>3. l \in Elements(lines) /\ l.axis = "exec"
    BY OnAxis
  <2>4. LetDo(let, "exec", l.target)
    BY <2>2, <2>3 DEF StreamInv
  <2>5. PICK op \in let : op.axis = "exec" /\ op.target = l.target
    BY <2>4 DEF LetDo
  <2>6. p.enforce /\ l.target \notin p.digests
    BY <2>2 DEF ExecVerdict
  <2>7. Denies(p, op) /\ op \in Doing("exec")
    BY <2>5, <2>6 DEF Denies, Doing
  <2> QED BY <2>7
<1> QED BY <1>3, <1>4

LEMMA HonestStep ==
  ASSUME StreamInv, ReplayHonest, ReplayNext
  PROVE  ReplayHonest'
<1>1. ASSUME NEW p \in Policies, Propose(p) PROVE ReplayHonest'
  <2> DEFINE v == [egress |-> ReplayEgress(p), exec |-> ReplayExec(p), policy |-> p]
  <2>1. /\ verdict' = {v} /\ UNCHANGED <<let, lost, policy>> /\ execLines = <<>>
    BY <1>1 DEF Propose, StreamInv
  <2>2. v["egress"] = ReplayEgress(p) /\ v["exec"] = ReplayExec(p) /\ v.policy = p
    OBVIOUS
  <2> HIDE DEF v
  <2>3. ASSUME ~lost, v.policy.private => policy.private, NEW axis \in {"egress", "exec"}
        PROVE  /\ v[axis] = "pass" => \A op \in Doing(axis) : ~Denies(v.policy, op)
               /\ v[axis] = "fail" => \E op \in Doing(axis) : Denies(v.policy, op)
    <3>1. CASE axis = "egress"
      BY <2>2, <2>3, <3>1, EgressHonest
    <3>2. CASE axis = "exec"
      BY <2>1, <2>2, <2>3, <3>2, ExecHonest
    <3> QED BY <3>1, <3>2
  <2> QED BY <2>1, <2>3 DEF ReplayHonest, Doing
<1>2. ASSUME ReplayNext, ~(\E p \in Policies : Propose(p)) PROVE ReplayHonest'
  <2>1. CASE verdict = {}
    <3>1. verdict' = {}
      BY <1>2, <2>1 DEF ReplayNext, Record, Dial, Launch, Drain, Over
    <3> QED BY <3>1 DEF ReplayHonest
  <2>2. CASE verdict # {}
    BY <1>2, <2>2 DEF StreamInv, ReplayNext, Record, Dial, Launch, Drain, Over
  <2> QED BY <2>1, <2>2
<1> QED BY <1>1, <1>2

LEMMA ReplayInvStep ==
  StreamInv /\ ReplayHonest /\ [LearnNext]_learnVars => (StreamInv /\ ReplayHonest)'
<1> SUFFICES ASSUME StreamInv, ReplayHonest, [LearnNext]_learnVars
             PROVE  (StreamInv /\ ReplayHonest)'
  OBVIOUS
<1>1. CASE ReplayNext
  BY <1>1, StreamStep, HonestStep
<1>2. CASE UNCHANGED replayVars
  BY <1>2 DEF replayVars, StreamInv, ReplayHonest, Doing
<1>3. ReplayNext \/ UNCHANGED replayVars
  BY DEF LearnNext, Learn, learnVars
<1> QED BY <1>1, <1>2, <1>3

\* A replay that passes an axis is right about everything the recorded workload was let
\* do, and one that fails can name what the proposed policy denies (`ql replay` over a
\* whole stream of `ql run --verdicts`).
THEOREM ReplaysAreHonest == LearnSpec => []ReplayHonest
<1>1. LearnInit => StreamInv /\ ReplayHonest
  BY StreamInit DEF LearnInit, ReplayInit, ReplayHonest
<1> QED BY <1>1, ReplayInvStep, PTL DEF LearnSpec

-----------------------------------------------------------------------------
(* Tracing an agent.                                                       *)

ExecCalls == {c \in Calls : c.nr = "execve"}
RunFiles == {Runs(Binary[c.path]) : c \in ExecCalls} \cup {Runs(Binary[p]) : p \in Commands}
            \cup {None}
EventSet == [kind : {"exec", "connect"}, pid : Tasks, ppid : Tasks \cup {None},
             path : {c.read : c \in ExecCalls} \cup {Where[Runs(Binary[p])] : p \in Commands} \cup {None},
             seq : Nat, failed : BOOLEAN, truth : RunFiles, forked : Nat]

TraceTypeOK ==
  /\ group \in [Tasks -> Tasks \cup {None}]
  /\ stop \in [Tasks -> {"none", "born", "run", "entry", "kernel", "exit", "gone"}]
  /\ call \in [Tasks -> [what : Calls \cup {[nr |-> "none"]}, done : BOOLEAN]]
  /\ running \in [Tasks -> RunFiles]
  /\ parent \in [Tasks -> Tasks \cup {None}]
  /\ born \in [Tasks -> [at : Nat, running : RunFiles]]
  /\ events \in Seq(EventSet)
  /\ atEntry \in [DOMAIN atEntry -> BOOLEAN] /\ DOMAIN atEntry \subseteq Tasks
  /\ plain \in BOOLEAN /\ ended \in BOOLEAN

\* A task is in a process as long as it lives, and the process's leader lives too.
ProcessInv ==
  \A t \in Tasks :
    /\ group[t] = None <=> stop[t] \in {"none", "gone"}
    /\ group[t] # None => group[group[t]] = group[t]

InExec(t) == stop[t] \in {"entry", "kernel", "exit"} /\ call[t].what.nr = "execve"

\* In a plain run no task is lost: the tracer knows whether the next stop is an entry,
\* and a process that execs is a single task.
ParityInv ==
  /\ DOMAIN atEntry = {t \in Tasks : stop[t] \in {"run", "entry", "kernel", "exit"}}
  /\ \A t \in DOMAIN atEntry : atEntry[t] <=> stop[t] \in {"run", "entry"}
  /\ \A t \in Tasks : stop[t] \in {"entry", "kernel"} => ~call[t].done /\ call[t].what \in Calls
  /\ \A t \in Tasks : InExec(t) =>
       /\ Told(call[t].what) \/ Vain(call[t].what)
       /\ call[t].what \in Calls
       /\ \A u \in Tasks : group[u] = group[t] => u = t

\* The failure of an exec that is not recorded finds no record to mark.
UnreadInv == \A t \in Tasks : InExec(t) /\ call[t].what.read = None => Marks(t) = {}

\* What the agent got at was recorded on the way in.
SeenInv ==
  LET Recorded == {o.place : o \in {o \in reads \cup writes : o.shown}}
  IN  /\ places \subseteq Recorded /\ used \subseteq syscalls
      /\ \A t \in Tasks :
           /\ stop[t] = "kernel" => call[t].what.nr \in syscalls
           /\ stop[t] \in {"entry", "kernel"} /\ call[t].what.nr = "openat" => call[t].what.shown
           /\ stop[t] = "kernel" /\ call[t].what.nr = "openat" => call[t].what.place \in Recorded

\* An exec that was recorded and has not succeeded yet, and its record.
Tentative(t) == /\ stop[t] \in {"kernel", "exit"} /\ call[t].what.nr = "execve"
                /\ ~call[t].done /\ call[t].what.read # None
ExecBy(i, t) == i \in DOMAIN events /\ events[i].kind = "exec" /\ events[i].pid = t
LastExec(i, t) ==
  /\ ExecBy(i, t) /\ ~events[i].failed /\ events[i].path = call[t].what.path
  /\ \A j \in DOMAIN events : ExecBy(j, t) => j <= i
OnTrial(i) == \E t \in Tasks : Tentative(t) /\ LastExec(i, t)
Standing(i) == i \in DOMAIN events /\ events[i].kind = "exec" /\ ~events[i].failed

\* The records of execs that stand are of what ran, but for those still on trial.
RanInv ==
  /\ \A t \in Tasks : Tentative(t) => \E i \in DOMAIN events : LastExec(i, t)
  /\ \A f \in ran : \E i \in DOMAIN events : Standing(i) /\ ~OnTrial(i) /\ Binary[events[i].path] = f
  /\ \A i \in DOMAIN events : Standing(i) => OnTrial(i) \/ Binary[events[i].path] \in ran
  /\ \A i \in DOMAIN events : events[i].kind = "exec" => events[i].path \in Absolute
  /\ ran # {}

\* An exec of q's that is known to have run, and the latest up to record `at`.
Solid(j, q) == ExecBy(j, q) /\ ~events[j].failed /\ ~OnTrial(j)
LatestSolid(j, q, at) == Solid(j, q) /\ j <= at /\ \A k : Solid(k, q) /\ k <= at => k <= j

\* By record `at` no exec of q's was still on trial; and q ran w then, if any.
Settled(q, at) == \A j : ExecBy(j, q) /\ j <= at => ~OnTrial(j)
RanAt(q, at, w) == \A j : LatestSolid(j, q, at) => Binary[events[j].path] = w
Unexeced(q) == \A j : ~ExecBy(j, q)

\* A record says when its process was forked, from whom, and as what; a connect was
\* made by what the records before it say.
RecordOK(i) ==
  /\ events[i].seq = i /\ events[i].forked < i
  /\ \A q \in Tasks : events[i].pid = q =>
       /\ stop[q] # "none" /\ events[i].forked = born[q].at
       /\ events[i].ppid \in {None, parent[q]}
       /\ events[i].kind = "exec" => events[i].truth = born[q].running
       /\ events[i].kind = "connect" =>
            /\ Settled(q, i) /\ \A w : events[i].truth = w => RanAt(q, i, w)
            /\ Unexeced(q) => events[i].truth = born[q].running

\* A process began as what the records say its parent ran at the fork.
ForkOK(u) ==
  /\ born[u].at <= Len(events)
  /\ \A q \in Tasks, at \in Nat : \A w :
       parent[u] = q /\ born[u].at = at /\ born[u].running = w =>
         Settled(q, at) /\ RanAt(q, at, w)

\* A process runs what its records say, and what it began as if it has none.
ImageOK(q) ==
  /\ \A n \in Nat : \A w : n = Len(events) /\ running[q] = w => RanAt(q, n, w)
  /\ stop[q] # "none" /\ Unexeced(q) => running[q] = born[q].running

TreeInv == /\ \A i \in DOMAIN events : RecordOK(i)
           /\ \A u \in Tasks : ForkOK(u) /\ ImageOK(u)

TracerInv == plain => ParityInv /\ UnreadInv /\ SeenInv /\ RanInv /\ TreeInv
EndInv == ended /\ plain => \A t \in Tasks : stop[t] \in {"none", "born", "gone"}
LearnedInv == profile # {} => ended /\ profile = {Synthesize}
TraceInv == TraceTypeOK /\ ProcessInv /\ TracerInv /\ EndInv /\ LearnedInv

-----------------------------------------------------------------------------
(* The tracer's tables.                                                    *)

\* mark_last_exec_failed changes the one mark only.
LEMMA MarkedFields ==
  ASSUME events \in Seq(EventSet), NEW pid
  PROVE  LET m == MarkFailed(pid)
         IN  /\ m \in Seq(EventSet) /\ DOMAIN m = DOMAIN events
             /\ \A i \in DOMAIN events :
                  /\ m[i].kind = events[i].kind /\ m[i].pid = events[i].pid
                  /\ m[i].ppid = events[i].ppid /\ m[i].path = events[i].path
                  /\ m[i].truth = events[i].truth /\ m[i].forked = events[i].forked
                  /\ m[i].seq = events[i].seq
                  /\ m[i].failed <=>
                       \/ events[i].failed
                       \/ /\ ExecBy(i, pid) /\ ~events[i].failed
                          /\ \A j \in DOMAIN events :
                               ExecBy(j, pid) /\ ~events[j].failed => j <= i
<1> DEFINE hit(i) == i \in Marks(pid) /\ \A j \in Marks(pid) : j <= i
           m == MarkFailed(pid)
<1>1. m = [i \in DOMAIN events |-> [events[i] EXCEPT !.failed = @ \/ hit(i)]]
  BY Zenon DEF MarkFailed
<1>2. \A i \in DOMAIN events : hit(i) <=>
        /\ ExecBy(i, pid) /\ ~events[i].failed
        /\ \A j \in DOMAIN events : ExecBy(j, pid) /\ ~events[j].failed => j <= i
  BY DEF ExecBy, Marks
<1> HIDE DEF m, hit
<1>3. ASSUME NEW i \in DOMAIN events
      PROVE  /\ m[i] \in EventSet
             /\ m[i].kind = events[i].kind /\ m[i].pid = events[i].pid
             /\ m[i].ppid = events[i].ppid /\ m[i].path = events[i].path
             /\ m[i].truth = events[i].truth /\ m[i].forked = events[i].forked
             /\ m[i].seq = events[i].seq
             /\ m[i].failed <=> events[i].failed \/ hit(i)
  <2>1. events[i] \in EventSet
    OBVIOUS
  <2>2. hit(i) \in BOOLEAN
    BY DEF hit
  <2>3. PICK h \in BOOLEAN : h = hit(i)
    BY <2>2
  <2>4. m[i] = [events[i] EXCEPT !.failed = events[i].failed \/ h]
    BY <1>1, <2>3, Zenon
  <2> QED BY <2>1, <2>3, <2>4 DEF EventSet
<1>4. m \in Seq(EventSet) /\ DOMAIN m = DOMAIN events
  <2>1. DOMAIN m = DOMAIN events /\ DOMAIN events = 1..Len(events) /\ Len(events) \in Nat
    BY <1>1
  <2>2. \A i \in DOMAIN m : m[i] \in EventSet
    BY <1>3, <2>1
  <2>3. m = [i \in 1..Len(events) |-> m[i]]
    BY <1>1, <2>1
  <2> QED BY <2>1, <2>2, <2>3
<1> QED BY <1>2, <1>3, <1>4 DEF m

\* It changes nothing when there is no record to mark.
LEMMA NoMarks ==
  ASSUME events \in Seq(EventSet), NEW pid, Marks(pid) = {}
  PROVE  MarkFailed(pid) = events
<1>1. /\ MarkFailed(pid) \in Seq(EventSet) /\ DOMAIN MarkFailed(pid) = DOMAIN events
      /\ MarkFailed(pid) = [i \in DOMAIN events |-> MarkFailed(pid)[i]]
  BY MarkedFields DEF MarkFailed
<1>2. ASSUME NEW i \in DOMAIN events PROVE MarkFailed(pid)[i] = events[i]
  <2>1. events[i] \in EventSet
    OBVIOUS
  <2>2. MarkFailed(pid)[i] = [events[i] EXCEPT !.failed = events[i].failed \/ FALSE]
    BY Zenon DEF MarkFailed
  <2> QED BY <2>1, <2>2 DEF EventSet
<1>3. events = [i \in DOMAIN events |-> events[i]]
  OBVIOUS
<1> QED BY <1>1, <1>2, <1>3

LEMMA RunsFiles ==
  ASSUME TraceTypeOK, NEW t \in Tasks, call[t].what.nr = "execve"
  PROVE  /\ call[t].what \in ExecCalls
         /\ Runs(Binary[call[t].what.path]) \in RunFiles
<1>1. call[t].what \in ExecCalls
  BY DEF TraceTypeOK, ExecCalls
<1> QED BY <1>1 DEF RunFiles

\* What decoding a stop adds to the events, if anything.
LEMMA DecodeEvents ==
  ASSUME TraceTypeOK, ProcessInv, NEW t \in Tasks, stop[t] \in {"entry", "exit"}, Decode(t)
  PROVE  /\ events' \in Seq(EventSet)
         /\ \/ /\ call[t].what.nr = "execve" /\ ~call[t].done /\ call[t].what.read # None
               /\ events' = Append(events, Exec(group[t], Ppid(t), call[t].what.read))
            \/ /\ call[t].what.nr = "connect"
               /\ events' = Append(events, Connect(group[t], Ppid(t)))
            \/ /\ call[t].what.nr = "execve" => call[t].done \/ call[t].what.read = None
               /\ call[t].what.nr # "connect" /\ events' = events
<1>1. \/ /\ call[t].what.nr = "execve" /\ ~call[t].done /\ call[t].what.read # None
         /\ events' = Append(events, Exec(group[t], Ppid(t), call[t].what.read))
      \/ /\ call[t].what.nr = "connect"
         /\ events' = Append(events, Connect(group[t], Ppid(t)))
      \/ /\ call[t].what.nr = "execve" => call[t].done \/ call[t].what.read = None
         /\ call[t].what.nr # "connect" /\ events' = events
  BY DEF Decode, Regs
<1>2. group[t] \in Tasks /\ Ppid(t) \in Tasks \cup {None}
  BY DEF TraceTypeOK, ProcessInv, Ppid
<1>3. CASE /\ call[t].what.nr = "execve" /\ ~call[t].done /\ call[t].what.read # None
           /\ events' = Append(events, Exec(group[t], Ppid(t), call[t].what.read))
  <2>1. Exec(group[t], Ppid(t), call[t].what.read) \in EventSet
    BY <1>2, <1>3, RunsFiles DEF Exec, EventSet, TraceTypeOK
  <2> QED BY <1>1, <1>3, <2>1 DEF TraceTypeOK
<1>4. CASE events' = Append(events, Connect(group[t], Ppid(t)))
  <2>1. Connect(group[t], Ppid(t)) \in EventSet
    BY <1>2 DEF Connect, EventSet, TraceTypeOK
  <2> QED BY <1>1, <1>4, <2>1 DEF TraceTypeOK
<1> QED BY <1>1, <1>3, <1>4 DEF TraceTypeOK

-----------------------------------------------------------------------------
(* Types and processes.                                                    *)

LEMMA TraceTypeInit == TraceInit => TraceTypeOK /\ ProcessInv
<1> SUFFICES ASSUME TraceInit PROVE TraceTypeOK /\ ProcessInv
  OBVIOUS
<1>1. PICK path \in Commands :
       /\ group = [t \in Tasks |-> IF t = Root THEN Root ELSE None]
       /\ stop = [t \in Tasks |-> IF t = Root THEN "run" ELSE "none"]
       /\ call = [t \in Tasks |-> [what |-> [nr |-> "none"], done |-> FALSE]]
       /\ running = [t \in Tasks |-> Runs(Binary[path])]
       /\ parent = [t \in Tasks |-> None]
       /\ born = [t \in Tasks |-> [at |-> 0, running |-> None]]
       /\ running = [t \in Tasks |-> Runs(Binary[path])]
       /\ parent = [t \in Tasks |-> None]
       /\ born = [t \in Tasks |-> [at |-> 0, running |-> None]]
       /\ ended = FALSE
       /\ atEntry = [t \in {Root} |-> TRUE]
       /\ events = <<[kind |-> "exec", pid |-> Root, ppid |-> None,
                      path |-> Where[Runs(Binary[path])], seq |-> 1, failed |-> FALSE,
                      truth |-> None, forked |-> 0]>>
       /\ plain = Simple(path)
  BY DEF TraceInit
<1>2. Runs(Binary[path]) \in RunFiles /\ None \in RunFiles /\ Root \in Tasks /\ None \notin Tasks
  BY TracingAssumption DEF RunFiles
<1> DEFINE e == [kind |-> "exec", pid |-> Root, ppid |-> None,
                 path |-> Where[Runs(Binary[path])], seq |-> 1, failed |-> FALSE, truth |-> None, forked |-> 0]
<1>3. e \in EventSet
  BY <1>2 DEF EventSet
<1> HIDE DEF e
<1>4. events \in Seq(EventSet)
  BY <1>1, <1>3 DEF e
<1>5. call \in [Tasks -> [what : Calls \cup {[nr |-> "none"]}, done : BOOLEAN]]
  BY <1>1
<1>6. born \in [Tasks -> [at : Nat, running : RunFiles]]
  BY <1>1, <1>2
<1>7. /\ group \in [Tasks -> Tasks \cup {None}]
      /\ stop \in [Tasks -> {"none", "born", "run", "entry", "kernel", "exit", "gone"}]
      /\ running \in [Tasks -> RunFiles] /\ parent \in [Tasks -> Tasks \cup {None}]
      /\ ended \in BOOLEAN
  BY <1>1, <1>2
<1>8. /\ atEntry \in [DOMAIN atEntry -> BOOLEAN] /\ DOMAIN atEntry \subseteq Tasks
      /\ plain \in BOOLEAN
  BY <1>1, <1>2 DEF Simple
<1>9. ProcessInv
  BY <1>1, <1>2 DEF ProcessInv
<1> QED BY <1>4, <1>5, <1>6, <1>7, <1>8, <1>9 DEF TraceTypeOK

LEMMA ProcessStep ==
  ASSUME TraceTypeOK, ProcessInv, TraceNext
  PROVE  ProcessInv' /\ group' \in [Tasks -> Tasks \cup {None}]
         /\ stop' \in [Tasks -> {"none", "born", "run", "entry", "kernel", "exit", "gone"}]
<1> DEFINE goal == ProcessInv' /\ group' \in [Tasks -> Tasks \cup {None}]
                   /\ stop' \in [Tasks -> {"none", "born", "run", "entry", "kernel", "exit", "gone"}]
<1> USE TracingAssumption DEF TraceTypeOK
<1>1. ASSUME NEW t \in Tasks, NEW s \in {"run", "entry", "kernel", "exit"},
             stop[t] \notin {"none", "gone"}, stop' = [stop EXCEPT ![t] = s], UNCHANGED group
      PROVE  goal
  BY <1>1 DEF ProcessInv
<1>2. ASSUME NEW t \in Tasks, \E c \in Calls : Enter(t, c) PROVE goal
  BY <1>1, <1>2 DEF Enter
<1>3. ASSUME NEW t \in Tasks, Fails(t) \/ Does(t) PROVE goal
  BY <1>1, <1>3 DEF Fails, Does, InKernel
<1>4. ASSUME NEW t \in Tasks, Meet(t) PROVE goal
  BY <1>1, <1>4 DEF Meet
<1>5. ASSUME NEW t \in Tasks, Stop(t) PROVE goal
  <2>1. stop[t] \in {"entry", "exit"} /\ UNCHANGED group
        /\ stop' = [stop EXCEPT ![t] = IF stop[t] = "entry" THEN "kernel" ELSE "run"]
    BY <1>5, Zenon DEF Stop
  <2> QED BY <1>1, <2>1
<1>6. ASSUME NEW t \in Tasks, Execs(t) PROVE goal
  <2> DEFINE pid == group[t]
  <2>1. /\ stop[t] = "kernel"
        /\ group' = [u \in Tasks |-> IF u \in Threads(t) \ {pid} THEN None ELSE group[u]]
        /\ stop' = [u \in Tasks |-> CASE u = pid -> "exit"
                                      [] u \in Threads(t) \ {pid} -> "gone"
                                      [] OTHER -> stop[u]]
    BY <1>6 DEF Execs, InKernel
  <2>2. /\ group[t] \in Tasks /\ group[group[t]] = group[t]
        /\ \A u \in Tasks : u \in Threads(t) <=> group[u] = group[t]
    BY <2>1 DEF ProcessInv, Threads, Alive
  <2>3. \A u \in Tasks : /\ group'[u] = IF group[u] = group[t] /\ u # group[t] THEN None ELSE group[u]
                         /\ u = group[t] => stop'[u] = "exit"
                         /\ u # group[t] /\ group[u] = group[t] => stop'[u] = "gone"
                         /\ group[u] # group[t] => stop'[u] = stop[u]
    BY <2>1, <2>2
  <2>4. ProcessInv'
    BY <2>2, <2>3 DEF ProcessInv
  <2>5. group' \in [Tasks -> Tasks \cup {None}]
        /\ stop' \in [Tasks -> {"none", "born", "run", "entry", "kernel", "exit", "gone"}]
    BY <2>1
  <2> QED BY <2>4, <2>5
<1>7. ASSUME NEW t \in Tasks, Forks(t) PROVE goal
  <2> DEFINE u == CHOOSE v \in Tasks : stop[v] = "none"
             pid == IF call[t].what.nr = "fork" THEN u ELSE group[t]
  <2>1. /\ stop[t] = "kernel" /\ u \in Tasks /\ stop[u] = "none"
        /\ stop' = [stop EXCEPT ![t] = "exit", ![u] = "born"]
        /\ group' = [group EXCEPT ![u] = pid]
    BY <1>7 DEF Forks, InKernel
  <2> HIDE DEF u
  <2>2. pid \in {u, group[t]} /\ group[t] \in Tasks /\ group[u] = None /\ group[group[t]] = group[t]
    BY <2>1 DEF ProcessInv
  <2> HIDE DEF pid
  <2>3. u # t /\ group[t] # u /\ \A v \in Tasks : v # u => group'[v] = group[v] /\ group[v] # u
    BY <2>1, <2>2 DEF ProcessInv
  <2>4. group'[u] = pid /\ stop'[u] = "born" /\ stop'[t] = "exit"
        /\ \A v \in Tasks : v # u /\ v # t => stop'[v] = stop[v]
    BY <2>1, <2>3
  <2>5. ProcessInv'
    BY <2>1, <2>2, <2>3, <2>4 DEF ProcessInv
  <2>6. group' \in [Tasks -> Tasks \cup {None}]
        /\ stop' \in [Tasks -> {"none", "born", "run", "entry", "kernel", "exit", "gone"}]
    BY <2>1, <2>2
  <2> QED BY <2>5, <2>6
<1>8. ASSUME NEW t \in Tasks, TaskExits(t) PROVE goal
  <2> DEFINE gone == IF t = group[t] THEN Threads(t) ELSE {t}
  <2>1. /\ stop[t] = "run"
        /\ group' = [u \in Tasks |-> IF u \in gone THEN None ELSE group[u]]
        /\ stop' = [u \in Tasks |-> IF u \in gone THEN "gone" ELSE stop[u]]
    BY <1>8 DEF TaskExits
  <2>2. \A u \in Tasks : u \in gone <=> \/ (t = group[t] /\ group[u] = t)
                                        \/ (t # group[t] /\ u = t)
    BY <2>1 DEF ProcessInv, Threads, Alive
  <2> HIDE DEF gone
  <2>3. ProcessInv'
    BY <2>1, <2>2 DEF ProcessInv
  <2>4. group' \in [Tasks -> Tasks \cup {None}]
        /\ stop' \in [Tasks -> {"none", "born", "run", "entry", "kernel", "exit", "gone"}]
    BY <2>1
  <2> QED BY <2>3, <2>4
<1> HIDE DEF goal
<1>9. goal
  BY <1>2, <1>3, <1>4, <1>5, <1>6, <1>7, <1>8, Zenon DEF TraceNext
<1> QED BY <1>9 DEF goal

LEMMA TraceTypeStep ==
  ASSUME TraceTypeOK, ProcessInv, TraceNext
  PROVE  TraceTypeOK'
<1> USE TracingAssumption
<1>1. events' \in Seq(EventSet)
  <2>1. ASSUME NEW t \in Tasks, Stop(t) PROVE events' \in Seq(EventSet)
    <3>1. CASE atEntry[t]
      BY <2>1, <3>1, DecodeEvents DEF Stop
    <3>2. CASE ~atEntry[t]
      BY <2>1, <3>2, MarkedFields DEF Stop, TraceTypeOK
    <3> QED BY <3>1, <3>2
  <2>2. ASSUME ~(\E t \in Tasks : Stop(t)) PROVE UNCHANGED events
    BY <2>2 DEF TraceNext, Enter, Fails, Does, Execs, Forks, Meet, TaskExits, observation
  <2> QED BY <2>1, <2>2 DEF TraceTypeOK
<1>2. group' \in [Tasks -> Tasks \cup {None}]
      /\ stop' \in [Tasks -> {"none", "born", "run", "entry", "kernel", "exit", "gone"}]
  BY ProcessStep
<1>3. ASSUME NEW t \in Tasks,
             \/ \E c \in Calls : Enter(t, c)
             \/ Fails(t) \/ Does(t) \/ Meet(t) \/ Stop(t) \/ TaskExits(t)
      PROVE  UNCHANGED <<running, parent, born>>
  BY <1>3, Zenon DEF Enter, Fails, Does, Meet, Stop, TaskExits
<1>4. ASSUME NEW t \in Tasks, Execs(t)
      PROVE  /\ UNCHANGED <<parent, born>> /\ running' \in [Tasks -> RunFiles]
             /\ call' \in [Tasks -> [what : Calls \cup {[nr |-> "none"]}, done : BOOLEAN]]
  <2>1. /\ UNCHANGED <<parent, born>> /\ call[t].what.nr = "execve"
        /\ call' = [call EXCEPT ![group[t]] = [what |-> call[t].what, done |-> TRUE]]
        /\ running' = [running EXCEPT ![group[t]] = Runs(Binary[call[t].what.path])]
    BY <1>4 DEF Execs, InKernel
  <2>2. Runs(Binary[call[t].what.path]) \in RunFiles
    BY <2>1, RunsFiles
  <2> QED BY <2>1, <2>2 DEF TraceTypeOK
<1>5. ASSUME NEW t \in Tasks, Forks(t)
      PROVE  /\ running' \in [Tasks -> RunFiles] /\ parent' \in [Tasks -> Tasks \cup {None}]
             /\ born' \in [Tasks -> [at : Nat, running : RunFiles]]
             /\ call' = [call EXCEPT ![t].done = TRUE]
  <2> DEFINE u == CHOOSE v \in Tasks : stop[v] = "none"
  <2>1. /\ stop[t] = "kernel" /\ call' = [call EXCEPT ![t].done = TRUE]
        /\ parent' = [parent EXCEPT ![u] = group[t]]
        /\ running' = [running EXCEPT ![u] = running[group[t]]]
        /\ born' = [born EXCEPT ![u] = [at |-> Len(events), running |-> running[group[t]]]]
    BY <1>5 DEF Forks, InKernel
  <2> HIDE DEF u
  <2>2. group[t] \in Tasks
    BY <2>1 DEF ProcessInv, TraceTypeOK
  <2>3. running[group[t]] \in RunFiles /\ Len(events) \in Nat
    BY <2>2 DEF TraceTypeOK
  <2> QED BY <2>1, <2>2, <2>3 DEF TraceTypeOK
<1>6. ASSUME NEW t \in Tasks,
             \/ \E c \in Calls : Enter(t, c)
             \/ Fails(t) \/ Does(t) \/ Forks(t) \/ Meet(t) \/ Stop(t) \/ TaskExits(t)
      PROVE  \/ UNCHANGED call \/ call' = [call EXCEPT ![t].done = TRUE]
             \/ \E c \in Calls : call' = [call EXCEPT ![t] = [what |-> c, done |-> FALSE]]
  BY <1>6, Zenon DEF Enter, Fails, Does, Forks, Meet, Stop, TaskExits
<1>7. ASSUME NEW t \in Tasks,
             \/ UNCHANGED call \/ call' = [call EXCEPT ![t].done = TRUE]
             \/ \E c \in Calls : call' = [call EXCEPT ![t] = [what |-> c, done |-> FALSE]]
      PROVE  call' \in [Tasks -> [what : Calls \cup {[nr |-> "none"]}, done : BOOLEAN]]
  <2>1. CASE UNCHANGED call
    BY <2>1 DEF TraceTypeOK
  <2>2. CASE call' = [call EXCEPT ![t].done = TRUE]
    BY <2>2 DEF TraceTypeOK
  <2>3. ASSUME NEW c \in Calls, call' = [call EXCEPT ![t] = [what |-> c, done |-> FALSE]]
        PROVE  call' \in [Tasks -> [what : Calls \cup {[nr |-> "none"]}, done : BOOLEAN]]
    BY <2>3 DEF TraceTypeOK
  <2> QED BY <1>7, <2>1, <2>2, <2>3
<1>8. /\ running' \in [Tasks -> RunFiles] /\ parent' \in [Tasks -> Tasks \cup {None}]
      /\ born' \in [Tasks -> [at : Nat, running : RunFiles]]
      /\ call' \in [Tasks -> [what : Calls \cup {[nr |-> "none"]}, done : BOOLEAN]]
  BY <1>3, <1>4, <1>5, <1>6, <1>7 DEF TraceNext, TraceTypeOK
<1>9. atEntry' \in [DOMAIN atEntry' -> BOOLEAN] /\ DOMAIN atEntry' \subseteq Tasks
  <2>1. ASSUME NEW t \in Tasks, Execs(t) \/ TaskExits(t)
        PROVE  \E D : atEntry' = Restrict(atEntry, DOMAIN atEntry \ D)
    BY <2>1, Zenon DEF Execs, TaskExits
  <2>2. ASSUME NEW t \in Tasks, Meet(t) \/ Stop(t)
        PROVE  \/ atEntry' = [u \in DOMAIN atEntry \cup {t} |-> IF u = t THEN TRUE ELSE atEntry[u]]
               \/ atEntry' = [atEntry EXCEPT ![t] = ~atEntry[t]]
    BY <2>2, Zenon DEF Meet, Stop
  <2>3. ASSUME NEW t \in Tasks,
               \/ \E c \in Calls : Enter(t, c)
               \/ Fails(t) \/ Does(t) \/ Forks(t)
        PROVE  UNCHANGED atEntry
    BY <2>3, Zenon DEF Enter, Fails, Does, Forks
  <2>4. ASSUME NEW D, atEntry' = Restrict(atEntry, DOMAIN atEntry \ D)
        PROVE  atEntry' \in [DOMAIN atEntry' -> BOOLEAN] /\ DOMAIN atEntry' \subseteq Tasks
    BY <2>4 DEF Restrict, TraceTypeOK
  <2>5. ASSUME NEW t \in Tasks, Meet(t) \/ Stop(t)
        PROVE  atEntry' \in [DOMAIN atEntry' -> BOOLEAN] /\ DOMAIN atEntry' \subseteq Tasks
    <3>1. CASE atEntry' = [u \in DOMAIN atEntry \cup {t} |-> IF u = t THEN TRUE ELSE atEntry[u]]
      BY <3>1 DEF TraceTypeOK
    <3>2. CASE atEntry' = [atEntry EXCEPT ![t] = ~atEntry[t]]
      <4>1. DOMAIN atEntry' = DOMAIN atEntry /\ \A u \in DOMAIN atEntry : atEntry'[u] \in BOOLEAN
        BY <3>2 DEF TraceTypeOK
      <4> QED BY <3>2, <4>1 DEF TraceTypeOK
    <3> QED BY <2>2, <2>5, <3>1, <3>2
  <2> QED BY <2>1, <2>3, <2>4, <2>5 DEF TraceNext, TraceTypeOK
<1>10. plain' \in BOOLEAN /\ ended' \in BOOLEAN
  <2>1. ASSUME NEW t \in Tasks, NEW c \in Calls, Enter(t, c) PROVE plain' \in BOOLEAN /\ UNCHANGED ended
    BY <2>1, Zenon DEF Enter, TraceTypeOK
  <2>2. ASSUME NEW t \in Tasks, TaskExits(t) PROVE ended' \in BOOLEAN /\ UNCHANGED plain
    BY <2>2, Zenon DEF TaskExits, happened
  <2>3. ASSUME NEW t \in Tasks, Fails(t) \/ Does(t) \/ Execs(t) \/ Forks(t) \/ Meet(t) \/ Stop(t)
        PROVE  UNCHANGED <<plain, ended>>
    BY <2>3, Zenon DEF Fails, Does, Execs, Forks, Meet, Stop, happened
  <2> QED BY <2>1, <2>2, <2>3 DEF TraceNext, TraceTypeOK
<1> QED BY <1>1, <1>2, <1>8, <1>9, <1>10 DEF TraceTypeOK

-----------------------------------------------------------------------------
(* What the steps of a plain run do.                                       *)

\* In a plain run a process that execs is one task, under its own id.
LEMMA SoleExec ==
  ASSUME TraceTypeOK, ProcessInv, ParityInv, NEW t \in Tasks, InExec(t)
  PROVE  /\ group[t] = t /\ Threads(t) = {t}
         /\ \A u \in Tasks : group[u] = t <=> u = t
<1>1. group[t] \in Tasks /\ group[group[t]] = group[t]
  BY TracingAssumption DEF ProcessInv, InExec, TraceTypeOK
<1>2. \A u \in Tasks : group[u] = group[t] => u = t
  BY Zenon DEF ParityInv
<1>3. group[t] = t
  BY <1>1, <1>2
<1>4. Threads(t) = {t}
  BY <1>1, <1>2, <1>3, TracingAssumption DEF Threads, Alive
<1> QED BY <1>2, <1>3, <1>4

\* What an exec that succeeds changes: the tracer keeps its place.
LEMMA PlainExec ==
  ASSUME TraceTypeOK, ProcessInv, ParityInv, NEW t \in Tasks, Execs(t)
  PROVE  /\ stop[t] = "kernel" /\ call[t].what.nr = "execve" /\ ~call[t].done
         /\ call[t].what.read # None
         /\ UNCHANGED <<group, atEntry, observation, ended, places, used, plain>>
         /\ stop' = [stop EXCEPT ![t] = "exit"]
         /\ call' = [call EXCEPT ![t].done = TRUE]
         /\ ran' = ran \cup {Binary[call[t].what.path]}
         /\ running' = [running EXCEPT ![t] = Binary[call[t].what.path]]
         /\ UNCHANGED <<parent, born>>
<1>1. /\ stop[t] = "kernel" /\ call[t].what.nr = "execve"
      /\ Binary[call[t].what.path] # Missing
      /\ UNCHANGED <<parent, born, observation, ended, places, used, plain>>
      /\ running' = [running EXCEPT ![group[t]] = Runs(Binary[call[t].what.path])]
      /\ group' = [u \in Tasks |-> IF u \in Threads(t) \ {group[t]} THEN None ELSE group[u]]
      /\ stop' = [u \in Tasks |-> CASE u = group[t] -> "exit"
                                    [] u \in Threads(t) \ {group[t]} -> "gone"
                                    [] OTHER -> stop[u]]
      /\ call' = [call EXCEPT ![group[t]] = [what |-> call[t].what, done |-> TRUE]]
      /\ ran' = ran \cup Chain(Binary[call[t].what.path])
      /\ atEntry' = Restrict(atEntry, DOMAIN atEntry \ (Threads(t) \ {group[t], t}))
  BY DEF Execs, InKernel
<1>2. InExec(t)
  BY <1>1 DEF InExec
<1>3. ~call[t].done /\ Simple(call[t].what.path) /\ call[t].what.read # None
  BY <1>1, <1>2, TracingAssumption DEF ParityInv, Told, Vain, Simple
<1>4. group[t] = t /\ Threads(t) = {t}
  BY <1>2, SoleExec
<1>5. group' = group
  BY <1>1, <1>4 DEF TraceTypeOK
<1>6. stop' = [stop EXCEPT ![t] = "exit"]
  BY <1>1, <1>4 DEF TraceTypeOK
<1>7. call' = [call EXCEPT ![t].done = TRUE]
  BY <1>1, <1>4 DEF TraceTypeOK
<1>8. atEntry' = atEntry
  <2>1. DOMAIN atEntry \ (Threads(t) \ {group[t], t}) = DOMAIN atEntry
    BY <1>4
  <2>2. atEntry' = [u \in DOMAIN atEntry |-> atEntry[u]]
    BY <1>1, <2>1, Zenon DEF Restrict
  <2> QED BY <2>2 DEF TraceTypeOK
<1>9. /\ Chain(Binary[call[t].what.path]) = {Binary[call[t].what.path]}
      /\ Runs(Binary[call[t].what.path]) = Binary[call[t].what.path]
  BY <1>3 DEF Simple, Chain, Runs
<1> QED BY <1>1, <1>3, <1>4, <1>5, <1>6, <1>7, <1>8, <1>9

\* What a fork changes.
LEMMA ForkStep ==
  ASSUME TraceTypeOK, ProcessInv, NEW t \in Tasks, Forks(t)
  PROVE  \E u \in Tasks :
           /\ u # t /\ stop[u] = "none" /\ stop[t] = "kernel"
           /\ call[t].what.nr \in {"fork", "clone"}
           /\ stop' = [stop EXCEPT ![t] = "exit", ![u] = "born"]
           /\ call' = [call EXCEPT ![t].done = TRUE]
           /\ group[t] \in Tasks /\ \A v \in Tasks : group[v] # u
           /\ \E pid \in {u, group[t]} : group' = [group EXCEPT ![u] = pid]
           /\ parent' = [parent EXCEPT ![u] = group[t]]
           /\ running' = [running EXCEPT ![u] = running[group[t]]]
           /\ born' = [born EXCEPT ![u] = [at |-> Len(events), running |-> running[group[t]]]]
           /\ UNCHANGED <<atEntry, observation, ended, happened>>
<1> DEFINE u == CHOOSE v \in Tasks : stop[v] = "none"
           pid == IF call[t].what.nr = "fork" THEN u ELSE group[t]
<1>1. /\ stop[t] = "kernel" /\ u \in Tasks /\ stop[u] = "none"
      /\ call[t].what.nr \in {"fork", "clone"}
      /\ stop' = [stop EXCEPT ![t] = "exit", ![u] = "born"]
      /\ group' = [group EXCEPT ![u] = pid]
      /\ call' = [call EXCEPT ![t].done = TRUE]
      /\ parent' = [parent EXCEPT ![u] = group[t]]
      /\ running' = [running EXCEPT ![u] = running[group[t]]]
      /\ born' = [born EXCEPT ![u] = [at |-> Len(events), running |-> running[group[t]]]]
      /\ UNCHANGED <<atEntry, observation, ended, happened>>
  BY DEF Forks, InKernel
<1>2. pid \in {u, group[t]}
  OBVIOUS
<1> HIDE DEF u, pid
<1>3. u # t /\ group[t] \in Tasks /\ \A v \in Tasks : group[v] # u
  BY <1>1, TracingAssumption DEF ProcessInv, TraceTypeOK
<1> QED BY <1>1, <1>2, <1>3

\* What the end of a task changes.
LEMMA ExitStep ==
  ASSUME TraceTypeOK, ProcessInv, NEW t \in Tasks, TaskExits(t)
  PROVE  \E gone \in SUBSET Tasks :
           /\ stop[t] = "run" /\ t \in gone
           /\ \A u \in gone : group[u] = group[t] /\ group[u] # None
           /\ group' = [u \in Tasks |-> IF u \in gone THEN None ELSE group[u]]
           /\ stop' = [u \in Tasks |-> IF u \in gone THEN "gone" ELSE stop[u]]
           /\ DOMAIN atEntry' = DOMAIN atEntry \ gone
           /\ \A u \in DOMAIN atEntry' : atEntry'[u] = atEntry[u]
           /\ ended' => DOMAIN atEntry' = {} \/ Alive = gone
           /\ UNCHANGED <<call, running, parent, born, observation, happened>>
<1> DEFINE gone == IF t = group[t] THEN Threads(t) ELSE {t}
<1>1. /\ stop[t] = "run" /\ UNCHANGED <<call, running, parent, born, observation, happened>>
      /\ group' = [u \in Tasks |-> IF u \in gone THEN None ELSE group[u]]
      /\ stop' = [u \in Tasks |-> IF u \in gone THEN "gone" ELSE stop[u]]
      /\ atEntry' = Restrict(atEntry, DOMAIN atEntry \ gone)
      /\ ended' = (DOMAIN atEntry' = {} \/ Alive = gone)
  BY DEF TaskExits
<1>2. group[t] # None
  BY <1>1 DEF ProcessInv
<1>3. gone \in SUBSET Tasks /\ t \in gone
      /\ \A u \in gone : group[u] = group[t] /\ group[u] # None
  BY <1>2 DEF Threads, Alive
<1> HIDE DEF gone
<1>4. DOMAIN atEntry' = DOMAIN atEntry \ gone
      /\ \A u \in DOMAIN atEntry' : atEntry'[u] = atEntry[u]
  BY <1>1 DEF Restrict
<1> QED BY <1>1, <1>3, <1>4

LEMMA ParityStep ==
  ASSUME TraceTypeOK, ProcessInv, ParityInv, TraceNext, plain'
  PROVE  ParityInv'
<1> USE DEF TraceTypeOK
<1> DEFINE moving == {"run", "entry", "kernel", "exit"}
           due == {"run", "entry"}
<1>1. ASSUME NEW t \in Tasks, NEW c \in Calls, Enter(t, c) PROVE ParityInv'
  <2>1. /\ stop[t] = "run" /\ stop' = [stop EXCEPT ![t] = "entry"]
        /\ call' = [call EXCEPT ![t] = [what |-> c, done |-> FALSE]]
        /\ c.nr = "execve" => Threads(t) = {t} /\ (Told(c) \/ Vain(c))
        /\ UNCHANGED <<group, atEntry>>
    BY <1>1 DEF Enter
  <2>2. c.nr = "execve" => \A u \in Tasks : group[u] = group[t] => u = t
    BY <2>1, TracingAssumption DEF Threads, Alive, ProcessInv
  <2>3. call'[t].what = c /\ ~call'[t].done /\ stop'[t] = "entry"
        /\ \A u \in Tasks : u # t => call'[u] = call[u] /\ stop'[u] = stop[u]
    BY <2>1
  <2> QED BY <2>1, <2>2, <2>3 DEF ParityInv, InExec
<1>2. ASSUME NEW t \in Tasks, Fails(t) \/ Does(t) \/ Execs(t) PROVE ParityInv'
  <2>1. /\ stop[t] = "kernel" /\ stop' = [stop EXCEPT ![t] = "exit"]
        /\ UNCHANGED <<group, atEntry>>
        /\ UNCHANGED call \/ call' = [call EXCEPT ![t].done = TRUE]
    BY <1>2, PlainExec, Zenon DEF Fails, Does, InKernel
  <2>2. /\ stop'[t] = "exit" /\ call'[t].what = call[t].what
        /\ \A u \in Tasks : u # t => call'[u] = call[u] /\ stop'[u] = stop[u]
    BY <2>1
  <2>3. ASSUME NEW v \in Tasks, InExec(v)'
        PROVE  /\ Told(call'[v].what) \/ Vain(call'[v].what)
               /\ call'[v].what \in Calls
               /\ \A w \in Tasks : group'[w] = group'[v] => w = v
    <3>1. InExec(v) /\ call'[v].what = call[v].what
      BY <2>1, <2>2, <2>3 DEF InExec
    <3> QED BY <2>1, <3>1 DEF ParityInv
  <2>4. /\ DOMAIN atEntry' = {v \in Tasks : stop'[v] \in moving}
        /\ \A v \in DOMAIN atEntry' : atEntry'[v] <=> stop'[v] \in due
        /\ \A v \in Tasks : stop'[v] \in {"entry", "kernel"} => ~call'[v].done /\ call'[v].what \in Calls
    BY <2>1, <2>2 DEF ParityInv
  <2> QED BY <2>3, <2>4 DEF ParityInv
<1>3. ASSUME NEW t \in Tasks, Forks(t) PROVE ParityInv'
  <2>1. PICK u \in Tasks :
           /\ u # t /\ stop[u] = "none" /\ stop[t] = "kernel"
           /\ call[t].what.nr \in {"fork", "clone"}
           /\ stop' = [stop EXCEPT ![t] = "exit", ![u] = "born"]
           /\ call' = [call EXCEPT ![t].done = TRUE]
           /\ group[t] \in Tasks /\ \A v \in Tasks : group[v] # u
           /\ \E pid \in {u, group[t]} : group' = [group EXCEPT ![u] = pid]
           /\ parent' = [parent EXCEPT ![u] = group[t]]
           /\ running' = [running EXCEPT ![u] = running[group[t]]]
           /\ born' = [born EXCEPT ![u] = [at |-> Len(events), running |-> running[group[t]]]]
           /\ UNCHANGED <<atEntry, observation, ended, happened>>
    BY <1>3, ForkStep, Zenon
  <2>2. /\ stop'[t] = "exit" /\ stop'[u] = "born" /\ call'[t].what = call[t].what
        /\ \A v \in Tasks : v # t => call'[v] = call[v]
        /\ \A v \in Tasks : v # t /\ v # u => stop'[v] = stop[v]
        /\ \A v \in Tasks : v # u => group'[v] = group[v]
        /\ group'[u] \in {u, group[t]}
    BY <2>1
  <2>3. /\ DOMAIN atEntry' = {v \in Tasks : stop'[v] \in moving}
        /\ \A v \in DOMAIN atEntry' : atEntry'[v] <=> stop'[v] \in due
        /\ \A v \in Tasks : stop'[v] \in {"entry", "kernel"} => ~call'[v].done /\ call'[v].what \in Calls
    BY <2>1, <2>2 DEF ParityInv
  <2>4. ASSUME NEW v \in Tasks, InExec(v)'
        PROVE  /\ Told(call'[v].what) \/ Vain(call'[v].what)
               /\ call'[v].what \in Calls
               /\ \A w \in Tasks : group'[w] = group'[v] => w = v
    <3>1. v # t /\ v # u /\ InExec(v)
      BY <2>1, <2>2, <2>4 DEF InExec
    <3>2. /\ Told(call[v].what) \/ Vain(call[v].what)
          /\ call[v].what \in Calls
          /\ \A w \in Tasks : group[w] = group[v] => w = v
      BY <3>1 DEF ParityInv
    <3> QED BY <2>1, <2>2, <3>1, <3>2
  <2> QED BY <2>3, <2>4 DEF ParityInv, InExec
<1>4. ASSUME NEW t \in Tasks, Meet(t) PROVE ParityInv'
  <2>1. /\ stop[t] = "born" /\ stop' = [stop EXCEPT ![t] = "run"]
        /\ atEntry' = [u \in DOMAIN atEntry \cup {t} |-> IF u = t THEN TRUE ELSE atEntry[u]]
        /\ UNCHANGED <<group, call>>
    BY <1>4 DEF Meet
  <2>2. /\ stop'[t] = "run" /\ t \notin DOMAIN atEntry
        /\ \A u \in Tasks : u # t => stop'[u] = stop[u]
        /\ DOMAIN atEntry' = DOMAIN atEntry \cup {t} /\ atEntry'[t] = TRUE
        /\ \A u \in DOMAIN atEntry : atEntry'[u] = atEntry[u]
    BY <2>1 DEF ParityInv
  <2>3. /\ DOMAIN atEntry' = {v \in Tasks : stop'[v] \in moving}
        /\ \A v \in DOMAIN atEntry' : atEntry'[v] <=> stop'[v] \in due
        /\ \A v \in Tasks : stop'[v] \in {"entry", "kernel"} => ~call'[v].done /\ call'[v].what \in Calls
    <3>1. DOMAIN atEntry = {v \in Tasks : stop[v] \in moving}
          /\ \A v \in DOMAIN atEntry : atEntry[v] <=> stop[v] \in due
      BY DEF ParityInv
    <3>2. \A v \in Tasks : v \in DOMAIN atEntry' <=> stop'[v] \in moving
      BY <2>1, <2>2, <3>1
    <3>3. \A v \in DOMAIN atEntry' : atEntry'[v] <=> stop'[v] \in due
      BY <2>1, <2>2, <3>1
    <3>4. \A v \in Tasks : stop'[v] \in {"entry", "kernel"} => ~call'[v].done /\ call'[v].what \in Calls
      BY <2>1, <2>2 DEF ParityInv
    <3>5. DOMAIN atEntry' \subseteq Tasks
      BY <2>2
    <3> QED BY <3>2, <3>3, <3>4, <3>5
  <2>4. \A v \in Tasks : InExec(v)' => InExec(v)
    BY <2>1, <2>2 DEF InExec
  <2>5. \A v \in Tasks : InExec(v) =>
          /\ Told(call[v].what) \/ Vain(call[v].what)
          /\ call[v].what \in Calls
          /\ \A w \in Tasks : group[w] = group[v] => w = v
    BY DEF ParityInv
  <2> QED BY <2>1, <2>3, <2>4, <2>5 DEF ParityInv
<1>5. ASSUME NEW t \in Tasks, Stop(t) PROVE ParityInv'
  <2>1. /\ stop[t] \in {"entry", "exit"}
        /\ atEntry' = [atEntry EXCEPT ![t] = ~atEntry[t]]
        /\ stop' = [stop EXCEPT ![t] = IF stop[t] = "entry" THEN "kernel" ELSE "run"]
        /\ UNCHANGED <<group, call>>
    BY <1>5, Zenon DEF Stop
  <2>2. t \in DOMAIN atEntry /\ (atEntry[t] <=> stop[t] = "entry")
    BY <2>1 DEF ParityInv
  <2> QED BY <2>1, <2>2 DEF ParityInv, InExec
<1>6. ASSUME NEW t \in Tasks, TaskExits(t) PROVE ParityInv'
  <2>1. PICK gone \in SUBSET Tasks :
           /\ stop[t] = "run" /\ t \in gone
           /\ \A u \in gone : group[u] = group[t] /\ group[u] # None
           /\ group' = [u \in Tasks |-> IF u \in gone THEN None ELSE group[u]]
           /\ stop' = [u \in Tasks |-> IF u \in gone THEN "gone" ELSE stop[u]]
           /\ DOMAIN atEntry' = DOMAIN atEntry \ gone
           /\ \A u \in DOMAIN atEntry' : atEntry'[u] = atEntry[u]
           /\ UNCHANGED <<call, observation, happened>>
    BY <1>6, ExitStep, Zenon
  <2>2. \A u \in Tasks : /\ u \in gone => stop'[u] = "gone" /\ group'[u] = None
                         /\ u \notin gone => stop'[u] = stop[u] /\ group'[u] = group[u]
    BY <2>1
  <2>3. /\ DOMAIN atEntry' = {v \in Tasks : stop'[v] \in moving}
        /\ \A v \in DOMAIN atEntry' : atEntry'[v] <=> stop'[v] \in due
        /\ \A v \in Tasks : stop'[v] \in {"entry", "kernel"} => ~call'[v].done /\ call'[v].what \in Calls
    BY <2>1, <2>2 DEF ParityInv
  <2>4. ASSUME NEW v \in Tasks, InExec(v)'
        PROVE  /\ Told(call'[v].what) \/ Vain(call'[v].what)
               /\ call'[v].what \in Calls
               /\ \A w \in Tasks : group'[w] = group'[v] => w = v
    <3>1. v \notin gone /\ InExec(v) /\ group[v] # None
      BY <2>1, <2>2, <2>4 DEF InExec, ProcessInv
    <3>2. /\ Told(call[v].what) \/ Vain(call[v].what)
          /\ call[v].what \in Calls
          /\ \A w \in Tasks : group[w] = group[v] => w = v
      BY <3>1 DEF ParityInv
    <3> QED BY <2>1, <2>2, <3>1, <3>2
  <2> QED BY <2>3, <2>4 DEF ParityInv, InExec
<1> QED BY <1>1, <1>2, <1>3, <1>4, <1>5, <1>6, Zenon DEF TraceNext

LEMMA UnreadStep ==
  ASSUME TraceTypeOK, ProcessInv, ParityInv, UnreadInv, TraceNext, plain'
  PROVE  UnreadInv'
<1> SUFFICES ASSUME NEW v \in Tasks, InExec(v)', call'[v].what.read = None PROVE Marks(v)' = {}
  BY Zenon DEF UnreadInv
<1> USE DEF TraceTypeOK
\* What is left to show when v was in the same call before.
<1>1. ASSUME InExec(v), call'[v].what = call[v].what, UNCHANGED events PROVE Marks(v)' = {}
  BY <1>1, Zenon DEF UnreadInv, Marks
<1>2. ASSUME NEW t \in Tasks, NEW c \in Calls, Enter(t, c) PROVE Marks(v)' = {}
  <2>1. /\ stop[t] = "run" /\ stop' = [stop EXCEPT ![t] = "entry"]
        /\ call' = [call EXCEPT ![t] = [what |-> c, done |-> FALSE]]
        /\ UNCHANGED events
        /\ c.nr = "execve" => Threads(t) = {t} /\ (Told(c) \/ (Vain(c) /\ Marks(group[t]) = {}))
    BY <1>2 DEF Enter, observation
  <2>2. CASE v # t
    BY <1>1, <2>1, <2>2 DEF InExec
  <2>3. CASE v = t
    <3>1. c.nr = "execve" /\ c.read = None
      BY <2>1, <2>3 DEF InExec
    <3>2. ~Told(c)
      BY <3>1, TracingAssumption DEF Told, Simple
    <3>3. group[group[t]] = group[t] /\ group[t] \in Tasks /\ Threads(t) = {t}
      BY <2>1, <3>1 DEF ProcessInv
    <3>4. group[t] = t
      BY <3>3, TracingAssumption DEF Threads, Alive
    <3>5. Marks(t) = {}
      BY <2>1, <3>1, <3>2, <3>4
    <3> QED BY <2>1, <2>3, <3>5 DEF Marks
  <2> QED BY <2>2, <2>3
<1>3. ASSUME NEW t \in Tasks, Fails(t) \/ Does(t) \/ Execs(t) PROVE Marks(v)' = {}
  <2>1. /\ stop[t] = "kernel" /\ stop' = [stop EXCEPT ![t] = "exit"] /\ UNCHANGED observation
        /\ UNCHANGED call \/ call' = [call EXCEPT ![t].done = TRUE]
    BY <1>3, PlainExec, Zenon DEF Fails, Does, InKernel
  <2>2. /\ stop'[t] = "exit" /\ call'[t].what = call[t].what
        /\ \A u \in Tasks : u # t => call'[u] = call[u] /\ stop'[u] = stop[u]
    BY <2>1
  <2> QED BY <1>1, <2>1, <2>2 DEF InExec, observation
<1>4. ASSUME NEW t \in Tasks, Forks(t) PROVE Marks(v)' = {}
  <2>1. PICK u \in Tasks :
           /\ u # t /\ stop[t] = "kernel" /\ stop' = [stop EXCEPT ![t] = "exit", ![u] = "born"]
           /\ call' = [call EXCEPT ![t].done = TRUE]
           /\ UNCHANGED <<atEntry, observation, ended, happened>>
    BY <1>4, ForkStep, Zenon
  <2> QED BY <1>1, <2>1 DEF InExec, observation
<1>5. ASSUME NEW t \in Tasks, Meet(t) \/ TaskExits(t) PROVE Marks(v)' = {}
  <2>1. \A u \in Tasks : stop'[u] \in {"run", "gone"} \/ stop'[u] = stop[u]
    <3>1. CASE Meet(t)
      BY <3>1 DEF Meet
    <3>2. CASE TaskExits(t)
      BY <3>2 DEF TaskExits
    <3> QED BY <1>5, <3>1, <3>2
  <2>2. UNCHANGED <<call, events>>
    BY <1>5, Zenon DEF Meet, TaskExits, observation
  <2> QED BY <1>1, <2>1, <2>2 DEF InExec
<1>6. ASSUME NEW t \in Tasks, Stop(t) PROVE Marks(v)' = {}
  <2>1. /\ stop[t] \in {"entry", "exit"} /\ UNCHANGED call
        /\ stop' = [stop EXCEPT ![t] = IF stop[t] = "entry" THEN "kernel" ELSE "run"]
    BY <1>6, Zenon DEF Stop
  <2>2. t \in DOMAIN atEntry /\ (atEntry[t] <=> stop[t] = "entry")
    BY <2>1 DEF ParityInv
  <2>3. InExec(v) /\ call'[v].what = call[v].what /\ Marks(v) = {}
    BY <2>1 DEF InExec, UnreadInv
  <2>4. CASE stop[t] = "exit"
    <3>1. v # t
      BY <2>1, <2>4 DEF InExec
    <3>2. events' = events \/ events' = MarkFailed(group[t])
      BY <1>6, <2>2, <2>4 DEF Stop
    <3>3. /\ DOMAIN events' = DOMAIN events
          /\ \A i \in DOMAIN events : /\ events'[i].kind = events[i].kind
                                      /\ events'[i].pid = events[i].pid
                                      /\ ~events'[i].failed => ~events[i].failed
      BY <3>2, MarkedFields
    <3> QED BY <2>3, <3>3 DEF Marks
  <2>5. CASE stop[t] = "entry"
    <3>1. Decode(t)
      BY <1>6, <2>2, <2>5 DEF Stop
    <3>2. events' = events \/ \E e \in EventSet : e.pid = group[t] /\ events' = Append(events, e)
                              /\ (v = t => e.kind # "exec")
      <4>1. /\ Exec(group[t], Ppid(t), call[t].what.read).pid = group[t]
            /\ Connect(group[t], Ppid(t)).pid = group[t]
            /\ Connect(group[t], Ppid(t)).kind # "exec"
        BY DEF Exec, Connect
      <4>2. v = t => call[t].what.read = None
        BY <2>3
      <4>3. ASSUME NEW e, events' = Append(events, e) PROVE e \in EventSet
        BY <2>5, <3>1, <4>3, DecodeEvents
      <4> QED BY <2>5, <3>1, <4>1, <4>2, <4>3, DecodeEvents
    <3>3. CASE events' = events
      BY <2>3, <3>3 DEF Marks
    <3>4. ASSUME NEW e \in EventSet, e.pid = group[t], events' = Append(events, e),
                 v = t => e.kind # "exec"
          PROVE  Marks(v)' = {}
      <4>1. e.pid = v => e.kind # "exec"
        <5>1. group[t] = v => v = t
          BY <2>3, SoleExec
        <5> QED BY <3>4, <5>1
      <4>2. /\ DOMAIN events' = DOMAIN events \cup {Len(events) + 1}
            /\ events'[Len(events) + 1] = e
            /\ \A i \in DOMAIN events : events'[i] = events[i]
        BY <3>4
      <4> QED BY <2>3, <4>1, <4>2 DEF Marks
    <3> QED BY <3>2, <3>3, <3>4
  <2> QED BY <2>1, <2>4, <2>5
<1> QED BY <1>2, <1>3, <1>4, <1>5, <1>6, Zenon DEF TraceNext

LEMMA SeenStep ==
  ASSUME TraceTypeOK, ProcessInv, ParityInv, SeenInv, TraceNext, plain'
  PROVE  SeenInv'
<1> DEFINE Recorded == {o.place : o \in {o \in reads \cup writes : o.shown}}
<1> USE DEF TraceTypeOK
<1>1. /\ places \subseteq Recorded /\ used \subseteq syscalls
      /\ \A t \in Tasks :
           /\ stop[t] = "kernel" => call[t].what.nr \in syscalls
           /\ stop[t] \in {"entry", "kernel"} /\ call[t].what.nr = "openat" => call[t].what.shown
           /\ stop[t] = "kernel" /\ call[t].what.nr = "openat" => call[t].what.place \in Recorded
  BY Zenon DEF SeenInv
\* A step that records nothing, and puts only the task t in a call.
<1>2. ASSUME NEW t \in Tasks, UNCHANGED <<observation, places, used>>,
             \A u \in Tasks : stop'[u] = "kernel" => stop[u] = "kernel" /\ call'[u].what = call[u].what,
             \A u \in Tasks : stop'[u] \in {"entry", "kernel"} /\ call'[u].what.nr = "openat" =>
                                call'[u].what.shown
      PROVE  SeenInv'
  <2>1. Recorded' = Recorded /\ syscalls' = syscalls
    BY <1>2 DEF observation
  <2> HIDE DEF Recorded
  <2>2. /\ places' \subseteq Recorded' /\ used' \subseteq syscalls'
        /\ \A u \in Tasks :
             /\ stop'[u] = "kernel" => call'[u].what.nr \in syscalls'
             /\ stop'[u] \in {"entry", "kernel"} /\ call'[u].what.nr = "openat" => call'[u].what.shown
             /\ stop'[u] = "kernel" /\ call'[u].what.nr = "openat" => call'[u].what.place \in Recorded'
    BY <1>1, <1>2, <2>1
  <2> QED BY <2>2, Zenon DEF SeenInv, Recorded
<1>3. ASSUME NEW t \in Tasks, NEW c \in Calls, Enter(t, c) PROVE SeenInv'
  <2>1. /\ stop[t] = "run" /\ stop' = [stop EXCEPT ![t] = "entry"]
        /\ call' = [call EXCEPT ![t] = [what |-> c, done |-> FALSE]]
        /\ c.nr = "openat" => c.shown
        /\ UNCHANGED <<observation, places, used>>
    BY <1>3 DEF Enter
  <2>2. call'[t].what = c /\ stop'[t] = "entry"
        /\ \A u \in Tasks : u # t => call'[u] = call[u] /\ stop'[u] = stop[u]
    BY <2>1
  <2> QED BY <1>1, <1>2, <2>1, <2>2
<1>4. ASSUME NEW t \in Tasks, Fails(t) \/ Execs(t) PROVE SeenInv'
  <2>1. /\ stop' = [stop EXCEPT ![t] = "exit"] /\ UNCHANGED <<observation, places, used>>
        /\ UNCHANGED call \/ call' = [call EXCEPT ![t].done = TRUE]
    BY <1>4, PlainExec, Zenon DEF Fails, happened
  <2>2. stop'[t] = "exit" /\ call'[t].what = call[t].what
        /\ \A u \in Tasks : u # t => call'[u] = call[u] /\ stop'[u] = stop[u]
    BY <2>1
  <2> QED BY <1>1, <1>2, <2>1, <2>2
<1>5. ASSUME NEW t \in Tasks, Does(t) PROVE SeenInv'
  <2>1. /\ stop[t] = "kernel" /\ stop' = [stop EXCEPT ![t] = "exit"]
        /\ call' = [call EXCEPT ![t].done = TRUE]
        /\ places' = IF call[t].what.nr = "openat" THEN places \cup {call[t].what.place} ELSE places
        /\ used' = used \cup {call[t].what.nr}
        /\ UNCHANGED observation
    BY <1>5 DEF Does, InKernel
  <2>2. stop'[t] = "exit" /\ \A u \in Tasks : u # t => call'[u] = call[u] /\ stop'[u] = stop[u]
    BY <2>1
  <2>3. Recorded' = Recorded /\ syscalls' = syscalls
    BY <2>1 DEF observation
  <2> HIDE DEF Recorded
  <2>4. places' \subseteq Recorded /\ used' \subseteq syscalls
    BY <1>1, <2>1
  <2>5. /\ places' \subseteq Recorded' /\ used' \subseteq syscalls'
        /\ \A u \in Tasks :
             /\ stop'[u] = "kernel" => call'[u].what.nr \in syscalls'
             /\ stop'[u] \in {"entry", "kernel"} /\ call'[u].what.nr = "openat" => call'[u].what.shown
             /\ stop'[u] = "kernel" /\ call'[u].what.nr = "openat" => call'[u].what.place \in Recorded'
    BY <1>1, <2>2, <2>3, <2>4
  <2> QED BY <2>5, Zenon DEF SeenInv, Recorded
<1>6. ASSUME NEW t \in Tasks, Forks(t) PROVE SeenInv'
  <2>1. PICK u \in Tasks :
           /\ u # t /\ stop' = [stop EXCEPT ![t] = "exit", ![u] = "born"]
           /\ call' = [call EXCEPT ![t].done = TRUE]
           /\ UNCHANGED <<atEntry, observation, ended, happened>>
    BY <1>6, ForkStep, Zenon
  <2>2. /\ stop'[t] = "exit" /\ stop'[u] = "born"
        /\ \A v \in Tasks : v # t => call'[v] = call[v]
        /\ \A v \in Tasks : v # t /\ v # u => stop'[v] = stop[v]
    BY <2>1
  <2>3. UNCHANGED <<observation, places, used>>
    BY <2>1 DEF happened
  <2> QED BY <1>1, <1>2, <2>2, <2>3
<1>7. ASSUME NEW t \in Tasks, Meet(t) PROVE SeenInv'
  <2>1. stop' = [stop EXCEPT ![t] = "run"] /\ UNCHANGED <<call, observation, places, used>>
    BY <1>7 DEF Meet, happened
  <2>2. stop'[t] = "run" /\ \A u \in Tasks : u # t => stop'[u] = stop[u]
    BY <2>1
  <2> QED BY <1>1, <1>2, <2>1, <2>2
<1>8. ASSUME NEW t \in Tasks, TaskExits(t) PROVE SeenInv'
  <2>1. PICK gone \in SUBSET Tasks :
           /\ stop' = [u \in Tasks |-> IF u \in gone THEN "gone" ELSE stop[u]]
           /\ UNCHANGED <<call, observation, happened>>
    BY <1>8, ExitStep, Zenon
  <2>2. \A u \in Tasks : stop'[u] = "gone" \/ stop'[u] = stop[u]
    BY <2>1
  <2>3. UNCHANGED <<call, observation, places, used>>
    BY <2>1 DEF happened
  <2> QED BY <1>1, <1>2, <2>2, <2>3
<1>9. ASSUME NEW t \in Tasks, Stop(t) PROVE SeenInv'
  <2>1. /\ stop[t] \in {"entry", "exit"} /\ UNCHANGED <<call, places, used>>
        /\ stop' = [stop EXCEPT ![t] = IF stop[t] = "entry" THEN "kernel" ELSE "run"]
    BY <1>9, Zenon DEF Stop, happened
  <2>2. \A u \in Tasks : u # t => stop'[u] = stop[u]
    BY <2>1
  <2>3. t \in DOMAIN atEntry /\ (atEntry[t] <=> stop[t] = "entry")
    BY <2>1 DEF ParityInv
  <2>4. CASE stop[t] = "exit"
    <3>1. stop'[t] = "run" /\ UNCHANGED <<reads, writes, syscalls>>
      BY <1>9, <2>1, <2>3, <2>4 DEF Stop
    <3>2. Recorded' = Recorded
      BY <3>1
    <3> HIDE DEF Recorded
    <3>3. /\ places' \subseteq Recorded' /\ used' \subseteq syscalls'
          /\ \A u \in Tasks :
               /\ stop'[u] = "kernel" => call'[u].what.nr \in syscalls'
               /\ stop'[u] \in {"entry", "kernel"} /\ call'[u].what.nr = "openat" => call'[u].what.shown
               /\ stop'[u] = "kernel" /\ call'[u].what.nr = "openat" => call'[u].what.place \in Recorded'
      BY <1>1, <2>1, <2>2, <3>1, <3>2
    <3> QED BY <3>3, Zenon DEF SeenInv, Recorded
  <2>5. CASE stop[t] = "entry"
    <3>1. Decode(t) /\ stop'[t] = "kernel"
      BY <1>9, <2>1, <2>3, <2>5 DEF Stop
    <3> DEFINE c == call[t].what
    <3>2. /\ syscalls' = syscalls \cup {c.nr}
          /\ c.nr = "openat" => RecordOpen(c)
          /\ c.nr # "openat" => UNCHANGED <<reads, writes>>
      BY <3>1 DEF Decode, Regs
    <3>3. c.nr = "openat" => c.shown
      BY <1>1, <2>5
    <3>4. /\ reads \cup writes \subseteq reads' \cup writes'
          /\ c.nr = "openat" => [place |-> c.place, shown |-> c.shown] \in reads' \cup writes'
      BY <3>2, Zenon DEF RecordOpen
    <3>5. Recorded \subseteq Recorded' /\ (c.nr = "openat" => c.place \in Recorded')
      BY <3>3, <3>4
    <3> HIDE DEF Recorded
    <3>6. /\ places' \subseteq Recorded' /\ used' \subseteq syscalls'
          /\ \A u \in Tasks :
               /\ stop'[u] = "kernel" => call'[u].what.nr \in syscalls'
               /\ stop'[u] \in {"entry", "kernel"} /\ call'[u].what.nr = "openat" => call'[u].what.shown
               /\ stop'[u] = "kernel" /\ call'[u].what.nr = "openat" => call'[u].what.place \in Recorded'
      BY <1>1, <2>1, <2>2, <2>5, <3>1, <3>2, <3>3, <3>5
    <3> QED BY <3>6, Zenon DEF SeenInv, Recorded
  <2> QED BY <2>1, <2>4, <2>5
<1> QED BY <1>3, <1>4, <1>5, <1>6, <1>7, <1>8, <1>9, Zenon DEF TraceNext

-----------------------------------------------------------------------------
(* What the records say of the program that a process runs.                *)

\* A step that takes no record back: what was off trial stays as it was.
SaidStays ==
  /\ Len(events) \in Nat /\ Len(events') \in Nat /\ Len(events) <= Len(events')
  /\ DOMAIN events = 1 .. Len(events) /\ DOMAIN events' = 1 .. Len(events')
  /\ \A i \in DOMAIN events :
       /\ events'[i].kind = events[i].kind /\ events'[i].pid = events[i].pid
       /\ events'[i].ppid = events[i].ppid /\ events'[i].path = events[i].path
       /\ events'[i].truth = events[i].truth /\ events'[i].forked = events[i].forked
       /\ events'[i].seq = events[i].seq
       /\ ~OnTrial(i) => ~OnTrial(i)' /\ (events'[i].failed <=> events[i].failed)

LEMMA KeptRan ==
  ASSUME SaidStays, NEW q, NEW at \in Nat, NEW w, at <= Len(events), Settled(q, at)
  PROVE  Settled(q, at)' /\ (RanAt(q, at, w) => RanAt(q, at, w)')
<1>1. \A j : ExecBy(j, q)' /\ j <= at => ExecBy(j, q)
  BY DEF SaidStays, ExecBy
<1>2. \A j : ExecBy(j, q) => ExecBy(j, q)' /\ events'[j].path = events[j].path
  BY DEF SaidStays, ExecBy
<1>3. \A j : ExecBy(j, q) /\ j <= at =>
        ~OnTrial(j) /\ ~OnTrial(j)' /\ (events'[j].failed <=> events[j].failed)
  BY Zenon DEF SaidStays, Settled, ExecBy
<1>4. Settled(q, at)'
  BY <1>1, <1>3, Zenon DEF Settled
<1>5. \A j : j <= at => (Solid(j, q)' <=> Solid(j, q))
  BY <1>1, <1>2, <1>3, Zenon DEF Solid
<1>6. \A j : LatestSolid(j, q, at)' <=> LatestSolid(j, q, at)
  BY <1>5, Zenon DEF LatestSolid
<1>7. RanAt(q, at, w) => RanAt(q, at, w)'
  BY <1>2, <1>6, Zenon DEF RanAt, LatestSolid, Solid
<1> QED BY <1>4, <1>7

LEMMA RecordKept ==
  ASSUME SaidStays, NEW i \in DOMAIN events, RecordOK(i),
         \A q \in Tasks : stop[q] # "none" =>
           stop'[q] # "none" /\ born'[q] = born[q] /\ parent'[q] = parent[q]
  PROVE  RecordOK(i)'
<1>1. /\ events'[i].kind = events[i].kind /\ events'[i].pid = events[i].pid
      /\ events'[i].ppid = events[i].ppid /\ events'[i].truth = events[i].truth
      /\ events'[i].forked = events[i].forked /\ events'[i].seq = events[i].seq
      /\ i \in Nat /\ i <= Len(events)
  BY DEF SaidStays
<1>2. ASSUME NEW q \in Tasks, events'[i].pid = q
      PROVE  /\ stop'[q] # "none" /\ events'[i].forked = born'[q].at
             /\ events'[i].ppid \in {None, parent'[q]}
             /\ events'[i].kind = "exec" => events'[i].truth = born'[q].running
             /\ events'[i].kind = "connect" =>
                  /\ Settled(q, i)' /\ \A w : events'[i].truth = w => RanAt(q, i, w)'
                  /\ Unexeced(q)' => events'[i].truth = born'[q].running
  <2>1. /\ stop[q] # "none" /\ events[i].forked = born[q].at
        /\ events[i].ppid \in {None, parent[q]}
        /\ events[i].kind = "exec" => events[i].truth = born[q].running
        /\ events[i].kind = "connect" =>
             /\ Settled(q, i) /\ \A w : events[i].truth = w => RanAt(q, i, w)
             /\ Unexeced(q) => events[i].truth = born[q].running
    BY <1>1, <1>2, Zenon DEF RecordOK
  <2>2. Unexeced(q)' => Unexeced(q)
    BY DEF Unexeced, ExecBy, SaidStays
  <2>3. events[i].kind = "connect" =>
          Settled(q, i)' /\ \A w : events[i].truth = w => RanAt(q, i, w)'
    BY <1>1, <2>1, KeptRan, Zenon
  <2> QED BY <1>1, <2>1, <2>2, <2>3
<1>3. events'[i].seq = i /\ events'[i].forked < i
  BY <1>1 DEF RecordOK
<1> QED BY <1>2, <1>3, Zenon DEF RecordOK

LEMMA ForkKept ==
  ASSUME SaidStays, TraceTypeOK, NEW u \in Tasks, ForkOK(u), parent'[u] = parent[u], born'[u] = born[u]
  PROVE  ForkOK(u)'
<1>0. PICK b \in Nat : b = born[u].at
  BY DEF TraceTypeOK
<1>1. b <= Len(events)
  BY <1>0 DEF ForkOK
<1>2. born'[u].at <= Len(events')
  BY <1>0, <1>1 DEF SaidStays
<1>3. ASSUME NEW q \in Tasks, NEW at \in Nat, NEW w,
             parent'[u] = q /\ born'[u].at = at /\ born'[u].running = w
      PROVE  Settled(q, at)' /\ RanAt(q, at, w)'
  <2>1. Settled(q, at) /\ RanAt(q, at, w)
    BY <1>3, Zenon DEF ForkOK
  <2>2. at <= Len(events)
    BY <1>0, <1>1, <1>3
  <2> QED BY <2>1, <2>2, KeptRan, Zenon
<1> QED BY <1>2, <1>3, Zenon DEF ForkOK

LEMMA ImageKept ==
  ASSUME SaidStays, NEW q, ImageOK(q), \A j : Solid(j, q)' <=> Solid(j, q),
         running'[q] = running[q], born'[q] = born[q], stop'[q] # "none" => stop[q] # "none"
  PROVE  ImageOK(q)'
<1>1. ASSUME NEW n \in Nat, NEW w, n = Len(events'), running'[q] = w PROVE RanAt(q, n, w)'
  <2>1. PICK m \in Nat : m = Len(events)
    BY DEF SaidStays
  <2>2. RanAt(q, m, w)
    BY <1>1, <2>1, Zenon DEF ImageOK
  <2>3. \A j : Solid(j, q) => j <= m /\ j <= n /\ events'[j].path = events[j].path
    BY <1>1, <2>1 DEF Solid, ExecBy, SaidStays
  <2>4. \A j : LatestSolid(j, q, n)' => LatestSolid(j, q, m)
    BY <2>3, Zenon DEF LatestSolid
  <2>5. \A j : LatestSolid(j, q, m) => Solid(j, q)
    BY Zenon DEF LatestSolid
  <2> QED BY <2>2, <2>3, <2>4, <2>5, Zenon DEF RanAt
<1>2. Unexeced(q)' => Unexeced(q)
  BY DEF Unexeced, ExecBy, SaidStays
<1>3. stop'[q] # "none" /\ Unexeced(q)' => running'[q] = born'[q].running
  BY <1>2, Zenon DEF ImageOK
<1> QED BY <1>1, <1>3, Zenon DEF ImageOK

-----------------------------------------------------------------------------
(* What ran, and its records.                                              *)

\* A step that touches no record and no exec on trial.
LEMMA RanQuiet ==
  ASSUME RanInv, UNCHANGED <<events, ran>>,
         \A u \in Tasks : Tentative(u)' <=> Tentative(u),
         \A u \in Tasks : Tentative(u) => call'[u].what = call[u].what
  PROVE  RanInv' /\ \A i : OnTrial(i)' <=> OnTrial(i)
<1>1. \A u \in Tasks : Tentative(u) => \A i : LastExec(i, u)' <=> LastExec(i, u)
  BY DEF LastExec, ExecBy
<1>2. \A i : OnTrial(i)' <=> OnTrial(i)
  BY <1>1, Zenon DEF OnTrial
<1>3. \A i : Standing(i)' <=> Standing(i)
  BY Zenon DEF Standing
<1>4. /\ \A t \in Tasks : Tentative(t) => \E i \in DOMAIN events : LastExec(i, t)
      /\ \A f \in ran : \E i \in DOMAIN events : Standing(i) /\ ~OnTrial(i) /\ Binary[events[i].path] = f
      /\ \A i \in DOMAIN events : Standing(i) => OnTrial(i) \/ Binary[events[i].path] \in ran
      /\ \A i \in DOMAIN events : events[i].kind = "exec" => events[i].path \in Absolute
      /\ ran # {}
  BY Zenon DEF RanInv
<1>5. /\ \A t \in Tasks : Tentative(t)' => \E i \in DOMAIN events' : LastExec(i, t)'
      /\ \A f \in ran' : \E i \in DOMAIN events' : Standing(i)' /\ ~OnTrial(i)' /\ Binary[events'[i].path] = f
      /\ \A i \in DOMAIN events' : Standing(i)' => OnTrial(i)' \/ Binary[events'[i].path] \in ran'
      /\ \A i \in DOMAIN events' : events'[i].kind = "exec" => events'[i].path \in Absolute
      /\ ran' # {}
  BY <1>1, <1>2, <1>3, <1>4
<1>6. RanInv'
  BY <1>5, Zenon DEF RanInv
<1> QED BY <1>2, <1>6

\* An exec or a connect is recorded; the exec goes on trial.
LEMMA RanRecorded ==
  ASSUME TraceTypeOK, RanInv, NEW t \in Tasks, NEW e \in EventSet,
         events' = Append(events, e), UNCHANGED <<ran, call>>, ~Tentative(t),
         \A u \in Tasks \ {t} : Tentative(u)' <=> Tentative(u),
         \/ e.kind # "exec" /\ ~Tentative(t)'
         \/ /\ e.kind = "exec" /\ e.pid = t /\ ~e.failed /\ e.path = call[t].what.path
            /\ Tentative(t)' /\ e.path \in Absolute
  PROVE  /\ RanInv' /\ \A i \in DOMAIN events : OnTrial(i)' <=> OnTrial(i)
         /\ \A n : n = Len(events) + 1 /\ e.kind = "exec" => OnTrial(n)'
<1>0. PICK n \in Nat : n = Len(events) + 1
  BY DEF TraceTypeOK
<1>1. /\ DOMAIN events = 1..Len(events) /\ Len(events) \in Nat
      /\ DOMAIN events' = 1..n /\ events'[n] = e
      /\ \A i \in DOMAIN events : i \in DOMAIN events' /\ i < n /\ events'[i] = events[i]
      /\ \A i \in DOMAIN events' : i \in DOMAIN events \/ i = n
      /\ n \notin DOMAIN events /\ n \in DOMAIN events'
  BY <1>0 DEF TraceTypeOK
<1>2. /\ \A u \in Tasks : Tentative(u) => \E i \in DOMAIN events : LastExec(i, u)
      /\ \A f \in ran : \E i \in DOMAIN events : Standing(i) /\ ~OnTrial(i) /\ Binary[events[i].path] = f
      /\ \A i \in DOMAIN events : Standing(i) => OnTrial(i) \/ Binary[events[i].path] \in ran
      /\ \A i \in DOMAIN events : events[i].kind = "exec" => events[i].path \in Absolute
      /\ ran # {}
  BY Zenon DEF RanInv
<1>3. \A i \in DOMAIN events : Standing(i)' <=> Standing(i)
  BY <1>1, Zenon DEF Standing
<1>4. \A u \in Tasks \ {t}, i \in DOMAIN events : LastExec(i, u)' <=> LastExec(i, u)
  <2>1. ASSUME NEW u \in Tasks \ {t} PROVE ~ExecBy(n, u)'
    BY <1>1 DEF ExecBy
  <2>2. ASSUME NEW u, NEW i \in DOMAIN events PROVE ExecBy(i, u)' <=> ExecBy(i, u)
    BY <1>1, Zenon DEF ExecBy
  <2>3. ASSUME NEW u \in Tasks \ {t}, NEW i \in DOMAIN events
        PROVE  (\A j \in DOMAIN events' : ExecBy(j, u)' => j <= i)
                 <=> (\A j \in DOMAIN events : ExecBy(j, u) => j <= i)
    BY <1>1, <2>1, <2>2, Zenon
  <2> QED BY <1>1, <2>2, <2>3 DEF LastExec
<1>5. \A i \in DOMAIN events : ~LastExec(i, t)' \/ ~Tentative(t)'
  BY <1>1 DEF LastExec, ExecBy
<1>6. \A i \in DOMAIN events : OnTrial(i)' <=> OnTrial(i)
  BY <1>4, <1>5, Zenon DEF OnTrial
<1>7. Tentative(t)' => LastExec(n, t)' /\ OnTrial(n)'
  <2>1. ASSUME Tentative(t)' PROVE LastExec(n, t)'
    BY <1>1, <2>1 DEF LastExec, ExecBy
  <2> QED BY <2>1, Zenon DEF OnTrial
<1>8. Standing(n)' => Tentative(t)'
  BY <1>1 DEF Standing
<1>9. /\ \A u \in Tasks : Tentative(u)' => \E i \in DOMAIN events' : LastExec(i, u)'
      /\ \A f \in ran' : \E i \in DOMAIN events' : Standing(i)' /\ ~OnTrial(i)' /\ Binary[events'[i].path] = f
      /\ \A i \in DOMAIN events' : Standing(i)' => OnTrial(i)' \/ Binary[events'[i].path] \in ran'
      /\ \A i \in DOMAIN events' : events'[i].kind = "exec" => events'[i].path \in Absolute
      /\ ran' # {}
  <2>1. ASSUME NEW u \in Tasks, Tentative(u)' PROVE \E i \in DOMAIN events' : LastExec(i, u)'
    BY <1>1, <1>2, <1>4, <1>7, <2>1
  <2>2. ASSUME NEW f \in ran'
        PROVE  \E i \in DOMAIN events' : Standing(i)' /\ ~OnTrial(i)' /\ Binary[events'[i].path] = f
    BY <1>1, <1>2, <1>3, <1>6
  <2>3. ASSUME NEW i \in DOMAIN events', Standing(i)'
        PROVE  OnTrial(i)' \/ Binary[events'[i].path] \in ran'
    BY <1>1, <1>2, <1>3, <1>6, <1>7, <1>8, <2>3
  <2>4. ASSUME NEW i \in DOMAIN events', events'[i].kind = "exec" PROVE events'[i].path \in Absolute
    BY <1>1, <1>2, <2>4
  <2> QED BY <1>2, <2>1, <2>2, <2>3, <2>4
<1>10. RanInv'
  BY <1>9, Zenon DEF RanInv
<1> QED BY <1>0, <1>6, <1>7, <1>10

\* An exec comes off trial: it is marked as failed, or what it names has run.
LEMMA RanDecided ==
  ASSUME TraceTypeOK, RanInv, NEW t \in Tasks, Tentative(t), ~Tentative(t)',
         \A u \in Tasks \ {t} : Tentative(u)' <=> Tentative(u),
         \A u \in Tasks \ {t} : call'[u] = call[u],
         \/ events' = MarkFailed(t) /\ UNCHANGED ran
         \/ UNCHANGED events /\ ran' = ran \cup {Binary[call[t].what.path]}
  PROVE  /\ RanInv'
         /\ \E k \in DOMAIN events :
              /\ LastExec(k, t) /\ ~OnTrial(k)'
              /\ \A i \in DOMAIN events : i # k => (OnTrial(i)' <=> OnTrial(i))
                                                /\ (events'[i].failed <=> events[i].failed)
<1>1. /\ \A u \in Tasks : Tentative(u) => \E i \in DOMAIN events : LastExec(i, u)
      /\ \A f \in ran : \E i \in DOMAIN events : Standing(i) /\ ~OnTrial(i) /\ Binary[events[i].path] = f
      /\ \A i \in DOMAIN events : Standing(i) => OnTrial(i) \/ Binary[events[i].path] \in ran
      /\ \A i \in DOMAIN events : events[i].kind = "exec" => events[i].path \in Absolute
      /\ ran # {}
  BY Zenon DEF RanInv
<1>2. PICK k \in DOMAIN events : LastExec(k, t)
  BY <1>1
<1>3. DOMAIN events = 1..Len(events)
  BY DEF TraceTypeOK
<1>4. \A i \in DOMAIN events : LastExec(i, t) => i = k
  BY <1>2, <1>3 DEF LastExec, ExecBy
<1>5. /\ DOMAIN events' = DOMAIN events
      /\ \A i \in DOMAIN events : /\ events'[i].kind = events[i].kind
                                  /\ events'[i].pid = events[i].pid
                                  /\ events'[i].path = events[i].path
                                  /\ i # k => (events'[i].failed <=> events[i].failed)
  <2>1. CASE events' = MarkFailed(t)
    <3>1. \A i \in DOMAIN events :
            (\A j \in DOMAIN events : ExecBy(j, t) /\ ~events[j].failed => j <= i) /\ ExecBy(i, t)
               => i = k
      BY <1>2, <1>3 DEF LastExec, ExecBy
    <3> QED BY <2>1, <3>1, MarkedFields DEF TraceTypeOK
  <2>2. CASE UNCHANGED events
    BY <2>2
  <2> QED BY <2>1, <2>2
<1>6. \A i, u : ExecBy(i, u)' <=> ExecBy(i, u)
  BY <1>5, Zenon DEF ExecBy
<1>7. \A u \in Tasks \ {t}, i \in DOMAIN events : LastExec(i, u)' <=> LastExec(i, u)
  <2>1. ASSUME NEW u \in Tasks \ {t}, NEW i \in DOMAIN events, ExecBy(i, u)
        PROVE  i # k
    BY <1>2, <2>1 DEF LastExec, ExecBy
  <2> QED BY <1>5, <1>6, <2>1, Zenon DEF LastExec
<1>8. \A i \in DOMAIN events : i # k => (OnTrial(i)' <=> OnTrial(i))
  BY <1>4, <1>7, Zenon DEF OnTrial
<1>9. ~OnTrial(k)'
  <2>1. \A u \in Tasks \ {t} : ~LastExec(k, u)
    BY <1>2 DEF LastExec, ExecBy
  <2> QED BY <1>7, <2>1, Zenon DEF OnTrial
<1>10. \A i \in DOMAIN events : i # k => (Standing(i)' <=> Standing(i))
  BY <1>5, Zenon DEF Standing
<1>11. OnTrial(k) /\ Standing(k) /\ events[k].path = call[t].what.path
  BY <1>2, Zenon DEF OnTrial, Standing, LastExec, ExecBy
<1>12. \/ ~Standing(k)' /\ UNCHANGED ran
       \/ Standing(k)' /\ ran' = ran \cup {Binary[events'[k].path]}
  <2>1. CASE events' = MarkFailed(t) /\ UNCHANGED ran
    <3>1. ExecBy(k, t) /\ ~events[k].failed
          /\ \A j \in DOMAIN events : ExecBy(j, t) /\ ~events[j].failed => j <= k
      BY <1>2, Zenon DEF LastExec
    <3>2. MarkFailed(t)[k].failed
      BY <3>1, MarkedFields DEF TraceTypeOK
    <3> QED BY <2>1, <3>2 DEF Standing
  <2>2. CASE UNCHANGED events /\ ran' = ran \cup {Binary[call[t].what.path]}
    BY <1>11, <2>2, Zenon DEF Standing
  <2> QED BY <2>1, <2>2
<1>13. /\ \A u \in Tasks : Tentative(u)' => \E i \in DOMAIN events' : LastExec(i, u)'
       /\ \A f \in ran' : \E i \in DOMAIN events' : Standing(i)' /\ ~OnTrial(i)' /\ Binary[events'[i].path] = f
       /\ \A i \in DOMAIN events' : Standing(i)' => OnTrial(i)' \/ Binary[events'[i].path] \in ran'
       /\ \A i \in DOMAIN events' : events'[i].kind = "exec" => events'[i].path \in Absolute
       /\ ran' # {}
  <2>1. ASSUME NEW u \in Tasks, Tentative(u)' PROVE \E i \in DOMAIN events' : LastExec(i, u)'
    BY <1>1, <1>5, <1>7, <2>1
  <2>2. ASSUME NEW f \in ran'
        PROVE  \E i \in DOMAIN events' : Standing(i)' /\ ~OnTrial(i)' /\ Binary[events'[i].path] = f
    <3>1. CASE f \in ran
      <4>1. PICK i \in DOMAIN events : Standing(i) /\ ~OnTrial(i) /\ Binary[events[i].path] = f
        BY <1>1, <3>1
      <4>2. i # k
        BY <1>11, <4>1
      <4>3. Standing(i)' /\ ~OnTrial(i)' /\ Binary[events'[i].path] = f
        BY <1>5, <1>8, <1>10, <4>1, <4>2
      <4> QED BY <1>5, <4>3
    <3>2. CASE f \notin ran
      BY <1>5, <1>9, <1>12, <2>2, <3>2
    <3> QED BY <3>1, <3>2
  <2>3. ASSUME NEW i \in DOMAIN events', Standing(i)'
        PROVE  OnTrial(i)' \/ Binary[events'[i].path] \in ran'
    BY <1>1, <1>5, <1>8, <1>10, <1>12, <2>3
  <2>4. ASSUME NEW i \in DOMAIN events', events'[i].kind = "exec" PROVE events'[i].path \in Absolute
    BY <1>1, <1>5, <2>4
  <2> QED BY <1>1, <1>12, <2>1, <2>2, <2>3, <2>4
<1>14. RanInv'
  BY <1>13, Zenon DEF RanInv
<1> QED BY <1>2, <1>5, <1>8, <1>9, <1>14

-----------------------------------------------------------------------------
(* What the records say of the processes, step by step.                    *)

\* Nothing is on trial of a process with a task that is not in an exec of its own.
LEMMA NoTrial ==
  ASSUME TraceTypeOK, ProcessInv, ParityInv, NEW t \in Tasks, ~Tentative(t)
  PROVE  \A j : ExecBy(j, group[t]) => ~OnTrial(j)
<1> SUFFICES ASSUME NEW j, ExecBy(j, group[t]), OnTrial(j) PROVE FALSE
  OBVIOUS
<1>1. PICK v \in Tasks : Tentative(v) /\ LastExec(j, v)
  BY Zenon DEF OnTrial
<1>2. v = group[t]
  BY <1>1, Zenon DEF LastExec, ExecBy
<1>3. InExec(v)
  BY <1>1 DEF Tentative, InExec
<1>4. t = v
  BY <1>2, <1>3, SoleExec
<1> QED BY <1>1, <1>4

\* A process is known as long as its tasks live.
LEMMA LeaderKnown ==
  ASSUME TraceTypeOK, ProcessInv, NEW t \in Tasks, stop[t] \notin {"none", "gone"}
  PROVE  group[t] \in Tasks /\ stop[group[t]] # "none"
BY TracingAssumption DEF TraceTypeOK, ProcessInv

SolidSame == \A j, q : Solid(j, q)' <=> Solid(j, q)
StopsKnown == \A u \in Tasks : stop'[u] = "none" <=> stop[u] = "none"

\* A step that decides nothing leaves all that was said.
LEMMA TreeKept ==
  ASSUME TraceTypeOK, SaidStays, SolidSame, StopsKnown, TreeInv,
         UNCHANGED <<running, parent, born>>
  PROVE  /\ \A i \in DOMAIN events : RecordOK(i)'
         /\ \A u \in Tasks : ForkOK(u)' /\ ImageOK(u)'
<1>1. \A i \in DOMAIN events : RecordOK(i)
  BY Zenon DEF TreeInv
<1>2. \A u \in Tasks : ForkOK(u) /\ ImageOK(u)
  BY Zenon DEF TreeInv
<1>3. ASSUME NEW i \in DOMAIN events PROVE RecordOK(i)'
  <2>1. \A q \in Tasks : stop[q] # "none" =>
           stop'[q] # "none" /\ born'[q] = born[q] /\ parent'[q] = parent[q]
    BY Zenon DEF StopsKnown
  <2> QED BY <1>1, <2>1, RecordKept, Zenon
<1>4. ASSUME NEW u \in Tasks PROVE ForkOK(u)'
  BY <1>2, ForkKept, Zenon
<1>5. ASSUME NEW u \in Tasks PROVE ImageOK(u)'
  <2>1. \A j : Solid(j, u)' <=> Solid(j, u)
    BY Zenon DEF SolidSame
  <2>2. stop'[u] # "none" => stop[u] # "none"
    BY Zenon DEF StopsKnown
  <2> QED BY <1>2, <2>1, <2>2, ImageKept, Zenon
<1> QED BY <1>3, <1>4, <1>5

LEMMA TreeQuiet ==
  ASSUME TraceTypeOK, TreeInv, UNCHANGED <<events, running, parent, born>>, StopsKnown,
         \A i : OnTrial(i)' <=> OnTrial(i)
  PROVE  TreeInv'
<1>1. SaidStays
  BY DEF SaidStays, TraceTypeOK
<1>2. SolidSame
  BY Zenon DEF SolidSame, Solid, ExecBy
<1>3. /\ \A i \in DOMAIN events : RecordOK(i)'
      /\ \A u \in Tasks : ForkOK(u)' /\ ImageOK(u)'
  BY <1>1, <1>2, TreeKept
<1> QED BY <1>3, Zenon DEF TreeInv

\* A fork: the child begins as what its parent runs, without a record.
LEMMA TreeForked ==
  ASSUME TraceTypeOK, ProcessInv, ParityInv, TreeInv, UNCHANGED events,
         NEW t \in Tasks, NEW u \in Tasks, u # t, stop[u] = "none", stop[t] = "kernel",
         ~Tentative(t), group[t] \in Tasks, stop' = [stop EXCEPT ![t] = "exit", ![u] = "born"],
         parent' = [parent EXCEPT ![u] = group[t]],
         running' = [running EXCEPT ![u] = running[group[t]]],
         born' = [born EXCEPT ![u] = [at |-> Len(events), running |-> running[group[t]]]],
         \A i : OnTrial(i)' <=> OnTrial(i)
  PROVE  TreeInv'
<1>1. SaidStays
  BY DEF SaidStays, TraceTypeOK
<1>2. \A j, q : Solid(j, q)' <=> Solid(j, q)
  BY Zenon DEF Solid, ExecBy
<1>3. /\ \A i \in DOMAIN events : RecordOK(i)
      /\ \A v \in Tasks : ForkOK(v) /\ ImageOK(v)
  BY Zenon DEF TreeInv
<1>4. /\ \A v \in Tasks : v # u => /\ born'[v] = born[v] /\ parent'[v] = parent[v]
                                   /\ running'[v] = running[v]
                                   /\ stop'[v] # "none" <=> stop[v] # "none"
      /\ parent'[u] = group[t] /\ running'[u] = running[group[t]]
      /\ born'[u].at = Len(events) /\ born'[u].running = running[group[t]]
  BY DEF TraceTypeOK
<1>5. ASSUME NEW i \in DOMAIN events PROVE RecordOK(i)'
  <2>1. \A q \in Tasks : stop[q] # "none" =>
           stop'[q] # "none" /\ born'[q] = born[q] /\ parent'[q] = parent[q]
    BY <1>4
  <2> QED BY <1>1, <1>3, <2>1, RecordKept, Zenon
<1>6. ASSUME NEW v \in Tasks PROVE ForkOK(v)'
  <2>1. CASE v # u
    BY <1>1, <1>3, <1>4, <2>1, ForkKept, Zenon
  <2>2. CASE v = u
    <3>1. born'[u].at <= Len(events')
      BY <1>4 DEF TraceTypeOK
    <3>2. ASSUME NEW q \in Tasks, NEW at \in Nat, NEW w,
                 parent'[u] = q /\ born'[u].at = at /\ born'[u].running = w
          PROVE  Settled(q, at)' /\ RanAt(q, at, w)'
      <4>1. q = group[t] /\ at = Len(events) /\ w = running[q] /\ at <= Len(events)
        BY <1>4, <3>2
      <4>2. Settled(q, at)
        BY <4>1, NoTrial, Zenon DEF Settled
      <4>3. RanAt(q, at, w)
        BY <1>3, <4>1, Zenon DEF ImageOK
      <4> QED BY <1>1, <4>1, <4>2, <4>3, KeptRan, Zenon
    <3> QED BY <2>2, <3>1, <3>2, Zenon DEF ForkOK
  <2> QED BY <2>1, <2>2
<1>7. ASSUME NEW v \in Tasks PROVE ImageOK(v)'
  <2>1. CASE v # u
    BY <1>1, <1>2, <1>3, <1>4, <2>1, ImageKept, Zenon
  <2>2. CASE v = u
    <3>1. \A j : ~ExecBy(j, u)
      BY <1>3, Zenon DEF RecordOK, ExecBy
    <3>2. \A j : ~Solid(j, u)'
      BY <1>2, <3>1, Zenon DEF Solid
    <3>3. \A n, w : RanAt(u, n, w)'
      BY <3>2, Zenon DEF RanAt, LatestSolid
    <3>4. running'[u] = born'[u].running
      BY <1>4
    <3> QED BY <2>2, <3>3, <3>4, Zenon DEF ImageOK
  <2> QED BY <2>1, <2>2
<1> QED BY <1>5, <1>6, <1>7, Zenon DEF TreeInv

\* An exec succeeds: its record is the latest of the process, and says what it runs.
LEMMA TreeRan ==
  ASSUME TraceTypeOK, TreeInv, UNCHANGED <<events, parent, born>>, StopsKnown,
         NEW t \in Tasks, Tentative(t),
         running' = [running EXCEPT ![t] = Binary[call[t].what.path]],
         NEW k \in DOMAIN events, LastExec(k, t), ~OnTrial(k)',
         \A i \in DOMAIN events : i # k => (OnTrial(i)' <=> OnTrial(i))
  PROVE  TreeInv'
<1>1. SaidStays
  <2>1. \A i \in DOMAIN events : ~OnTrial(i) => ~OnTrial(i)'
    BY Zenon
  <2>2. Len(events) \in Nat /\ DOMAIN events = 1 .. Len(events)
    BY DEF TraceTypeOK
  <2> QED BY <2>1, <2>2 DEF SaidStays
<1>2. /\ \A i \in DOMAIN events : RecordOK(i)
      /\ \A v \in Tasks : ForkOK(v) /\ ImageOK(v)
  BY Zenon DEF TreeInv
<1>3. ExecBy(k, t) /\ ~events[k].failed /\ events[k].path = call[t].what.path
      /\ \A j \in DOMAIN events : ExecBy(j, t) => j <= k
  BY Zenon DEF LastExec
<1>4. \A q, j : q # t => (Solid(j, q)' <=> Solid(j, q))
  <2>1. \A q, j : ExecBy(j, q)' <=> ExecBy(j, q)
    BY Zenon DEF ExecBy
  <2>2. \A q, j : q # t /\ ExecBy(j, q) => j # k /\ j \in DOMAIN events
    BY <1>3, Zenon DEF ExecBy
  <2> QED BY <2>1, <2>2, Zenon DEF Solid
<1>5. running'[t] = Binary[call[t].what.path]
      /\ \A v \in Tasks : v # t => running'[v] = running[v]
  BY DEF TraceTypeOK
<1>6. ASSUME NEW i \in DOMAIN events PROVE RecordOK(i)'
  <2>1. \A q \in Tasks : stop[q] # "none" =>
           stop'[q] # "none" /\ born'[q] = born[q] /\ parent'[q] = parent[q]
    BY Zenon DEF StopsKnown
  <2> QED BY <1>1, <1>2, <2>1, RecordKept, Zenon
<1>7. ASSUME NEW v \in Tasks PROVE ForkOK(v)'
  BY <1>1, <1>2, ForkKept, Zenon
<1>8. ASSUME NEW v \in Tasks PROVE ImageOK(v)'
  <2>1. CASE v # t
    <3>1. \A j : Solid(j, v)' <=> Solid(j, v)
      BY <1>4, <2>1, Zenon
    <3>2. stop'[v] # "none" => stop[v] # "none"
      BY Zenon DEF StopsKnown
    <3> QED BY <1>1, <1>2, <1>5, <2>1, <3>1, <3>2, ImageKept, Zenon
  <2>2. CASE v = t
    <3>1. Solid(k, t)'
      BY <1>3, Zenon DEF Solid, ExecBy
    <3>2. \A j : Solid(j, t)' => j \in DOMAIN events /\ j <= k
      BY <1>3, Zenon DEF Solid, ExecBy
    <3>3. ASSUME NEW n \in Nat, NEW w, n = Len(events'), running'[t] = w PROVE RanAt(t, n, w)'
      <4>1. k <= n /\ \A j \in DOMAIN events : j <= k /\ k <= j => j = k
        BY <3>3 DEF TraceTypeOK
      <4>2. \A j : LatestSolid(j, t, n)' => j = k
        BY <3>1, <3>2, <4>1, Zenon DEF LatestSolid
      <4>3. Binary[events'[k].path] = w
        BY <1>3, <1>5, <3>3
      <4> QED BY <4>2, <4>3, Zenon DEF RanAt
    <3>4. ~Unexeced(t)'
      BY <3>1, Zenon DEF Unexeced, Solid
    <3> QED BY <2>2, <3>3, <3>4, Zenon DEF ImageOK
  <2> QED BY <2>1, <2>2
<1> QED BY <1>6, <1>7, <1>8, Zenon DEF TreeInv

\* An exec fails: its record is marked, and counts no more than before.
LEMMA TreeFailed ==
  ASSUME TraceTypeOK, TreeInv, UNCHANGED <<running, parent, born>>, StopsKnown,
         NEW t \in Tasks, Tentative(t), events' = MarkFailed(t),
         NEW k \in DOMAIN events, LastExec(k, t), ~OnTrial(k)',
         \A i \in DOMAIN events : i # k => (OnTrial(i)' <=> OnTrial(i))
                                        /\ (events'[i].failed <=> events[i].failed)
  PROVE  TreeInv'
<1>1. OnTrial(k)
  BY Zenon DEF OnTrial
<1>2. /\ DOMAIN events' = DOMAIN events /\ events' \in Seq(EventSet)
      /\ \A i \in DOMAIN events :
           /\ events'[i].kind = events[i].kind /\ events'[i].pid = events[i].pid
           /\ events'[i].ppid = events[i].ppid /\ events'[i].path = events[i].path
           /\ events'[i].truth = events[i].truth /\ events'[i].forked = events[i].forked
           /\ events'[i].seq = events[i].seq
  BY MarkedFields DEF TraceTypeOK
<1>3. events'[k].failed
  <2>1. ExecBy(k, t) /\ ~events[k].failed
        /\ \A j \in DOMAIN events : ExecBy(j, t) /\ ~events[j].failed => j <= k
    BY Zenon DEF LastExec
  <2> QED BY <2>1, MarkedFields DEF TraceTypeOK
<1>4. \A i \in DOMAIN events :
         ~OnTrial(i) => ~OnTrial(i)' /\ (events'[i].failed <=> events[i].failed)
  BY <1>1, Zenon
<1>5. SaidStays
  <2>1. /\ Len(events) \in Nat /\ DOMAIN events = 1 .. Len(events)
        /\ Len(events') \in Nat /\ DOMAIN events' = 1 .. Len(events')
    BY <1>2 DEF TraceTypeOK
  <2>2. Len(events') = Len(events)
    BY <1>2, <2>1
  <2> QED BY <1>2, <1>4, <2>1, <2>2 DEF SaidStays
<1>6. SolidSame
  <2>1. \A j, q : ExecBy(j, q)' <=> ExecBy(j, q)
    BY <1>2, Zenon DEF ExecBy
  <2>2. \A j, q : j # k => (Solid(j, q)' <=> Solid(j, q))
    BY <2>1, Zenon DEF Solid, ExecBy
  <2>3. \A q : ~Solid(k, q)' /\ ~Solid(k, q)
    BY <1>1, <1>3, Zenon DEF Solid
  <2> QED BY <2>2, <2>3, Zenon DEF SolidSame
<1>7. /\ \A i \in DOMAIN events : RecordOK(i)'
      /\ \A u \in Tasks : ForkOK(u)' /\ ImageOK(u)'
  BY <1>5, <1>6, TreeKept
<1> QED BY <1>2, <1>7, Zenon DEF TreeInv

\* An exec or a connect of a task that is not in another exec is recorded.
LEMMA TreeRecorded ==
  ASSUME TraceTypeOK, ProcessInv, ParityInv, TreeInv, NEW t \in Tasks, ~Tentative(t),
         stop[t] \notin {"none", "gone"}, UNCHANGED <<running, parent, born>>, StopsKnown,
         NEW e \in EventSet, events' = Append(events, e), e.seq = Len(events) + 1,
         e.pid = group[t], e.ppid = Ppid(t), ~e.failed, e.forked = born[group[t]].at,
         \/ /\ e.kind = "exec" /\ e.truth = born[group[t]].running
            /\ \A n : n = Len(events) + 1 => OnTrial(n)'
         \/ e.kind = "connect" /\ e.truth = running[group[t]],
         \A i \in DOMAIN events : OnTrial(i)' <=> OnTrial(i)
  PROVE  TreeInv'
<1>0. PICK n \in Nat : n = Len(events) + 1
  BY DEF TraceTypeOK
<1>1. /\ DOMAIN events = 1..Len(events) /\ Len(events) \in Nat
      /\ DOMAIN events' = 1..n /\ events'[n] = e /\ Len(events') = n
      /\ \A i \in DOMAIN events : i \in DOMAIN events' /\ i < n /\ events'[i] = events[i]
      /\ \A i \in DOMAIN events' : i \in DOMAIN events \/ i = n
      /\ n \notin DOMAIN events /\ n \in DOMAIN events'
  BY <1>0 DEF TraceTypeOK
<1>2. SaidStays
  BY <1>0, <1>1 DEF SaidStays
<1>3. \A i \in DOMAIN events : \A q : ExecBy(i, q)' <=> ExecBy(i, q)
  BY <1>1, Zenon DEF ExecBy
<1>4. SolidSame
  <2>1. \A i \in DOMAIN events : \A q : Solid(i, q)' <=> Solid(i, q)
    BY <1>1, <1>3, Zenon DEF Solid
  <2>2. \A q : ~Solid(n, q)
    BY <1>1, Zenon DEF Solid, ExecBy
  <2>3. \A q : ~Solid(n, q)'
    <3>1. e.kind = "exec" => OnTrial(n)'
      BY <1>0
    <3> QED BY <1>1, <3>1 DEF Solid, ExecBy
  <2>4. \A i, q : i \notin DOMAIN events' => ~Solid(i, q)' /\ ~Solid(i, q)
    BY <1>1, Zenon DEF Solid, ExecBy
  <2> QED BY <1>1, <2>1, <2>2, <2>3, <2>4, Zenon DEF SolidSame
<1>5. /\ \A i \in DOMAIN events : RecordOK(i)'
      /\ \A u \in Tasks : ForkOK(u)' /\ ImageOK(u)'
  BY <1>2, <1>4, TreeKept
<1>6. RecordOK(n)'
  <2>1. PICK q \in Tasks : q = group[t] /\ stop[q] # "none"
    BY LeaderKnown
  <2>2. e.ppid \in {None, parent[q]}
    BY <2>1 DEF Ppid
  <2>3. stop'[q] # "none"
    BY <2>1, Zenon DEF StopsKnown
  <2>4. e.kind = "connect" => Settled(q, n)'
    <3>1. ASSUME NEW j, ExecBy(j, q)', e.kind = "connect" PROVE ~OnTrial(j)'
      <4>1. j \in DOMAIN events
        BY <1>1, <3>1 DEF ExecBy
      <4>2. ExecBy(j, q)
        BY <1>3, <3>1, <4>1, Zenon
      <4>3. ~OnTrial(j)
        BY <2>1, <4>2, NoTrial, Zenon
      <4> QED BY <4>1, <4>3, Zenon
    <3> QED BY <3>1, Zenon DEF Settled
  <2>5. /\ \A w : running'[q] = w => RanAt(q, n, w)'
        /\ Unexeced(q)' => running'[q] = born'[q].running
    BY <1>1, <1>5, <2>1, <2>3, Zenon DEF ImageOK
  <2>6. ASSUME NEW p \in Tasks, events'[n].pid = p
        PROVE  /\ stop'[p] # "none" /\ events'[n].forked = born'[p].at
               /\ events'[n].ppid \in {None, parent'[p]}
               /\ events'[n].kind = "exec" => events'[n].truth = born'[p].running
               /\ events'[n].kind = "connect" =>
                    /\ Settled(p, n)' /\ \A w : events'[n].truth = w => RanAt(p, n, w)'
                    /\ Unexeced(p)' => events'[n].truth = born'[p].running
    <3>1. p = q
      BY <1>1, <2>1, <2>6
    <3>2. CASE e.kind = "exec"
      BY <1>1, <2>1, <2>2, <2>3, <3>1, <3>2
    <3>3. CASE e.kind = "connect" /\ e.truth = running[q]
      BY <1>1, <2>1, <2>2, <2>3, <2>4, <2>5, <3>1, <3>3
    <3> QED BY <2>1, <3>2, <3>3
  <2>7. events'[n].forked < n
    <3>1. born[q].at <= Len(events) /\ born[q].at \in Nat
      BY <2>1, Zenon DEF TreeInv, ForkOK, TraceTypeOK
    <3> QED BY <1>0, <1>1, <2>1, <3>1
  <2> QED BY <1>0, <1>1, <2>6, <2>7, Zenon DEF RecordOK
<1> QED BY <1>1, <1>5, <1>6, Zenon DEF TreeInv

LEMMA RecordsStep ==
  ASSUME TraceTypeOK, ProcessInv, ParityInv, UnreadInv, RanInv, TreeInv, TraceNext, plain'
  PROVE  RanInv' /\ TreeInv'
<1> USE DEF TraceTypeOK
<1>1. ASSUME NEW t \in Tasks, NEW c \in Calls, Enter(t, c) PROVE RanInv' /\ TreeInv'
  <2>1. /\ stop[t] = "run" /\ stop' = [stop EXCEPT ![t] = "entry"]
        /\ call' = [call EXCEPT ![t] = [what |-> c, done |-> FALSE]]
        /\ UNCHANGED <<events, ran, running, parent, born>>
    BY <1>1 DEF Enter, observation
  <2>2. stop'[t] = "entry"
        /\ \A u \in Tasks : u # t => call'[u] = call[u] /\ stop'[u] = stop[u]
    BY <2>1
  <2>3. ~Tentative(t) /\ ~Tentative(t)'
    BY <2>1, <2>2 DEF Tentative
  <2>4. \A u \in Tasks : u # t => (Tentative(u)' <=> Tentative(u))
    BY <2>2, Zenon DEF Tentative
  <2>5. StopsKnown
    BY <2>1, <2>2 DEF StopsKnown
  <2>6. RanInv' /\ \A i : OnTrial(i)' <=> OnTrial(i)
    BY <2>1, <2>2, <2>3, <2>4, RanQuiet
  <2> QED BY <2>1, <2>5, <2>6, TreeQuiet
<1>2. ASSUME NEW t \in Tasks, Fails(t) \/ Does(t) PROVE RanInv' /\ TreeInv'
  <2>1. /\ stop[t] = "kernel" /\ stop' = [stop EXCEPT ![t] = "exit"]
        /\ UNCHANGED <<events, ran, running, parent, born>>
        /\ \/ call[t].what.nr = "execve" /\ UNCHANGED call
           \/ call[t].what.nr # "execve" /\ call' = [call EXCEPT ![t].done = TRUE]
    BY <1>2 DEF Fails, Does, InKernel, Others, observation, happened
  <2>2. /\ stop'[t] = "exit" /\ call'[t].what = call[t].what
        /\ \A u \in Tasks : u # t => call'[u] = call[u] /\ stop'[u] = stop[u]
    BY <2>1
  <2>3. Tentative(t)' <=> Tentative(t)
    BY <2>1, <2>2 DEF Tentative
  <2>4. \A u \in Tasks : u # t => (Tentative(u)' <=> Tentative(u))
    BY <2>2, Zenon DEF Tentative
  <2>5. StopsKnown
    BY <2>1, <2>2 DEF StopsKnown
  <2>6. RanInv' /\ \A i : OnTrial(i)' <=> OnTrial(i)
    BY <2>1, <2>2, <2>3, <2>4, RanQuiet
  <2> QED BY <2>1, <2>5, <2>6, TreeQuiet
<1>3. ASSUME NEW t \in Tasks, Execs(t) PROVE RanInv' /\ TreeInv'
  <2>1. /\ stop[t] = "kernel" /\ call[t].what.nr = "execve" /\ ~call[t].done
        /\ call[t].what.read # None
        /\ stop' = [stop EXCEPT ![t] = "exit"] /\ call' = [call EXCEPT ![t].done = TRUE]
        /\ UNCHANGED <<events, parent, born>> /\ ran' = ran \cup {Binary[call[t].what.path]}
        /\ running' = [running EXCEPT ![t] = Binary[call[t].what.path]]
    BY <1>3, PlainExec DEF observation
  <2>2. /\ stop'[t] = "exit" /\ call'[t].done
        /\ \A u \in Tasks : u # t => call'[u] = call[u] /\ stop'[u] = stop[u]
    BY <2>1
  <2>3. Tentative(t) /\ ~Tentative(t)'
    BY <2>1, <2>2 DEF Tentative
  <2>4. \A u \in Tasks : u # t => (Tentative(u)' <=> Tentative(u))
    BY <2>2, Zenon DEF Tentative
  <2>5. StopsKnown
    BY <2>1, <2>2 DEF StopsKnown
  <2>6. /\ RanInv'
        /\ \E k \in DOMAIN events :
             /\ LastExec(k, t) /\ ~OnTrial(k)'
             /\ \A i \in DOMAIN events : i # k => (OnTrial(i)' <=> OnTrial(i))
                                               /\ (events'[i].failed <=> events[i].failed)
    BY <2>1, <2>2, <2>3, <2>4, RanDecided
  <2>7. PICK k \in DOMAIN events :
             /\ LastExec(k, t) /\ ~OnTrial(k)'
             /\ \A i \in DOMAIN events : i # k => (OnTrial(i)' <=> OnTrial(i))
                                               /\ (events'[i].failed <=> events[i].failed)
    BY <2>6, Zenon
  <2>8. TreeInv'
    BY <2>1, <2>3, <2>5, <2>7, TreeRan
  <2> QED BY <2>6, <2>8
<1>4. ASSUME NEW t \in Tasks, Forks(t) PROVE RanInv' /\ TreeInv'
  <2>1. PICK u \in Tasks :
           /\ u # t /\ stop[u] = "none" /\ stop[t] = "kernel"
           /\ call[t].what.nr \in {"fork", "clone"}
           /\ stop' = [stop EXCEPT ![t] = "exit", ![u] = "born"]
           /\ call' = [call EXCEPT ![t].done = TRUE]
           /\ group[t] \in Tasks /\ \A v \in Tasks : group[v] # u
           /\ \E pid \in {u, group[t]} : group' = [group EXCEPT ![u] = pid]
           /\ parent' = [parent EXCEPT ![u] = group[t]]
           /\ running' = [running EXCEPT ![u] = running[group[t]]]
           /\ born' = [born EXCEPT ![u] = [at |-> Len(events), running |-> running[group[t]]]]
           /\ UNCHANGED <<atEntry, observation, ended, happened>>
    BY <1>4, ForkStep, Zenon
  <2>2. /\ stop'[t] = "exit" /\ stop'[u] = "born" /\ call'[t].what = call[t].what
        /\ \A v \in Tasks : v # t => call'[v] = call[v]
        /\ \A v \in Tasks : v # t /\ v # u => stop'[v] = stop[v]
    BY <2>1
  <2>3. /\ ~Tentative(t) /\ ~Tentative(t)' /\ ~Tentative(u) /\ ~Tentative(u)'
    BY <2>1, <2>2 DEF Tentative
  <2>4. \A v \in Tasks : v # t /\ v # u => (Tentative(v)' <=> Tentative(v))
    BY <2>2, Zenon DEF Tentative
  <2>5. \A v \in Tasks : (Tentative(v)' <=> Tentative(v)) /\ call'[v].what = call[v].what
    BY <2>2, <2>3, <2>4
  <2>6. UNCHANGED <<events, ran>>
    BY <2>1 DEF observation, happened
  <2>7. RanInv' /\ \A i : OnTrial(i)' <=> OnTrial(i)
    BY <2>5, <2>6, RanQuiet
  <2> QED BY <2>1, <2>3, <2>6, <2>7, TreeForked
<1>5. ASSUME NEW t \in Tasks, Meet(t) PROVE RanInv' /\ TreeInv'
  <2>1. /\ stop[t] = "born" /\ stop' = [stop EXCEPT ![t] = "run"]
        /\ UNCHANGED <<call, events, ran, running, parent, born>>
    BY <1>5 DEF Meet, observation, happened
  <2>2. stop'[t] = "run" /\ \A u \in Tasks : u # t => stop'[u] = stop[u]
    BY <2>1
  <2>3. \A u \in Tasks : Tentative(u)' <=> Tentative(u)
    BY <2>1, <2>2 DEF Tentative
  <2>4. StopsKnown
    BY <2>1, <2>2 DEF StopsKnown
  <2>5. RanInv' /\ \A i : OnTrial(i)' <=> OnTrial(i)
    BY <2>1, <2>3, RanQuiet
  <2> QED BY <2>1, <2>4, <2>5, TreeQuiet
<1>6. ASSUME NEW t \in Tasks, TaskExits(t) PROVE RanInv' /\ TreeInv'
  <2>1. PICK gone \in SUBSET Tasks :
           /\ stop[t] = "run" /\ t \in gone
           /\ \A u \in gone : group[u] = group[t] /\ group[u] # None
           /\ group' = [u \in Tasks |-> IF u \in gone THEN None ELSE group[u]]
           /\ stop' = [u \in Tasks |-> IF u \in gone THEN "gone" ELSE stop[u]]
           /\ DOMAIN atEntry' = DOMAIN atEntry \ gone
           /\ \A u \in DOMAIN atEntry' : atEntry'[u] = atEntry[u]
           /\ UNCHANGED <<call, running, parent, born, observation, happened>>
    BY <1>6, ExitStep, Zenon
  <2>2. \A u \in Tasks : /\ u \in gone => stop'[u] = "gone"
                         /\ u \notin gone => stop'[u] = stop[u]
    BY <2>1
  <2>3. \A u \in gone : ~Tentative(u)
    <3>1. ASSUME NEW u \in gone, Tentative(u) PROVE FALSE
      <4>1. InExec(u) /\ u \in Tasks
        BY <2>1, <3>1 DEF InExec, Tentative
      <4>2. u = t
        BY <2>1, <4>1 DEF ParityInv
      <4> QED BY <2>1, <3>1, <4>2 DEF Tentative
    <3> QED BY <3>1
  <2>4. UNCHANGED <<call, events, ran, running, parent, born>>
    BY <2>1 DEF observation, happened
  <2>5. \A u \in Tasks : Tentative(u)' <=> Tentative(u)
    BY <2>2, <2>3, <2>4 DEF Tentative
  <2>6. StopsKnown
    <3>1. ASSUME NEW u \in gone PROVE stop[u] # "none"
      BY <2>1, <3>1 DEF ProcessInv
    <3> QED BY <2>2, <3>1 DEF StopsKnown
  <2>7. RanInv' /\ \A i : OnTrial(i)' <=> OnTrial(i)
    BY <2>4, <2>5, RanQuiet
  <2> QED BY <2>4, <2>6, <2>7, TreeQuiet
<1>7. ASSUME NEW t \in Tasks, Stop(t) PROVE RanInv' /\ TreeInv'
  <2>1. /\ stop[t] \in {"entry", "exit"} /\ UNCHANGED <<call, ran, running, parent, born>>
        /\ stop' = [stop EXCEPT ![t] = IF stop[t] = "entry" THEN "kernel" ELSE "run"]
    BY <1>7, Zenon DEF Stop, happened
  <2>2. \A u \in Tasks : u # t => stop'[u] = stop[u]
    BY <2>1
  <2>3. t \in DOMAIN atEntry /\ (atEntry[t] <=> stop[t] = "entry")
    BY <2>1 DEF ParityInv
  <2>4. \A u \in Tasks \ {t} : Tentative(u)' <=> Tentative(u)
    BY <2>1, <2>2, Zenon DEF Tentative
  <2>0. StopsKnown
    BY <2>1, <2>2 DEF StopsKnown
  <2>5. CASE stop[t] = "entry"
    <3>1. Decode(t) /\ stop'[t] = "kernel" /\ ~Tentative(t)
      BY <1>7, <2>1, <2>3, <2>5 DEF Stop, Tentative
    <3>2. ~call[t].done
      BY <2>5 DEF ParityInv
    <3>3. events' \in Seq(EventSet)
      BY <2>5, <3>1, DecodeEvents
    <3>4. \/ /\ call[t].what.nr = "execve" /\ call[t].what.read # None
             /\ events' = Append(events, Exec(group[t], Ppid(t), call[t].what.read))
          \/ /\ call[t].what.nr = "connect"
             /\ events' = Append(events, Connect(group[t], Ppid(t)))
          \/ /\ call[t].what.nr = "execve" => call[t].what.read = None
             /\ events' = events
      BY <2>5, <3>1, <3>2, DecodeEvents
    <3>5. Tentative(t)' <=> call[t].what.nr = "execve" /\ call[t].what.read # None
      BY <2>1, <3>1, <3>2 DEF Tentative
    <3>6. ASSUME NEW e, events' = Append(events, e) PROVE e \in EventSet
      BY <3>3, <3>6
    <3>7. CASE /\ call[t].what.nr = "execve" /\ call[t].what.read # None
               /\ events' = Append(events, Exec(group[t], Ppid(t), call[t].what.read))
      <4> DEFINE e == Exec(group[t], Ppid(t), call[t].what.read)
      <4>1. InExec(t)
        BY <2>5, <3>7 DEF InExec
      <4>2. group[t] = t
        BY <4>1, SoleExec
      <4>3. Told(call[t].what)
        BY <3>7, <4>1 DEF ParityInv, Vain
      <4>4. e.kind = "exec" /\ e.pid = t /\ ~e.failed /\ e.path = call[t].what.path
            /\ e.path \in Absolute
        BY <4>2, <4>3 DEF Exec, Told, Simple
      <4>5. e \in EventSet
        BY <3>6, <3>7
      <4> HIDE DEF e
      <4>6. PICK d \in EventSet : d = e
        BY <4>5
      <4>7. events' = Append(events, d)
        BY <3>7, <4>6 DEF e
      <4>8. /\ RanInv' /\ \A i \in DOMAIN events : OnTrial(i)' <=> OnTrial(i)
            /\ \A n : n = Len(events) + 1 => OnTrial(n)'
        BY <2>1, <2>4, <3>1, <3>5, <3>7, <4>4, <4>6, <4>7, RanRecorded
      <4>9. d.seq = Len(events) + 1 /\ d.pid = group[t] /\ d.ppid = Ppid(t) /\ ~d.failed
            /\ d.forked = born[group[t]].at /\ d.kind = "exec"
            /\ d.truth = born[group[t]].running
        BY <4>6 DEF e, Exec
      <4> QED BY <2>0, <2>1, <2>5, <3>1, <4>7, <4>8, <4>9, TreeRecorded
    <3>8. CASE /\ call[t].what.nr = "connect"
               /\ events' = Append(events, Connect(group[t], Ppid(t)))
      <4> DEFINE e == Connect(group[t], Ppid(t))
      <4>1. e.kind # "exec"
        BY DEF Connect
      <4>2. e \in EventSet
        BY <3>6, <3>8
      <4> HIDE DEF e
      <4>3. PICK d \in EventSet : d = e
        BY <4>2
      <4>4. events' = Append(events, d)
        BY <3>8, <4>3 DEF e
      <4>5. RanInv' /\ \A i \in DOMAIN events : OnTrial(i)' <=> OnTrial(i)
        BY <2>1, <2>4, <3>1, <3>5, <3>8, <4>1, <4>3, <4>4, RanRecorded
      <4>6. d.seq = Len(events) + 1 /\ d.pid = group[t] /\ d.ppid = Ppid(t) /\ ~d.failed
            /\ d.forked = born[group[t]].at /\ d.kind = "connect" /\ d.truth = running[group[t]]
        BY <4>3 DEF e, Connect
      <4> QED BY <2>0, <2>1, <2>5, <3>1, <4>4, <4>5, <4>6, TreeRecorded
    <3>9. CASE /\ call[t].what.nr = "execve" => call[t].what.read = None
               /\ events' = events
      <4>1. \A u \in Tasks : Tentative(u)' <=> Tentative(u)
        BY <2>4, <3>1, <3>5, <3>9
      <4>2. RanInv' /\ \A i : OnTrial(i)' <=> OnTrial(i)
        BY <2>1, <3>9, <4>1, RanQuiet
      <4> QED BY <2>0, <2>1, <3>9, <4>2, TreeQuiet
    <3> QED BY <3>4, <3>7, <3>8, <3>9
  <2>6. CASE stop[t] = "exit"
    <3>1. /\ stop'[t] = "run"
          /\ events' = IF call[t].what.nr = "execve" /\ ~call[t].done
                       THEN MarkFailed(group[t]) ELSE events
      BY <1>7, <2>1, <2>3, <2>6 DEF Stop, Regs
    <3>2. ~Tentative(t)'
      BY <3>1 DEF Tentative
    <3>3. CASE call[t].what.nr = "execve" /\ ~call[t].done /\ call[t].what.read # None
      <4>1. InExec(t) /\ Tentative(t)
        BY <2>6, <3>3 DEF InExec, Tentative
      <4>2. group[t] = t
        BY <4>1, SoleExec
      <4>3. events' = MarkFailed(t)
        BY <3>1, <3>3, <4>2
      <4>4. /\ RanInv'
            /\ \E k \in DOMAIN events :
                 /\ LastExec(k, t) /\ ~OnTrial(k)'
                 /\ \A i \in DOMAIN events : i # k => (OnTrial(i)' <=> OnTrial(i))
                                                   /\ (events'[i].failed <=> events[i].failed)
        BY <2>1, <2>4, <3>2, <4>1, <4>3, RanDecided
      <4>5. PICK k \in DOMAIN events :
               /\ LastExec(k, t) /\ ~OnTrial(k)'
               /\ \A i \in DOMAIN events : i # k => (OnTrial(i)' <=> OnTrial(i))
                                                 /\ (events'[i].failed <=> events[i].failed)
        BY <4>4, Zenon
      <4>6. TreeInv'
        BY <2>0, <2>1, <4>1, <4>3, <4>5, TreeFailed, Zenon
      <4> QED BY <4>4, <4>6
    <3>4. CASE ~(call[t].what.nr = "execve" /\ ~call[t].done /\ call[t].what.read # None)
      <4>1. ~Tentative(t) /\ events' = events
        <5>1. CASE ~(call[t].what.nr = "execve" /\ ~call[t].done)
          BY <3>1, <5>1 DEF Tentative
        <5>2. CASE call[t].what.nr = "execve" /\ ~call[t].done
          <6>1. InExec(t) /\ call[t].what.read = None
            BY <2>6, <3>4, <5>2 DEF InExec
          <6>2. Marks(group[t]) = {}
            BY <6>1, SoleExec DEF UnreadInv
          <6> QED BY <3>1, <5>2, <6>1, <6>2, NoMarks DEF Tentative
        <5> QED BY <5>1, <5>2
      <4>2. \A u \in Tasks : Tentative(u)' <=> Tentative(u)
        BY <2>4, <3>2, <4>1
      <4>3. RanInv' /\ \A i : OnTrial(i)' <=> OnTrial(i)
        BY <2>1, <4>1, <4>2, RanQuiet
      <4> QED BY <2>0, <2>1, <4>1, <4>3, TreeQuiet
    <3> QED BY <3>3, <3>4
  <2> QED BY <2>1, <2>5, <2>6
<1> QED BY <1>1, <1>2, <1>3, <1>4, <1>5, <1>6, <1>7, Zenon DEF TraceNext

-----------------------------------------------------------------------------
(* The whole invariant, and what follows for the learned profile.          *)

LEMMA TraceStep ==
  ASSUME TraceTypeOK, ProcessInv, TracerInv, EndInv, TraceNext
  PROVE  TraceTypeOK' /\ ProcessInv' /\ TracerInv' /\ EndInv' /\ ~ended
<1>1. TraceTypeOK' /\ ProcessInv'
  BY TraceTypeStep, ProcessStep
<1>2. ~ended /\ (plain' => plain)
  <2>1. ASSUME NEW t \in Tasks, NEW c \in Calls, Enter(t, c) PROVE ~ended /\ (plain' => plain)
    BY <2>1, Zenon DEF Enter
  <2>2. ASSUME NEW t \in Tasks, Fails(t) \/ Does(t) \/ Execs(t) \/ Forks(t)
        PROVE  ~ended /\ plain' = plain
    BY <2>2, Zenon DEF Fails, Does, Execs, Forks, InKernel, happened
  <2>3. ASSUME NEW t \in Tasks, Meet(t) \/ Stop(t) \/ TaskExits(t)
        PROVE  ~ended /\ plain' = plain
    BY <2>3, Zenon DEF Meet, Stop, TaskExits, happened
  <2> QED BY <2>1, <2>2, <2>3 DEF TraceNext
<1>3. TracerInv'
  <2>1. ASSUME plain' PROVE ParityInv' /\ UnreadInv' /\ SeenInv' /\ RanInv' /\ TreeInv'
    <3>1. ParityInv /\ UnreadInv /\ SeenInv /\ RanInv /\ TreeInv
      BY <1>2, <2>1, Zenon DEF TracerInv
    <3> QED BY <2>1, <3>1, ParityStep, UnreadStep, SeenStep, RecordsStep
  <2> QED BY <2>1, Zenon DEF TracerInv
<1>4. EndInv'
  <2>1. SUFFICES ASSUME ended', plain', NEW u \in Tasks PROVE stop'[u] \in {"none", "born", "gone"}
    BY Zenon DEF EndInv
  <2>2. PICK t \in Tasks : TaskExits(t)
    BY <1>2, <2>1, Zenon DEF TraceNext, Enter, Fails, Does, Execs, Forks, Meet, Stop, InKernel
  <2>3. PICK gone \in SUBSET Tasks :
           /\ group' = [v \in Tasks |-> IF v \in gone THEN None ELSE group[v]]
           /\ DOMAIN atEntry' = {} \/ Alive = gone
    BY <2>1, <2>2, ExitStep, Zenon
  <2>4. ParityInv'
    BY <1>3, <2>1, Zenon DEF TracerInv
  <2>5. CASE DOMAIN atEntry' = {}
    BY <1>1, <2>4, <2>5 DEF ParityInv, TraceTypeOK
  <2>6. CASE Alive = gone
    <3>1. group'[u] = None
      BY <2>3, <2>6 DEF Alive
    <3> QED BY <1>1, <3>1 DEF ProcessInv
  <2> QED BY <2>3, <2>5, <2>6
<1> QED BY <1>1, <1>2, <1>3, <1>4

LEMMA TraceStart == TraceInit => TracerInv /\ EndInv
<1> SUFFICES ASSUME TraceInit PROVE TracerInv /\ EndInv
  OBVIOUS
<1> USE TracingAssumption
<1>1. PICK path \in Commands :
       /\ group = [t \in Tasks |-> IF t = Root THEN Root ELSE None]
       /\ stop = [t \in Tasks |-> IF t = Root THEN "run" ELSE "none"]
       /\ call = [t \in Tasks |-> [what |-> [nr |-> "none"], done |-> FALSE]]
       /\ running = [t \in Tasks |-> Runs(Binary[path])]
       /\ parent = [t \in Tasks |-> None]
       /\ born = [t \in Tasks |-> [at |-> 0, running |-> None]]
       /\ ended = FALSE
       /\ atEntry = [t \in {Root} |-> TRUE]
       /\ events = <<[kind |-> "exec", pid |-> Root, ppid |-> None,
                      path |-> Where[Runs(Binary[path])], seq |-> 1, failed |-> FALSE,
                      truth |-> None, forked |-> 0]>>
       /\ reads = {} /\ writes = {} /\ syscalls = {}
       /\ ran = Chain(Binary[path]) /\ places = {} /\ used = {}
       /\ plain = Simple(path)
  BY DEF TraceInit
<1>2. EndInv
  BY <1>1 DEF EndInv
<1>3. \A t \in Tasks : stop[t] \notin {"entry", "kernel", "exit"}
  BY <1>1
<1>4. ParityInv /\ UnreadInv
  BY <1>1, <1>3 DEF ParityInv, UnreadInv, InExec
<1>5. SeenInv
  BY <1>1, <1>3 DEF SeenInv
<1>6. ASSUME plain PROVE RanInv
  <2> DEFINE f == Runs(Binary[path])
  <2>1. f = Binary[path] /\ ran = {f}
    BY <1>1, <1>6 DEF Simple, Runs, Chain
  <2>2. Where[f] \in Absolute /\ Binary[Where[f]] = f
    OBVIOUS
  <2> HIDE DEF f
  <2>3. DOMAIN events = {1} /\ events[1].kind = "exec" /\ ~events[1].failed
        /\ events[1].path = Where[f]
    BY <1>1 DEF f
  <2>4. \A i : ~OnTrial(i)
    BY <1>3 DEF OnTrial, Tentative
  <2>5. Standing(1)
    BY <2>3 DEF Standing
  <2>6. \A t \in Tasks : ~Tentative(t)
    BY <1>3 DEF Tentative
  <2> QED BY <2>1, <2>2, <2>3, <2>4, <2>5, <2>6 DEF RanInv
<1>7. ASSUME plain PROVE TreeInv
  <2> DEFINE f == Runs(Binary[path])
  <2>1. Binary[Where[f]] = f
    OBVIOUS
  <2>2. \A q \in Tasks : running[q] = f /\ parent[q] = None
          /\ born[q].at = 0 /\ born[q].running = None /\ (stop[q] # "none" <=> q = Root)
    BY <1>1
  <2> HIDE DEF f
  <2>3. /\ DOMAIN events = {1} /\ Len(events) = 1 /\ events[1].kind = "exec"
        /\ ~events[1].failed /\ events[1].path = Where[f] /\ events[1].pid = Root
        /\ events[1].ppid = None /\ events[1].truth = None /\ events[1].forked = 0
        /\ events[1].seq = 1
    BY <1>1 DEF f
  <2>4. \A i : ~OnTrial(i)
    BY <1>3 DEF OnTrial, Tentative
  <2>5. RecordOK(1)
    BY <2>2, <2>3 DEF RecordOK
  <2>6. ASSUME NEW u \in Tasks PROVE ForkOK(u)
    BY <2>2, <2>3, TracingAssumption DEF ForkOK
  <2>7. ASSUME NEW u \in Tasks PROVE ImageOK(u)
    <3>1. \A j : ExecBy(j, u) => j = 1
      BY <2>3 DEF ExecBy
    <3>2. \A n, w : running[u] = w => RanAt(u, n, w)
      BY <2>1, <2>2, <2>3, <3>1 DEF RanAt, LatestSolid, Solid
    <3>3. u = Root => ~Unexeced(u)
      BY <2>3 DEF Unexeced, ExecBy
    <3> QED BY <2>2, <3>2, <3>3, Zenon DEF ImageOK
  <2> QED BY <2>3, <2>5, <2>6, <2>7, Zenon DEF TreeInv
<1> QED BY <1>2, <1>4, <1>5, <1>6, <1>7, Zenon DEF TracerInv

\* What follows once the trace has ended: the profile pins what ran, and denies
\* nothing that was touched.
LEMMA LearnedSound ==
  ASSUME TraceInv
  PROVE  SameRunAgain
<1> DEFINE s == Synthesize
<1> SUFFICES ASSUME profile # {}, plain PROVE PinnedAgain /\ TouchedStays /\ StrictAgain
  BY Zenon DEF SameRunAgain, PinnedAgain, TouchedStays, StrictAgain
<1>1. ended /\ profile = {s} /\ SeenInv /\ RanInv
      /\ \A t \in Tasks : stop[t] \in {"none", "born", "gone"}
  BY Zenon DEF TraceInv, LearnedInv, TracerInv, EndInv
<1>2. \A i : ~OnTrial(i)
  BY <1>1 DEF OnTrial, Tentative
<1>3. \A e \in ExecEvents : e.path \in Absolute
  BY <1>1 DEF RanInv, ExecEvents
<1>4. ran = {Binary[p] : p \in Executed} /\ Executed # {} /\ Executed \subseteq Absolute
  <2>1. ASSUME NEW f \in ran PROVE \E p \in Executed : Binary[p] = f
    BY <1>1 DEF RanInv, Standing, Executed, ExecEvents
  <2>2. ASSUME NEW p \in Executed PROVE Binary[p] \in ran
    BY <1>1, <1>2 DEF RanInv, Standing, Executed, ExecEvents
  <2>3. ran # {}
    BY <1>1 DEF RanInv
  <2> QED BY <1>3, <2>1, <2>2, <2>3 DEF Executed
<1>5. s.enforce <=> ran \subseteq Readable
  <2>1. s.enforce = (Executed \cap Absolute # {} /\ Hashed = Executed \cap Absolute)
    BY DEF Synthesize
  <2>2. Hashed = {p \in Executed : Binary[p] \in Readable} /\ Executed \cap Absolute = Executed
    BY <1>4 DEF Hashed
  <2> QED BY <1>4, <2>1, <2>2
<1>6. s.digests = {Binary[p] : p \in Hashed} /\ s.denied = Untouched
      /\ s.syscalls = Dangerous \ syscalls
  BY DEF Synthesize
<1> HIDE DEF s
<1>7. s.enforce => Hashed = Executed /\ s.digests = ran
  BY <1>4, <1>5, <1>6 DEF Hashed
<1>8. ASSUME NEW e \in ExecFindings(s) PROVE s.enforce /\ e \in ExecEvents /\ e.failed
  <2>1. s.enforce /\ e \in ExecEvents /\ ~(e.path \in Hashed /\ Binary[e.path] \in s.digests)
    BY <1>8 DEF ExecFindings, AdmitsExec
  <2>2. ASSUME ~e.failed PROVE FALSE
    BY <1>4, <1>7, <2>1, <2>2 DEF Executed
  <2> QED BY <2>1, <2>2
<1>9. FileFindings(s) = {} /\ places \cap s.denied = {} /\ used \cap s.syscalls = {}
  BY <1>1, <1>6 DEF FileFindings, Untouched, SeenInv
<1>10. PinnedAgain
  BY <1>1, <1>5, <1>7, <1>8 DEF PinnedAgain
<1>11. TouchedStays
  BY <1>1, <1>9 DEF TouchedStays
<1>12. StrictAgain
  BY <1>1, <1>8, <1>9 DEF StrictAgain, StrictPasses
<1> QED BY <1>10, <1>11, <1>12

\* The invariant of tracing an agent and learning from it.
THEOREM TraceInductive == LearnSpec => []TraceInv
<1>1. LearnInit => TraceInv
  <2>1. ASSUME LearnInit PROVE TraceInit /\ profile = {}
    BY <2>1, Zenon DEF LearnInit
  <2> QED BY <2>1, TraceTypeInit, TraceStart DEF TraceInv, LearnedInv
<1>2. TraceInv /\ [LearnNext]_learnVars => TraceInv'
  <2> SUFFICES ASSUME TraceInv, [LearnNext]_learnVars PROVE TraceInv'
    OBVIOUS
  <2>1. TraceTypeOK /\ ProcessInv /\ TracerInv /\ EndInv /\ LearnedInv
    BY DEF TraceInv
  <2>2. CASE TraceNext /\ UNCHANGED profile
    <3>1. TraceTypeOK' /\ ProcessInv' /\ TracerInv' /\ EndInv' /\ ~ended
      BY <2>1, <2>2, TraceStep
    <3>2. LearnedInv'
      BY <2>1, <2>2, <3>1 DEF LearnedInv
    <3> QED BY <3>1, <3>2 DEF TraceInv
  <2>3. CASE UNCHANGED traceVars /\ (UNCHANGED profile \/ Learn)
    <3>1. UNCHANGED <<group, stop, call, running, parent, born, calls, atEntry, events, reads,
                      writes, syscalls, ended, ran, places, used, plain>>
      BY <2>3, Zenon DEF traceVars, kernel, observation, happened
    <3>2. TraceTypeOK'
      BY <2>1, <3>1 DEF TraceTypeOK
    <3>3. ProcessInv'
      BY <2>1, <3>1, Zenon DEF ProcessInv
    <3>4. (ParityInv' <=> ParityInv) /\ (UnreadInv' <=> UnreadInv)
      BY <3>1, Zenon DEF ParityInv, UnreadInv, Marks, InExec
    <3>5. SeenInv' <=> SeenInv
      BY <3>1, Zenon DEF SeenInv
    <3>6. RanInv /\ TreeInv => RanInv' /\ TreeInv'
      <4>1. \A t \in Tasks : (Tentative(t)' <=> Tentative(t)) /\ call'[t].what = call[t].what
        BY <3>1, Zenon DEF Tentative
      <4>2. StopsKnown
        BY <3>1, Zenon DEF StopsKnown
      <4>3. RanInv => RanInv' /\ \A i : OnTrial(i)' <=> OnTrial(i)
        BY <3>1, <4>1, RanQuiet
      <4> QED BY <2>1, <3>1, <4>2, <4>3, TreeQuiet
    <3>7. TracerInv' /\ EndInv'
      BY <2>1, <3>1, <3>4, <3>5, <3>6, Zenon DEF TracerInv, EndInv
    <3>8. Synthesize' = Synthesize
      <4>1. ExecEvents' = ExecEvents /\ Untouched' = Untouched
        BY <3>1 DEF ExecEvents, Untouched
      <4>2. Executed' = Executed /\ Hashed' = Hashed
        BY <4>1 DEF Executed, Hashed
      <4> QED BY <3>1, <4>1, <4>2 DEF Synthesize
    <3>9. LearnedInv'
      BY <2>1, <2>3, <3>1, <3>8 DEF LearnedInv, Learn
    <3> QED BY <3>2, <3>3, <3>7, <3>9 DEF TraceInv
  <2> QED BY <2>2, <2>3, Zenon DEF LearnNext, Learn, learnVars
<1> QED BY <1>1, <1>2, PTL DEF LearnSpec

\* In a plain run the learned profile pins exactly what ran, denies no place and no
\* system call that was used, and `--strict` passes the same run, however the tasks'
\* stops were interleaved (supervise, decode_entry, mark_last_exec_failed, synthesize).
THEOREM SameRunPasses == LearnSpec => []SameRunAgain
BY TraceInductive, LearnedSound, PTL

-----------------------------------------------------------------------------
(* The records of a finished run, and the tree drawn from them.            *)

\* A set with 0 and every member's successor has every natural number.
LEMMA NatSets ==
  ASSUME NEW T, 0 \in T, \A n \in Nat : n \in T => n + 1 \in T
  PROVE  Nat \subseteq T
<1> SUFFICES ASSUME Nat \ T # {} PROVE FALSE
  OBVIOUS
<1>1. PICK x \in Nat \ T : \A y \in Nat \ T : ~(<<y, x>> \in OpToRel(<, Nat))
  BY NatLessThanWellFounded, WFMin, Zenon
<1>2. \A y \in Nat \ T : ~(y < x)
  BY <1>1 DEF OpToRel
<1>3. x # 0 /\ x - 1 \in Nat /\ x - 1 \in T
  BY <1>2
<1> QED BY <1>3

\* s holds the first n events of a kind, each of them and nothing else.
Holds(s, kind, n) ==
  /\ s \in Seq(EventSet)
  /\ \A m \in DOMAIN s : \E i \in 1 .. n : events[i].kind = kind /\ s[m] = events[i]
  /\ \A i \in 1 .. n : events[i].kind = kind => \E m \in DOMAIN s : s[m] = events[i]

LEMMA HoldsNext ==
  ASSUME TraceTypeOK, NEW kind, NEW n \in Nat, n + 1 \in DOMAIN events, NEW s, Holds(s, kind, n)
  PROVE  Holds(IF events[n + 1].kind = kind THEN Append(s, events[n + 1]) ELSE s, kind, n + 1)
<1>1. s \in Seq(EventSet)
  BY DEF Holds
<1>2. \A m \in DOMAIN s : \E i \in 1 .. n : events[i].kind = kind /\ s[m] = events[i]
  BY DEF Holds
<1>3. \A i \in 1 .. n : events[i].kind = kind => \E m \in DOMAIN s : s[m] = events[i]
  BY DEF Holds
<1>4. PICK e \in EventSet : e = events[n + 1]
  BY DEF TraceTypeOK
<1>5. n + 1 \in 1 .. (n + 1) /\ \A i \in 1 .. n : i \in 1 .. (n + 1)
  OBVIOUS
<1>6. \A i \in 1 .. (n + 1) : i \in 1 .. n \/ i = n + 1
  OBVIOUS
<1>7. CASE e.kind = kind
  <2>0. Append(s, e) \in Seq(EventSet)
    BY <1>1
  <2>1. PICK s1 \in Seq(EventSet) : s1 = Append(s, e)
    BY <2>0
  <2>2. PICK z : z \in DOMAIN s1 /\ s1[z] = e /\ \A m \in DOMAIN s1 : m \in DOMAIN s \/ m = z
    BY <1>1, <2>1
  <2>3. \A m \in DOMAIN s : m \in DOMAIN s1 /\ s1[m] = s[m]
    BY <1>1, <2>1
  <2>4. \A m \in DOMAIN s1 : \E i \in 1 .. (n + 1) : events[i].kind = kind /\ s1[m] = events[i]
    BY <1>2, <1>4, <1>5, <1>7, <2>2, <2>3, Zenon
  <2>5. \A i \in 1 .. (n + 1) : events[i].kind = kind => \E m \in DOMAIN s1 : s1[m] = events[i]
    BY <1>3, <1>4, <1>6, <2>2, <2>3, Zenon
  <2>6. Holds(s1, kind, n + 1)
    BY <2>1, <2>4, <2>5, Zenon DEF Holds
  <2> QED BY <1>4, <1>7, <2>1, <2>6
<1>8. CASE e.kind # kind
  <2>1. \A m \in DOMAIN s : \E i \in 1 .. (n + 1) : events[i].kind = kind /\ s[m] = events[i]
    BY <1>2, <1>5, Zenon
  <2>2. \A i \in 1 .. (n + 1) : events[i].kind = kind => \E m \in DOMAIN s : s[m] = events[i]
    BY <1>3, <1>4, <1>6, <1>8, Zenon
  <2>3. Holds(s, kind, n + 1)
    BY <1>1, <2>1, <2>2, Zenon DEF Holds
  <2> QED BY <1>4, <1>8, <2>3
<1> QED BY <1>7, <1>8

\* How OfKind goes over the events.
Upto(g, kind, n) ==
  g = [i \in 0 .. n |->
         IF i = 0 THEN <<>>
         ELSE IF events[i].kind = kind THEN Append(g[i - 1], events[i])
         ELSE g[i - 1]]

LEMMA UptoExists == ASSUME NEW kind, NEW n \in Nat PROVE \E g : Upto(g, kind, n)
<1> DEFINE T == {k \in Nat : \E g : Upto(g, kind, k)}
<1>1. 0 \in T
  <2>1. \A i \in 0 .. 0 : i = 0
    OBVIOUS
  <2>2. Upto([i \in 0 .. 0 |-> <<>>], kind, 0)
    BY <2>1 DEF Upto
  <2> QED BY <2>2
<1>2. ASSUME NEW k \in Nat, k \in T PROVE k + 1 \in T
  <2>1. PICK g : Upto(g, kind, k)
    BY <1>2
  <2> DEFINE h == [i \in 0 .. (k + 1) |->
                     IF i = 0 THEN <<>>
                     ELSE IF events[i].kind = kind THEN Append(g[i - 1], events[i])
                     ELSE g[i - 1]]
  <2>2. \A i \in 0 .. k : g[i] = IF i = 0 THEN <<>>
                     ELSE IF events[i].kind = kind THEN Append(g[i - 1], events[i])
                     ELSE g[i - 1]
    BY <2>1, Zenon DEF Upto
  <2>3. \A i \in 0 .. k : i \in 0 .. (k + 1)
    OBVIOUS
  <2>4. \A i \in 0 .. k : h[i] = g[i]
    BY <2>2, <2>3, Zenon
  <2>5. \A i \in 0 .. (k + 1) : i # 0 => i - 1 \in 0 .. k
    OBVIOUS
  <2>6. \A i \in 0 .. (k + 1) :
          (IF i = 0 THEN <<>>
           ELSE IF events[i].kind = kind THEN Append(g[i - 1], events[i]) ELSE g[i - 1])
          = (IF i = 0 THEN <<>>
             ELSE IF events[i].kind = kind THEN Append(h[i - 1], events[i]) ELSE h[i - 1])
    BY <2>4, <2>5, Zenon
  <2>7. h = [i \in 0 .. (k + 1) |->
               IF i = 0 THEN <<>>
               ELSE IF events[i].kind = kind THEN Append(h[i - 1], events[i]) ELSE h[i - 1]]
    BY <2>6, Zenon
  <2> HIDE DEF h
  <2>8. Upto(h, kind, k + 1)
    BY <2>7, Zenon DEF Upto
  <2> QED BY <2>8
<1> HIDE DEF T
<1>3. Nat \subseteq T
  BY <1>1, <1>2, NatSets
<1> QED BY <1>3 DEF T

LEMMA KindHeld == ASSUME TraceTypeOK, NEW kind PROVE Holds(OfKind(kind), kind, Len(events))
<1>0. PICK n \in Nat : n = Len(events) /\ DOMAIN events = 1 .. n
  <2>1. Len(events) \in Nat /\ DOMAIN events = 1 .. Len(events)
    BY DEF TraceTypeOK
  <2> QED BY <2>1
<1> DEFINE g == CHOOSE f : Upto(f, kind, Len(events))
<1>1. Upto(g, kind, n)
  BY <1>0, UptoExists, Zenon
<1>2. OfKind(kind) = g[n]
  BY <1>0 DEF OfKind, Upto
<1> HIDE DEF g
<1>3. \A i \in 0 .. n : g[i] = IF i = 0 THEN <<>>
                     ELSE IF events[i].kind = kind THEN Append(g[i - 1], events[i])
                     ELSE g[i - 1]
  BY <1>1, Zenon DEF Upto
<1> DEFINE T == {k \in Nat : k <= n => Holds(g[k], kind, k)}
<1>4. 0 \in T
  <2>1. g[0] = <<>>
    BY <1>3
  <2>2. Holds(<<>>, kind, 0)
    BY DEF Holds
  <2> QED BY <2>1, <2>2
<1>5. ASSUME NEW k \in Nat, k \in T PROVE k + 1 \in T
  <2> SUFFICES ASSUME k + 1 <= n PROVE Holds(g[k + 1], kind, k + 1)
    OBVIOUS
  <2>1. k <= n /\ k + 1 \in 0 .. n /\ k + 1 # 0 /\ (k + 1) - 1 = k /\ k + 1 \in DOMAIN events
    BY <1>0
  <2>2. Holds(g[k], kind, k)
    BY <1>5, <2>1
  <2>3. g[k + 1] = IF events[k + 1].kind = kind THEN Append(g[k], events[k + 1]) ELSE g[k]
    BY <1>3, <2>1
  <2>4. Holds(IF events[k + 1].kind = kind THEN Append(g[k], events[k + 1]) ELSE g[k], kind, k + 1)
    BY <2>1, <2>2, HoldsNext, Zenon
  <2> QED BY <2>3, <2>4
<1> HIDE DEF T
<1>6. n \in T
  BY <1>4, <1>5, NatSets
<1> QED BY <1>0, <1>2, <1>6 DEF T

\* The audit file has every event's record, and no other.
LEMMA AllWritten ==
  ASSUME TraceTypeOK, ended
  PROVE  /\ Written \in Seq(EventSet)
         /\ \A n \in DOMAIN Written : \E i \in DOMAIN events : Written[n] = events[i]
         /\ \A i \in DOMAIN events : \E n \in DOMAIN Written : Written[n] = events[i]
<1>1. PICK s, r : s = OfKind("exec") /\ r = OfKind("connect")
  OBVIOUS
<1>2. Written = s \o r
  BY <1>1 DEF Written
<1>3. Holds(s, "exec", Len(events)) /\ Holds(r, "connect", Len(events))
  BY <1>1, KindHeld
<1>4. /\ DOMAIN events = 1 .. Len(events)
      /\ \A i \in DOMAIN events : events[i].kind = "exec" \/ events[i].kind = "connect"
  <2>1. DOMAIN events = 1 .. Len(events) /\ \A i \in DOMAIN events : events[i] \in EventSet
    BY DEF TraceTypeOK
  <2> QED BY <2>1 DEF EventSet
<1>5. /\ s \in Seq(EventSet) /\ r \in Seq(EventSet)
      /\ \A n \in DOMAIN s : \E i \in DOMAIN events : s[n] = events[i]
      /\ \A n \in DOMAIN r : \E i \in DOMAIN events : r[n] = events[i]
      /\ \A i \in DOMAIN events : \/ \E n \in DOMAIN s : s[n] = events[i]
                                  \/ \E n \in DOMAIN r : r[n] = events[i]
  <2>1. s \in Seq(EventSet) /\ r \in Seq(EventSet)
    BY <1>3, Zenon DEF Holds
  <2>2. \A n \in DOMAIN s : \E i \in DOMAIN events : s[n] = events[i]
    BY <1>3, <1>4, Zenon DEF Holds
  <2>3. \A n \in DOMAIN r : \E i \in DOMAIN events : r[n] = events[i]
    <3>1. Holds(r, "connect", Len(events))
      BY <1>3
    <3> QED BY <1>4, <3>1, Zenon DEF Holds
  <2>4. \A i \in DOMAIN events : events[i].kind = "exec" => \E n \in DOMAIN s : s[n] = events[i]
    BY <1>3, <1>4, Zenon DEF Holds
  <2>5. \A i \in DOMAIN events : events[i].kind = "connect" => \E n \in DOMAIN r : r[n] = events[i]
    BY <1>3, <1>4, Zenon DEF Holds
  <2> QED BY <1>4, <2>1, <2>2, <2>3, <2>4, <2>5, Zenon
<1>6. PICK log \in Seq(EventSet) : log = s \o r
  <2>1. s \o r \in Seq(EventSet)
    BY <1>5
  <2> QED BY <2>1
<1>7. \A n \in DOMAIN s : n \in DOMAIN log /\ log[n] = s[n]
  BY <1>5, <1>6
<1>8. \A n \in DOMAIN r : \E m \in DOMAIN log : log[m] = r[n]
  <2>1. ASSUME NEW n \in DOMAIN r PROVE Len(s) + n \in DOMAIN log /\ log[Len(s) + n] = r[n]
    BY <1>5, <1>6
  <2> QED BY <2>1
<1>9. \A m \in DOMAIN log : m \in DOMAIN s \/ \E n \in DOMAIN r : log[m] = r[n]
  <2>1. ASSUME NEW m \in DOMAIN log, m \notin DOMAIN s
        PROVE  m - Len(s) \in DOMAIN r /\ log[m] = r[m - Len(s)]
    BY <1>5, <1>6, <2>1
  <2> QED BY <2>1
<1>10. /\ \A n \in DOMAIN log : \E i \in DOMAIN events : log[n] = events[i]
       /\ \A i \in DOMAIN events : \E n \in DOMAIN log : log[n] = events[i]
  <2>1. ASSUME NEW n \in DOMAIN log PROVE \E i \in DOMAIN events : log[n] = events[i]
    <3>1. CASE n \in DOMAIN s
      BY <1>5, <1>7, <3>1
    <3>2. CASE \E m \in DOMAIN r : log[n] = r[m]
      BY <1>5, <3>2, Zenon
    <3> QED BY <1>9, <3>1, <3>2, Zenon
  <2>2. ASSUME NEW i \in DOMAIN events PROVE \E n \in DOMAIN log : log[n] = events[i]
    <3>1. CASE \E n \in DOMAIN s : s[n] = events[i]
      BY <1>7, <3>1, Zenon
    <3>2. CASE \E n \in DOMAIN r : r[n] = events[i]
      BY <1>8, <3>2, Zenon
    <3> QED BY <1>5, <3>1, <3>2, Zenon
  <2> QED BY <2>1, <2>2
<1> QED BY <1>2, <1>6, <1>10

\* The latest of some records is one of them, and none comes after it.
LEMMA LatestIs ==
  ASSUME NEW log \in Seq(EventSet), NEW S \in SUBSET DOMAIN log, S # {}
  PROVE  Latest(log, S) \in S /\ \A m \in S : log[m].seq <= log[Latest(log, S)].seq
<1> DEFINE Last(R, n) == n \in R /\ \A m \in R : log[m].seq <= log[n].seq
           T == {k \in Nat : \A R \in SUBSET (DOMAIN log \cap 1 .. k) : R # {} => \E n : Last(R, n)}
<1>0. \A m \in DOMAIN log : log[m].seq \in Nat
  <2>1. \A m \in DOMAIN log : log[m] \in EventSet
    OBVIOUS
  <2> QED BY <2>1 DEF EventSet
<1>1. 0 \in T
  OBVIOUS
<1>2. ASSUME NEW k \in Nat, k \in T PROVE k + 1 \in T
  <2> SUFFICES ASSUME NEW R \in SUBSET (DOMAIN log \cap 1 .. (k + 1)), R # {}
               PROVE  \E n : Last(R, n)
    OBVIOUS
  <2> DEFINE Q == R \ {k + 1}
  <2>1. Q \in SUBSET (DOMAIN log \cap 1 .. k)
    OBVIOUS
  <2>2. CASE Q = {}
    <3>1. R = {k + 1}
      BY <2>2
    <3>2. Last(R, k + 1)
      BY <1>0, <3>1
    <3> QED BY <3>2
  <2>3. CASE Q # {}
    <3>1. PICK n : Last(Q, n)
      BY <1>2, <2>1, <2>3
    <3>2. \A m \in R : m \in Q \/ m = k + 1
      OBVIOUS
    <3>3. n \in R /\ log[n].seq \in Nat
      BY <1>0, <3>1
    <3>4. CASE k + 1 \in R /\ log[n].seq <= log[k + 1].seq
      <4>1. log[k + 1].seq \in Nat /\ \A m \in Q : log[m].seq \in Nat
        BY <1>0, <3>4
      <4>2. Last(R, k + 1)
        BY <3>1, <3>2, <3>3, <3>4, <4>1
      <4> QED BY <4>2
    <3>5. CASE ~(k + 1 \in R /\ log[n].seq <= log[k + 1].seq)
      <4>1. k + 1 \in R => log[k + 1].seq \in Nat
        BY <1>0
      <4>2. Last(R, n)
        BY <3>1, <3>2, <3>3, <3>5, <4>1
      <4> QED BY <4>2
    <3> QED BY <3>4, <3>5
  <2> QED BY <2>2, <2>3
<1> HIDE DEF T
<1>3. Len(log) \in T /\ DOMAIN log = 1 .. Len(log)
  BY <1>1, <1>2, NatSets
<1>4. \E n : Last(S, n)
  BY <1>3 DEF T
<1>5. Latest(log, S) = CHOOSE n \in S : \A m \in S : log[m].seq <= log[n].seq
  BY DEF Latest, Order
<1> QED BY <1>4, <1>5

\* The latest record of a process before another is the latest event that stands.
LEMMA LatestBefore ==
  ASSUME TraceTypeOK, ended, TreeInv, NEW log, log = Written, NEW n \in DOMAIN log,
         NEW i \in DOMAIN events, log[n] = events[i], NEW p, Before(log, n, p) # {}
  PROVE  \E j \in DOMAIN events, o \in Before(log, n, p) :
           /\ o = Latest(log, Before(log, n, p)) /\ log[o] = events[j] /\ log[o].seq = j
           /\ p \in Tasks /\ ExecBy(j, p) /\ ~events[j].failed /\ j < i /\ log[n].seq = i
           /\ \A k : Solid(k, p) /\ k < i => k <= j
<1>1. /\ log \in Seq(EventSet)
      /\ \A m \in DOMAIN log : \E j \in DOMAIN events : log[m] = events[j]
      /\ \A j \in DOMAIN events : \E m \in DOMAIN log : log[m] = events[j]
  BY AllWritten
<1>2. \A j \in DOMAIN events : events[j].seq = j /\ events[j].pid \in Tasks
  <2>1. \A j \in DOMAIN events : events[j].seq = j
    BY Zenon DEF TreeInv, RecordOK
  <2>2. \A j \in DOMAIN events : events[j] \in EventSet
    BY DEF TraceTypeOK
  <2> QED BY <2>1, <2>2 DEF EventSet
<1>3. PICK S : S = Before(log, n, p)
  OBVIOUS
<1>4. \A m : m \in S <=> /\ m \in DOMAIN log /\ log[m].kind = "exec" /\ log[m].pid = p
                         /\ log[m].seq < log[n].seq /\ ~log[m].failed
  BY <1>3 DEF Before, ExecsOf, Execed, Order
<1>5. S # {} /\ S \in SUBSET DOMAIN log
  BY <1>3, <1>4
<1>6. PICK o \in S : o = Latest(log, S) /\ \A m \in S : log[m].seq <= log[o].seq
  <2>1. Latest(log, S) \in S /\ \A m \in S : log[m].seq <= log[Latest(log, S)].seq
    BY <1>1, <1>5, LatestIs
  <2> QED BY <2>1
<1>7. PICK j \in DOMAIN events : log[o] = events[j]
  BY <1>1, <1>5, <1>6
<1>8. log[n].seq = i /\ log[o].seq = j
  BY <1>2, <1>7
<1>9. p \in Tasks /\ ExecBy(j, p) /\ ~events[j].failed /\ j < i
  BY <1>2, <1>4, <1>6, <1>7, <1>8 DEF ExecBy
<1>10. ASSUME NEW k, Solid(k, p), k < i PROVE k <= j
  <2>1. k \in DOMAIN events /\ events[k].kind = "exec" /\ events[k].pid = p /\ ~events[k].failed
    BY <1>10 DEF Solid, ExecBy
  <2>2. PICK m \in DOMAIN log : log[m] = events[k]
    BY <1>1, <2>1
  <2>3. m \in S /\ log[m].seq = k
    BY <1>2, <1>4, <1>8, <1>10, <2>1, <2>2
  <2> QED BY <1>6, <1>8, <2>3
<1> QED BY <1>3, <1>6, <1>7, <1>8, <1>9, <1>10

\* A connect that hangs off its own process's exec was made by that exec's binary.
LEMMA OwnTold ==
  ASSUME TraceTypeOK, ended, TreeInv, NEW log, log = Written, NEW n \in DOMAIN log,
         log[n].kind = "connect", NEW p, p = log[n].pid, Before(log, n, p) # {}
  PROVE  Binary[log[Latest(log, Before(log, n, p))].path] = log[n].truth
<1>1. PICK i \in DOMAIN events : log[n] = events[i]
  BY AllWritten
<1>2. PICK j \in DOMAIN events, o \in Before(log, n, p) :
         /\ o = Latest(log, Before(log, n, p)) /\ log[o] = events[j] /\ log[o].seq = j
         /\ p \in Tasks /\ ExecBy(j, p) /\ ~events[j].failed /\ j < i /\ log[n].seq = i
         /\ \A k : Solid(k, p) /\ k < i => k <= j
  BY <1>1, LatestBefore
<1>3. RecordOK(i)
  BY Zenon DEF TreeInv
<1>4. Settled(p, i) /\ RanAt(p, i, events[i].truth)
  BY <1>1, <1>2, <1>3, Zenon DEF RecordOK
<1>5. i \in Nat /\ j \in Nat /\ j <= i
  BY <1>2 DEF TraceTypeOK
<1>6. Solid(j, p)
  BY <1>2, <1>4, <1>5 DEF Solid, Settled
<1>7. ASSUME NEW k, Solid(k, p), k <= i PROVE k <= j
  <2>1. k \in DOMAIN events /\ events[k].kind = "exec"
    BY <1>7 DEF Solid, ExecBy
  <2>2. k \in Nat /\ k # i
    BY <1>1, <2>1 DEF TraceTypeOK
  <2> QED BY <1>2, <1>5, <1>7, <2>2
<1>8. LatestSolid(j, p, i)
  BY <1>5, <1>6, <1>7 DEF LatestSolid
<1> QED BY <1>1, <1>2, <1>4, <1>8, Zenon DEF RanAt

\* What hangs off the parent's exec is of the program that forked the process.
LEMMA ParentTold ==
  ASSUME TraceTypeOK, ended, TreeInv, \A k : ~OnTrial(k),
         NEW log, log = Written, NEW n \in DOMAIN log, NEW i \in DOMAIN events,
         log[n] = events[i], NEW p, p = log[n].ppid, Before(log, n, p) # {},
         Since(log, n, p) = {}
  PROVE  Binary[log[Latest(log, Before(log, n, p))].path] = born[log[n].pid].running
<1>2. PICK j \in DOMAIN events, o \in Before(log, n, p) :
         /\ o = Latest(log, Before(log, n, p)) /\ log[o] = events[j] /\ log[o].seq = j
         /\ p \in Tasks /\ ExecBy(j, p) /\ ~events[j].failed /\ j < i /\ log[n].seq = i
         /\ \A k : Solid(k, p) /\ k < i => k <= j
  BY LatestBefore
<1>3. PICK q \in Tasks : q = events[i].pid
  <2>1. events[i] \in EventSet
    BY DEF TraceTypeOK
  <2> QED BY <2>1 DEF EventSet
<1>4. events[i].forked < i /\ events[i].forked = born[q].at /\ events[i].ppid \in {None, parent[q]}
  BY <1>3, Zenon DEF TreeInv, RecordOK
<1>5. p = parent[q]
  BY <1>2, <1>4, TracingAssumption
<1>6. PICK at \in Nat : at = born[q].at
  BY DEF TraceTypeOK
<1>7. PICK w : w = born[q].running
  OBVIOUS
<1>8. RanAt(p, at, w)
  BY <1>2, <1>5, <1>6, <1>7, Zenon DEF TreeInv, ForkOK
<1>9. i \in Nat /\ j \in Nat /\ at < i
  BY <1>4, <1>6 DEF TraceTypeOK
<1>10. j <= at
  <2>1. o \in ExecsOf(log, p) /\ o \notin Since(log, n, p)
    BY <1>2 DEF Before
  <2>2. ~(log[n].forked < log[o].seq /\ log[o].seq < log[n].seq)
    BY <2>1 DEF Since
  <2> QED BY <1>2, <1>4, <1>6, <1>9, <2>2
<1>11. Solid(j, p)
  BY <1>2 DEF Solid
<1>12. ASSUME NEW k, Solid(k, p), k <= at PROVE k <= j
  <2>1. k \in Nat
    BY <1>12 DEF Solid, ExecBy, TraceTypeOK
  <2> QED BY <1>2, <1>9, <1>12, <2>1
<1>13. LatestSolid(j, p, at)
  BY <1>10, <1>11, <1>12 DEF LatestSolid
<1>14. Binary[events[j].path] = w
  BY <1>8, <1>13, Zenon DEF RanAt
<1> QED BY <1>2, <1>3, <1>7, <1>14

\* What follows for the tree of a finished run.
LEMMA TreeSound ==
  ASSUME TraceTypeOK, TracerInv, EndInv
  PROVE  TreeTold
<1>1. PICK log : log = Written
  OBVIOUS
<1>2. CASE ~ended
  <2>1. log = <<>>
    BY <1>1, <1>2 DEF Written
  <2>2. Connected(log) = {} /\ Execed(log) = {}
    BY <2>1 DEF Connected, Execed
  <2> QED BY <1>1, <2>2, Zenon DEF TreeTold, EgressOwner, LineageTold
<1>3. CASE ended
  <2>1. /\ log \in Seq(EventSet)
        /\ \A n \in DOMAIN log : \E i \in DOMAIN events : log[n] = events[i]
        /\ \A i \in DOMAIN events : \E n \in DOMAIN log : log[n] = events[i]
    BY <1>1, <1>3, AllWritten
  <2>2. plain => TreeInv /\ \A k : ~OnTrial(k)
    <3>1. plain => TreeInv /\ \A t \in Tasks : stop[t] \in {"none", "born", "gone"}
      BY <1>3, Zenon DEF TracerInv, EndInv
    <3> QED BY <3>1 DEF OnTrial, Tentative
  <2>3. ASSUME NEW n \in Connected(log), plain, Owner(log, n) # 0,
               \/ ExecsOf(log, log[n].pid) # {}
               \/ Since(log, n, Resolved(log, n)) = {}
        PROVE  Binary[log[Owner(log, n)].path] = log[n].truth
    <3>1. n \in DOMAIN log /\ log[n].kind = "connect"
      BY DEF Connected
    <3>2. Before(log, n, Resolved(log, n)) # {}
      BY <2>3 DEF Owner, Latest
    <3>3. CASE ExecsOf(log, log[n].pid) # {}
      <4>1. Resolved(log, n) = log[n].pid
        BY <3>3 DEF Resolved
      <4> QED BY <1>1, <1>3, <2>2, <2>3, <3>1, <3>2, <4>1, OwnTold DEF Owner
    <3>4. CASE ExecsOf(log, log[n].pid) = {}
      <4>1. Resolved(log, n) = log[n].ppid /\ Since(log, n, log[n].ppid) = {}
        BY <2>3, <3>4 DEF Resolved
      <4>2. PICK i \in DOMAIN events : log[n] = events[i]
        BY <2>1, <3>1
      <4>3. Binary[log[Owner(log, n)].path] = born[log[n].pid].running
        BY <1>1, <1>3, <2>2, <2>3, <3>1, <3>2, <4>1, <4>2, ParentTold DEF Owner
      <4>4. PICK q \in Tasks : q = events[i].pid
        <5>1. events[i] \in EventSet
          BY DEF TraceTypeOK
        <5> QED BY <5>1 DEF EventSet
      <4>5. Unexeced(q)
        <5>1. ASSUME NEW k, ExecBy(k, q) PROVE FALSE
          <6>1. PICK m \in DOMAIN log : log[m] = events[k]
            BY <2>1, <5>1 DEF ExecBy
          <6>2. m \in ExecsOf(log, log[n].pid)
            BY <4>2, <4>4, <5>1, <6>1 DEF ExecsOf, Execed, ExecBy
          <6> QED BY <3>4, <6>2
        <5> QED BY <5>1 DEF Unexeced
      <4>6. RecordOK(i) /\ events[i].kind = "connect"
        BY <2>2, <2>3, <3>1, <4>2, Zenon DEF TreeInv
      <4>7. events[i].truth = born[q].running
        BY <4>4, <4>5, <4>6, Zenon DEF RecordOK
      <4> QED BY <4>2, <4>3, <4>4, <4>7
    <3> QED BY <3>3, <3>4
  <2>4. ASSUME NEW n \in Execed(log)
        PROVE  /\ Drawn(log, n) = 1
               /\ \A m \in Under(log, n) :
                     /\ ~log[m].failed
                     /\ plain /\ Since(log, n, log[n].ppid) = {}
                        => Binary[log[m].path] = log[n].truth
    <3>1. n \in DOMAIN log /\ log[n].kind = "exec"
      BY DEF Execed
    <3>2. PICK live : live = Before(log, n, log[n].ppid)
      OBVIOUS
    <3>3. CASE Under(log, n) = {}
      BY <3>3 DEF Drawn
    <3>4. CASE Under(log, n) # {}
      <4>1. live # {} /\ Under(log, n) = {Latest(log, live)}
        BY <3>2, <3>4 DEF Under
      <4>2. live \in SUBSET DOMAIN log /\ \A m \in live : ~log[m].failed
        BY <3>2 DEF Before, ExecsOf, Execed
      <4>3. Latest(log, live) \in live
        BY <2>1, <4>1, <4>2, LatestIs
      <4>4. Drawn(log, n) = 1
        BY <3>4, <4>1, FS_Singleton DEF Drawn
      <4>5. ASSUME plain, Since(log, n, log[n].ppid) = {}
            PROVE  Binary[log[Latest(log, live)].path] = log[n].truth
        <5>1. PICK i \in DOMAIN events : log[n] = events[i]
          BY <2>1, <3>1
        <5>2. Binary[log[Latest(log, live)].path] = born[log[n].pid].running
          BY <1>1, <1>3, <2>2, <3>1, <3>2, <4>1, <4>5, <5>1, ParentTold
        <5>3. PICK q \in Tasks : q = events[i].pid
          <6>1. events[i] \in EventSet
            BY DEF TraceTypeOK
          <6> QED BY <6>1 DEF EventSet
        <5>4. RecordOK(i) /\ events[i].kind = "exec"
          BY <2>2, <3>1, <4>5, <5>1, Zenon DEF TreeInv
        <5>5. events[i].truth = born[q].running
          BY <5>3, <5>4, Zenon DEF RecordOK
        <5> QED BY <5>1, <5>2, <5>3, <5>5
      <4> QED BY <4>1, <4>2, <4>3, <4>4, <4>5
    <3> QED BY <3>3, <3>4
  <2>5. EgressOwner
    BY <1>1, <2>3, Zenon DEF EgressOwner
  <2>6. LineageTold
    BY <1>1, <2>4, Zenon DEF LineageTold
  <2> QED BY <2>5, <2>6 DEF TreeTold
<1> QED BY <1>2, <1>3

\* For any number of tasks, system calls and forks, however the tasks' stops were
\* interleaved: the tree drawn of a finished run credits a connect to the binary that
\* made it and hangs a child under the program that forked it, never under a candidate
\* that was refused (proctree.rs, observe.rs).
THEOREM TreeIsTold == LearnSpec => []TreeTold
<1>1. TraceInv => TreeTold
  BY TreeSound DEF TraceInv
<1> QED BY <1>1, TraceInductive, PTL
=============================================================================
