------------------------- MODULE KillSwitch_proofs -------------------------
(***************************************************************************)
(* Proofs of the properties of KillSwitch for every set of pids, runs and  *)
(* ids.  Four inductive invariants: KillTypes (the types), Followed (what  *)
(* handles, `ql ps` and `ql kill` know of a run), Sweeping (what is left   *)
(* of the tree) and Aimed (whose the signalled pids are).                  *)
(***************************************************************************)
EXTENDS KillSwitch, TLAPS

(* An entry of the process table, and a sweep that works on a handle. *)
Entry == [owner : Owners, parent : Pids \cup {InitProcess}, used : BOOLEAN]

(* The stages at which the process of a run is there. *)
Up == {"listed", "running", "leaving"}

KillTypes ==
  /\ TypeOK
  /\ killStage # "idle" => kill \in [id : Ids, handle : Handles]
  /\ \A r \in Runs : pidOf[r] \in Pids <=> stage[r] \in Up

-----------------------------------------------------------------------------
(* The process table.                                                      *)

(* A new process takes a free pid and changes no other entry. *)
LEMMA SpawnEffect ==
  ASSUME TypeOK,
         NEW p \in Pids, NEW o \in Owners, NEW par \in Pids \cup {InitProcess},
         Spawn(p, o, par)
  PROVE  /\ ~Live(p)
         /\ Live(p)'
         /\ procs'[p].owner = o /\ procs'[p].parent = par
         /\ procs' \in [Pids -> Entry]
         /\ \A q \in Pids \ {p} : procs'[q] = procs[q]
         /\ freed' = freed /\ members' = members /\ split' = split
<1>1. procs \in [Pids -> Entry] BY DEF TypeOK, Entry
<1>2. procs' = [procs EXCEPT ![p] = Process(o, par)] BY DEF Spawn
<1>3. procs'[p] = Process(o, par) BY <1>1, <1>2
<1>4. Process(o, par) \in Entry BY DEF Process, Entry
<1>5. Process(o, par).used BY DEF Process
<1>6. Live(p)' BY <1>3, <1>5 DEF Live
<1> QED BY <1>1, <1>2, <1>3, <1>4, <1>6 DEF Spawn, Process

(* An ended process frees its pid; the others keep owner and life, and their parent
   unless it was one of the ended. *)
LEMMA EndEffect ==
  ASSUME TypeOK, NEW S \in SUBSET Pids, End(S)
  PROVE  /\ procs' \in [Pids -> Entry]
         /\ \A q \in S : procs'[q] = Free
         /\ \A q \in Pids \ S : /\ procs'[q].owner = procs[q].owner
                                /\ procs'[q].used = procs[q].used
         /\ \A q \in Pids \ S : procs[q].parent \notin S => procs'[q] = procs[q]
         /\ \A q \in Pids \ S : procs[q].parent \in S => procs'[q].parent = InitProcess
<1>1. procs \in [Pids -> Entry] BY DEF TypeOK, Entry
<1>2. procs' = [q \in Pids |->
         IF q \in S THEN Free
         ELSE IF procs[q].parent \in S THEN [procs[q] EXCEPT !.parent = InitProcess]
         ELSE procs[q]] BY DEF End
<1>3. Free \in Entry BY DEF Free, Entry, Owners
<1>4. ASSUME NEW e \in Entry
      PROVE  /\ [e EXCEPT !.parent = InitProcess] \in Entry
             /\ [e EXCEPT !.parent = InitProcess].owner = e.owner
             /\ [e EXCEPT !.parent = InitProcess].used = e.used
             /\ [e EXCEPT !.parent = InitProcess].parent = InitProcess
  BY DEF Entry
<1> HIDE DEF Entry, Free
<1> QED BY <1>1, <1>2, <1>3, <1>4

(* A run is over when its own process is among the ended, and else goes on. *)
LEMMA EndRuns ==
  ASSUME TypeOK, NEW S, End(S), NEW r \in Runs
  PROVE  /\ pidOf[r] \in S => stage'[r] = "gone" /\ pidOf'[r] = 0
         /\ pidOf[r] \notin S => stage'[r] = stage[r] /\ pidOf'[r] = pidOf[r]
BY DEF TypeOK, End

(* What a death leaves of the other variables has their types. *)
LEMMA EndTypes ==
  ASSUME TypeOK, NEW S \in SUBSET Pids, End(S)
  PROVE  /\ procs' \in [Pids -> Entry]
         /\ idOf' \in [Runs -> Ids]
         /\ stage' \in [Runs -> {"new", "listed", "running", "leaving", "gone"}]
         /\ pidOf' \in [Runs -> Pids \cup {0}]
         /\ alone' \subseteq Runs /\ freed' \subseteq Pids
         /\ members' \subseteq Pids /\ split' \in BOOLEAN
<1>1. procs' \in [Pids -> Entry] BY EndEffect
<1>2. stage' \in [Runs -> {"new", "listed", "running", "leaving", "gone"}] BY DEF TypeOK, End
<1>3. pidOf' \in [Runs -> Pids \cup {0}] BY DEF TypeOK, End
<1>4. freed' \subseteq Pids BY DEF TypeOK, End
<1>5. split' \in BOOLEAN BY DEF TypeOK, End
<1> QED BY <1>1, <1>2, <1>3, <1>4, <1>5 DEF TypeOK, End

(* What is below a process is a set of pids that has, with a process, its children,
   and is in every such set that has the root. *)
LEMMA BelowClosed ==
  ASSUME NEW root \in Pids, NEW link
  PROVE  /\ Below(root, link) \subseteq Pids
         /\ root \in Below(root, link)
         /\ \A q \in Pids : link[q] \in Below(root, link) => q \in Below(root, link)
         /\ \A S \in SUBSET Pids :
              root \in S /\ (\A q \in Pids : link[q] \in S => q \in S) => Below(root, link) \subseteq S
BY DEF Below

(* Apart from the root, a process below it has its parent below it. *)
LEMMA BelowParent ==
  ASSUME NEW root \in Pids, NEW link,
         NEW q \in Below(root, link), q # root
  PROVE  link[q] \in Below(root, link)
<1> DEFINE B == Below(root, link)
<1>1. B \in SUBSET Pids /\ root \in B BY BelowClosed
<1> SUFFICES ASSUME link[q] \notin B PROVE FALSE OBVIOUS
<1>2. \A x \in Pids : link[x] \in B \ {q} => x \in B \ {q} BY BelowClosed
<1>3. B \ {q} \in SUBSET Pids /\ root \in B \ {q} BY <1>1
<1>4. B \subseteq B \ {q} BY <1>2, <1>3, BelowClosed
<1> QED BY <1>4

-----------------------------------------------------------------------------
(* Types.                                                                  *)

LEMMA TypesInit == Init => KillTypes
<1> SUFFICES ASSUME Init PROVE KillTypes OBVIOUS
<1>1. Free \in Entry BY DEF Free, Entry, Owners
<1>2. procs \in [Pids -> Entry] BY <1>1 DEF Init
<1>3. ps \in [Ids -> [pid : Pids \cup {0}, dead : BOOLEAN]] BY DEF Init, NoPs
<1> QED BY <1>2, <1>3, KillAssumption DEF Init, KillTypes, TypeOK, Entry, Up

(* A process more. *)
LEMMA TypesSpawn ==
  ASSUME KillTypes,
         \/ \E p, q \in Pids : Fork(p, q)
         \/ \E p \in Pids : Foreign(p)
         \/ \E r \in Runs, p \in Pids : Start(r, p) \/ Launch(r, p)
  PROVE  KillTypes'
<1>0. TypeOK BY DEF KillTypes
<1>1. CASE \E p, q \in Pids : Fork(p, q)
  <2> PICK p \in Pids, q \in Pids : Fork(p, q) BY <1>1
  <2>1. procs[p].owner \in Owners BY <1>0 DEF TypeOK
  <2>2. procs' \in [Pids -> Entry] BY <1>0, <2>1, SpawnEffect DEF Fork
  <2> QED BY <1>0, <2>2 DEF Fork, Spawn, runVars, killVars, KillTypes, TypeOK, Entry, Up
<1>2. CASE \E p \in Pids : Foreign(p)
  <2> PICK p \in Pids : Foreign(p) BY <1>2
  <2>1. Nobody \in Owners BY DEF Owners
  <2>2. procs' \in [Pids -> Entry] BY <1>0, <2>1, SpawnEffect DEF Foreign
  <2> QED BY <1>0, <2>2 DEF Foreign, Spawn, runVars, killVars, KillTypes, TypeOK, Entry, Up
<1>3. ASSUME NEW r \in Runs, NEW p \in Pids, Start(r, p) PROVE KillTypes'
  <2>1. r \in Owners BY DEF Owners
  <2>2. procs' \in [Pids -> Entry] BY <1>0, <1>3, <2>1, SpawnEffect DEF Start
  <2>3. handles' \in [Ids -> Handles \cup {NoHandle}]
    BY <1>0, <1>3 DEF Start, TypeOK, Handles
  <2>4. pidOf' \in [Runs -> Pids \cup {0}] BY <1>0, <1>3 DEF Start, TypeOK
  <2>5. stage' \in [Runs -> {"new", "listed", "running", "leaving", "gone"}]
    BY <1>0, <1>3 DEF Start, TypeOK
  <2>6. alone' \subseteq Runs BY <1>0, <1>3 DEF Start, TypeOK
  <2>7. UNCHANGED <<idOf, ps, kill, killStage, parents, unread, targets, todo, strayed,
                    freed, members, split>>
    BY <1>3 DEF Start, Spawn, killVars
  <2>8. \A x \in Runs : pidOf'[x] \in Pids <=> stage'[x] \in Up
    <3> TAKE x \in Runs
    <3>1. CASE x = r BY <1>0, <1>3, <3>1 DEF Start, TypeOK, Up
    <3>2. CASE x # r BY <1>0, <1>3, <3>2 DEF Start, TypeOK, KillTypes
    <3> QED BY <3>1, <3>2
  <2>9. TypeOK' BY <1>0, <2>2, <2>3, <2>4, <2>5, <2>6, <2>7 DEF TypeOK, Entry
  <2> QED BY <2>7, <2>8, <2>9 DEF KillTypes
<1>4. ASSUME NEW r \in Runs, NEW p \in Pids, Launch(r, p) PROVE KillTypes'
  <2>1. r \in Owners /\ pidOf[r] \in Pids \cup {InitProcess}
    BY <1>0 DEF Owners, TypeOK, InitProcess
  <2>2. procs' \in [Pids -> Entry] BY <1>0, <1>4, <2>1, SpawnEffect DEF Launch
  <2>3. stage' \in [Runs -> {"new", "listed", "running", "leaving", "gone"}]
    BY <1>0, <1>4 DEF Launch, TypeOK
  <2>4. UNCHANGED <<idOf, pidOf, alone, handles, ps, kill, killStage, parents, unread,
                    targets, todo, strayed, freed, members, split>>
    BY <1>4 DEF Launch, Spawn, killVars
  <2>5. \A x \in Runs : pidOf'[x] \in Pids <=> stage'[x] \in Up
    <3> TAKE x \in Runs
    <3>1. CASE x = r BY <1>0, <1>4, <3>1 DEF Launch, TypeOK, KillTypes, Up
    <3>2. CASE x # r BY <1>0, <1>4, <3>2 DEF Launch, TypeOK, KillTypes
    <3> QED BY <3>1, <3>2
  <2>6. TypeOK' BY <1>0, <2>2, <2>3, <2>4 DEF TypeOK, Entry
  <2> QED BY <2>4, <2>5, <2>6 DEF KillTypes
<1> QED BY <1>1, <1>2, <1>3, <1>4

(* What a death does to the types, whatever it does besides. *)
LEMMA TypesOfEnd ==
  ASSUME KillTypes, NEW S \in SUBSET Pids, End(S),
         UNCHANGED <<handles, ps, kill, parents, unread, targets>>,
         killStage' = killStage \/ (killStage # "idle" /\ killStage' = "kill"),
         todo' \subseteq Pids, strayed' \in BOOLEAN
  PROVE  KillTypes'
<1>0. TypeOK BY DEF KillTypes
<1>1. \A r \in Runs : pidOf'[r] \in Pids <=> stage'[r] \in Up
  <2> TAKE r \in Runs
  <2>1. 0 \notin Pids BY KillAssumption
  <2>2. CASE pidOf[r] \in S
    <3>1. stage'[r] = "gone" /\ pidOf'[r] = 0 BY <1>0, <2>2, EndRuns
    <3> QED BY <2>1, <3>1 DEF Up
  <2>3. CASE pidOf[r] \notin S
    <3>1. stage'[r] = stage[r] /\ pidOf'[r] = pidOf[r] BY <1>0, <2>3, EndRuns
    <3> QED BY <3>1 DEF KillTypes
  <2> QED BY <2>2, <2>3
<1>2. TypeOK' BY <1>0, EndTypes DEF TypeOK, Entry
<1> QED BY <1>1, <1>2 DEF KillTypes

LEMMA HitTypes == \A S : Hit(S) => strayed' \in BOOLEAN
BY DEF Hit

(* Processes less. *)
LEMMA TypesEnd ==
  ASSUME KillTypes,
         \/ \E p \in Pids : Dies(p)
         \/ \E r \in Runs : Leave(r)
         \/ Terminate
         \/ \E p \in Pids : KillSurvivor(p)
  PROVE  KillTypes'
<1>0. TypeOK BY DEF KillTypes
<1>a. ASSUME NEW p \in Pids, Dies(p) PROVE KillTypes'
  <2>1. {p} \in SUBSET Pids /\ End({p}) BY <1>a DEF Dies
  <2> QED BY <1>0, <1>a, <2>1, TypesOfEnd DEF Dies, killVars, TypeOK
<1>1. CASE \E p \in Pids : Dies(p) BY <1>a, <1>1
<1>2. ASSUME NEW r \in Runs, Leave(r) PROVE KillTypes'
  <2>1. pidOf[r] \in Pids BY <1>2 DEF KillTypes, Leave, Up
  <2> QED BY <1>a, <1>2, <2>1 DEF Leave
<1>3. CASE Terminate
  <2>1. PICK S \in SUBSET {p \in targets : Live(p)} : End(S) BY <1>3 DEF Terminate
  <2>2. S \in SUBSET Pids BY <1>0 DEF TypeOK
  <2> QED BY <1>0, <1>3, <2>1, <2>2, TypesOfEnd, HitTypes DEF Terminate, TypeOK
<1>4. ASSUME NEW p \in Pids, KillSurvivor(p) PROVE KillTypes'
  <2>1. CASE Live(p)
    <3>1. {p} \in SUBSET Pids /\ End({p}) BY <1>4, <2>1 DEF KillSurvivor
    <3> QED BY <1>0, <1>4, <3>1, TypesOfEnd, HitTypes DEF KillSurvivor, TypeOK
  <2>2. CASE ~Live(p)
    BY <1>0, <1>4, <2>2, HitTypes DEF KillSurvivor, kernel, runVars, KillTypes, TypeOK
  <2> QED BY <2>1, <2>2
<1> QED BY <1>1, <1>2, <1>3, <1>4

(* The steps that change no process. *)
LEMMA TypesRegistry ==
  ASSUME KillTypes,
         \/ \E r \in Runs : Refuse(r) \/ RefuseVerdicts(r) \/ Finish(r)
         \/ \E i \in Ids : PsRead(i) \/ PsTest(i) \/ PsPrune(i)
         \/ UNCHANGED vars
  PROVE  KillTypes'
<1>0. TypeOK BY DEF KillTypes
<1>1. ASSUME NEW r \in Runs, Refuse(r) \/ RefuseVerdicts(r) \/ Finish(r) PROVE KillTypes'
  <2>1. stage' \in [Runs -> {"new", "listed", "running", "leaving", "gone"}]
    BY <1>0, <1>1 DEF Refuse, RefuseVerdicts, Finish, TypeOK
  <2>2. handles' \in [Ids -> Handles \cup {NoHandle}]
    BY <1>0, <1>1 DEF Refuse, RefuseVerdicts, Finish, TypeOK, Unlisted
  <2>3. pidOf' = pidOf /\ \A q \in Runs : stage'[q] \in Up <=> stage[q] \in Up
    BY <1>0, <1>1 DEF Refuse, RefuseVerdicts, Finish, Up, TypeOK
  <2>4. UNCHANGED <<kernel, idOf, alone, ps, killVars>>
    BY <1>1 DEF Refuse, RefuseVerdicts, Finish
  <2> QED BY <1>0, <2>1, <2>2, <2>3, <2>4 DEF KillTypes, TypeOK, kernel, killVars
<1>2. ASSUME NEW i \in Ids, PsRead(i) \/ PsTest(i) PROVE KillTypes'
  <2>1. handles[i].pid \in Pids \/ ~PsRead(i) BY <1>0 DEF PsRead, TypeOK, Handles
  <2>2. PICK e \in [pid : Pids \cup {0}, dead : BOOLEAN] : ps' = [ps EXCEPT ![i] = e]
    <3>1. CASE PsRead(i) BY <2>1, <3>1 DEF PsRead
    <3>2. CASE PsTest(i)
      <4>1. (~Live(ps[i].pid)) \in BOOLEAN BY Zenon
      <4>2. [pid |-> 0, dead |-> ~Live(ps[i].pid)] \in [pid : Pids \cup {0}, dead : BOOLEAN]
        BY <4>1
      <4> QED BY <3>2, <4>2 DEF PsTest
    <3> QED BY <1>2, <3>1, <3>2
  <2>3. ps' \in [Ids -> [pid : Pids \cup {0}, dead : BOOLEAN]] BY <1>0, <2>2 DEF TypeOK
  <2> QED BY <1>0, <1>2, <2>3 DEF PsRead, PsTest, kernel, runVars, killVars, KillTypes, TypeOK
<1>3. ASSUME NEW i \in Ids, PsPrune(i) PROVE KillTypes'
  <2>1. handles' \in [Ids -> Handles \cup {NoHandle}] BY <1>0, <1>3 DEF PsPrune, Unlisted, TypeOK
  <2>2. ps' \in [Ids -> [pid : Pids \cup {0}, dead : BOOLEAN]] BY <1>0, <1>3 DEF PsPrune, NoPs, TypeOK
  <2> QED BY <1>0, <1>3, <2>1, <2>2 DEF PsPrune, kernel, runVars, killVars, KillTypes, TypeOK
<1>4. CASE UNCHANGED vars
  BY <1>0, <1>4 DEF vars, kernel, runVars, killVars, KillTypes, TypeOK
<1> QED BY <1>1, <1>2, <1>3, <1>4

LEMMA TypesKill ==
  ASSUME KillTypes,
         \/ \E i \in Ids : KillGet(i)
         \/ KillCheck \/ PickTargets \/ KillClear
         \/ \E p \in Pids : ReadPpid(p)
  PROVE  KillTypes'
<1>0. TypeOK BY DEF KillTypes
<1>1. ASSUME NEW i \in Ids, KillGet(i) PROVE KillTypes'
  <2>1. handles[i] \in Handles BY <1>0, <1>1 DEF KillGet, TypeOK
  <2>2. kill' \in [id : Ids, handle : Handles] BY <1>1, <2>1 DEF KillGet
  <2> QED BY <1>0, <1>1, <2>2 DEF KillGet, kernel, runVars, KillTypes, TypeOK
<1>2. CASE KillCheck
  <2>1. kill.handle.pid \in Pids BY <1>2 DEF KillCheck, KillTypes, Handles
  <2>2. Tree(kill.handle.pid) \subseteq Pids BY DEF Tree, Below
  <2>3. members' \subseteq Pids /\ freed' \subseteq Pids /\ split' \in BOOLEAN
    BY <1>2, <2>1, <2>2 DEF KillCheck, Witness
  <2>4. killStage # "idle" /\ killStage' \in {"scan", "kill"} /\ unread' \subseteq Pids
    BY <1>0, <1>2 DEF KillCheck, TypeOK
  <2>5. UNCHANGED <<procs, runVars, handles, ps, kill, parents, targets, todo, strayed>>
    BY <1>2 DEF KillCheck
  <2> QED BY <1>0, <2>3, <2>4, <2>5 DEF runVars, KillTypes, TypeOK
<1>3. CASE PickTargets
  <2>1. targets' \subseteq Pids BY <1>3 DEF PickTargets, Reached, Below
  <2>2. parents' \in [Pids -> Pids \cup {InitProcess}] BY <1>3 DEF PickTargets
  <2>3. killStage # "idle" /\ killStage' = "term" /\ freed' \subseteq Pids
    BY <1>0, <1>3 DEF PickTargets, TypeOK
  <2>4. UNCHANGED <<procs, members, split, runVars, handles, ps, kill, unread, todo, strayed>>
    BY <1>3 DEF PickTargets
  <2> QED BY <1>0, <2>1, <2>2, <2>3, <2>4 DEF runVars, KillTypes, TypeOK
<1>4. CASE KillClear
  <2>1. handles' \in [Ids -> Handles \cup {NoHandle}] BY <1>0, <1>4 DEF KillClear, Unlisted, TypeOK
  <2> QED BY <1>0, <1>4, <2>1 DEF KillClear, runVars, KillTypes, TypeOK
<1>5. ASSUME NEW p \in Pids, ReadPpid(p) PROVE KillTypes'
  <2>1. procs[p].parent \in Pids \cup {InitProcess} BY <1>0 DEF TypeOK
  <2>2. parents' \in [Pids -> Pids \cup {InitProcess}] BY <1>0, <1>5, <2>1 DEF ReadPpid, TypeOK
  <2> QED BY <1>0, <1>5, <2>2 DEF ReadPpid, kernel, runVars, KillTypes, TypeOK
<1> QED BY <1>1, <1>2, <1>3, <1>4, <1>5

LEMMA TypesStep == KillTypes /\ [Next]_vars => KillTypes'
BY TypesSpawn, TypesEnd, TypesRegistry, TypesKill DEF Next

(* The process table, the registry and both commands keep their types, and `ql kill`
   reads and signals only pids of real processes, for every set of pids, runs and
   ids. *)
THEOREM KillSwitchTypes == Spec => []TypeOK
<1>1. KillTypes => TypeOK BY DEF KillTypes
<1> QED BY <1>1, TypesInit, TypesStep, PTL DEF Spec

-----------------------------------------------------------------------------
(* What handles and commands know of a run.                                *)

\* A run that is up has its own process, under its pid.
OwnPid == \A r \in Runs : stage[r] \in Up => Live(pidOf[r]) /\ procs[pidOf[r]].owner = r

\* A handle under an id: it was written by a run with that id, which still has the
\* pid or is over.
Knows(i, h) ==
  /\ h.run \in Runs
  /\ idOf[h.run] = i
  /\ stage[h.run] # "new"
  /\ pidOf[h.run] = h.pid \/ stage[h.run] = "gone"

HandlesKnown == \A i \in Ids : handles[i] # NoHandle => Knows(i, handles[i])

\* `ql kill` works on the handle of a run, and after SIGTERM the run is over.
KillKnown ==
  killStage # "idle" =>
    /\ Knows(kill.id, kill.handle)
    /\ killStage = "term" => kill.handle.pid \in targets
    /\ killStage = "kill" => stage[kill.handle.run] = "gone"

\* A run in force that has its id to itself: the handle is its own, and what the two
\* commands read under the id was that handle.
Unshared(r) ==
  /\ handles[idOf[r]] = [pid |-> pidOf[r], run |-> r]
  /\ Namesakes(r) = {}
  /\ ps[idOf[r]].pid \in {0, pidOf[r]} /\ ~ps[idOf[r]].dead
  /\ kill.id = idOf[r] => kill.handle.run = r

Followed ==
  /\ OwnPid /\ HandlesKnown /\ KillKnown
  /\ \A r \in alone : stage[r] # "new" /\ (InForce(r) => Unshared(r))

\* A run does not come back, and keeps its pid until it is over.
Onward ==
  /\ idOf' = idOf
  /\ \A r \in Runs :
       /\ stage[r] # "new" => stage'[r] # "new"
       /\ stage[r] = "gone" => stage'[r] = "gone"
       /\ stage[r] \in {"leaving", "gone"} => stage'[r] \in {"leaving", "gone"}
       /\ stage[r] # "new" => pidOf'[r] = pidOf[r] \/ stage'[r] = "gone"

LEMMA OnwardEnd ==
  ASSUME TypeOK, NEW S, End(S) PROVE Onward
<1>1. idOf' = idOf BY DEF End
<1> SUFFICES ASSUME NEW r \in Runs
    PROVE  /\ stage[r] # "new" => stage'[r] # "new"
           /\ stage[r] = "gone" => stage'[r] = "gone"
           /\ stage[r] \in {"leaving", "gone"} => stage'[r] \in {"leaving", "gone"}
           /\ stage[r] # "new" => pidOf'[r] = pidOf[r] \/ stage'[r] = "gone"
  BY <1>1 DEF Onward
<1> QED BY EndRuns

LEMMA OnwardStep == ASSUME KillTypes, [Next]_vars PROVE Onward
<1>0. TypeOK BY DEF KillTypes
<1>1. ASSUME NEW p \in Pids, NEW q \in Pids, Fork(p, q) PROVE Onward
  BY <1>1 DEF Fork, runVars, Onward
<1>2. ASSUME NEW p \in Pids, Foreign(p) PROVE Onward
  BY <1>2 DEF Foreign, runVars, Onward
<1>3. ASSUME NEW r \in Runs, NEW p \in Pids, Start(r, p) PROVE Onward
  BY <1>0, <1>3 DEF Start, TypeOK, Onward
<1>4. ASSUME NEW r \in Runs, NEW p \in Pids, Launch(r, p) PROVE Onward
  BY <1>0, <1>4 DEF Launch, TypeOK, Onward
<1>5. ASSUME NEW r \in Runs, Refuse(r) \/ RefuseVerdicts(r) \/ Finish(r) PROVE Onward
  BY <1>0, <1>5 DEF Refuse, RefuseVerdicts, Finish, TypeOK, Onward
<1>6. ASSUME NEW p \in Pids, Dies(p) PROVE Onward
  BY <1>0, <1>6, OnwardEnd DEF Dies
<1>7. ASSUME NEW r \in Runs, Leave(r) PROVE Onward
  BY <1>0, <1>7, OnwardEnd DEF Leave, Dies
<1>8. CASE Terminate
  BY <1>0, <1>8, OnwardEnd DEF Terminate
<1>9. ASSUME NEW p \in Pids, KillSurvivor(p) PROVE Onward
  <2>1. CASE Live(p) BY <1>0, <1>9, <2>1, OnwardEnd DEF KillSurvivor
  <2>2. CASE ~Live(p) BY <1>9, <2>2 DEF KillSurvivor, runVars, Onward
  <2> QED BY <2>1, <2>2
<1>10. ASSUME NEW i \in Ids, PsRead(i) \/ PsTest(i) \/ PsPrune(i) \/ KillGet(i) PROVE Onward
  BY <1>10 DEF PsRead, PsTest, PsPrune, KillGet, runVars, Onward
<1>11. CASE KillCheck \/ PickTargets \/ KillClear \/ UNCHANGED vars
  BY <1>11 DEF KillCheck, PickTargets, KillClear, vars, runVars, Onward
<1>12. ASSUME NEW p \in Pids, ReadPpid(p) PROVE Onward
  BY <1>12 DEF ReadPpid, runVars, Onward
<1> QED BY <1>1, <1>2, <1>3, <1>4, <1>5, <1>6, <1>7, <1>8, <1>9, <1>10, <1>11, <1>12 DEF Next

(* What is known of a run stays known. *)
LEMMA KnowsStays ==
  ASSUME Onward, NEW i, NEW h, Knows(i, h)
  PROVE  /\ h.run \in Runs /\ idOf'[h.run] = i
         /\ stage'[h.run] # "new"
         /\ pidOf'[h.run] = h.pid \/ stage'[h.run] = "gone"
BY DEF Onward, Knows

(* The entries of processes that are there survive a spawn. *)
LEMMA LiveStays ==
  ASSUME TypeOK,
         NEW q \in Pids, NEW o \in Owners, NEW par \in Pids \cup {InitProcess}, Spawn(q, o, par),
         NEW x \in Pids, Live(x)
  PROVE  x # q /\ procs'[x] = procs[x]
<1>1. ~Live(q) BY DEF Spawn
<1>2. x # q BY <1>1
<1> QED BY <1>2, SpawnEffect

\* What a step leaves as it was keeps OwnPid.
LEMMA OwnUnchanged ==
  ASSUME OwnPid, procs' = procs, pidOf' = pidOf,
         \A r \in Runs : stage'[r] \in Up => stage[r] \in Up
  PROVE  OwnPid'
BY DEF OwnPid, Live

LEMMA OwnSpawn ==
  ASSUME KillTypes, OwnPid,
         NEW q \in Pids, NEW o \in Owners, NEW par \in Pids \cup {InitProcess}, Spawn(q, o, par),
         NEW r \in Runs, stage[r] \in Up, pidOf'[r] = pidOf[r]
  PROVE  procs'[pidOf'[r]].used /\ procs'[pidOf'[r]].owner = r
<1>1. pidOf[r] \in Pids /\ TypeOK BY DEF KillTypes
<1>2. Live(pidOf[r]) /\ procs[pidOf[r]].owner = r BY DEF OwnPid
<1>3. procs'[pidOf[r]] = procs[pidOf[r]] BY <1>1, <1>2, LiveStays
<1> QED BY <1>2, <1>3 DEF Live

LEMMA OwnEnd ==
  ASSUME KillTypes, OwnPid, NEW S \in SUBSET Pids, End(S)
  PROVE  OwnPid'
<1>0. TypeOK BY DEF KillTypes
<1> SUFFICES ASSUME NEW r \in Runs, stage'[r] \in Up
    PROVE  procs'[pidOf'[r]].used /\ procs'[pidOf'[r]].owner = r
  BY DEF OwnPid, Live
<1>1. pidOf[r] \notin S BY <1>0, EndRuns DEF Up
<1>2. stage'[r] = stage[r] /\ pidOf'[r] = pidOf[r] BY <1>0, <1>1, EndRuns
<1>3. pidOf[r] \in Pids \ S BY <1>1, <1>2 DEF KillTypes
<1>4. procs[pidOf[r]].used /\ procs[pidOf[r]].owner = r BY <1>2 DEF OwnPid, Live
<1>5. /\ procs'[pidOf[r]].owner = procs[pidOf[r]].owner
      /\ procs'[pidOf[r]].used = procs[pidOf[r]].used
  BY <1>0, <1>3, EndEffect
<1> QED BY <1>2, <1>4, <1>5

LEMMA OwnStep == ASSUME KillTypes, OwnPid, [Next]_vars PROVE OwnPid'
<1>0. TypeOK BY DEF KillTypes
<1>1. ASSUME NEW p \in Pids, NEW q \in Pids, Fork(p, q) PROVE OwnPid'
  <2>1. procs[p].owner \in Owners BY <1>0 DEF TypeOK
  <2>2. Spawn(q, procs[p].owner, p) /\ pidOf' = pidOf /\ stage' = stage
    BY <1>1 DEF Fork, runVars
  <2> QED BY <2>1, <2>2, OwnSpawn DEF OwnPid, Live
<1>2. ASSUME NEW p \in Pids, Foreign(p) PROVE OwnPid'
  <2>1. Nobody \in Owners BY DEF Owners
  <2>2. Spawn(p, Nobody, InitProcess) /\ pidOf' = pidOf /\ stage' = stage
    BY <1>2 DEF Foreign, runVars
  <2> QED BY <2>1, <2>2, OwnSpawn DEF OwnPid, Live
<1>3. ASSUME NEW r \in Runs, NEW p \in Pids, Start(r, p) PROVE OwnPid'
  <2>1. Spawn(p, r, InitProcess) /\ r \in Owners BY <1>3 DEF Start, Owners
  <2>2. pidOf'[r] = p /\ \A x \in Runs \ {r} : pidOf'[x] = pidOf[x] /\ stage'[x] = stage[x]
    BY <1>0, <1>3 DEF Start, TypeOK
  <2>3. procs'[p].used /\ procs'[p].owner = r BY <1>0, <2>1, SpawnEffect DEF Live
  <2>4. \A x \in Runs \ {r} : stage'[x] \in Up =>
           procs'[pidOf'[x]].used /\ procs'[pidOf'[x]].owner = x
    BY <2>1, <2>2, OwnSpawn
  <2> QED BY <2>2, <2>3, <2>4 DEF OwnPid, Live
<1>4. ASSUME NEW r \in Runs, NEW p \in Pids, Launch(r, p) PROVE OwnPid'
  <2>1. r \in Owners /\ pidOf[r] \in Pids \cup {InitProcess}
    BY <1>0 DEF Owners, TypeOK, InitProcess
  <2>2. /\ Spawn(p, r, pidOf[r]) /\ pidOf' = pidOf
        /\ \A x \in Runs : stage'[x] \in Up => stage[x] \in Up
    BY <1>0, <1>4 DEF Launch, TypeOK, Up
  <2> QED BY <2>1, <2>2, OwnSpawn DEF OwnPid, Live
<1>5. ASSUME NEW r \in Runs, Refuse(r) \/ RefuseVerdicts(r) \/ Finish(r) PROVE OwnPid'
  <2>1. /\ procs' = procs /\ pidOf' = pidOf
        /\ \A x \in Runs : stage'[x] \in Up => stage[x] \in Up
    BY <1>0, <1>5 DEF Refuse, RefuseVerdicts, Finish, kernel, TypeOK, Up
  <2> QED BY <2>1, OwnUnchanged
<1>6. ASSUME NEW p \in Pids, Dies(p) PROVE OwnPid'
  <2>1. {p} \in SUBSET Pids /\ End({p}) BY <1>6 DEF Dies
  <2> QED BY <2>1, OwnEnd
<1>7. ASSUME NEW r \in Runs, Leave(r) PROVE OwnPid'
  <2>1. pidOf[r] \in Pids BY <1>7 DEF KillTypes, Leave, Up
  <2> QED BY <1>6, <1>7, <2>1 DEF Leave
<1>8. CASE Terminate
  <2>1. PICK S \in SUBSET {p \in targets : Live(p)} : End(S) BY <1>8 DEF Terminate
  <2>2. S \in SUBSET Pids BY <1>0 DEF TypeOK
  <2> QED BY <2>1, <2>2, OwnEnd
<1>9. ASSUME NEW p \in Pids, KillSurvivor(p) PROVE OwnPid'
  <2>1. CASE Live(p)
    <3>1. {p} \in SUBSET Pids /\ End({p}) BY <1>9, <2>1 DEF KillSurvivor
    <3> QED BY <3>1, OwnEnd
  <2>2. CASE ~Live(p)
    BY <1>9, <2>2, OwnUnchanged DEF KillSurvivor, kernel, runVars
  <2> QED BY <2>1, <2>2
<1>10. ASSUME NEW i \in Ids, PsRead(i) \/ PsTest(i) \/ PsPrune(i) \/ KillGet(i) PROVE OwnPid'
  BY <1>10, OwnUnchanged DEF PsRead, PsTest, PsPrune, KillGet, kernel, runVars
<1>11. CASE KillCheck \/ PickTargets \/ KillClear \/ UNCHANGED vars
  BY <1>11, OwnUnchanged DEF KillCheck, PickTargets, KillClear, vars, kernel, runVars
<1>12. ASSUME NEW p \in Pids, ReadPpid(p) PROVE OwnPid'
  BY <1>12, OwnUnchanged DEF ReadPpid, kernel, runVars
<1> QED BY <1>1, <1>2, <1>3, <1>4, <1>5, <1>6, <1>7, <1>8, <1>9, <1>10, <1>11, <1>12 DEF Next

\* A process that is not there is not that of a run.
LEMMA DeadIsOver ==
  ASSUME KillTypes, OwnPid, NEW i, NEW h, h.pid \in Pids, Knows(i, h), ~Live(h.pid)
  PROVE  stage[h.run] = "gone"
<1> SUFFICES ASSUME stage[h.run] # "gone" PROVE FALSE OBVIOUS
<1>1. h.run \in Runs /\ pidOf[h.run] = h.pid BY DEF Knows
<1>2. stage[h.run] \in Up BY <1>1 DEF KillTypes
<1> QED BY <1>1, <1>2 DEF OwnPid

\* What happens to the handle under an id: a run that leaves, or a command at work on
\* it, removes it; a run that starts writes it.
Removed(i) ==
  /\ handles'[i] = NoHandle
  /\ \/ \E r \in Runs : idOf[r] = i /\ InForce(r) /\ stage'[r] = "leaving"
     \/ ps[i].dead
     \/ kill.id = i /\ stage[kill.handle.run] = "gone"

Written(i) ==
  \E r \in Runs, p \in Pids :
    /\ Start(r, p) /\ idOf[r] = i
    /\ handles'[i] = [pid |-> p, run |-> r]

LEMMA HandleMoves ==
  ASSUME KillTypes, Followed, [Next]_vars, NEW i \in Ids
  PROVE  handles'[i] = handles[i] \/ Removed(i) \/ Written(i)
<1>0. TypeOK /\ Onward BY OnwardStep DEF KillTypes
<1>1. ASSUME NEW p \in Pids, NEW q \in Pids, Fork(p, q) \/ Foreign(p) PROVE handles'[i] = handles[i]
  BY <1>1 DEF Fork, Foreign
<1>2. ASSUME NEW p \in Pids, Dies(p) \/ KillSurvivor(p) \/ ReadPpid(p)
      PROVE  handles'[i] = handles[i]
  BY <1>2 DEF Dies, KillSurvivor, ReadPpid
<1>3. ASSUME NEW r \in Runs, NEW p \in Pids, Start(r, p)
      PROVE  handles'[i] = handles[i] \/ Written(i)
  <2>1. CASE handles' = handles BY <2>1
  <2>2. CASE handles' = [handles EXCEPT ![idOf[r]] = [pid |-> p, run |-> r]]
    BY <1>0, <1>3, <2>2 DEF Written, TypeOK
  <2> QED BY <1>3, <2>1, <2>2 DEF Start
<1>4. ASSUME NEW r \in Runs, NEW p \in Pids, Launch(r, p) PROVE handles'[i] = handles[i]
  BY <1>4 DEF Launch
<1>5. ASSUME NEW r \in Runs, Refuse(r) \/ Finish(r)
      PROVE  handles'[i] = handles[i] \/ Removed(i)
  <2>1. handles' = Unlisted(idOf[r]) /\ stage'[r] = "leaving" /\ InForce(r)
    BY <1>0, <1>5 DEF Refuse, Finish, InForce, TypeOK
  <2> QED BY <1>0, <2>1 DEF Unlisted, Removed, TypeOK
<1>6. ASSUME NEW r \in Runs, RefuseVerdicts(r) \/ Leave(r) PROVE handles'[i] = handles[i]
  BY <1>6 DEF RefuseVerdicts, Leave, Dies
<1>7. ASSUME NEW x \in Ids, PsRead(x) \/ PsTest(x) \/ KillGet(x) PROVE handles'[i] = handles[i]
  BY <1>7 DEF PsRead, PsTest, KillGet
<1>8. ASSUME NEW x \in Ids, PsPrune(x) PROVE handles'[i] = handles[i] \/ Removed(i)
  BY <1>0, <1>8 DEF PsPrune, Unlisted, Removed, TypeOK
<1>9. CASE KillClear
  <2>1. handles' = Unlisted(kill.id) /\ stage' = stage BY <1>9 DEF KillClear, runVars
  <2>2. /\ kill.handle.run \in Runs /\ idOf[kill.handle.run] = kill.id
        /\ stage[kill.handle.run] = "gone"
    BY <1>9 DEF KillClear, Swept, Followed, KillKnown, Knows
  <2> QED BY <1>0, <2>1, <2>2 DEF Unlisted, Removed, TypeOK
<1>10. CASE KillCheck \/ PickTargets \/ Terminate \/ UNCHANGED vars
  BY <1>10 DEF KillCheck, PickTargets, Terminate, vars
<1> QED BY <1>1, <1>2, <1>3, <1>4, <1>5, <1>6, <1>7, <1>8, <1>9, <1>10 DEF Next

LEMMA HandlesStep ==
  ASSUME KillTypes, Followed, [Next]_vars PROVE HandlesKnown'
<1>0. TypeOK /\ Onward BY OnwardStep DEF KillTypes
<1> SUFFICES ASSUME NEW i \in Ids, handles'[i] # NoHandle
    PROVE  LET h == handles'[i] IN
             /\ h.run \in Runs /\ idOf'[h.run] = i
             /\ stage'[h.run] # "new"
             /\ pidOf'[h.run] = h.pid \/ stage'[h.run] = "gone"
  BY DEF HandlesKnown, Knows
<1>1. CASE handles'[i] = handles[i]
  <2>1. Knows(i, handles[i]) BY <1>1 DEF Followed, HandlesKnown
  <2> QED BY <1>0, <1>1, <2>1, KnowsStays
<1>2. CASE Written(i)
  <2> PICK r \in Runs, p \in Pids :
        Start(r, p) /\ idOf[r] = i /\ handles'[i] = [pid |-> p, run |-> r]
    BY <1>2 DEF Written
  <2>1. stage'[r] = "listed" /\ pidOf'[r] = p /\ idOf' = idOf BY <1>0 DEF Start, TypeOK
  <2> QED BY <2>1
<1> QED BY <1>1, <1>2, HandleMoves DEF Removed

\* A run begins by starting.
LEMMA BeginsByStart ==
  ASSUME KillTypes, [Next]_vars, NEW q \in Runs, stage[q] = "new", stage'[q] # "new"
  PROVE  \E p \in Pids : Start(q, p)
<1>0. TypeOK BY DEF KillTypes
<1>z. 0 \notin Pids /\ pidOf[q] \notin Pids BY KillAssumption DEF KillTypes, Up
<1>1. ASSUME NEW S \in SUBSET Pids, End(S) PROVE FALSE
  <2>1. stage'[q] = stage[q] BY <1>0, <1>1, <1>z, EndRuns
  <2> QED BY <2>1
<1>2. ASSUME NEW x \in Runs, NEW p \in Pids, Start(x, p) PROVE x = q
  BY <1>0, <1>2 DEF Start, TypeOK
<1>3. ASSUME NEW x \in Runs, NEW p \in Pids, Launch(x, p) PROVE FALSE
  BY <1>0, <1>3 DEF Launch, TypeOK
<1>4. ASSUME NEW x \in Runs, Refuse(x) \/ RefuseVerdicts(x) \/ Finish(x) PROVE FALSE
  BY <1>0, <1>4 DEF Refuse, RefuseVerdicts, Finish, TypeOK
<1>5. ASSUME NEW p \in Pids, Dies(p) PROVE FALSE BY <1>1, <1>5 DEF Dies
<1>6. ASSUME NEW x \in Runs, Leave(x) PROVE FALSE
  <2>1. pidOf[x] \in Pids BY <1>6 DEF KillTypes, Leave, Up
  <2> QED BY <1>5, <1>6, <2>1 DEF Leave
<1>7. CASE Terminate
  <2>1. PICK S \in SUBSET {p \in targets : Live(p)} : End(S) BY <1>7 DEF Terminate
  <2>2. S \in SUBSET Pids BY <1>0 DEF TypeOK
  <2> QED BY <1>1, <2>1, <2>2
<1>8. ASSUME NEW p \in Pids, KillSurvivor(p) PROVE FALSE
  <2>1. CASE Live(p) BY <1>1, <1>8, <2>1 DEF KillSurvivor
  <2>2. CASE ~Live(p) BY <1>8, <2>2 DEF KillSurvivor, runVars
  <2> QED BY <2>1, <2>2
<1>9. \/ stage' = stage
      \/ \E x \in Runs : \/ \E p \in Pids : Start(x, p) \/ Launch(x, p)
                         \/ Refuse(x) \/ RefuseVerdicts(x) \/ Finish(x) \/ Leave(x)
      \/ \E p \in Pids : Dies(p) \/ KillSurvivor(p)
      \/ Terminate
  BY DEF Next, Fork, Foreign, PsRead, PsTest, PsPrune, KillGet, KillCheck, PickTargets,
         KillClear, ReadPpid, vars, runVars
<1> QED BY <1>2, <1>3, <1>4, <1>5, <1>6, <1>7, <1>8, <1>9

(* A run that has written its handle under an id of its own has started, and nobody
   with that id has since. *)
LEMMA AloneMoves ==
  ASSUME KillTypes, [Next]_vars, NEW r \in alone'
  PROVE  \/ /\ r \in alone
            /\ \A x \in Runs, p \in Pids : Start(x, p) => r \notin Namesakes(x)
         \/ \E p \in Pids : /\ Start(r, p) /\ r \in Runs
                            /\ handles'[idOf[r]] = [pid |-> p, run |-> r]
                            /\ Namesakes(r) = {} /\ ~Worked(idOf[r])
<1>0. TypeOK BY DEF KillTypes
<1> DEFINE Began == \E p \in Pids : /\ Start(r, p) /\ r \in Runs
                                    /\ handles'[idOf[r]] = [pid |-> p, run |-> r]
                                    /\ Namesakes(r) = {} /\ ~Worked(idOf[r])
<1>a. ASSUME NEW x \in Runs, NEW p \in Pids, Start(x, p)
      PROVE  \/ r \in alone /\ r \notin Namesakes(x)
             \/ Began
  <2>1. x \notin Namesakes(x) BY DEF Namesakes
  <2>2. CASE handles' = [handles EXCEPT ![idOf[x]] = [pid |-> p, run |-> x]]
             /\ alone' = (alone \ Namesakes(x)) \cup
                           {y \in {x} : Namesakes(x) = {} /\ ~Worked(idOf[x])}
    <3>1. handles'[idOf[x]] = [pid |-> p, run |-> x] BY <1>0, <2>2 DEF TypeOK
    <3> QED BY <1>a, <2>2, <3>1
  <2>3. CASE alone' = alone \ Namesakes(x) BY <2>3
  <2> QED BY <1>a, <2>2, <2>3 DEF Start
<1>b. CASE \E x \in Runs, p \in Pids : Start(x, p)
  <2> PICK x \in Runs, p \in Pids : Start(x, p) BY <1>b
  <2>1. \A y \in Runs, q \in Pids : Start(y, q) => y = x
    <3> TAKE y \in Runs, q \in Pids
    <3>1. stage' = [stage EXCEPT ![x] = "listed"] /\ stage[x] = "new" BY DEF Start
    <3>2. Start(y, q) => stage[y] = "new" /\ stage'[y] = "listed"
      BY <1>0 DEF Start, TypeOK
    <3> QED BY <1>0, <3>1, <3>2 DEF TypeOK
  <2>2. CASE r \in alone /\ r \notin Namesakes(x) BY <2>1, <2>2
  <2> QED BY <1>a, <2>2
<1>c. ASSUME ~\E x \in Runs, p \in Pids : Start(x, p) PROVE r \in alone
  <2>1. ASSUME NEW p \in Pids, NEW q \in Pids, Fork(p, q) \/ Foreign(p) PROVE r \in alone
    BY <2>1 DEF Fork, Foreign, runVars
  <2>2. ASSUME NEW p \in Pids, Dies(p) \/ KillSurvivor(p) \/ ReadPpid(p) PROVE r \in alone
    BY <2>2 DEF Dies, KillSurvivor, ReadPpid, End, runVars
  <2>4. ASSUME NEW x \in Runs, NEW p \in Pids, Launch(x, p) PROVE r \in alone
    BY <2>4 DEF Launch
  <2>5. ASSUME NEW x \in Runs, Refuse(x) \/ RefuseVerdicts(x) \/ Finish(x) \/ Leave(x)
        PROVE  r \in alone
    BY <2>5 DEF Refuse, RefuseVerdicts, Finish, Leave, Dies, End
  <2>6. ASSUME NEW i \in Ids, PsRead(i) \/ PsTest(i) \/ PsPrune(i) \/ KillGet(i)
        PROVE  r \in alone
    BY <2>6 DEF PsRead, PsTest, PsPrune, KillGet, runVars
  <2>7. CASE KillCheck \/ PickTargets \/ Terminate \/ KillClear \/ UNCHANGED vars
    BY <2>7 DEF KillCheck, PickTargets, Terminate, End, KillClear, vars, runVars
  <2> QED BY <1>c, <2>1, <2>2, <2>4, <2>5, <2>6, <2>7 DEF Next
<1> QED BY <1>b, <1>c

\* What `ql ps` and `ql kill` hold under an id.
LEMMA CommandMoves ==
  ASSUME KillTypes, [Next]_vars, NEW i \in Ids
  PROVE  /\ \/ ps'[i] = ps[i]
            \/ PsRead(i) /\ ps'[i] = [pid |-> handles[i].pid, dead |-> FALSE]
            \/ ps[i].pid # 0 /\ ps'[i] = [pid |-> 0, dead |-> ~Live(ps[i].pid)]
            \/ ps'[i] = NoPs
         /\ \/ kill' = kill
            \/ handles[i] # NoHandle /\ kill' = [id |-> i, handle |-> handles[i]]
            \/ kill'.id # i
<1>0. TypeOK BY DEF KillTypes
<1>1. ASSUME NEW x \in Ids, PsRead(x) \/ PsTest(x) \/ PsPrune(x)
      PROVE  /\ kill' = kill
             /\ \/ ps'[i] = ps[i]
                \/ PsRead(i) /\ ps'[i] = [pid |-> handles[i].pid, dead |-> FALSE]
                \/ ps[i].pid # 0 /\ ps'[i] = [pid |-> 0, dead |-> ~Live(ps[i].pid)]
                \/ ps'[i] = NoPs
  <2>1. kill' = kill BY <1>1 DEF PsRead, PsTest, PsPrune, killVars
  <2>2. CASE x # i BY <1>0, <1>1, <2>1, <2>2 DEF PsRead, PsTest, PsPrune, TypeOK
  <2>3. CASE x = i BY <1>0, <1>1, <2>1, <2>3 DEF PsRead, PsTest, PsPrune, TypeOK
  <2> QED BY <2>2, <2>3
<1>2. ASSUME NEW x \in Ids, KillGet(x)
      PROVE  /\ ps' = ps
             /\ \/ handles[i] # NoHandle /\ kill' = [id |-> i, handle |-> handles[i]]
                \/ kill'.id # i
  BY <1>2 DEF KillGet
<1>3. CASE KillClear BY <1>3, KillAssumption DEF KillClear, NoKill
<1>4. \/ ps' = ps /\ kill' = kill
      \/ \E x \in Ids : PsRead(x) \/ PsTest(x) \/ PsPrune(x) \/ KillGet(x)
      \/ KillClear
  BY DEF Next, Fork, Foreign, Dies, Start, Launch, Refuse, RefuseVerdicts, Finish, Leave,
         KillCheck, PickTargets, Terminate, ReadPpid, KillSurvivor, vars, killVars
<1> QED BY <1>1, <1>2, <1>3, <1>4

\* A run that stays in force keeps its id to itself while nobody starts with it.
LEMMA UnsharedStays ==
  ASSUME KillTypes, Followed, [Next]_vars, NEW r \in Runs, InForce(r), Unshared(r), InForce(r)',
         \A x \in Runs, p \in Pids : Start(x, p) => r \notin Namesakes(x)
  PROVE  Unshared(r)'
<1>0. TypeOK /\ Onward BY OnwardStep DEF KillTypes
<1> DEFINE i == idOf[r]
<1>1. i \in Ids /\ idOf' = idOf /\ pidOf'[r] = pidOf[r] /\ pidOf[r] \in Pids
  BY <1>0 DEF Onward, InForce, TypeOK, KillTypes, Up
<1>2. ASSUME NEW x \in Runs, NEW p \in Pids, Start(x, p) PROVE idOf[x] # i
  <2>1. x # r BY <1>2 DEF Start, InForce
  <2> QED BY <1>2, <2>1 DEF Namesakes
<1>3. Namesakes(r)' = {}
  <2> SUFFICES ASSUME NEW q \in Runs \ {r}, idOf[q] = i, InForce(q)' PROVE FALSE
    BY <1>1 DEF Namesakes, InForce
  <2>1. ~InForce(q) BY DEF Unshared, Namesakes
  <2>2. stage[q] = "new" BY <1>0, <2>1 DEF InForce, Onward, TypeOK
  <2>3. stage'[q] # "new" BY DEF InForce
  <2>4. \E p \in Pids : Start(q, p) BY <2>2, <2>3, BeginsByStart
  <2> QED BY <1>2, <2>4
<1>4. handles'[i] = handles[i]
  <2>1. ~Written(i) BY <1>2 DEF Written
  <2>2. ~Removed(i)
    <3> SUFFICES ASSUME Removed(i) PROVE FALSE OBVIOUS
    <3>1. ~ps[i].dead BY DEF Unshared
    <3>2. ~(kill.id = i /\ stage[kill.handle.run] = "gone") BY DEF Unshared, InForce
    <3>3. PICK q \in Runs : idOf[q] = i /\ InForce(q) /\ stage'[q] = "leaving"
      BY <3>1, <3>2 DEF Removed
    <3>4. q # r BY <3>3 DEF InForce
    <3> QED BY <3>3, <3>4 DEF Unshared, Namesakes
  <2> QED BY <1>1, <2>1, <2>2, HandleMoves
<1>5. handles[i] = [pid |-> pidOf[r], run |-> r] BY DEF Unshared
<1>6. ps'[i].pid \in {0, pidOf[r]} /\ ~ps'[i].dead
  <2>1. CASE ps'[i] = ps[i] BY <2>1 DEF Unshared
  <2>2. CASE ps'[i] = [pid |-> handles[i].pid, dead |-> FALSE] BY <1>5, <2>2
  <2>3. CASE ps[i].pid # 0 /\ ps'[i] = [pid |-> 0, dead |-> ~Live(ps[i].pid)]
    <3>1. ps[i].pid = pidOf[r] BY <2>3 DEF Unshared
    <3>2. Live(pidOf[r]) BY DEF Followed, OwnPid, InForce, Up
    <3>3. ps'[i] = [pid |-> 0, dead |-> FALSE] BY <2>3, <3>1, <3>2, Zenon
    <3> QED BY <3>3
  <2>4. CASE ps'[i] = NoPs BY <2>4 DEF NoPs
  <2> QED BY <1>1, <2>1, <2>2, <2>3, <2>4, CommandMoves
<1>7. kill'.id = i => kill'.handle.run = r
  <2>1. CASE kill' = kill BY <2>1 DEF Unshared
  <2>2. CASE kill' = [id |-> i, handle |-> handles[i]] BY <1>5, <2>2
  <2> QED BY <1>1, <2>1, <2>2, CommandMoves
<1> QED BY <1>1, <1>3, <1>4, <1>5, <1>6, <1>7 DEF Unshared

LEMMA AloneStep ==
  ASSUME KillTypes, Followed, [Next]_vars, NEW r \in alone'
  PROVE  stage'[r] # "new" /\ (InForce(r)' => Unshared(r)')
<1>0. TypeOK /\ Onward BY OnwardStep DEF KillTypes
<1>1. CASE /\ r \in alone
           /\ \A x \in Runs, p \in Pids : Start(x, p) => r \notin Namesakes(x)
  <2>1. r \in Runs /\ stage[r] # "new" BY <1>0, <1>1 DEF Followed, TypeOK
  <2>2. stage'[r] # "new" BY <1>0, <2>1 DEF Onward
  <2>3. ASSUME InForce(r)' PROVE Unshared(r)'
    <3>1. InForce(r) BY <1>0, <2>1, <2>3 DEF Onward, InForce, TypeOK
    <3>2. Unshared(r) BY <1>1, <3>1 DEF Followed
    <3> QED BY <1>1, <2>1, <2>3, <3>1, <3>2, UnsharedStays
  <2> QED BY <2>2, <2>3
<1>2. CASE \E p \in Pids : /\ Start(r, p) /\ r \in Runs
                          /\ handles'[idOf[r]] = [pid |-> p, run |-> r]
                          /\ Namesakes(r) = {} /\ ~Worked(idOf[r])
  <2> PICK p \in Pids : /\ Start(r, p) /\ r \in Runs
                        /\ handles'[idOf[r]] = [pid |-> p, run |-> r]
                        /\ Namesakes(r) = {} /\ ~Worked(idOf[r])
    BY <1>2
  <2>1. /\ stage' = [stage EXCEPT ![r] = "listed"] /\ pidOf'[r] = p
        /\ UNCHANGED <<idOf, ps, kill>>
    BY <1>0 DEF Start, killVars, TypeOK
  <2>2. Namesakes(r)' = {}
    BY <1>0, <2>1 DEF Namesakes, InForce, TypeOK
  <2>3. ps[idOf[r]] = NoPs /\ kill.id # idOf[r] BY DEF Worked
  <2>4. Unshared(r)' BY <2>1, <2>2, <2>3 DEF Unshared, NoPs
  <2> QED BY <1>0, <2>1, <2>4 DEF TypeOK
<1> QED BY <1>1, <1>2, AloneMoves

LEMMA KillKnownStep ==
  ASSUME KillTypes, Followed, [Next]_vars PROVE KillKnown'
<1>0. TypeOK /\ Onward BY OnwardStep DEF KillTypes
<1> DEFINE h == kill.handle
<1>1. CASE kill' = kill /\ killStage' = killStage /\ targets' = targets
  <2> SUFFICES ASSUME killStage # "idle"
      PROVE  /\ h.run \in Runs /\ idOf'[h.run] = kill.id /\ stage'[h.run] # "new"
             /\ pidOf'[h.run] = h.pid \/ stage'[h.run] = "gone"
             /\ killStage = "term" => h.pid \in targets
             /\ killStage = "kill" => stage'[h.run] = "gone"
    BY <1>1 DEF KillKnown, Knows
  <2>1. Knows(kill.id, h) BY DEF Followed, KillKnown
  <2>2. killStage = "term" => h.pid \in targets BY DEF Followed, KillKnown
  <2>3. killStage = "kill" => stage[h.run] = "gone" BY DEF Followed, KillKnown
  <2> QED BY <1>0, <2>1, <2>2, <2>3, KnowsStays DEF Onward
<1>2. ASSUME NEW i \in Ids, KillGet(i) PROVE KillKnown'
  <2>1. /\ handles[i] # NoHandle /\ kill' = [id |-> i, handle |-> handles[i]]
        /\ killStage' = "check"
    BY <1>2 DEF KillGet
  <2>2. Knows(i, handles[i]) BY <2>1 DEF Followed, HandlesKnown
  <2> QED BY <1>0, <2>1, <2>2, KnowsStays DEF KillKnown, Knows
<1>3. CASE KillCheck
  <2>1. killStage = "check" /\ kill' = kill /\ stage' = stage BY <1>3 DEF KillCheck, runVars
  <2>2. Knows(kill.id, h) /\ h.pid \in Pids
    BY <2>1 DEF Followed, KillKnown, KillTypes, Handles
  <2>3. killStage' = "scan" \/ (killStage' = "kill" /\ ~Live(h.pid)) BY <1>3 DEF KillCheck
  <2>4. ~Live(h.pid) => stage'[h.run] = "gone" BY <2>1, <2>2, DeadIsOver DEF Followed
  <2> QED BY <1>0, <2>1, <2>2, <2>3, <2>4, KnowsStays DEF KillKnown, Knows
<1>4. CASE PickTargets
  <2>1. killStage = "scan" /\ kill' = kill /\ killStage' = "term" /\ targets' = Reached(h.pid)
    BY <1>4 DEF PickTargets
  <2>2. Knows(kill.id, h) /\ h.pid \in Pids
    BY <2>1 DEF Followed, KillKnown, KillTypes, Handles
  <2>3. h.pid \in targets' BY <2>1, <2>2, BelowClosed DEF Reached
  <2> QED BY <1>0, <2>1, <2>2, <2>3, KnowsStays DEF KillKnown, Knows
<1>5. CASE Terminate
  <2>1. killStage = "term" /\ kill' = kill /\ killStage' = "kill" BY <1>5 DEF Terminate
  <2>2. Knows(kill.id, h) /\ h.pid \in targets BY <2>1 DEF Followed, KillKnown
  <2>3. PICK S \in SUBSET {p \in targets : Live(p)} :
          (\A r \in Runs : pidOf[r] \in targets => pidOf[r] \in S) /\ End(S)
    BY <1>5 DEF Terminate
  <2>4. stage'[h.run] = "gone"
    <3>1. CASE stage[h.run] = "gone" BY <1>0, <2>2, <3>1 DEF Onward, Knows
    <3>2. CASE pidOf[h.run] = h.pid
      <4>1. pidOf[h.run] \in S /\ h.run \in Runs BY <2>2, <2>3, <3>2 DEF Knows
      <4> QED BY <1>0, <2>3, <4>1, EndRuns
    <3> QED BY <2>2, <3>1, <3>2 DEF Knows
  <2> QED BY <1>0, <2>1, <2>2, <2>4, KnowsStays DEF KillKnown, Knows
<1>6. CASE KillClear
  BY <1>6 DEF KillClear, KillKnown
<1>7. \/ kill' = kill /\ killStage' = killStage /\ targets' = targets
      \/ \E i \in Ids : KillGet(i)
      \/ KillCheck \/ PickTargets \/ Terminate \/ KillClear
  BY DEF Next, Fork, Foreign, Dies, Start, Launch, Refuse, RefuseVerdicts, Finish, Leave,
         PsRead, PsTest, PsPrune, ReadPpid, KillSurvivor, vars, killVars
<1> QED BY <1>1, <1>2, <1>3, <1>4, <1>5, <1>6, <1>7

LEMMA FollowedInit == Init => Followed
BY DEF Init, Followed, OwnPid, HandlesKnown, KillKnown, Up

LEMMA FollowedStep == KillTypes /\ Followed /\ [Next]_vars => Followed'
<1> SUFFICES ASSUME KillTypes, Followed, [Next]_vars PROVE Followed' OBVIOUS
<1>1. OwnPid' BY OwnStep DEF Followed
<1>2. HandlesKnown' BY HandlesStep
<1>3. KillKnown' BY KillKnownStep
<1>4. \A r \in alone' : stage'[r] # "new" /\ (InForce(r)' => Unshared(r)') BY AloneStep
<1> QED BY <1>1, <1>2, <1>3, <1>4 DEF Followed

(* A run that found its id free, of other runs and of commands at work on it, and that no
   other run joins, stays listed from the moment it wrote its handle until it is over,
   whatever `ql ps` prunes and `ql kill` clears, for any number of runs, ids and pids. *)
THEOREM StaysListed == Spec => []ListedWhileRunning
<1>1. Followed => ListedWhileRunning BY DEF Followed, ListedWhileRunning, Unshared
<1> QED BY <1>1, TypesInit, TypesStep, FollowedInit, FollowedStep, PTL DEF Spec

-----------------------------------------------------------------------------
(* What the scan and the two rounds of signals leave of the tree.          *)

\* The processes M hang together below root: a set that has root and, with a
\* process, its children among them, has all of them.
Rooted(root, M, table) ==
  \A S \in SUBSET Pids :
    root \in S /\ (\A q \in M : table[q].parent \in S => q \in S) => M \subseteq S

\* The links that were read are those of the processes that were there from the start.
ReadRight(M, read, table) == \A m \in M \ unread : read[m] = table[m].parent

\* The processes of the tree that stood are on the way to a signal.
Sweeping ==
  /\ \A p \in Pids : ~Live(p) => procs[p].parent = InitProcess
  /\ \A m \in members : Live(m)
  /\ killStage \in {"idle", "check"} => members = {}
  /\ ~split =>
       /\ killStage = "scan" => /\ ReadRight(members, parents, procs)
                                /\ Rooted(kill.handle.pid, members, procs)
       /\ killStage = "term" => members \subseteq targets
       /\ killStage = "kill" => members \subseteq todo

\* The tree hangs together.
LEMMA TreeRooted ==
  ASSUME NEW root \in Pids PROVE Rooted(root, Tree(root), procs)
<1> DEFINE link == [p \in Pids |-> procs[p].parent]
           B == Below(root, link)
<1>1. B \subseteq Pids /\ root \in B BY BelowClosed
<1> SUFFICES ASSUME NEW S \in SUBSET Pids, root \in S,
                    \A q \in B : procs[q].parent \in S => q \in S
    PROVE  B \subseteq S
  BY DEF Rooted, Tree
<1> DEFINE T == S \cup (Pids \ B)
<1>2. ASSUME NEW q \in Pids, link[q] \in T PROVE q \in T
  <2>1. CASE q \notin B BY <2>1
  <2>2. CASE q = root BY <2>2
  <2>3. CASE q \in B /\ q # root
    <3>1. link[q] \in B BY <2>3, BelowParent
    <3>2. procs[q].parent \in S BY <1>2, <3>1
    <3> QED BY <2>3, <3>2
  <2> QED BY <2>1, <2>2, <2>3
<1>3. T \in SUBSET Pids /\ root \in T OBVIOUS
<1>4. B \subseteq T
  <2> HIDE DEF T, B
  <2>1. B = Below(root, link) BY DEF B
  <2> HIDE DEF link
  <2> QED BY <1>2, <1>3, <2>1, BelowClosed
<1> QED BY <1>4

\* It consists of processes that are there.
LEMMA TreeLive ==
  ASSUME Sweeping, KillAssumption, NEW root \in Pids, Live(root), NEW q \in Tree(root)
  PROVE  Live(q)
<1> DEFINE link == [p \in Pids |-> procs[p].parent]
<1>1. Tree(root) \subseteq Pids BY BelowClosed DEF Tree
<1>2. CASE q = root BY <1>2
<1>3. CASE q # root
  <2>1. link[q] \in Tree(root) BY <1>3, BelowParent DEF Tree
  <2>2. procs[q].parent \in Pids BY <1>1, <2>1
  <2>3. procs[q].parent # InitProcess BY <2>2, KillAssumption DEF InitProcess
  <2> QED BY <1>1, <2>3 DEF Sweeping
<1> QED BY <1>2, <1>3

\* It hangs together after the death of processes without children in it.
LEMMA RootedEnd ==
  ASSUME NEW root \in Pids, NEW M \in SUBSET Pids, NEW S \in SUBSET Pids,
         NEW table, NEW table2, Rooted(root, M, table),
         \A m \in M : table[m].parent \notin S,
         \A m \in M \ S : table2[m].parent = table[m].parent
  PROVE  Rooted(root, M \ S, table2)
<1> SUFFICES ASSUME NEW X \in SUBSET Pids, root \in X,
                    \A q \in M \ S : table2[q].parent \in X => q \in X
    PROVE  M \ S \subseteq X
  BY DEF Rooted
<1>1. \A q \in M : table[q].parent \in X \cup S => q \in X \cup S OBVIOUS
<1>2. X \cup S \in SUBSET Pids /\ root \in X \cup S OBVIOUS
<1>3. M \subseteq X \cup S BY <1>1, <1>2 DEF Rooted
<1> QED BY <1>3

LEMMA RootedSame ==
  ASSUME NEW root, NEW M, NEW table, NEW table2, Rooted(root, M, table),
         \A m \in M : table2[m] = table[m]
  PROVE  Rooted(root, M, table2)
BY DEF Rooted

\* What was read leads to all of them.
LEMMA ReachesAll ==
  ASSUME NEW root \in Pids, NEW M \in SUBSET Pids, NEW table,
         Rooted(root, M, table), \A m \in M : parents[m] = table[m].parent
  PROVE  M \subseteq Reached(root)
<1> SUFFICES ASSUME NEW S \in SUBSET Pids, root \in S,
                    \A q \in Pids : parents[q] \in S => q \in S
    PROVE  M \subseteq S
  BY DEF Reached, Below
<1>1. \A q \in M : table[q].parent \in S => q \in S OBVIOUS
<1> QED BY <1>1 DEF Rooted

LEMMA SweepSpawn ==
  ASSUME KillTypes, Sweeping,
         NEW q \in Pids, NEW o \in Owners, NEW par \in Pids \cup {InitProcess}, Spawn(q, o, par),
         UNCHANGED killVars
  PROVE  Sweeping'
<1>0. TypeOK BY DEF KillTypes
<1>1. \A p \in Pids : ~Live(p)' => procs'[p].parent = InitProcess
  BY <1>0, SpawnEffect DEF Sweeping, Live
<1>2. \A m \in members : m # q /\ procs'[m] = procs[m]
  BY <1>0, LiveStays DEF Sweeping, TypeOK
<1>3. members' = members /\ split' = split BY DEF Spawn
<1>4. \A m \in members' : Live(m)' BY <1>2, <1>3 DEF Sweeping, Live
<1>5. ReadRight(members, parents, procs) => ReadRight(members, parents, procs)'
  BY <1>2, <1>3 DEF ReadRight, killVars
<1>6. Rooted(kill.handle.pid, members, procs) => Rooted(kill.handle.pid, members, procs')
  BY <1>2, RootedSame
<1> QED BY <1>1, <1>3, <1>4, <1>5, <1>6 DEF Sweeping, killVars

LEMMA EndMembers ==
  ASSUME KillTypes, Sweeping, NEW S \in SUBSET Pids, End(S)
  PROVE  /\ \A p \in Pids : ~Live(p)' => procs'[p].parent = InitProcess
         /\ members' = members \ S
         /\ \A m \in members' : Live(m)'
         /\ ~split' => ~split
<1>0. TypeOK BY DEF KillTypes
<1>1. ASSUME NEW p \in Pids, ~Live(p)' PROVE procs'[p].parent = InitProcess
  <2>1. CASE p \in S BY <1>0, <2>1, EndEffect DEF Free
  <2>2. CASE p \notin S /\ procs[p].parent \in S BY <1>0, <2>2, EndEffect
  <2>3. CASE p \notin S /\ procs[p].parent \notin S
    <3>1. procs'[p] = procs[p] BY <1>0, <2>3, EndEffect
    <3> QED BY <1>1, <3>1 DEF Sweeping, Live
  <2> QED BY <2>1, <2>2, <2>3
<1>2. members' = members \ S BY DEF End
<1>3. ASSUME NEW m \in members' PROVE Live(m)'
  <2>1. m \in Pids \ S /\ procs[m].used BY <1>0, <1>2 DEF TypeOK, Sweeping, Live
  <2>2. procs'[m].used = procs[m].used BY <1>0, <2>1, EndEffect
  <2> QED BY <2>1, <2>2 DEF Live
<1>4. ~split' => ~split BY DEF End
<1> QED BY <1>1, <1>2, <1>3, <1>4

\* A death during the scan that takes no child's parent away.
LEMMA SweepEnd ==
  ASSUME KillTypes, Sweeping, NEW S \in SUBSET Pids, End(S), UNCHANGED killVars
  PROVE  Sweeping'
<1>0. TypeOK BY DEF KillTypes
<1>1. UNCHANGED <<kill, killStage, parents, unread, targets, todo>> BY DEF killVars
<1>2. ASSUME ~split', killStage = "scan"
      PROVE  ReadRight(members, parents, procs)' /\ Rooted(kill.handle.pid, members, procs)'
  <2>1. \A q \in members : procs[q].parent \notin S BY <1>2 DEF End
  <2>2. members \in SUBSET Pids /\ members' = members \ S BY <1>0, EndMembers DEF TypeOK
  <2>3. \A m \in members \ S : procs'[m] = procs[m] BY <1>0, <2>1, <2>2, EndEffect
  <2>4. kill.handle.pid \in Pids BY <1>2 DEF KillTypes, Handles
  <2>5. ReadRight(members, parents, procs) /\ Rooted(kill.handle.pid, members, procs)
    BY <1>2, EndMembers DEF Sweeping
  <2>6. Rooted(kill.handle.pid, members \ S, procs') BY <2>1, <2>2, <2>3, <2>4, <2>5, RootedEnd
  <2>7. ReadRight(members, parents, procs)' BY <1>1, <2>2, <2>3, <2>5 DEF ReadRight
  <2> QED BY <1>1, <2>2, <2>6, <2>7
<1> QED BY <1>1, <1>2, EndMembers DEF Sweeping

LEMMA SweepTerminate == ASSUME KillTypes, Sweeping, Terminate PROVE Sweeping'
<1>0. TypeOK BY DEF KillTypes
<1>1. PICK S \in SUBSET {p \in targets : Live(p)} : End(S) BY DEF Terminate
<1>2. S \in SUBSET Pids BY <1>0 DEF TypeOK
<1>3. killStage = "term" /\ killStage' = "kill" /\ todo' = targets BY DEF Terminate
<1> QED BY <1>1, <1>2, <1>3, EndMembers DEF Sweeping

LEMMA SweepKill ==
  ASSUME KillTypes, Sweeping, NEW p \in Pids, KillSurvivor(p) PROVE Sweeping'
<1>1. killStage = "kill" /\ killStage' = "kill" /\ todo' = todo \ {p} BY DEF KillSurvivor
<1>2. CASE Live(p)
  <2>1. {p} \in SUBSET Pids /\ End({p}) BY <1>2 DEF KillSurvivor
  <2> QED BY <1>1, <2>1, EndMembers DEF Sweeping
<1>3. CASE ~Live(p)
  <2>1. UNCHANGED kernel BY <1>3 DEF KillSurvivor
  <2>2. p \notin members BY <1>3 DEF Sweeping
  <2>3. procs' = procs /\ members' = members /\ split' = split BY <2>1 DEF kernel
  <2> QED BY <1>1, <2>2, <2>3 DEF Sweeping, Live
<1> QED BY <1>2, <1>3

LEMMA SweepCheck == ASSUME KillTypes, Sweeping, KillCheck PROVE Sweeping'
<1> DEFINE h == kill.handle
<1>1. killStage = "check" /\ procs' = procs /\ kill' = kill BY DEF KillCheck
<1>2. h.pid \in Pids BY <1>1 DEF KillTypes, Handles
<1>3. CASE Live(h.pid) /\ killStage' = "scan" /\ unread' = Pids /\ Witness(Tree(h.pid), h)
  <2>1. members' = Tree(h.pid) BY <1>3 DEF Witness
  <2>2. Rooted(h.pid, members', procs') BY <1>1, <1>2, <2>1, TreeRooted
  <2>3. members' \subseteq Pids BY <1>2, <2>1, BelowClosed DEF Tree
  <2>4. ReadRight(members, parents, procs)' BY <1>3, <2>3 DEF ReadRight
  <2>5. \A m \in members' : Live(m) BY <1>2, <1>3, <2>1, KillAssumption, TreeLive
  <2> QED BY <1>1, <1>3, <2>2, <2>4, <2>5 DEF Sweeping, Live
<1>4. CASE killStage' = "kill" /\ Witness({}, h)
  BY <1>1, <1>4 DEF Sweeping, Live, Witness
<1> QED BY <1>3, <1>4 DEF KillCheck

LEMMA SweepRead ==
  ASSUME KillTypes, Sweeping, NEW p \in Pids, ReadPpid(p) PROVE Sweeping'
<1>0. TypeOK BY DEF KillTypes
<1>1. /\ procs' = procs /\ members' = members /\ split' = split
      /\ killStage = "scan" /\ killStage' = "scan" /\ kill' = kill /\ unread' = unread \ {p}
  BY DEF ReadPpid, kernel
<1>2. parents' = IF Live(p) THEN [parents EXCEPT ![p] = procs[p].parent] ELSE parents
  BY DEF ReadPpid
<1>3. ASSUME ReadRight(members, parents, procs), NEW m \in members \ unread'
      PROVE  parents'[m] = procs[m].parent
  <2>1. m \in Pids /\ Live(m) BY <1>0 DEF TypeOK, Sweeping
  <2>2. CASE m = p BY <1>0, <1>2, <2>1, <2>2 DEF TypeOK
  <2>3. CASE m # p
    <3>1. parents'[m] = parents[m] BY <1>0, <1>2, <2>1, <2>3 DEF TypeOK
    <3> QED BY <1>1, <1>3, <2>3, <3>1 DEF ReadRight
  <2> QED BY <2>2, <2>3
<1>4. ReadRight(members, parents, procs) => ReadRight(members, parents, procs)'
  BY <1>1, <1>3 DEF ReadRight
<1> QED BY <1>1, <1>4 DEF Sweeping, Live

LEMMA SweepPick == ASSUME KillTypes, Sweeping, PickTargets PROVE Sweeping'
<1>0. TypeOK BY DEF KillTypes
<1>1. /\ killStage = "scan" /\ killStage' = "term" /\ unread = {}
      /\ procs' = procs /\ members' = members /\ split' = split
      /\ targets' = Reached(kill.handle.pid)
  BY DEF PickTargets
<1>2. kill.handle.pid \in Pids /\ members \in SUBSET Pids
  BY <1>0, <1>1 DEF KillTypes, Handles, TypeOK
<1>3. ~split => members \subseteq targets'
  BY <1>1, <1>2, ReachesAll DEF Sweeping, ReadRight
<1> QED BY <1>1, <1>3 DEF Sweeping, Live

LEMMA SweepInit == Init => Sweeping
<1>1. Free.parent = InitProcess BY DEF Free
<1> QED BY <1>1 DEF Init, Sweeping

LEMMA SweepStep == ASSUME KillTypes, Sweeping, [Next]_vars PROVE Sweeping'
<1>0. TypeOK BY DEF KillTypes
<1>a. ASSUME UNCHANGED kernel, UNCHANGED killVars PROVE Sweeping'
  BY <1>a DEF kernel, killVars, Sweeping, Live, ReadRight
<1>1. ASSUME NEW p \in Pids, NEW q \in Pids, Fork(p, q) PROVE Sweeping'
  <2>1. procs[p].owner \in Owners BY <1>0 DEF TypeOK
  <2> QED BY <1>1, <2>1, SweepSpawn DEF Fork
<1>2. ASSUME NEW p \in Pids, Foreign(p) PROVE Sweeping'
  BY <1>2, SweepSpawn DEF Foreign, Owners
<1>3. ASSUME NEW r \in Runs, NEW p \in Pids, Start(r, p) \/ Launch(r, p) PROVE Sweeping'
  <2>1. r \in Owners /\ pidOf[r] \in Pids \cup {InitProcess}
    BY <1>0 DEF Owners, TypeOK, InitProcess
  <2> QED BY <1>3, <2>1, SweepSpawn DEF Start, Launch
<1>4. ASSUME NEW r \in Runs, Refuse(r) \/ RefuseVerdicts(r) \/ Finish(r) PROVE Sweeping'
  BY <1>a, <1>4 DEF Refuse, RefuseVerdicts, Finish
<1>5. ASSUME NEW p \in Pids, Dies(p) PROVE Sweeping'
  <2>1. {p} \in SUBSET Pids /\ End({p}) BY <1>5 DEF Dies
  <2> QED BY <1>5, <2>1, SweepEnd DEF Dies
<1>6. ASSUME NEW r \in Runs, Leave(r) PROVE Sweeping'
  <2>1. pidOf[r] \in Pids BY <1>6 DEF KillTypes, Leave, Up
  <2> QED BY <1>5, <1>6, <2>1 DEF Leave
<1>7. CASE UNCHANGED vars \/ \E i \in Ids : PsRead(i) \/ PsTest(i) \/ PsPrune(i)
  BY <1>a, <1>7 DEF PsRead, PsTest, PsPrune, vars
<1>8. ASSUME NEW i \in Ids, KillGet(i) PROVE Sweeping'
  BY <1>8 DEF KillGet, kernel, Sweeping, Live
<1>9. CASE KillClear
  BY <1>9 DEF KillClear, Sweeping, Live
<1> QED BY <1>1, <1>2, <1>3, <1>4, <1>5, <1>6, <1>7, <1>8, <1>9, SweepTerminate, SweepKill,
           SweepCheck, SweepRead, SweepPick DEF Next

(* When `ql kill` has swept, nothing is left of the tree that stood when it began to
   read /proc, unless the tree split under the scan: for every set of pids, whatever
   forks and dies around it. *)
THEOREM SweepsTheTree == Spec => []TreeSwept
<1>1. Sweeping => TreeSwept BY DEF Sweeping, TreeSwept, Swept
<1> QED BY <1>1, TypesInit, TypesStep, SweepInit, SweepStep, PTL DEF Spec

-----------------------------------------------------------------------------
(* Whose the signalled pids are.                                           *)

\* The parent of a process that is there, if not init, is there and of the same cell.
Kin ==
  \A q \in Pids : Live(q) /\ procs[q].parent \in Pids =>
    /\ Live(procs[q].parent)
    /\ procs[procs[q].parent].owner = procs[q].owner

Of(q, r) == Live(q) /\ procs[q].owner = r

\* While no pid it goes by is given up, the links that were read join processes of
\* one cell, and the root is one of the cell to kill.
Scanned ==
  /\ kill.handle.pid \notin freed => Of(kill.handle.pid, kill.handle.run)
  /\ \A q \in Pids \ unread :
       parents[q] \in Pids /\ q \notin freed /\ parents[q] \notin freed =>
         Live(q) /\ Of(parents[q], procs[q].owner)
  /\ \A q \in unread : parents[q] = InitProcess

Aimed ==
  /\ Kin
  /\ ~strayed
  /\ killStage # "scan" => \A q \in Pids : parents[q] = InitProcess
  /\ killStage = "scan" => Scanned
  /\ killStage \in {"idle", "check", "scan"} => targets = {}
  /\ todo \subseteq targets
  /\ killStage \in {"term", "kill"} /\ freed \cap targets = {} =>
       \A q \in targets : Of(q, kill.handle.run)

LEMMA KinSpawn ==
  ASSUME KillTypes, Kin,
         NEW q \in Pids, NEW o \in Owners, NEW par \in Pids \cup {InitProcess}, Spawn(q, o, par),
         par \in Pids => Of(par, o)
  PROVE  Kin'
<1>0. TypeOK BY DEF KillTypes
<1> SUFFICES ASSUME NEW x \in Pids, procs'[x].used, procs'[x].parent \in Pids
    PROVE  /\ procs'[procs'[x].parent].used
           /\ procs'[procs'[x].parent].owner = procs'[x].owner
  BY DEF Kin, Live
<1>1. CASE x = q
  <2>1. procs'[x].parent = par /\ procs'[x].owner = o BY <1>0, <1>1, SpawnEffect
  <2>2. Live(par) /\ procs[par].owner = o BY <2>1 DEF Of
  <2>3. procs'[par] = procs[par] BY <1>0, <2>1, <2>2, LiveStays
  <2> QED BY <2>1, <2>2, <2>3 DEF Live
<1>2. CASE x # q
  <2>1. procs'[x] = procs[x] BY <1>0, <1>2, SpawnEffect
  <2>2. Live(procs[x].parent) /\ procs[procs[x].parent].owner = procs[x].owner
    BY <2>1 DEF Kin, Live
  <2>3. procs'[procs[x].parent] = procs[procs[x].parent] BY <1>0, <2>1, <2>2, LiveStays
  <2> QED BY <2>1, <2>2, <2>3 DEF Live
<1> QED BY <1>1, <1>2

LEMMA KinEnd ==
  ASSUME KillTypes, Kin, NEW S \in SUBSET Pids, End(S) PROVE Kin'
<1>0. TypeOK BY DEF KillTypes
<1>z. 0 \notin Pids BY KillAssumption
<1> SUFFICES ASSUME NEW x \in Pids, procs'[x].used, procs'[x].parent \in Pids
    PROVE  /\ procs'[procs'[x].parent].used
           /\ procs'[procs'[x].parent].owner = procs'[x].owner
  BY DEF Kin, Live
<1>1. x \notin S BY <1>0, EndEffect DEF Free
<1>2. procs[x].parent \notin S BY <1>0, <1>z, <1>1, EndEffect DEF InitProcess
<1>3. procs'[x] = procs[x] BY <1>0, <1>1, <1>2, EndEffect
<1>4. procs[procs[x].parent].used /\ procs[procs[x].parent].owner = procs[x].owner
  BY <1>3 DEF Kin, Live
<1>5. procs[x].parent \in Pids \ S BY <1>2, <1>3
<1>6. /\ procs'[procs[x].parent].used = procs[procs[x].parent].used
      /\ procs'[procs[x].parent].owner = procs[procs[x].parent].owner
  BY <1>0, <1>5, EndEffect
<1> QED BY <1>3, <1>4, <1>6

LEMMA OfSpawn ==
  ASSUME KillTypes,
         NEW q \in Pids, NEW o \in Owners, NEW par \in Pids \cup {InitProcess}, Spawn(q, o, par),
         NEW x \in Pids, Live(x)
  PROVE  procs'[x].used /\ procs'[x].owner = procs[x].owner
<1>1. TypeOK BY DEF KillTypes
<1>2. procs'[x] = procs[x] BY <1>1, LiveStays
<1> QED BY <1>2 DEF Live

LEMMA OfEnd ==
  ASSUME KillTypes, NEW S \in SUBSET Pids, End(S), NEW x \in Pids \ S, Live(x)
  PROVE  procs'[x].used /\ procs'[x].owner = procs[x].owner
<1>1. TypeOK BY DEF KillTypes
<1>2. procs'[x].used = procs[x].used /\ procs'[x].owner = procs[x].owner BY <1>1, EndEffect
<1> QED BY <1>2 DEF Live

LEMMA AimedSpawn ==
  ASSUME KillTypes, Aimed,
         NEW q \in Pids, NEW o \in Owners, NEW par \in Pids \cup {InitProcess}, Spawn(q, o, par),
         par \in Pids => Of(par, o), UNCHANGED killVars
  PROVE  Aimed'
<1>0. TypeOK BY DEF KillTypes
<1>1. /\ UNCHANGED <<kill, killStage, parents, unread, targets, todo, strayed>>
      /\ freed' = freed
  BY DEF killVars, Spawn
<1>2. Kin' BY KinSpawn DEF Aimed
<1>3. ASSUME killStage = "scan", Scanned PROVE Scanned'
  <2>1. kill.handle.pid \in Pids BY <1>3 DEF KillTypes, Handles
  <2>2. kill.handle.pid \notin freed =>
          procs'[kill.handle.pid].used /\ procs'[kill.handle.pid].owner = kill.handle.run
    BY <1>3, <2>1, OfSpawn DEF Scanned, Of
  <2>3. ASSUME NEW x \in Pids \ unread,
               parents[x] \in Pids, x \notin freed, parents[x] \notin freed
        PROVE  procs'[x].used /\ procs'[parents[x]].used
               /\ procs'[parents[x]].owner = procs'[x].owner
    <3>1. Live(x) /\ Live(parents[x]) /\ procs[parents[x]].owner = procs[x].owner
      BY <1>3, <2>3 DEF Scanned, Of
    <3> QED BY <2>3, <3>1, OfSpawn
  <2> QED BY <1>1, <1>3, <2>2, <2>3 DEF Scanned, Of, Live
<1>4. ASSUME NEW x \in targets, Of(x, kill.handle.run)
      PROVE  procs'[x].used /\ procs'[x].owner = kill.handle.run
  BY <1>0, <1>4, OfSpawn DEF Of, TypeOK
<1> QED BY <1>1, <1>2, <1>3, <1>4 DEF Aimed, Of, Live

\* The targets of a sweep that lost none are still of the cell after a death that
\* takes none.
LEMMA TargetsEnd ==
  ASSUME KillTypes, Aimed, killStage \in {"term", "kill"},
         NEW S \in SUBSET Pids, End(S), targets' = targets,
         freed' \cap targets = {}, NEW x \in targets
  PROVE  procs'[x].used /\ procs'[x].owner = kill.handle.run
<1>0. TypeOK BY DEF KillTypes
<1>1. freed' = freed \cup (S \cap targets) BY DEF End
<1>2. freed \cap targets = {} /\ S \cap targets = {} BY <1>1
<1>3. Live(x) /\ procs[x].owner = kill.handle.run BY <1>2 DEF Aimed, Of
<1>4. x \in Pids \ S BY <1>0, <1>2 DEF TypeOK
<1> QED BY <1>3, <1>4, OfEnd

LEMMA AimedEnd ==
  ASSUME KillTypes, Aimed, NEW S \in SUBSET Pids, End(S), UNCHANGED killVars
  PROVE  Aimed'
<1>0. TypeOK BY DEF KillTypes
<1>1. UNCHANGED <<kill, killStage, parents, unread, targets, todo, strayed>> BY DEF killVars
<1>2. Kin' BY KinEnd DEF Aimed
<1>3. ASSUME killStage = "scan", Scanned PROVE Scanned'
  <2>1. kill.handle.pid \in Pids BY <1>3 DEF KillTypes, Handles
  <2>2. freed' = freed \cup S BY <1>3 DEF End
  <2>3. kill.handle.pid \notin freed' =>
          procs'[kill.handle.pid].used /\ procs'[kill.handle.pid].owner = kill.handle.run
    BY <1>3, <2>1, <2>2, OfEnd DEF Scanned, Of
  <2>4. ASSUME NEW x \in Pids \ unread,
               parents[x] \in Pids, x \notin freed', parents[x] \notin freed'
        PROVE  procs'[x].used /\ procs'[parents[x]].used
               /\ procs'[parents[x]].owner = procs'[x].owner
    <3>1. Live(x) /\ Live(parents[x]) /\ procs[parents[x]].owner = procs[x].owner
      BY <1>3, <2>2, <2>4 DEF Scanned, Of
    <3> QED BY <2>2, <2>4, <3>1, OfEnd
  <2> QED BY <1>1, <1>3, <2>3, <2>4 DEF Scanned, Of, Live
<1>4. killStage \in {"term", "kill"} /\ freed' \cap targets = {} =>
        \A x \in targets : procs'[x].used /\ procs'[x].owner = kill.handle.run
  BY <1>1, TargetsEnd
<1> QED BY <1>1, <1>2, <1>3, <1>4 DEF Aimed, Of, Live

\* Signals to targets stray only by way of a pid given up.
LEMMA HitAimed ==
  ASSUME Aimed, killStage \in {"term", "kill"}, NEW S \in SUBSET targets, Hit(S)
  PROVE  ~strayed'
<1>1. freed \cap targets = {} => \A p \in S : procs[p].owner = kill.handle.run
  BY DEF Aimed, Of
<1> QED BY <1>1 DEF Aimed, Hit

LEMMA AimedTerminate == ASSUME KillTypes, Aimed, Terminate PROVE Aimed'
<1>0. TypeOK BY DEF KillTypes
<1>1. PICK S \in SUBSET {p \in targets : Live(p)} : End(S) BY DEF Terminate
<1>2. S \in SUBSET Pids BY <1>0 DEF TypeOK
<1>3. /\ killStage = "term" /\ killStage' = "kill" /\ todo' = targets
      /\ UNCHANGED <<kill, parents, targets>> /\ Hit(targets)
  BY DEF Terminate
<1>4. ~strayed' BY <1>3, HitAimed
<1>5. Kin' BY <1>1, <1>2, KinEnd DEF Aimed
<1>6. freed' \cap targets = {} =>
        \A x \in targets : procs'[x].used /\ procs'[x].owner = kill.handle.run
  BY <1>1, <1>2, <1>3, TargetsEnd
<1> QED BY <1>3, <1>4, <1>5, <1>6 DEF Aimed, Of, Live

LEMMA AimedKill ==
  ASSUME KillTypes, Aimed, NEW p \in Pids, KillSurvivor(p) PROVE Aimed'
<1>1. /\ killStage = "kill" /\ killStage' = "kill" /\ todo' = todo \ {p} /\ p \in todo
      /\ UNCHANGED <<kill, parents, targets>> /\ Hit({p})
  BY DEF KillSurvivor
<1>2. {p} \in SUBSET targets BY <1>1 DEF Aimed
<1>3. ~strayed' BY <1>1, <1>2, HitAimed
<1>4. CASE Live(p)
  <2>1. {p} \in SUBSET Pids /\ End({p}) BY <1>4 DEF KillSurvivor
  <2>2. Kin' BY <2>1, KinEnd DEF Aimed
  <2>3. freed' \cap targets = {} =>
          \A x \in targets : procs'[x].used /\ procs'[x].owner = kill.handle.run
    BY <1>1, <2>1, TargetsEnd
  <2> QED BY <1>1, <1>3, <2>2, <2>3 DEF Aimed, Of, Live
<1>5. CASE ~Live(p)
  <2>1. procs' = procs /\ freed' = freed BY <1>5 DEF KillSurvivor, kernel
  <2> QED BY <1>1, <1>3, <2>1 DEF Aimed, Kin, Of, Live
<1> QED BY <1>4, <1>5

LEMMA AimedCheck == ASSUME KillTypes, OwnPid, Aimed, KillCheck PROVE Aimed'
<1> DEFINE h == kill.handle
<1>1. /\ killStage = "check" /\ procs' = procs
      /\ UNCHANGED <<kill, parents, targets, todo, strayed>>
  BY DEF KillCheck
<1>2. h.pid \in Pids /\ h.run \in Runs BY <1>1 DEF KillTypes, Handles
<1>3. Kin' BY <1>1 DEF Aimed, Kin, Live
<1>4. CASE killStage' = "scan" /\ unread' = Pids /\ Witness(Tree(h.pid), h)
  <2>1. freed' = IF pidOf[h.run] = h.pid THEN {} ELSE {h.pid} BY <1>4 DEF Witness
  <2>2. h.pid \notin freed' => Of(h.pid, h.run)
    <3> SUFFICES ASSUME pidOf[h.run] = h.pid PROVE Of(h.pid, h.run) BY <2>1
    <3>1. stage[h.run] \in Up BY <1>2 DEF KillTypes
    <3> QED BY <1>2, <3>1 DEF OwnPid, Of
  <2>3. \A q \in Pids : parents'[q] = InitProcess BY <1>1 DEF Aimed
  <2>4. Scanned' BY <1>1, <1>4, <2>2, <2>3 DEF Scanned, Of, Live
  <2> QED BY <1>1, <1>3, <1>4, <2>4 DEF Aimed
<1>5. CASE killStage' = "kill"
  BY <1>1, <1>3, <1>5 DEF Aimed
<1> QED BY <1>4, <1>5 DEF KillCheck

LEMMA AimedRead ==
  ASSUME KillTypes, Aimed, NEW p \in Pids, ReadPpid(p) PROVE Aimed'
<1>0. TypeOK BY DEF KillTypes
<1>1. /\ procs' = procs /\ freed' = freed /\ killStage = "scan" /\ unread' = unread \ {p}
      /\ UNCHANGED <<kill, killStage, targets, todo, strayed>> /\ p \in unread
  BY DEF ReadPpid, kernel
<1>2. parents' = IF Live(p) THEN [parents EXCEPT ![p] = procs[p].parent] ELSE parents
  BY DEF ReadPpid
<1>3. \A q \in Pids \ {p} : parents'[q] = parents[q] BY <1>0, <1>2 DEF TypeOK
<1>4. /\ Live(p) => parents'[p] = procs[p].parent
      /\ ~Live(p) => parents'[p] = InitProcess
  BY <1>0, <1>1, <1>2 DEF Aimed, Scanned, TypeOK
<1>5. 0 \notin Pids BY KillAssumption
<1>6. ASSUME NEW q \in Pids \ unread',
             parents'[q] \in Pids, q \notin freed, parents'[q] \notin freed
      PROVE  Live(q) /\ Of(parents'[q], procs[q].owner)
  <2>1. CASE q = p
    <3>1. Live(p) /\ parents'[p] = procs[p].parent
      BY <1>4, <1>5, <1>6, <2>1 DEF InitProcess
    <3> QED BY <1>6, <2>1, <3>1 DEF Aimed, Kin, Of
  <2>2. CASE q # p
    BY <1>1, <1>3, <1>6, <2>2 DEF Aimed, Scanned
  <2> QED BY <2>1, <2>2
<1>7. \A q \in unread' : parents'[q] = InitProcess
  BY <1>0, <1>1, <1>3 DEF Aimed, Scanned, TypeOK
<1>8. Scanned' BY <1>1, <1>6, <1>7 DEF Aimed, Scanned, Of, Live
<1> QED BY <1>1, <1>8 DEF Aimed, Kin, Of, Live

\* What is reached from a root of the cell by links within cells is of the cell.
LEMMA AimedPick == ASSUME KillTypes, Aimed, PickTargets PROVE Aimed'
<1>0. TypeOK BY DEF KillTypes
<1> DEFINE h == kill.handle
<1>1. /\ killStage = "scan" /\ killStage' = "term" /\ unread = {} /\ procs' = procs
      /\ targets' = Reached(h.pid) /\ freed' = freed \cap targets'
      /\ UNCHANGED <<kill, todo, strayed>>
  BY DEF PickTargets
<1>2. h.pid \in Pids BY <1>1 DEF KillTypes, Handles
<1>3. Scanned BY <1>1 DEF Aimed
<1>4. ASSUME freed' \cap targets' = {} PROVE \A q \in targets' : Of(q, h.run)
  <2> DEFINE B == Below(h.pid, parents)
             X == {q \in Pids : q \in B => Of(q, h.run)}
  <2>1. B = targets' /\ freed \cap B = {} BY <1>1, <1>4 DEF Reached
  <2>2. B \subseteq Pids /\ h.pid \in B BY <1>2, BelowClosed
  <2>3. Of(h.pid, h.run) BY <1>3, <2>1, <2>2 DEF Scanned
  <2>4. ASSUME NEW q \in Pids, parents[q] \in X PROVE q \in X
    <3> SUFFICES ASSUME q \in B PROVE Of(q, h.run) OBVIOUS
    <3>1. CASE q = h.pid BY <2>3, <3>1
    <3>2. CASE q # h.pid
      <4>1. parents[q] \in B BY <1>2, <3>2, BelowParent
      <4>2. Of(parents[q], h.run) BY <2>4, <4>1
      <4>3. q \notin freed /\ parents[q] \notin freed BY <2>1, <4>1
      <4>4. Live(q) /\ Of(parents[q], procs[q].owner)
        BY <1>1, <1>3, <2>2, <4>1, <4>3 DEF Scanned
      <4> QED BY <4>2, <4>4 DEF Of
    <3> QED BY <3>1, <3>2
  <2>5. X \in SUBSET Pids /\ h.pid \in X BY <1>2, <2>3
  <2>6. B \subseteq X
    <3> HIDE DEF X
    <3> QED BY <1>2, <2>4, <2>5, BelowClosed
  <2> QED BY <2>1, <2>6
<1>5. parents' = [p \in Pids |-> InitProcess] BY DEF PickTargets
<1>6. todo' \subseteq targets' BY <1>1 DEF Aimed
<1>7. Kin' BY <1>1 DEF Aimed, Kin, Live
<1> QED BY <1>1, <1>4, <1>5, <1>6, <1>7 DEF Aimed, Of, Live

LEMMA AimedInit == Init => Aimed
<1>1. 0 \notin Pids BY KillAssumption
<1> QED BY <1>1 DEF Init, Aimed, Kin, Live, Free

LEMMA AimedStep == ASSUME KillTypes, OwnPid, Aimed, [Next]_vars PROVE Aimed'
<1>0. TypeOK BY DEF KillTypes
<1>z. 0 \notin Pids BY KillAssumption
<1>a. ASSUME UNCHANGED kernel, UNCHANGED killVars PROVE Aimed'
  BY <1>a DEF kernel, killVars, Aimed, Kin, Scanned, Of, Live
<1>1. ASSUME NEW p \in Pids, NEW q \in Pids, Fork(p, q) PROVE Aimed'
  <2>1. procs[p].owner \in Owners BY <1>0 DEF TypeOK
  <2>2. Of(p, procs[p].owner) BY <1>1 DEF Fork, Of
  <2> QED BY <1>1, <2>1, <2>2, AimedSpawn DEF Fork
<1>2. ASSUME NEW p \in Pids, Foreign(p) PROVE Aimed'
  BY <1>z, <1>2, AimedSpawn DEF Foreign, Owners, InitProcess
<1>3. ASSUME NEW r \in Runs, NEW p \in Pids, Start(r, p) PROVE Aimed'
  BY <1>z, <1>3, AimedSpawn DEF Start, Owners, InitProcess
<1>4. ASSUME NEW r \in Runs, NEW p \in Pids, Launch(r, p) PROVE Aimed'
  <2>1. r \in Owners /\ pidOf[r] \in Pids \cup {InitProcess}
    BY <1>0 DEF Owners, TypeOK, InitProcess
  <2>2. Of(pidOf[r], r) BY <1>4 DEF Launch, OwnPid, Of, Up
  <2> QED BY <1>4, <2>1, <2>2, AimedSpawn DEF Launch
<1>5. ASSUME NEW r \in Runs, Refuse(r) \/ RefuseVerdicts(r) \/ Finish(r) PROVE Aimed'
  BY <1>a, <1>5 DEF Refuse, RefuseVerdicts, Finish
<1>6. ASSUME NEW p \in Pids, Dies(p) PROVE Aimed'
  <2>1. {p} \in SUBSET Pids /\ End({p}) BY <1>6 DEF Dies
  <2> QED BY <1>6, <2>1, AimedEnd DEF Dies
<1>7. ASSUME NEW r \in Runs, Leave(r) PROVE Aimed'
  <2>1. pidOf[r] \in Pids BY <1>7 DEF KillTypes, Leave, Up
  <2> QED BY <1>6, <1>7, <2>1 DEF Leave
<1>8. CASE UNCHANGED vars \/ \E i \in Ids : PsRead(i) \/ PsTest(i) \/ PsPrune(i)
  BY <1>a, <1>8 DEF PsRead, PsTest, PsPrune, vars
<1>9. ASSUME NEW i \in Ids, KillGet(i) PROVE Aimed'
  BY <1>9 DEF KillGet, kernel, Aimed, Kin, Live
<1>10. CASE KillClear
  BY <1>10 DEF KillClear, Swept, Aimed, Kin, Live
<1> QED BY <1>1, <1>2, <1>3, <1>4, <1>5, <1>6, <1>7, <1>8, <1>9, <1>10, AimedTerminate,
           AimedKill, AimedCheck, AimedRead, AimedPick DEF Next

(* `ql kill` signals a process outside the cell only by way of a pid that had been
   given up before the signal, for any number of cells and outside processes. *)
THEOREM NoStrays == Spec => []NoStraySignal
<1>1. Followed => OwnPid BY DEF Followed
<1>2. Aimed => NoStraySignal BY DEF Aimed, NoStraySignal
<1> QED BY <1>1, <1>2, TypesInit, TypesStep, FollowedInit, FollowedStep, AimedInit, AimedStep,
           PTL DEF Spec
=============================================================================
